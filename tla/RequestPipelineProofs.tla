----------------------------- MODULE RequestPipelineProofs -----------------------------
(***************************************************************************)
(* Theorems about RequestPipeline, for any users, plans and rates, any     *)
(* requests and any number of threads.                                     *)
(***************************************************************************)
EXTENDS RequestPipeline, SetLemmas

------------------------------------------------------------------------------------
(* Requests *)

\* The layers change a field or two of a request, and keep the others.
Layers == {"authenticate", "throttle", "write", "handle", "record", "finish"}
WithStatus(r, pc, status) == [r EXCEPT !.status = status, !.pc = pc]
WithUser(r, u) == [r EXCEPT !.user = u]
WithSeen(r, pc, seen, at) == [r EXCEPT !.seen = seen, !.at = at, !.pc = pc]
WithRow(r, row, charged) == [r EXCEPT !.row = row, !.charged = charged, !.pc = "finish"]

\* What no layer but the first ones touches.
SameCall(n, r) ==
    n.view = r.view /\ n.cred = r.cred /\ n.cookie = r.cookie /\ n.slug = r.slug /\ n.user = r.user

LEMMA SetStatus ==
    ASSUME NEW r \in Request, NEW status \in Status, NEW pc \in Layers,
           NEW n, n = WithStatus(r, pc, status)
    PROVE  /\ n \in Request /\ n.pc = pc /\ n.status = status /\ SameCall(n, r)
           /\ n.row = r.row /\ n.charged = r.charged
<1>1. n \in Request
  BY DEF Request, WithStatus, Layers
<1>2. /\ n.pc = pc /\ n.status = status /\ SameCall(n, r)
      /\ n.row = r.row /\ n.charged = r.charged
  BY DEF Request, WithStatus, SameCall
<1> QED
  BY <1>1, <1>2

LEMMA SetUser ==
    ASSUME NEW r \in Request, NEW u \in User \cup {None},
           NEW n, n = WithUser(r, u)
    PROVE  /\ n \in Request /\ n.user = u /\ n.status = r.status
           /\ n.view = r.view /\ n.cred = r.cred /\ n.cookie = r.cookie
           /\ n.row = r.row /\ n.charged = r.charged
<1>1. n \in Request
  BY DEF Request, WithUser
<1>2. /\ n.user = u /\ n.view = r.view /\ n.cred = r.cred /\ n.cookie = r.cookie
      /\ n.row = r.row /\ n.charged = r.charged /\ n.status = r.status
  BY DEF Request, WithUser
<1> QED
  BY <1>1, <1>2

LEMMA SetSeen ==
    ASSUME NEW r \in Request, NEW seen \in SUBSET Admission, NEW at \in Time, NEW pc \in Layers,
           NEW n, n = WithSeen(r, pc, seen, at)
    PROVE  /\ n \in Request /\ n.pc = pc /\ n.seen = seen /\ n.at = at /\ SameCall(n, r)
           /\ n.status = r.status /\ n.row = r.row /\ n.charged = r.charged
<1>1. n \in Request
  BY DEF Request, WithSeen, Layers
<1>2. /\ n.pc = pc /\ n.seen = seen /\ n.at = at /\ SameCall(n, r)
      /\ n.status = r.status /\ n.row = r.row /\ n.charged = r.charged
  BY DEF Request, WithSeen, SameCall
<1> QED
  BY <1>1, <1>2

LEMMA SetRow ==
    ASSUME NEW r \in Request, NEW row \in [user : User \cup {None}, status : Status],
           NEW charged \in User \cup {None},
           NEW n, n = WithRow(r, row, charged)
    PROVE  /\ n \in Request /\ n.pc = "finish" /\ n.row = row /\ n.charged = charged
           /\ n.status = r.status /\ SameCall(n, r)
<1>1. n \in Request
  <2>1. PICK R : R = [user : User \cup {None}, status : Status]
    OBVIOUS
  <2> QED
    BY <2>1 DEF Request, WithRow
<1>2. /\ n.pc = "finish" /\ n.row = row /\ n.charged = charged
      /\ n.status = r.status /\ SameCall(n, r)
  BY DEF Request, WithRow, SameCall
<1> QED
  BY <1>1, <1>2

\* Whoever calls is the same.
LEMMA SameCaller ==
    ASSUME NEW r, NEW n, SameCall(n, r)
    PROVE  Caller(n) = Caller(r) /\ Key(n) = Key(r)
BY DEF SameCall, Caller, Key, ScopeOf

\* A request in progress; and no request, which is all right too.
LEMMA InProgress ==
    ASSUME TypeOK, NEW p \in Proc, req[p].pc # "idle"
    PROVE  req[p] \in Request
BY DEF TypeOK, NoRequest

LEMMA NoRequestKnown == Known(NoRequest) /\ NoRequest.pc = "idle"
<1>1. /\ NoRequest.pc = "idle" /\ NoRequest.row = NoRow /\ NoRequest.charged = None
  BY DEF NoRequest
<1> QED
  BY <1>1 DEF Known, Passed

\* The bucket of a request, and its rate.
LEMMA KeyOK ==
    ASSUME NEW r \in Request
    PROVE  /\ Key(r) \in Bucket /\ NumRequests(r) = Rate[Key(r)[1]]
           /\ Rate[Key(r)[1]] \in Nat
<1>1. r.user \in User \cup {None} /\ r.slug \in Plan
  BY DEF Request
<1>2. ScopeOf(r) \in Scope
  BY <1>1 DEF ScopeOf, Scope
<1> QED
  BY <1>1, <1>2, PipelineAssumption DEF Key, Bucket, NumRequests

------------------------------------------------------------------------------------
(* Steps that leave the throttle's lists alone *)

Quiet ==
    /\ UNCHANGED <<now, up, hist, admitted>> /\ received' \in 0 .. MaxRequests
    /\ disturbed \subseteq disturbed' /\ disturbed' \subseteq Bucket

\* The request of p becomes r; nothing else changes but that buckets may be disturbed.
LEMMA QuietStep ==
    ASSUME IInv, Quiet, NEW p \in Proc, NEW r \in Request \cup {NoRequest}, Known(r),
           r.pc # "write", req' = [req EXCEPT ![p] = r]
    PROVE  IInv'
<1>1. /\ req' \in [Proc -> Request \cup {NoRequest}] /\ req'[p] = r
      /\ \A q \in Proc \ {p} : req'[q] = req[q]
  BY DEF IInv, TypeOK
<1>2. TypeOK'
  BY <1>1 DEF IInv, TypeOK, Quiet
<1>3. ASSUME NEW q \in Proc PROVE Known(req[q])'
  BY <1>1 DEF IInv, Known, Caller, Passed
<1>4. ASSUME NEW q \in Proc PROVE SeenOK(q)'
  <2>1. CASE q = p
    BY <1>1, <2>1 DEF SeenOK
  <2>2. CASE q # p
    <3>1. SeenOK(q) /\ req'[q] = req[q]
      BY <1>1, <2>2 DEF IInv
    <3>2. \A x \in Proc : req'[x].pc = "write" => req'[x] = req[x]
      BY <1>1
    <3> QED
      BY <3>1, <3>2 DEF SeenOK, Quiet, Key, ScopeOf
  <2> QED
    BY <2>1, <2>2
<1>5. ASSUME NEW b \in Bucket PROVE HistoryOK(b)'
  BY DEF IInv, HistoryOK, Quiet
<1>6. RateKept'
  BY DEF IInv, RateKept, InWindow, Quiet
<1> QED
  BY <1>2, <1>3, <1>4, <1>5, <1>6 DEF IInv

\* Its credential is for the view.
Permitted(r) == (r.view = "staff" => r.cred \in Staff) /\ (r.view = "own" => r.cred \in User)

\* Its caller is known, and it is not logged yet.
Going(r) == r.user = Caller(r) /\ r.row = NoRow /\ r.charged = None

\* A request whose caller is known is answered; with 200 only if it may be.
LEMMA AnswerStep ==
    ASSUME IInv, Quiet, NEW p \in Proc, NEW r \in Request, Going(r),
           NEW status \in Status, status \in {0, 200} => Permitted(r), Answer(p, status, r)
    PROVE  IInv'
<1>1. PICK pc \in Layers : pc = "record"
  BY DEF Layers
<1>2. PICK n : n = WithStatus(r, pc, status)
  OBVIOUS
<1>3. /\ n \in Request /\ n.pc = pc /\ n.status = status /\ SameCall(n, r)
      /\ n.row = r.row /\ n.charged = r.charged
  BY <1>2, SetStatus
<1>4. req' = [req EXCEPT ![p] = n]
  BY <1>1, <1>2 DEF Answer, Step, WithStatus
<1>5. Known(n)
  BY <1>1, <1>3, SameCaller DEF Known, Passed, Permitted, Going, SameCall
<1> QED
  BY <1>1, <1>3, <1>4, <1>5, QuietStep

\* The views are permitted to those they are for.
LEMMA PermitStep ==
    ASSUME IInv, Quiet, NEW p \in Proc, NEW r \in Request, Going(r),
           r.view # "nowhere", r.status = 0, Permit(p, r)
    PROVE  IInv'
<1>1. CASE Answer(p, 401, r) \/ Answer(p, 403, r)
  BY <1>1, AnswerStep DEF Status
<1>2. CASE /\ r.view = "own" => r.user # None
           /\ r.view = "staff" => r.user \in Staff
           /\ Step(p, "throttle", r)
  <2>1. Permitted(r)
    BY <1>2, PipelineAssumption DEF Caller, Permitted, Going
  <2>2. PICK pc \in Layers : pc = "throttle"
    BY DEF Layers
  <2>3. PICK n : n = WithStatus(r, pc, r.status)
    OBVIOUS
  <2>4. r.status \in Status
    BY DEF Request
  <2>5. /\ n \in Request /\ n.pc = pc /\ n.status = r.status /\ SameCall(n, r)
        /\ n.row = r.row /\ n.charged = r.charged
    BY <2>3, <2>4, SetStatus
  <2>6. n = [r EXCEPT !.pc = "throttle"]
    BY <2>2, <2>3 DEF Request, WithStatus
  <2>7. req' = [req EXCEPT ![p] = n]
    BY <1>2, <2>6 DEF Step
  <2>8. Known(n)
    BY <2>1, <2>2, <2>5, SameCaller DEF Known, Passed, Permitted, Going, SameCall
  <2> QED
    BY <2>2, <2>5, <2>7, <2>8, QuietStep
<1> QED
  BY <1>1, <1>2 DEF Permit

LEMMA ReceiveStep ==
    ASSUME IInv, NEW p \in Proc, NEW s \in Sent, Receive(p, s)
    PROVE  IInv'
<1>1. /\ s.view \in Views /\ s.cred \in User \cup {Bad, None} /\ s.cookie \in User \cup {None}
      /\ 404 \in Status /\ 0 \in Status /\ 0 \in Time
  BY PipelineAssumption DEF Status, Time
<1>2. PlanSlug(s.cookie) \in Plan
  BY <1>1, PipelineAssumption DEF PlanSlug
<1>3. Quiet
  BY PipelineAssumption DEF Quiet, Receive, IInv, TypeOK
<1>4. PICK plain : plain = [NoRequest EXCEPT !.view = s.view, !.cred = s.cred, !.cookie = s.cookie,
                                             !.user = s.cookie, !.slug = PlanSlug(s.cookie)]
  OBVIOUS
<1>5. PICK n : n = [plain EXCEPT !.pc = "authenticate"]
  OBVIOUS
<1>6. /\ NoRow \in [user : User \cup {None}, status : Status] /\ {} \in SUBSET Admission
      /\ None \in User \cup {None}
  BY <1>1 DEF NoRow
<1>7. n = [pc |-> "authenticate", view |-> s.view, cred |-> s.cred, cookie |-> s.cookie,
           slug |-> PlanSlug(s.cookie), user |-> s.cookie, seen |-> {}, at |-> 0, status |-> 0,
           row |-> NoRow, charged |-> None]
  BY <1>4, <1>5 DEF NoRequest
<1>8. n \in Request
  <2>1. PICK R, A : R = [user : User \cup {None}, status : Status] /\ A = SUBSET Admission
    OBVIOUS
  <2> QED
    BY <1>1, <1>2, <1>6, <1>7, <2>1 DEF Request
<1>9. /\ n.pc = "authenticate" /\ n.view = s.view /\ n.status = 0 /\ n.user = n.cookie
      /\ n.row = NoRow /\ n.charged = None
  BY <1>7
<1>10. CASE s.view # "nowhere" /\ Step(p, "authenticate", plain)
  <2>1. req' = [req EXCEPT ![p] = n]
    BY <1>5, <1>10 DEF Step
  <2>2. Known(n)
    BY <1>9, <1>10 DEF Known, Passed
  <2> QED
    BY <1>3, <1>8, <1>9, <2>1, <2>2, QuietStep
<1>11. CASE s.view = "nowhere" /\ Answer(p, 404, plain)
  <2>1. PICK pc, status : pc = "record" /\ status = 404
    OBVIOUS
  <2>2. WithStatus(plain, pc, status) = WithStatus(n, pc, status)
    <3>1. PICK m : m = [plain EXCEPT !.status = status]
      OBVIOUS
    <3>2. PICK k : k = [n EXCEPT !.status = status]
      OBVIOUS
    <3>3. m = [pc |-> "idle", view |-> s.view, cred |-> s.cred, cookie |-> s.cookie,
               slug |-> PlanSlug(s.cookie), user |-> s.cookie, seen |-> {}, at |-> 0,
               status |-> status, row |-> NoRow, charged |-> None]
      BY <1>4, <3>1 DEF NoRequest
    <3>4. k = [pc |-> "authenticate", view |-> s.view, cred |-> s.cred, cookie |-> s.cookie,
               slug |-> PlanSlug(s.cookie), user |-> s.cookie, seen |-> {}, at |-> 0,
               status |-> status, row |-> NoRow, charged |-> None]
      BY <1>7, <3>2
    <3>5. [m EXCEPT !.pc = pc] = [k EXCEPT !.pc = pc]
      BY <3>3, <3>4
    <3> QED
      BY <3>1, <3>2, <3>5 DEF WithStatus
  <2>3. Answer(p, 404, n)
    BY <1>11, <2>1, <2>2 DEF Answer, Step, WithStatus
  <2>4. Going(n)
    BY <1>9, <1>11 DEF Going, Caller
  <2> QED
    BY <1>1, <1>3, <1>8, <2>3, <2>4, AnswerStep
<1> QED
  BY <1>4, <1>10, <1>11 DEF Receive

LEMMA AuthenticateStep ==
    ASSUME IInv, NEW p \in Proc, Authenticate(p)
    PROVE  IInv'
<1>1. req[p].pc = "authenticate" /\ Known(req[p])
  BY DEF Authenticate, IInv
<1>2. req[p] \in Request
  BY <1>1, InProgress DEF IInv
<1>3. PICK r \in Request : r = req[p]
  BY <1>2
<1>4. Quiet
  BY DEF Quiet, Authenticate, IInv, TypeOK
<1>5. r.view # "nowhere" /\ r.status = 0 /\ r.row = NoRow /\ r.charged = None
  BY <1>1, <1>3 DEF Known
<1>6. ASSUME NEW u \in User \cup {None}, u = Caller(r)
      PROVE  /\ WithUser(r, u) \in Request /\ WithUser(r, u).view = r.view
             /\ WithUser(r, u).status = 0 /\ Going(WithUser(r, u))
  <2>1. PICK n : n = WithUser(r, u)
    OBVIOUS
  <2>2. /\ n \in Request /\ n.user = u /\ n.status = r.status
        /\ n.view = r.view /\ n.cred = r.cred /\ n.cookie = r.cookie
        /\ n.row = r.row /\ n.charged = r.charged
    BY <2>1, SetUser
  <2>3. Going(n)
    BY <1>5, <1>6, <2>2 DEF Going, Caller
  <2> QED
    BY <1>5, <2>1, <2>2, <2>3
<1>7. CASE (r.view = "plans" \/ r.cred = None) /\ Permit(p, WithUser(r, None))
  <2>1. None = Caller(r)
    BY <1>5, <1>7, PipelineAssumption DEF Caller
  <2> QED
    BY <1>4, <1>5, <1>6, <1>7, <2>1, PermitStep
<1>8. CASE r.view # "plans" /\ r.cred = Bad /\ Answer(p, 401, WithUser(r, None))
  <2>1. None = Caller(r)
    BY <1>5, <1>8, PipelineAssumption DEF Caller
  <2> QED
    BY <1>4, <1>6, <1>8, <2>1, AnswerStep DEF Status
<1>9. CASE r.view # "plans" /\ r.cred \in User /\ Permit(p, WithUser(r, r.cred))
  <2>1. r.cred = Caller(r)
    BY <1>5, <1>9 DEF Caller
  <2> QED
    BY <1>4, <1>5, <1>6, <1>9, <2>1, PermitStep
<1> QED
  BY <1>3, <1>7, <1>8, <1>9 DEF Authenticate, WithUser

LEMMA HandleStep ==
    ASSUME IInv, NEW p \in Proc, Handle(p)
    PROVE  IInv'
<1>1. req[p].pc = "handle" /\ Known(req[p])
  BY DEF Handle, IInv
<1>2. req[p] \in Request
  BY <1>1, InProgress DEF IInv
<1>3. Going(req[p]) /\ Permitted(req[p])
  BY <1>1 DEF Known, Passed, Going, Permitted
<1>4. Quiet
  BY DEF Quiet, Handle, IInv, TypeOK
<1> QED
  BY <1>2, <1>3, <1>4, AnswerStep DEF Handle, Status

LEMMA RecordStep ==
    ASSUME IInv, NEW p \in Proc, Record(p)
    PROVE  IInv'
<1>1. req[p].pc = "record" /\ Known(req[p])
  BY DEF Record, IInv
<1>2. req[p] \in Request
  BY <1>1, InProgress DEF IInv
<1>3. PICK r \in Request : r = req[p]
  BY <1>2
<1>4. Quiet
  BY DEF Quiet, Record, IInv, TypeOK
<1>5. r.row = NoRow /\ r.charged = None /\ r.user = Caller(r) /\ r.pc = "record"
  BY <1>1, <1>3 DEF Known
<1>6. /\ r.user \in User \cup {None} /\ r.status \in Status
      /\ NoRow \in [user : User \cup {None}, status : Status]
  BY DEF Request, NoRow, Status
<1>7. ASSUME NEW row \in [user : User \cup {None}, status : Status], NEW charged \in User \cup {None},
             row # NoRow => row = [user |-> r.user, status |-> r.status] /\ r.user # None,
             charged # None => charged = row.user,
             req' = [req EXCEPT ![p] = WithRow(r, row, charged)]
      PROVE  IInv'
  <2>1. PICK n : n = WithRow(r, row, charged)
    OBVIOUS
  <2>2. /\ n \in Request /\ n.pc = "finish" /\ n.row = row /\ n.charged = charged
        /\ n.status = r.status /\ SameCall(n, r)
    BY <2>1, SetRow
  <2>3. Caller(n) = Caller(r)
    BY <2>2, SameCaller
  <2>4. Passed(n) => Passed(r)
    BY <1>5, <2>2 DEF Passed
  <2>5. Known(n)
    BY <1>1, <1>3, <1>5, <1>7, <2>2, <2>3, <2>4 DEF Known, SameCall
  <2> QED
    BY <1>4, <1>7, <2>1, <2>2, <2>5, QuietStep
<1> DEFINE logged == [user |-> r.user, status |-> r.status]
<1>8. logged \in [user : User \cup {None}, status : Status] /\ logged.user = r.user
  BY <1>6
<1>9. CASE Step(p, "finish", r)
  <2>1. WithRow(r, NoRow, None) = [r EXCEPT !.pc = "finish"]
    BY <1>5 DEF Request, WithRow
  <2>2. req' = [req EXCEPT ![p] = WithRow(r, NoRow, None)]
    BY <1>9, <2>1 DEF Step
  <2> QED
    BY <1>6, <1>7, <2>2
<1>10. CASE r.user # None /\ Step(p, "finish", Logged(r))
  <2>1. WithRow(r, logged, None) = [r EXCEPT !.row = logged, !.pc = "finish"]
    BY <1>5 DEF Request, WithRow
  <2>2. req' = [req EXCEPT ![p] = WithRow(r, logged, None)]
    BY <1>10, <2>1 DEF Step, Logged
  <2> QED
    BY <1>6, <1>7, <1>8, <1>10, <2>2
<1>11. CASE r.user # None /\ Step(p, "finish", [Logged(r) EXCEPT !.charged = r.user])
  <2>1. req' = [req EXCEPT ![p] = WithRow(r, logged, r.user)]
    BY <1>11 DEF Step, Logged, WithRow
  <2> QED
    BY <1>6, <1>7, <1>8, <1>11, <2>1
<1> QED
  BY <1>3, <1>9, <1>10, <1>11 DEF Record

LEMMA FinishStep ==
    ASSUME IInv, NEW p \in Proc, Finish(p) \/ Crash(p)
    PROVE  IInv'
<1>1. Quiet /\ req' = [req EXCEPT ![p] = NoRequest]
  BY DEF Quiet, Finish, Crash, IInv, TypeOK
<1> QED
  BY <1>1, NoRequestKnown, QuietStep

------------------------------------------------------------------------------------
(* The throttle *)

\* Before the throttle's turn comes, and at it, a request is allowed what it asks for.
LEMMA AtThrottle ==
    ASSUME IInv, NEW p \in Proc, req[p].pc \in {"throttle", "write"}
    PROVE  /\ req[p] \in Request /\ Going(req[p]) /\ Permitted(req[p])
           /\ req[p].view # "nowhere" /\ req[p].status = 0
<1>1. Known(req[p])
  BY DEF IInv
<1> QED
  BY <1>1, InProgress DEF IInv, Known, Passed, Going, Permitted

\* What is read from the cache is a part of what was let through in the current window;
\* all of it, if the cache answers and the bucket was not disturbed.
LEMMA RecentOK ==
    ASSUME IInv, NEW r \in Request
    PROVE  /\ Recent(r) \subseteq InWindow(Key(r), now) /\ Recent(r) \in SUBSET Admission
           /\ IsFiniteSet(InWindow(Key(r), now)) /\ IsFiniteSet(Recent(r))
           /\ up /\ Key(r) \notin disturbed
                 => Recent(r) = {a \in admitted[Key(r)] : a.at > now - Window}
<1>1. PICK b \in Bucket : b = Key(r)
  BY KeyOK
<1>2. HistoryOK(b) /\ hist[b] \in SUBSET Admission /\ now \in Time
  BY DEF IInv, TypeOK
<1>3. Recent(r) \subseteq hist[b] /\ InWindow(b, now) \subseteq admitted[b]
  BY <1>1 DEF Recent, InWindow
<1>4. Recent(r) \subseteq InWindow(b, now)
  <2> SUFFICES ASSUME NEW a \in Recent(r) PROVE a \in InWindow(b, now)
    OBVIOUS
  <2>1. a \in admitted[b] /\ a \in hist[b] /\ a \in Admission /\ a.at > now - Window /\ a.at <= now
    BY <1>1, <1>2, <1>3 DEF Recent, HistoryOK
  <2>2. now - Window < a.at
    BY <1>2, <2>1, PipelineAssumption DEF Admission, Time
  <2> QED
    BY <2>1, <2>2 DEF InWindow
<1>5. IsFiniteSet(InWindow(b, now)) /\ IsFiniteSet(Recent(r))
  BY <1>2, <1>3, <1>4, SmallerSet DEF HistoryOK
<1>6. up /\ b \notin disturbed => Recent(r) = {a \in admitted[b] : a.at > now - Window}
  BY <1>1, <1>2 DEF Recent, HistoryOK
<1> QED
  BY <1>1, <1>2, <1>3, <1>4, <1>5, <1>6

\* The request is let through, and has not been written back yet.
LEMMA ReadStep ==
    ASSUME IInv, NEW p \in Proc, ReadHistory(p)
    PROVE  IInv'
<1>1. /\ req[p] \in Request /\ Going(req[p]) /\ Permitted(req[p])
      /\ req[p].view # "nowhere" /\ req[p].status = 0 /\ req[p].pc = "throttle"
  BY AtThrottle DEF ReadHistory
<1>2. PICK r \in Request : r = req[p]
  BY <1>1
<1>3. Key(r) \in Bucket /\ NumRequests(r) = Rate[Key(r)[1]] /\ Rate[Key(r)[1]] \in Nat
  BY KeyOK
<1>4. /\ Quiet
      /\ disturbed' = disturbed \cup
            IF up /\ \A q \in Proc : req[q].pc = "write" => Key(req[q]) # Key(r) THEN {} ELSE {Key(r)}
  BY <1>2, <1>3 DEF Quiet, ReadHistory, IInv, TypeOK
<1>5. CASE Answer(p, 429, r)
  BY <1>1, <1>2, <1>4, <1>5, AnswerStep DEF Status
<1>6. CASE /\ ~(Cardinality(Recent(r)) >= NumRequests(r))
           /\ Step(p, "write", [r EXCEPT !.seen = Recent(r), !.at = now])
  <2>1. PICK pc \in Layers : pc = "write"
    BY DEF Layers
  <2>2. PICK n : n = WithSeen(r, pc, Recent(r), now)
    OBVIOUS
  <2>3. now \in Time /\ now \in Nat /\ now <= now
    BY DEF IInv, TypeOK, Time
  <2>4. Recent(r) \in SUBSET Admission
    BY RecentOK
  <2>5. /\ n \in Request /\ n.pc = pc /\ n.seen = Recent(r) /\ n.at = now /\ SameCall(n, r)
        /\ n.status = r.status /\ n.row = r.row /\ n.charged = r.charged
    BY <2>2, <2>3, <2>4, SetSeen
  <2>6. req' = [req EXCEPT ![p] = n]
    BY <1>6, <2>1, <2>2 DEF Step, WithSeen
  <2>7. Caller(n) = Caller(r) /\ Key(n) = Key(r)
    BY <2>5, SameCaller
  <2>8. Known(n)
    BY <1>1, <1>2, <2>1, <2>5, <2>7 DEF Known, Passed, Permitted, Going, SameCall
  <2>9. /\ req' \in [Proc -> Request \cup {NoRequest}] /\ req'[p] = n
        /\ \A q \in Proc \ {p} : req'[q] = req[q]
    BY <2>5, <2>6 DEF IInv, TypeOK
  <2>10. TypeOK'
    BY <1>4, <2>9 DEF IInv, TypeOK, Quiet
  <2>11. ASSUME NEW q \in Proc PROVE Known(req[q])'
    BY <2>8, <2>9 DEF IInv, Known, Caller, Passed
  <2>12. SeenOK(p)'
    <3>1. Key(req[p])' = Key(r)
      BY <2>7, <2>9 DEF Key, ScopeOf
    <3>2. Recent(r) \subseteq admitted[Key(r)]
      BY RecentOK DEF InWindow
    <3>3. Cardinality(Recent(r)) < Rate[Key(r)[1]]
      BY <1>3, <1>6, RecentOK, FS_CardinalityType
    <3>4. ASSUME Key(r) \notin disturbed'
          PROVE  /\ Recent(r) = {a \in admitted[Key(r)] : a.at > now - Window}
                 /\ \A a \in admitted[Key(r)] : a.at <= now
                 /\ \A q \in Proc \ {p} : req[q].pc = "write" => Key(req[q]) # Key(r)
      BY <1>3, <1>4, <3>4, RecentOK DEF IInv, HistoryOK
    <3>5. \A q \in Proc \ {p} : Key(req[q])' = Key(req[q])
      BY <2>9 DEF Key, ScopeOf
    <3> QED
      BY <1>4, <2>3, <2>5, <2>9, <3>1, <3>2, <3>3, <3>4, <3>5 DEF SeenOK, Quiet
  <2>13. ASSUME NEW q \in Proc, q # p PROVE SeenOK(q)'
    <3>1. SeenOK(q) /\ req'[q] = req[q]
      BY <2>9, <2>13 DEF IInv
    <3>2. \A x \in Proc \ {p} : Key(req[x])' = Key(req[x])
      BY <2>9 DEF Key, ScopeOf
    <3>3. Key(req[p])' = Key(r)
      BY <2>7, <2>9 DEF Key, ScopeOf
    <3>4. req[q].pc = "write" /\ Key(r) = Key(req[q]) => Key(req[q]) \in disturbed'
      BY <1>4
    <3>5. Key(req[q]) \notin disturbed' => Key(req[q]) \notin disturbed
      BY <1>4
    <3> QED
      BY <1>4, <2>9, <2>13, <3>1, <3>2, <3>3, <3>4, <3>5 DEF SeenOK, Quiet
  <2>14. ASSUME NEW b \in Bucket PROVE HistoryOK(b)'
    BY <1>4 DEF IInv, HistoryOK, Quiet
  <2>15. RateKept'
    BY <1>4 DEF IInv, RateKept, InWindow, Quiet
  <2> QED
    BY <2>10, <2>11, <2>12, <2>13, <2>14, <2>15 DEF IInv
<1> QED
  BY <1>2, <1>5, <1>6 DEF ReadHistory

\* Every window that holds the new admission a, which is the last one, lies within what
\* the request has seen: with a it holds no more than the rate.
LEMMA OneMoreInWindow ==
    ASSUME NEW A \in SUBSET Admission, NEW at \in Time, NEW t \in Time, NEW a \in Admission,
           a.at = at, NEW rate \in Nat, NEW seen, IsFiniteSet(seen), Cardinality(seen) < rate,
           seen = {x \in A : x.at > at - Window}, \A x \in A : x.at <= at,
           t - Window < at
    PROVE  Cardinality({x \in A \cup {a} : t - Window < x.at /\ x.at <= t}) <= rate
           \/ ~(at <= t)
<1> SUFFICES ASSUME at <= t
             PROVE  Cardinality({x \in A \cup {a} : t - Window < x.at /\ x.at <= t}) <= rate
  OBVIOUS
<1> DEFINE W == {x \in A \cup {a} : t - Window < x.at /\ x.at <= t}
<1>1. W \subseteq seen \cup {a}
  <2> SUFFICES ASSUME NEW x \in A, t - Window < x.at PROVE x \in seen
    OBVIOUS
  <2>1. x.at \in Nat /\ t \in Nat /\ at \in Nat /\ Window \in Nat
    BY PipelineAssumption DEF Admission, Time
  <2>2. x.at > at - Window
    BY <2>1
  <2> QED
    BY <2>2
<1>2. /\ IsFiniteSet(seen \cup {a}) /\ Cardinality(seen \cup {a}) <= Cardinality(seen) + 1
      /\ Cardinality(seen \cup {a}) \in Nat
  BY LargerSet
<1>3. Cardinality(W) <= Cardinality(seen \cup {a}) /\ Cardinality(W) \in Nat
  BY <1>1, <1>2, SmallerSet
<1>4. Cardinality(seen) \in Nat
  BY FS_CardinalityType
<1> QED
  BY <1>2, <1>3, <1>4

\* The request is on the list, and goes to its view.
LEMMA WriteStep ==
    ASSUME IInv, NEW p \in Proc, WriteHistory(p)
    PROVE  IInv'
<1>1. /\ req[p] \in Request /\ Going(req[p]) /\ Permitted(req[p])
      /\ req[p].view # "nowhere" /\ req[p].status = 0 /\ req[p].pc = "write"
  BY AtThrottle DEF WriteHistory
<1>2. PICK r \in Request : r = req[p]
  BY <1>1
<1>3. PICK b \in Bucket : b = Key(r) /\ Rate[b[1]] \in Nat
  BY KeyOK
<1>4. /\ HistoryOK(b) /\ SeenOK(p) /\ admitted[b] \in SUBSET Admission
      /\ r.at \in Time /\ r.seen \in SUBSET Admission /\ now \in Time
  BY <1>2 DEF IInv, TypeOK, Request
<1>5. IsFiniteSet(admitted[b]) /\ Cardinality(admitted[b]) \in Nat /\ IsFiniteSet(r.seen)
  BY <1>1, <1>2, <1>3, <1>4, FS_CardinalityType, SmallerSet DEF HistoryOK, SeenOK
<1>6. PICK a : a = [at |-> r.at, no |-> Cardinality(admitted[b])]
  OBVIOUS
<1>7. a \in Admission /\ a.at = r.at /\ a.no = Cardinality(admitted[b])
  BY <1>4, <1>5, <1>6 DEF Admission
<1>8. /\ \/ up /\ hist' = [hist EXCEPT ![b] = r.seen \cup {a}] /\ UNCHANGED disturbed
         \/ ~up /\ disturbed' = disturbed \cup {b} /\ UNCHANGED hist
      /\ admitted' = [admitted EXCEPT ![b] = @ \cup {a}]
      /\ Step(p, "handle", [r EXCEPT !.seen = {}, !.at = 0])
      /\ UNCHANGED <<now, up, received>>
  BY <1>2, <1>3, <1>6 DEF WriteHistory
<1>9. PICK pc \in Layers, none \in SUBSET Admission, zero \in Time :
         pc = "handle" /\ none = {} /\ zero = 0
  <2>1. 0 \in Time /\ {} \in SUBSET Admission
    BY PipelineAssumption DEF Time
  <2>2. "handle" \in Layers
    BY DEF Layers
  <2> QED
    BY <2>1, <2>2
<1>10. PICK n : n = WithSeen(r, pc, none, zero)
  OBVIOUS
<1>11. /\ n \in Request /\ n.pc = pc /\ SameCall(n, r)
       /\ n.status = r.status /\ n.row = r.row /\ n.charged = r.charged
  BY <1>10, SetSeen
<1>12. req' = [req EXCEPT ![p] = n]
  BY <1>8, <1>9, <1>10 DEF Step, WithSeen
<1>13. Known(n)
  BY <1>1, <1>2, <1>9, <1>11, SameCaller DEF Known, Passed, Permitted, Going, SameCall
<1>14. /\ req' \in [Proc -> Request \cup {NoRequest}] /\ req'[p] = n
       /\ \A q \in Proc \ {p} : req'[q] = req[q]
  BY <1>11, <1>12 DEF IInv, TypeOK
<1>15. /\ hist' \in [Bucket -> SUBSET Admission] /\ admitted' \in [Bucket -> SUBSET Admission]
       /\ disturbed' \subseteq Bucket /\ disturbed \subseteq disturbed'
       /\ admitted'[b] = admitted[b] \cup {a}
       /\ \A c \in Bucket \ {b} : admitted'[c] = admitted[c] /\ hist'[c] = hist[c]
       /\ \/ up /\ hist'[b] = r.seen \cup {a}
          \/ b \in disturbed' /\ hist'[b] = hist[b]
  BY <1>4, <1>7, <1>8 DEF IInv, TypeOK
<1>16. TypeOK'
  BY <1>8, <1>14, <1>15 DEF IInv, TypeOK
<1>17. ASSUME NEW q \in Proc PROVE Known(req[q])'
  BY <1>13, <1>14 DEF IInv, Known, Caller, Passed
<1>18. ASSUME NEW q \in Proc PROVE SeenOK(q)'
  <2>1. CASE q = p
    BY <1>9, <1>11, <1>14, <2>1 DEF SeenOK
  <2>2. CASE q # p /\ req[q].pc = "write"
    <3>1. SeenOK(q) /\ req'[q] = req[q] /\ Key(req[q])' = Key(req[q]) /\ req[q] \in Request
      BY <1>14, <2>2, InProgress DEF IInv, Key, ScopeOf
    <3>2. PICK c \in Bucket : c = Key(req[q])
      BY <3>1, KeyOK
    <3>3. \A x \in Proc : req'[x].pc = "write" => req'[x] = req[x] /\ Key(req[x])' = Key(req[x])
      BY <1>9, <1>11, <1>14 DEF Key, ScopeOf
    <3>4. CASE c = b
      <4>1. b \in disturbed
        BY <1>1, <1>2, <1>3, <1>4, <2>2, <3>2, <3>4 DEF SeenOK
      <4>2. /\ req[q].at <= now /\ req[q].seen \subseteq admitted[b]
        BY <2>2, <3>1, <3>2, <3>4 DEF SeenOK
      <4> QED
        BY <1>8, <1>15, <3>1, <3>2, <3>4, <4>1, <4>2 DEF SeenOK
    <3>5. CASE c # b
      BY <1>8, <1>15, <2>2, <3>1, <3>2, <3>3, <3>5 DEF SeenOK
    <3> QED
      BY <3>4, <3>5
  <2>3. CASE q # p /\ req[q].pc # "write"
    BY <1>14, <2>3 DEF SeenOK
  <2> QED
    BY <2>1, <2>2, <2>3
<1>19. r.at <= now /\ r.seen \subseteq admitted[b]
  BY <1>1, <1>2, <1>3, <1>4 DEF SeenOK
<1>20. ASSUME b \notin disturbed
       PROVE  /\ Cardinality(r.seen) < Rate[b[1]]
              /\ r.seen = {x \in admitted[b] : x.at > r.at - Window}
              /\ \A x \in admitted[b] : x.at <= r.at
  BY <1>1, <1>2, <1>3, <1>4, <1>20 DEF SeenOK
<1>21. HistoryOK(b)'
  <2>1. /\ IsFiniteSet(admitted'[b]) /\ Cardinality(admitted'[b]) = Cardinality(admitted[b]) + 1
    <3>1. a \notin admitted[b]
      BY <1>4, <1>5, <1>7 DEF HistoryOK
    <3>2. /\ IsFiniteSet(admitted[b] \cup {a})
          /\ Cardinality(admitted[b] \cup {a}) = Cardinality(admitted[b]) + 1
      BY <1>5, <3>1, FS_AddElement
    <3>3. admitted'[b] = admitted[b] \cup {a}
      BY <1>15
    <3> QED
      BY <3>2, <3>3
  <2>2. ASSUME NEW x \in admitted'[b] PROVE x.at <= now /\ x.no < Cardinality(admitted'[b])
    BY <1>4, <1>5, <1>7, <1>15, <1>19, <2>1 DEF HistoryOK, Admission
  <2>3. hist'[b] \subseteq admitted'[b]
    BY <1>4, <1>15, <1>19 DEF HistoryOK
  <2>4. ASSUME b \notin disturbed', NEW x \in admitted'[b], x.at > now - Window
        PROVE  x \in hist'[b]
    <3>1. CASE x = a
      BY <1>15, <2>4, <3>1
    <3>2. CASE x \in admitted[b]
      <4>1. x.at \in Nat /\ now \in Nat /\ r.at \in Nat /\ Window \in Nat
        BY <1>4, <3>2, PipelineAssumption DEF Admission, Time
      <4>2. x.at > r.at - Window
        BY <1>19, <2>4, <4>1
      <4> QED
        BY <1>15, <1>20, <2>4, <3>2, <4>2
    <3> QED
      BY <1>15, <3>1, <3>2
  <2> QED
    BY <1>8, <2>1, <2>2, <2>3, <2>4 DEF HistoryOK
<1>22. ASSUME NEW c \in Bucket, c # b PROVE HistoryOK(c)'
  BY <1>8, <1>15, <1>22 DEF IInv, HistoryOK
<1>23. RateKept'
  <2> SUFFICES ASSUME NEW c \in Bucket \ disturbed', NEW t \in Time
               PROVE  Cardinality(InWindow(c, t)') <= Rate[c[1]]
    BY DEF RateKept
  <2>1. c \notin disturbed /\ Cardinality(InWindow(c, t)) <= Rate[c[1]]
    BY <1>15 DEF IInv, RateKept
  <2>2. CASE c # b
    BY <1>15, <2>1, <2>2 DEF InWindow
  <2>3. CASE c = b /\ t - Window < r.at /\ r.at <= t
    <3>1. Cardinality({x \in admitted[b] \cup {a} : t - Window < x.at /\ x.at <= t}) <= Rate[b[1]]
      BY <1>3, <1>4, <1>5, <1>7, <1>20, <2>1, <2>3, OneMoreInWindow DEF Time
    <3> QED
      BY <1>15, <2>3, <3>1 DEF InWindow
  <2>4. CASE c = b /\ ~(t - Window < r.at /\ r.at <= t)
    <3>1. InWindow(c, t)' = InWindow(c, t)
      BY <1>7, <1>15, <2>4 DEF InWindow
    <3> QED
      BY <2>1, <3>1
  <2> QED
    BY <2>2, <2>3, <2>4
<1> QED
  BY <1>16, <1>17, <1>18, <1>21, <1>22, <1>23 DEF IInv

\* The cache comes and goes, and time passes: what was true of the lists stays true.
LEMMA OutageStep ==
    ASSUME IInv, CacheOutage
    PROVE  IInv'
<1>1. /\ UNCHANGED <<now, req, received, admitted>> /\ up' \in BOOLEAN
      /\ \/ UNCHANGED <<hist, disturbed>>
         \/ hist' = [b \in Bucket |-> {}] /\ disturbed' = Bucket
  BY DEF CacheOutage, IInv, TypeOK
<1>2. TypeOK'
  BY <1>1 DEF IInv, TypeOK
<1>3. ASSUME NEW q \in Proc PROVE Known(req[q])' /\ SeenOK(q)'
  <2>1. Known(req[q])' = Known(req[q])
    BY <1>1 DEF Known, Caller, Passed
  <2>2. SeenOK(q)'
    <3>1. Known(req[q]) /\ SeenOK(q)
      BY DEF IInv
    <3>2. req[q].pc = "write" => Key(req[q]) \in Bucket
      BY InProgress, KeyOK DEF IInv
    <3> QED
      BY <1>1, <3>1, <3>2 DEF SeenOK, Key, ScopeOf
  <2> QED
    BY <2>1, <2>2 DEF IInv
<1>4. ASSUME NEW b \in Bucket PROVE HistoryOK(b)'
  BY <1>1 DEF IInv, HistoryOK
<1>5. RateKept'
  BY <1>1 DEF IInv, RateKept, InWindow
<1> QED
  BY <1>2, <1>3, <1>4, <1>5 DEF IInv

LEMMA TickStep ==
    ASSUME IInv, Tick
    PROVE  IInv'
<1>1. /\ UNCHANGED <<up, hist, req, received, admitted, disturbed>>
      /\ now' = now + 1 /\ now \in Nat /\ now' \in Time /\ Window \in Nat
  BY PipelineAssumption DEF Tick, IInv, TypeOK, Time
<1>2. TypeOK'
  BY <1>1 DEF IInv, TypeOK
<1>3. ASSUME NEW q \in Proc PROVE Known(req[q])' /\ SeenOK(q)'
  <2>1. Known(req[q])' = Known(req[q])
    BY <1>1 DEF Known, Caller, Passed
  <2>2. SeenOK(q)'
    <3>1. SeenOK(q) /\ (req[q].pc = "write" => req[q].at \in Nat)
      BY InProgress DEF IInv, Request, Time
    <3> QED
      BY <1>1, <3>1 DEF SeenOK, Key, ScopeOf
  <2> QED
    BY <2>1, <2>2 DEF IInv
<1>4. ASSUME NEW b \in Bucket PROVE HistoryOK(b)'
  <2>1. HistoryOK(b) /\ \A a \in admitted[b] : a.at \in Nat
    BY DEF IInv, TypeOK, Admission, Time
  <2> QED
    BY <1>1, <2>1 DEF HistoryOK
<1>5. RateKept'
  BY <1>1 DEF IInv, RateKept, InWindow
<1> QED
  BY <1>2, <1>3, <1>4, <1>5 DEF IInv

LEMMA InitIInv == Init => IInv
<1> SUFFICES ASSUME Init PROVE IInv
  OBVIOUS
<1>1. TypeOK
  BY PipelineAssumption DEF Init, TypeOK, Time
<1>2. \A p \in Proc : Known(req[p]) /\ SeenOK(p)
  BY NoRequestKnown DEF Init, SeenOK
<1>3. IsFiniteSet({}) /\ Cardinality({}) = 0
  BY FS_EmptySet
<1>4. \A b \in Bucket : HistoryOK(b)
  BY <1>3 DEF Init, HistoryOK
<1>5. RateKept
  <2> SUFFICES ASSUME NEW b \in Bucket, NEW t \in Time
               PROVE  Cardinality(InWindow(b, t)) <= Rate[b[1]]
    BY DEF RateKept
  <2>1. InWindow(b, t) = {} /\ Rate[b[1]] \in Nat
    BY PipelineAssumption DEF Init, InWindow, Bucket
  <2> QED
    BY <1>3, <2>1
<1> QED
  BY <1>1, <1>2, <1>4, <1>5 DEF IInv

LEMMA NextIInv == IInv /\ [Next]_vars => IInv'
<1> SUFFICES ASSUME IInv, [Next]_vars PROVE IInv'
  OBVIOUS
<1>1. ASSUME NEW p \in Proc, NEW s \in Sent, Receive(p, s) PROVE IInv'
  BY <1>1, ReceiveStep
<1>2. ASSUME NEW p \in Proc, Finish(p) \/ Crash(p) PROVE IInv'
  BY <1>2, FinishStep
<1>3. ASSUME NEW p \in Proc, Proceed(p) PROVE IInv'
  BY <1>2, <1>3, AuthenticateStep, ReadStep, WriteStep, HandleStep, RecordStep DEF Proceed
<1>4. CASE UNCHANGED vars
  BY <1>4 DEF vars, IInv, TypeOK, Known, Caller, Passed, SeenOK, Key, ScopeOf, HistoryOK,
              RateKept, InWindow
<1> QED
  BY <1>1, <1>2, <1>3, <1>4, OutageStep, TickStep DEF Next

\* A 429 at the throttle is the throttle's.
LEMMA RefusalStep ==
    ASSUME IInv, [Next]_vars, NEW p \in Proc, req[p].pc = "throttle", req'[p].status = 429
    PROVE  Cardinality(InWindow(Key(req[p]), now)) >= Rate[Key(req[p])[1]]
<1>1. req[p].status = 0 /\ req[p] \in Request
  BY AtThrottle
<1>2. ~UNCHANGED req
  BY <1>1
<1>3. CASE ReadHistory(p)
  <2>1. ASSUME ~(Cardinality(Recent(req[p])) >= NumRequests(req[p])) PROVE FALSE
    <3>1. PICK pc \in Layers : pc = "write"
      BY DEF Layers
    <3>2. PICK n : n = WithSeen(req[p], pc, Recent(req[p]), now)
      OBVIOUS
    <3>3. Recent(req[p]) \in SUBSET Admission /\ now \in Time
      BY <1>1, RecentOK DEF IInv, TypeOK
    <3>4. n.status = 0
      BY <1>1, <3>2, <3>3, SetSeen
    <3>5. req' = [req EXCEPT ![p] = n]
      BY <1>3, <2>1, <3>1, <3>2 DEF ReadHistory, Step, WithSeen
    <3> QED
      BY <3>4, <3>5 DEF IInv, TypeOK
  <2>2. Cardinality(Recent(req[p])) >= Rate[Key(req[p])[1]] /\ Rate[Key(req[p])[1]] \in Nat
    BY <1>1, <2>1, KeyOK
  <2>3. /\ Cardinality(Recent(req[p])) <= Cardinality(InWindow(Key(req[p]), now))
        /\ Cardinality(Recent(req[p])) \in Nat /\ Cardinality(InWindow(Key(req[p]), now)) \in Nat
    <3>1. /\ IsFiniteSet(InWindow(Key(req[p]), now))
          /\ Recent(req[p]) \in SUBSET InWindow(Key(req[p]), now)
      BY <1>1, RecentOK
    <3> QED
      BY <3>1, SmallerSet
  <2> QED
    BY <2>2, <2>3
<1>4. ASSUME NEW q \in Proc, NEW s \in Sent, Receive(q, s) PROVE FALSE
  <2>1. req[q] = NoRequest /\ \E n : req' = [req EXCEPT ![q] = n]
    BY <1>4 DEF Receive, Answer, Step
  <2>2. q = p
    BY <1>1, <2>1 DEF IInv, TypeOK
  <2> QED
    BY <2>1, <2>2 DEF NoRequest
<1>5. ASSUME NEW q \in Proc, Proceed(q) PROVE ReadHistory(p)
  <2>1. \E n : req' = [req EXCEPT ![q] = n]
    BY <1>5 DEF Proceed, Authenticate, Permit, ReadHistory, WriteHistory, Handle, Record, Finish,
                Answer, Step
  <2>2. q = p
    BY <1>1, <2>1 DEF IInv, TypeOK
  <2> QED
    BY <1>5, <2>2 DEF Proceed, Authenticate, WriteHistory, Handle, Record, Finish
<1>6. ASSUME NEW q \in Proc, Crash(q) PROVE FALSE
  BY <1>1, <1>6 DEF Crash, IInv, TypeOK, NoRequest
<1>7. CASE CacheOutage \/ Tick
  BY <1>2, <1>7 DEF CacheOutage, Tick
<1> QED
  BY <1>2, <1>3, <1>4, <1>5, <1>6, <1>7 DEF Next, vars

------------------------------------------------------------------------------------
(* The theorems *)

\* IInv holds of every request on its way through the middleware and the checks of the
\* REST framework (common/middleware.py, analytics/middleware.py, common/permissions.py),
\* and of the lists that the throttle keeps in the cache.
THEOREM Invariance == Spec => []IInv
BY InitIInv, NextIInv, PTL DEF Spec

\* Every variable has its type (RequestLog, analytics/models.py:10-36, and the attributes
\* that the middleware puts on the request).
THEOREM TypeCorrect == Spec => []TypeOK
<1>1. IInv => TypeOK
  BY DEF IInv
<1> QED
  BY <1>1, Invariance, PTL

\* No user and no address gets more than the rate of its scope into any window, unless
\* the cache fails or two of its requests are between the throttle's get and set at once
\* (throttling.py:12-40, config/settings/base.py:198-207).
THEOREM KeptRate == Spec => []RateKept
<1>1. IInv => RateKept
  BY DEF IInv
<1> QED
  BY <1>1, Invariance, PTL

\* Nobody is refused for the requests of others, or for requests of an earlier window: a
\* 429 takes as many own requests as the rate allows (throttling.py:24-40).
THEOREM EarnedRefusals == Spec => RefusalsEarned
<1> DEFINE Earned ==
       \A p \in Proc : req[p].pc = "throttle" /\ req'[p].status = 429 =>
          LET b == Key(req[p]) IN Cardinality(InWindow(b, now)) >= Rate[b[1]]
<1>1. IInv /\ [Next]_vars => [Earned]_vars
  BY RefusalStep
<1> QED
  BY <1>1, Invariance, PTL DEF Spec, RefusalsEarned

\* The status logged is the one sent, and the charge is of the user logged: of the owner
\* of an accepted credential wherever a view answers, whatever cookie came along, and of
\* the cookie's user, whatever credential came along, on a path that no URL matches
\* (RequestAnalyticsMiddleware, analytics/middleware.py:25-73).
THEOREM RightLog == Spec => []LoggedRight
<1>1. IInv => LoggedRight
  <2> SUFFICES ASSUME IInv, NEW p \in Proc
               PROVE  /\ req[p].row # NoRow =>
                            /\ req[p].row.status = req[p].status
                            /\ req[p].view # "nowhere" =>
                                  req[p].row.user = req[p].cred /\ req[p].cred \in User
                                  /\ req[p].view # "plans"
                            /\ req[p].view = "nowhere" =>
                                  req[p].row.user = req[p].cookie /\ req[p].cookie # None
                      /\ req[p].charged # None => req[p].charged = req[p].row.user
    BY DEF LoggedRight
  <2>1. Known(req[p])
    BY DEF IInv
  <2>2. req[p].row # NoRow => /\ req[p].row = [user |-> Caller(req[p]), status |-> req[p].status]
                              /\ Caller(req[p]) # None
    BY <2>1 DEF Known
  <2>3. req[p].charged # None => req[p].charged = req[p].row.user
    BY <2>1 DEF Known
  <2> QED
    BY <2>2, <2>3 DEF Caller
<1> QED
  BY <1>1, Invariance, PTL

\* No request is served, or answered with 200, unless its credential permits the view:
\* neither a session cookie nor a refused credential does (permissions.py:36-47,
\* dashboard/views.py:120).
THEOREM GrantedAccess == Spec => []AccessGranted
<1>1. IInv => AccessGranted
  BY DEF IInv, Known, Passed, AccessGranted
<1> QED
  BY <1>1, Invariance, PTL
========================================================================================
