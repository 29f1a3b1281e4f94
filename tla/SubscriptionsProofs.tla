---------------------------- MODULE SubscriptionsProofs ----------------------------
(***************************************************************************)
(* Theorems about Subscriptions, for every set of users, plans, processes  *)
(* and row ids, every duration and every calendar.                         *)
(***************************************************************************)
EXTENDS Subscriptions, TLAPS

-------------------------------------------------------------------------------------
(* Initial states *)

LEMMA InitIInv == Init => IInv
<1> SUFFICES ASSUME Init PROVE IInv
  OBVIOUS
<1> USE ConstantsAssumption
<1>1. TypeOK
  BY DEF Init, TypeOK, Idle, NoRow, Row, Txn
<1>2. AtMostOneActive /\ PlanKept
  BY DEF Init, AtMostOneActive, PlanKept, NoRow
<1>3. \A s \in SubId : sub[s].status # "absent" => sub[s].user \in User
  BY DEF Init, NoRow
<1>4. \A p \in Proc : CallOK(p, txn[p])
  BY DEF Init, CallOK, Idle
<1>5. \A p, q \in Proc : p # q => Compatible(txn[p], txn[q])
  BY DEF Init, Compatible, Holds, Idle
<1> QED
  BY <1>1, <1>2, <1>3, <1>4, <1>5 DEF IInv

-------------------------------------------------------------------------------------
(* Steps of one transaction *)

\* A step that changes one transaction and no row: it is enough to check the new
\* transaction.
LEMMA TxnStep ==
    ASSUME IInv,
           NEW p \in Proc, NEW r \in Txn,
           txn' = [txn EXCEPT ![p] = r],
           UNCHANGED sub,
           now' = now, planActive' \subseteq Plan, users' \subseteq User,
           calls' \in Nat, crashes' \in Nat,
           CallOK(p, r),
           \A q \in Proc \ {p} : Compatible(r, txn[q])
    PROVE  IInv'
<1>1. /\ txn' \in [Proc -> Txn]
      /\ txn'[p] = r
      /\ \A q \in Proc \ {p} : txn'[q] = txn[q]
  BY DEF IInv, TypeOK
<1>2. TypeOK'
  BY <1>1 DEF IInv, TypeOK
<1>3. (AtMostOneActive /\ PlanKept)'
  BY DEF IInv, AtMostOneActive, PlanKept, ActiveSubs
<1>4. (\A s \in SubId : sub[s].status # "absent" => sub[s].user \in User)'
  BY DEF IInv
<1>5. (\A q \in Proc : CallOK(q, txn[q]))'
  <2> SUFFICES ASSUME NEW q \in Proc PROVE CallOK(q, txn[q])'
    OBVIOUS
  <2>1. CallOK(q, txn'[q])
    BY <1>1 DEF IInv
  <2> QED
    BY <2>1 DEF CallOK, ActiveSubs
<1>6. (\A q, q2 \in Proc : q # q2 => Compatible(txn[q], txn[q2]))'
  BY <1>1 DEF IInv, Compatible, Holds
<1> QED
  BY <1>2, <1>3, <1>4, <1>5, <1>6 DEF IInv

LEMMA RaiseStep ==
    ASSUME IInv, NEW p \in Proc, Raise(p)
    PROVE  IInv'
<1> USE ConstantsAssumption
<1> DEFINE r == AfterCall(p)
<1>1. txn[p] \in Txn /\ CallOK(p, txn[p])
  BY DEF IInv, TypeOK
<1>2. r \in Txn /\ r.pc \in {"idle", "sweep"} /\ r.cur = None /\ r.op = "none"
      /\ r.todo \in {txn[p].todo, {}}
  BY <1>1 DEF AfterCall, Idle, Txn
<1>3. CallOK(p, r)
  BY <1>1, <1>2 DEF CallOK
<1>4. \A q \in Proc : Compatible(r, txn[q])
  BY <1>2 DEF Compatible, Holds
<1>5. UNCHANGED <<now, planActive, users, sub, calls, crashes>> /\ txn' = [txn EXCEPT ![p] = r]
  BY DEF Raise, Advance
<1> HIDE DEF r
<1> QED
  BY <1>2, <1>3, <1>4, <1>5, TxnStep DEF IInv, TypeOK

\* A user's request starts a transaction that holds nothing yet.
LEMMA UserCallStep ==
    ASSUME IInv, NEW p \in Proc, UserCall(p)
    PROVE  IInv'
<1> USE ConstantsAssumption
<1>0. calls \in Nat /\ crashes \in Nat /\ users \subseteq User /\ planActive \subseteq Plan
  BY DEF IInv, TypeOK
<1>1. ASSUME NEW r \in Txn, Call(p, r), CallOK(p, r), ~Holds(r), r.pc # "quota"
      PROVE  IInv'
  <2>1. \A q \in Proc : Compatible(r, txn[q])
    BY <1>1 DEF Compatible
  <2>2. /\ txn' = [txn EXCEPT ![p] = r] /\ UNCHANGED sub /\ now' = now
        /\ planActive' \subseteq Plan /\ users' \subseteq User
        /\ calls' \in Nat /\ crashes' \in Nat
    BY <1>0, <1>1 DEF Call, Advance
  <2> QED
    BY <1>1, <2>1, <2>2, TxnStep
<1>2. ASSUME NEW u \in User, Register(p, u) PROVE IInv'
  <2> DEFINE r == [Idle EXCEPT !.pc = "enroll", !.op = "register", !.user = u]
  <2>1. r \in Txn /\ ~Holds(r) /\ r.pc # "quota" /\ Call(p, r) /\ p \in Web
    BY <1>2 DEF Register, Call, Idle, Txn, Holds
  <2>2. CallOK(p, r)
    BY <2>1 DEF CallOK, Idle
  <2> HIDE DEF r
  <2> QED
    BY <1>1, <2>1, <2>2
<1>3. ASSUME NEW u \in User, EnsureSubscribed(p, u) PROVE IInv'
  <2> DEFINE r == [Idle EXCEPT !.pc = "enroll", !.op = "ensure", !.user = u]
  <2>1. r \in Txn /\ ~Holds(r) /\ r.pc # "quota" /\ Call(p, r) /\ p \in Web
    BY <1>3 DEF EnsureSubscribed, Call, Idle, Txn, Holds
  <2>2. CallOK(p, r)
    BY <2>1 DEF CallOK, Idle
  <2> HIDE DEF r
  <2> QED
    BY <1>1, <2>1, <2>2
<1>4. ASSUME NEW u \in User, Cancel(p, u) PROVE IInv'
  <2>1. PICK s \in ActiveSubs(u) :
          Call(p, [Idle EXCEPT !.pc = "close", !.op = "cancel", !.user = u, !.cur = s])
    BY <1>4 DEF Cancel
  <2> DEFINE r == [Idle EXCEPT !.pc = "close", !.op = "cancel", !.user = u, !.cur = s]
  <2>2. s \in SubId /\ sub[s].status = "active" /\ sub[s].user = u
    BY DEF ActiveSubs
  <2>3. r \in Txn /\ ~Holds(r) /\ r.pc # "quota" /\ Call(p, r) /\ p \in Web
    BY <2>1, <2>2 DEF Call, Idle, Txn, Holds
  <2>4. CallOK(p, r)
    BY <2>2, <2>3 DEF CallOK, Idle
  <2> HIDE DEF r
  <2> QED
    BY <1>1, <2>3, <2>4
<1>5. ASSUME NEW u \in User, NEW pl \in Plan, Subscribe(p, u, pl) PROVE IInv'
  <2> DEFINE r == [Idle EXCEPT !.pc = "select", !.op = "subscribe", !.user = u, !.plan = pl]
  <2>1. r \in Txn /\ ~Holds(r) /\ r.pc # "quota" /\ Call(p, r) /\ p \in Web
    BY <1>5 DEF Subscribe, Call, Idle, Txn, Holds
  <2>2. CallOK(p, r)
    BY <2>1 DEF CallOK, Idle
  <2> HIDE DEF r
  <2> QED
    BY <1>1, <2>1, <2>2
<1> QED
  BY <1>2, <1>3, <1>4, <1>5 DEF UserCall

\* A statement, or the fetch of a sweep, inside process p.
LEMMA TxnOnlyStep ==
    ASSUME IInv, NEW p \in Proc, NEW r \in Txn,
           Advance(p, r), UNCHANGED <<now, planActive, users, sub, calls, crashes>>,
           CallOK(p, r), \A q \in Proc \ {p} : Compatible(r, txn[q])
    PROVE  IInv'
BY TxnStep DEF Advance, IInv, TypeOK

LEMMA SelectStep ==
    ASSUME IInv, NEW p \in Proc, SelectCurrent(p)
    PROVE  IInv'
<1> USE ConstantsAssumption
<1>0. /\ txn[p] \in Txn /\ CallOK(p, txn[p]) /\ txn[p].pc = "select"
      /\ now \in Nat
      /\ UNCHANGED <<now, planActive, users, sub, calls, crashes>>
  BY DEF IInv, TypeOK, SelectCurrent
<1>1. CASE Advance(p, Idle)
  <2>1. Idle \in Txn /\ CallOK(p, Idle) /\ \A q \in Proc : Compatible(Idle, txn[q])
    BY DEF Idle, Txn, CallOK, Compatible, Holds
  <2> QED
    BY <1>0, <1>1, <2>1, TxnOnlyStep
<1>2. ASSUME NEW s \in ActiveSubs(txn[p].user),
             Advance(p, [txn[p] EXCEPT !.pc = "close", !.cur = s])
      PROVE  IInv'
  <2> DEFINE r == [txn[p] EXCEPT !.pc = "close", !.cur = s]
  <2>1. s \in SubId /\ sub[s].status = "active" /\ sub[s].user = txn[p].user
    BY <1>2 DEF ActiveSubs
  <2>2. r \in Txn
    BY <1>0, <2>1 DEF Txn
  <2>3. CallOK(p, r)
    BY <1>0, <1>2, <2>1 DEF CallOK, Txn
  <2>4. \A q \in Proc : Compatible(r, txn[q])
    BY <1>0 DEF Compatible, Holds, Txn
  <2>5. Advance(p, r)
    BY <1>2
  <2> HIDE DEF r
  <2> QED
    BY <1>0, <2>2, <2>3, <2>4, <2>5, TxnOnlyStep
<1>3. CASE Advance(p, [txn[p] EXCEPT !.pc = "insert", !.start = now])
  <2> DEFINE r == [txn[p] EXCEPT !.pc = "insert", !.start = now]
  <2>1. r \in Txn /\ ~Holds(r) /\ r.pc # "quota"
    BY <1>0 DEF Txn, Holds, CallOK
  <2>2. CallOK(p, r)
    BY <1>0 DEF CallOK, Txn
  <2>3. \A q \in Proc : Compatible(r, txn[q])
    BY <2>1 DEF Compatible
  <2>4. Advance(p, r)
    BY <1>3
  <2> HIDE DEF r
  <2> QED
    BY <1>0, <2>1, <2>2, <2>3, <2>4, TxnOnlyStep
<1> QED
  BY <1>1, <1>2, <1>3 DEF SelectCurrent

\* The UPDATE takes the row lock, which nobody else holds.
LEMMA CloseStep ==
    ASSUME IInv, NEW p \in Proc, CloseCurrent(p)
    PROVE  IInv'
<1> USE ConstantsAssumption
<1> DEFINE r == [txn[p] EXCEPT
                   !.pc = IF txn[p].op = "subscribe" THEN "insert" ELSE "enroll",
                   !.start = now]
<1>0. /\ txn[p] \in Txn /\ CallOK(p, txn[p]) /\ txn[p].pc = "close"
      /\ now \in Nat
      /\ \A q \in Proc \ {p} : ~(Holds(txn[q]) /\ txn[q].cur = txn[p].cur)
      /\ UNCHANGED <<now, planActive, users, sub, calls, crashes>>
      /\ Advance(p, r)
  BY DEF IInv, TypeOK, CloseCurrent, Waits
<1>1. r \in Txn /\ r.cur = txn[p].cur /\ r.pc # "quota"
  BY <1>0 DEF Txn
<1>2. CallOK(p, r)
  BY <1>0 DEF CallOK, Txn
<1>3. \A q \in Proc \ {p} : Compatible(r, txn[q])
  BY <1>0, <1>1 DEF Compatible
<1> HIDE DEF r
<1> QED
  BY <1>0, <1>1, <1>2, <1>3, TxnOnlyStep

LEMMA LookupStep ==
    ASSUME IInv, NEW p \in Proc, LookupFree(p)
    PROVE  IInv'
<1> USE ConstantsAssumption
<1>1. CASE Raise(p)
  BY <1>1, RaiseStep
<1>2. CASE Advance(p, [txn[p] EXCEPT !.pc = "insert", !.plan = Free, !.start = now])
           /\ UNCHANGED <<now, planActive, users, sub, calls, crashes>>
  <2> DEFINE r == [txn[p] EXCEPT !.pc = "insert", !.plan = Free, !.start = now]
  <2>0. txn[p] \in Txn /\ CallOK(p, txn[p]) /\ txn[p].pc = "enroll" /\ now \in Nat
    BY DEF IInv, TypeOK, LookupFree
  <2>1. r \in Txn /\ r.pc = "insert" /\ r.cur = txn[p].cur
    BY <2>0 DEF Txn
  <2>2. CallOK(p, r)
    BY <2>0 DEF CallOK, Txn
  <2>3. \A q \in Proc \ {p} : Compatible(txn[p], txn[q])
    BY DEF IInv
  <2>4. \A q \in Proc \ {p} : Compatible(r, txn[q])
    BY <2>0, <2>1, <2>3 DEF Compatible, Holds
  <2>5. Advance(p, r)
    BY <1>2
  <2> HIDE DEF r
  <2> QED
    BY <1>2, <2>1, <2>2, <2>4, <2>5, TxnOnlyStep
<1> QED
  BY <1>1, <1>2 DEF LookupFree

\* The INSERT: no other transaction of the user has one pending, and the only
\* active row the user has is the one this transaction closes.
LEMMA CreateStep ==
    ASSUME IInv, NEW p \in Proc, CreateSub(p)
    PROVE  IInv'
<1> USE ConstantsAssumption
<1>1. CASE Raise(p)
  BY <1>1, RaiseStep
<1>2. CASE /\ ActiveSubs(txn[p].user) \subseteq {txn[p].cur}
           /\ FreshIds # {}
           /\ Advance(p, [txn[p] EXCEPT !.pc = "quota", !.new = CHOOSE s \in FreshIds : TRUE])
           /\ UNCHANGED <<now, planActive, users, sub, calls, crashes>>
  <2> DEFINE n == CHOOSE s \in FreshIds : TRUE
             r == [txn[p] EXCEPT !.pc = "quota", !.new = n]
  <2>0. /\ txn[p] \in Txn /\ CallOK(p, txn[p]) /\ txn[p].pc = "insert"
        /\ \A q \in Proc : ~MustWait(p, q)
        /\ Advance(p, r)
    BY <1>2 DEF IInv, TypeOK, CreateSub, Waits
  <2>1. n \in FreshIds
    BY <1>2
  <2> HIDE DEF n
  <2>2. n \in SubId /\ sub[n] = NoRow /\ \A q \in Proc : txn[q].new # n
    BY <2>1 DEF FreshIds
  <2>3. r \in Txn /\ r.pc = "quota" /\ r.new = n /\ r.cur = txn[p].cur /\ r.user = txn[p].user
    BY <2>0, <2>2 DEF Txn
  <2>4. CallOK(p, r)
    BY <1>2, <2>0, <2>2 DEF CallOK, Txn
  <2>5. ASSUME NEW q \in Proc \ {p} PROVE Compatible(r, txn[q])
    <3>1. Compatible(txn[p], txn[q])
      BY DEF IInv
    <3>2. txn[q].pc = "quota" => txn[q].user # txn[p].user
      BY <2>0 DEF MustWait
    <3> QED
      BY <2>0, <2>2, <2>3, <3>1, <3>2 DEF Compatible, Holds
  <2> HIDE DEF r
  <2> QED
    BY <1>2, <2>0, <2>3, <2>4, <2>5, TxnOnlyStep
<1> QED
  BY <1>1, <1>2 DEF CreateSub

LEMMA SweepStartStep ==
    ASSUME IInv, NEW p \in Proc, SweepStart(p)
    PROVE  IInv'
<1> USE ConstantsAssumption
<1> DEFINE r == [Idle EXCEPT !.pc = "sweep", !.todo = {s \in SubId : Due(s)}]
<1>1. Advance(p, r) /\ UNCHANGED <<now, planActive, users, sub, calls, crashes>>
  BY DEF SweepStart
<1>2. r \in Txn
  BY DEF Idle, Txn
<1>3. CallOK(p, r)
  BY DEF CallOK, Idle, Due
<1>4. \A q \in Proc : Compatible(r, txn[q])
  BY DEF Compatible, Holds, Idle
<1> HIDE DEF r
<1> QED
  BY <1>1, <1>2, <1>3, <1>4, TxnOnlyStep

LEMMA SweepNextStep ==
    ASSUME IInv, NEW p \in Proc, SweepNext(p)
    PROVE  IInv'
<1> USE ConstantsAssumption
<1>0. /\ txn[p] \in Txn /\ CallOK(p, txn[p])
      /\ UNCHANGED <<now, planActive, users, sub, calls, crashes>>
  BY DEF IInv, TypeOK, SweepNext
<1>1. PICK s \in txn[p].todo :
         Advance(p, [Idle EXCEPT !.pc = "close", !.op = "expire", !.user = sub[s].user,
                                 !.cur = s, !.todo = txn[p].todo \ {s}])
  BY DEF SweepNext
<1> DEFINE r == [Idle EXCEPT !.pc = "close", !.op = "expire", !.user = sub[s].user,
                             !.cur = s, !.todo = txn[p].todo \ {s}]
<1>2. s \in SubId /\ sub[s].status # "absent" /\ txn[p].todo \subseteq SubId
      /\ sub[s].expires # None /\ sub[s].expires <= now
  BY <1>0 DEF Txn, CallOK
<1>3. sub[s].user \in User
  BY <1>2 DEF IInv
<1>4. r \in Txn
  BY <1>2, <1>3 DEF Idle, Txn
<1>5. CallOK(p, r)
  BY <1>0, <1>2, <1>3 DEF CallOK, Idle
<1>6. \A q \in Proc : Compatible(r, txn[q])
  BY DEF Compatible, Holds, Idle
<1>7. Advance(p, r)
  BY <1>1
<1> HIDE DEF r
<1> QED
  BY <1>0, <1>4, <1>5, <1>6, <1>7, TxnOnlyStep

\* Back to idle: the end of a sweep, and a crash.
LEMMA ToIdleStep ==
    ASSUME IInv, NEW p \in Proc, SweepEnd(p) \/ Crash(p)
    PROVE  IInv'
<1> USE ConstantsAssumption
<1>1. Idle \in Txn /\ CallOK(p, Idle) /\ \A q \in Proc : Compatible(Idle, txn[q])
  BY DEF Idle, Txn, CallOK, Compatible, Holds
<1>2. /\ txn' = [txn EXCEPT ![p] = Idle] /\ UNCHANGED sub /\ now' = now
      /\ planActive' \subseteq Plan /\ users' \subseteq User
      /\ calls' \in Nat /\ crashes' \in Nat
  BY DEF SweepEnd, Crash, Advance, IInv, TypeOK
<1> QED
  BY <1>1, <1>2, TxnStep

-------------------------------------------------------------------------------------
(* The commit *)

\* What a transaction about to commit knows: the row it closes is still active,
\* because its user has an active row (PlanKept) and no other one is left.
LEMMA CommitFacts ==
    ASSUME IInv, NEW p \in Proc, txn[p].pc = "quota"
    PROVE  /\ txn[p] \in Txn
           /\ txn[p].user \in User /\ txn[p].plan \in Plan
           /\ txn[p].new \in SubId /\ sub[txn[p].new] = NoRow
           /\ ActiveSubs(txn[p].user) \subseteq {txn[p].cur}
           /\ txn[p].cur # None => /\ txn[p].cur \in SubId /\ txn[p].cur # txn[p].new
                                   /\ sub[txn[p].cur].status = "active"
                                   /\ sub[txn[p].cur].user = txn[p].user
<1>1. txn[p] \in Txn /\ CallOK(p, txn[p]) /\ PlanKept
  BY DEF IInv, TypeOK
<1>2. CASE txn[p].cur = None
  BY <1>1, <1>2 DEF CallOK
<1>3. CASE txn[p].cur # None
  <2>1. txn[p].cur \in SubId /\ sub[txn[p].cur].status # "absent"
        /\ sub[txn[p].cur].user = txn[p].user
    BY <1>1, <1>3 DEF CallOK, Txn
  <2>2. ActiveSubs(txn[p].user) # {} /\ ActiveSubs(txn[p].user) \subseteq {txn[p].cur}
    BY <1>1, <2>1 DEF PlanKept, CallOK
  <2>3. sub[txn[p].cur].status = "active"
    BY <2>2 DEF ActiveSubs
  <2> QED
    BY <1>1, <2>1, <2>3 DEF CallOK, NoRow
<1> QED
  BY <1>2, <1>3

\* The committed rows: the new one, the closed one, and the rest untouched.
LEMMA CommitRows ==
    ASSUME IInv, NEW p \in Proc, txn[p].pc = "quota", sub' = Committed(p)
    PROVE  /\ sub' \in [SubId -> Row]
           /\ sub'[txn[p].new].status = "active"
           /\ sub'[txn[p].new].user = txn[p].user
           /\ txn[p].cur # None =>
                /\ sub'[txn[p].cur].status = IF txn[p].op = "expire" THEN "expired" ELSE "canceled"
                /\ sub'[txn[p].cur].user = txn[p].user
                /\ sub'[txn[p].cur].expires = sub[txn[p].cur].expires
           /\ \A s \in SubId \ {txn[p].new, txn[p].cur} : sub'[s] = sub[s]
<1> USE ConstantsAssumption
<1>1. sub \in [SubId -> Row]
  BY DEF IInv, TypeOK
<1>2. \A s \in SubId : sub'[s] \in Row
  <2> SUFFICES ASSUME NEW s \in SubId PROVE sub'[s] \in Row
    OBVIOUS
  <2>1. CASE s = txn[p].new
    <3>1. txn[p].start + Duration[txn[p].plan] \in Nat
      BY CommitFacts DEF Txn
    <3>2. [status |-> "active", user |-> txn[p].user, plan |-> txn[p].plan,
           expires |-> IF Expiring(p) THEN txn[p].start + Duration[txn[p].plan] ELSE None]
          \in Row
      BY <3>1, CommitFacts DEF Row
    <3> QED
      BY <2>1, <3>2 DEF Committed
  <2>2. CASE s # txn[p].new /\ s = txn[p].cur
    BY <1>1, <2>2 DEF Committed, Row, Closed
  <2>3. CASE s # txn[p].new /\ s # txn[p].cur
    BY <1>1, <2>3 DEF Committed
  <2> QED
    BY <2>1, <2>2, <2>3
<1>3. sub' \in [SubId -> Row]
  BY <1>2 DEF Committed
<1>4. /\ sub'[txn[p].new].status = "active"
      /\ sub'[txn[p].new].user = txn[p].user
  BY CommitFacts DEF Committed
<1>5. ASSUME txn[p].cur # None
      PROVE  /\ sub'[txn[p].cur].status = IF txn[p].op = "expire" THEN "expired" ELSE "canceled"
             /\ sub'[txn[p].cur].user = txn[p].user
             /\ sub'[txn[p].cur].expires = sub[txn[p].cur].expires
  <2>1. sub'[txn[p].cur] = [sub[txn[p].cur] EXCEPT
             !.status = IF txn[p].op = "expire" THEN "expired" ELSE "canceled"]
    BY <1>5, CommitFacts DEF Committed
  <2>2. sub[txn[p].cur] \in Row /\ sub[txn[p].cur].user = txn[p].user
    BY <1>1, <1>5, CommitFacts
  <2> QED
    BY <2>1, <2>2 DEF Row
<1>6. \A s \in SubId \ {txn[p].new, txn[p].cur} : sub'[s] = sub[s]
  BY DEF Committed
<1> QED
  BY <1>3, <1>4, <1>5, <1>6

LEMMA CommitStep ==
    ASSUME IInv, NEW p \in Proc, OpenQuota(p)
    PROVE  IInv'
<1> USE ConstantsAssumption
<1>1. CASE Raise(p)
  BY <1>1, RaiseStep
<1>2. CASE /\ sub' = Committed(p)
           /\ users' = users \cup {txn[p].user}
           /\ Advance(p, AfterCall(p))
           /\ UNCHANGED <<now, planActive, calls, crashes>>
  <2> DEFINE u == txn[p].user  n == txn[p].new  c == txn[p].cur
  <2>0. /\ txn[p].pc = "quota" /\ txn[p] \in Txn /\ CallOK(p, txn[p])
        /\ txn \in [Proc -> Txn]
    BY DEF OpenQuota, IInv, TypeOK
  <2>1. /\ u \in User
        /\ n \in SubId /\ sub[n] = NoRow
        /\ ActiveSubs(u) \subseteq {c}
        /\ c # None => c \in SubId /\ c # n /\ sub[c].status = "active" /\ sub[c].user = u
    BY <2>0, CommitFacts
  <2>2. /\ sub' \in [SubId -> Row]
        /\ sub'[n].status = "active"
        /\ sub'[n].user = u
        /\ c # None => /\ sub'[c].status \in Closed /\ sub'[c].user = u
                       /\ sub'[c].expires = sub[c].expires
        /\ \A s \in SubId \ {n, c} : sub'[s] = sub[s]
    BY <1>2, <2>0, CommitRows DEF Closed
  <2>3. /\ txn' \in [Proc -> Txn]
        /\ txn'[p] = AfterCall(p)
        /\ txn'[p].pc \in {"idle", "sweep"} /\ txn'[p].cur = None /\ txn'[p].op = "none"
        /\ txn'[p].todo \in {txn[p].todo, {}}
        /\ \A q \in Proc \ {p} : txn'[q] = txn[q]
    <3>1. AfterCall(p) \in Txn
      BY <2>0 DEF AfterCall, Idle, Txn
    <3>2. /\ AfterCall(p).pc \in {"idle", "sweep"} /\ AfterCall(p).cur = None
          /\ AfterCall(p).op = "none"
          /\ AfterCall(p).todo \in {txn[p].todo, {}}
      BY DEF AfterCall, Idle
    <3>3. txn' = [txn EXCEPT ![p] = AfterCall(p)]
      BY <1>2 DEF Advance
    <3> HIDE DEF AfterCall
    <3> QED
      BY <2>0, <3>1, <3>2, <3>3
  <2> HIDE DEF u, n, c
  <2>4. TypeOK'
    <3>1. users' \subseteq User
      BY <1>2, <2>1 DEF IInv, TypeOK, u
    <3> QED
      BY <1>2, <2>2, <2>3, <3>1 DEF IInv, TypeOK
  \* The active rows of u are now just n; those of other users are as before.
  <2>5. \A s \in SubId : sub'[s].status = "active" =>
            s = n \/ (sub[s].status = "active" /\ sub'[s] = sub[s] /\ sub[s].user # u)
    BY <2>1, <2>2 DEF ActiveSubs, Closed
  <2>6. \A s \in SubId : sub[s].status = "active" /\ sub[s].user # u => sub'[s] = sub[s]
    BY <2>1, <2>2 DEF NoRow
  <2>7. AtMostOneActive'
    BY <2>2, <2>5 DEF IInv, AtMostOneActive
  <2>8. \A s \in SubId : /\ sub[s].status # "absent" =>
                              /\ sub'[s].status # "absent"
                              /\ sub'[s].user = sub[s].user
                              /\ sub'[s].expires = sub[s].expires
                         /\ sub'[s].status # "absent" => sub[s].status # "absent" \/ s = n
    BY <2>1, <2>2 DEF NoRow, Closed
  <2>9. PlanKept'
    <3> SUFFICES ASSUME NEW s \in SubId, sub'[s].status # "absent"
                 PROVE  \E t \in SubId : sub'[t].status = "active" /\ sub'[t].user = sub'[s].user
      BY DEF PlanKept, ActiveSubs
    <3>1. CASE sub'[s].user = u
      BY <2>1, <2>2, <3>1
    <3>2. CASE sub'[s].user # u
      <4>1. sub[s].status # "absent" /\ sub[s].user = sub'[s].user
        BY <2>2, <2>8, <3>2
      <4>2. PICK t \in SubId : sub[t].status = "active" /\ sub[t].user = sub[s].user
        BY <4>1 DEF IInv, PlanKept, ActiveSubs
      <4> QED
        BY <2>6, <3>2, <4>1, <4>2
    <3> QED
      BY <3>1, <3>2
  <2>10. (\A s \in SubId : sub[s].status # "absent" => sub[s].user \in User)'
    BY <2>1, <2>2, <2>8 DEF IInv
  <2>11. ASSUME NEW q \in Proc PROVE CallOK(q, txn[q])'
    <3>0. txn[q] \in Txn /\ CallOK(q, txn[q]) /\ now' = now
      BY <1>2 DEF IInv, TypeOK
    <3>1. CASE q = p
      <4>1. \A s \in txn'[p].todo :
                s \in SubId /\ sub[s].status # "absent" /\ sub[s].expires # None
                /\ sub[s].expires <= now
        BY <2>0, <2>3 DEF CallOK, Txn
      <4>2. \A s \in txn'[p].todo :
                sub'[s].status # "absent" /\ sub'[s].expires # None /\ sub'[s].expires <= now'
        BY <2>8, <3>0, <4>1
      <4> QED
        BY <2>3, <3>1, <4>2 DEF CallOK
    <3>2. CASE q # p
      <4>1. txn'[q] = txn[q]
        BY <2>3, <3>2
      <4>2. txn[q].cur # None =>
               sub'[txn[q].cur].status # "absent" /\ sub'[txn[q].cur].user = txn[q].user
        BY <2>8, <3>0 DEF CallOK, Txn
      <4>3. \A s \in txn[q].todo : sub'[s].status # "absent"
        BY <2>8, <3>0 DEF CallOK, Txn
      <4>4. \A s \in SubId : s \in txn[q].todo \/ (txn[q].op = "expire" /\ s = txn[q].cur) =>
               sub'[s].expires # None /\ sub'[s].expires <= now'
        <5> SUFFICES ASSUME NEW s \in SubId,
                            s \in txn[q].todo \/ (txn[q].op = "expire" /\ s = txn[q].cur)
                     PROVE  sub'[s].expires # None /\ sub'[s].expires <= now'
          OBVIOUS
        <5>1. sub[s].status # "absent" /\ sub[s].expires # None /\ sub[s].expires <= now
          BY <3>0 DEF CallOK
        <5> QED
          BY <2>8, <3>0, <5>1
      <4>5. ASSUME txn[q].pc = "quota"
            PROVE  /\ txn[q].new \in SubId /\ sub'[txn[q].new] = NoRow
                   /\ ActiveSubs(txn[q].user)' \subseteq {txn[q].cur}
        <5>1. txn[q].user # u /\ txn[q].new # n
          BY <2>0, <3>2, <4>5 DEF IInv, Compatible, u, n
        <5>2. /\ txn[q].new \in SubId /\ sub[txn[q].new] = NoRow
              /\ ActiveSubs(txn[q].user) \subseteq {txn[q].cur}
          BY <3>0, <4>5 DEF CallOK
        <5>3. sub'[txn[q].new] = NoRow
          BY <2>1, <2>2, <5>1, <5>2 DEF NoRow
        <5>4. ActiveSubs(txn[q].user)' \subseteq {txn[q].cur}
          BY <2>2, <2>5, <4>1, <5>1, <5>2 DEF ActiveSubs
        <5> QED
          BY <5>2, <5>3, <5>4
      <4> QED
        BY <3>0, <4>1, <4>2, <4>3, <4>4, <4>5 DEF CallOK, ActiveSubs
    <3> QED
      BY <3>1, <3>2
  <2>12. ASSUME NEW q \in Proc, NEW q2 \in Proc, q # q2
         PROVE  Compatible(txn'[q], txn'[q2])
    <3>1. Compatible(txn[q], txn[q2])
      BY <2>12 DEF IInv
    <3> QED
      BY <2>3, <2>12, <3>1 DEF Compatible, Holds
  <2>13. (\A q, q2 \in Proc : q # q2 => Compatible(txn[q], txn[q2]))'
    BY <2>12 DEF Compatible, Holds
  <2> QED
    BY <2>4, <2>7, <2>9, <2>10, <2>11, <2>13 DEF IInv
<1> QED
  BY <1>1, <1>2 DEF OpenQuota

-------------------------------------------------------------------------------------
(* All steps *)

\* Steps of the environment change no transaction and no subscription.
LEMMA EnvironmentStep ==
    ASSUME IInv,
           \/ \E u \in User : CreateSuperuser(u)
           \/ \E pl \in Plan : TogglePlan(pl)
           \/ SeedPlans
           \/ Tick
           \/ UNCHANGED vars
    PROVE  IInv'
<1> USE ConstantsAssumption
<1>1. /\ UNCHANGED <<sub, txn>>
      /\ now' \in Nat /\ now <= now'
      /\ planActive' \subseteq Plan /\ users' \subseteq User
      /\ calls' \in Nat /\ crashes' \in Nat
  BY DEF IInv, TypeOK, CreateSuperuser, TogglePlan, SeedPlans, Tick, vars
<1>2. TypeOK'
  BY <1>1 DEF IInv, TypeOK
<1>3. (AtMostOneActive /\ PlanKept)'
  BY <1>1 DEF IInv, AtMostOneActive, PlanKept, ActiveSubs
<1>4. (\A s \in SubId : sub[s].status # "absent" => sub[s].user \in User)'
  BY <1>1 DEF IInv
<1>5. ASSUME NEW p \in Proc PROVE CallOK(p, txn[p])'
  <2>1. CallOK(p, txn[p]) /\ now \in Nat
    BY DEF IInv, TypeOK
  <2>2. \A s \in SubId : sub[s].expires # None /\ sub[s].expires <= now
                         => sub[s].expires <= now'
    <3> SUFFICES ASSUME NEW s \in SubId, sub[s].expires # None, sub[s].expires <= now
                 PROVE  sub[s].expires <= now'
      OBVIOUS
    <3>1. sub[s].expires \in Nat
      BY DEF IInv, TypeOK, Row
    <3> QED
      BY <1>1, <2>1, <3>1
  <2> QED
    BY <1>1, <2>1, <2>2 DEF CallOK, ActiveSubs
<1>6. (\A p, q \in Proc : p # q => Compatible(txn[p], txn[q]))'
  BY <1>1 DEF IInv, Compatible, Holds
<1> QED
  BY <1>2, <1>3, <1>4, <1>5, <1>6 DEF IInv

LEMMA NextIInv == IInv /\ [Next]_vars => IInv'
<1> SUFFICES ASSUME IInv, [Next]_vars PROVE IInv'
  OBVIOUS
<1>1. ASSUME NEW p \in Proc, UserCall(p) \/ SweepStart(p) \/ Proceed(p) \/ Crash(p)
      PROVE  IInv'
  BY <1>1, UserCallStep, SelectStep, CloseStep, LookupStep, CreateStep, CommitStep,
     SweepStartStep, SweepNextStep, ToIdleStep DEF Proceed
<1>2. CASE \/ \E u \in User : CreateSuperuser(u)
           \/ \E pl \in Plan : TogglePlan(pl)
           \/ SeedPlans
           \/ Tick
           \/ UNCHANGED vars
  BY <1>2, EnvironmentStep
<1> QED
  BY <1>1, <1>2 DEF Next

-------------------------------------------------------------------------------------
(* Safety *)

\* The strengthened invariant holds in every reachable state.
THEOREM Invariance == Spec => []IInv
<1>1. Init => IInv
  BY InitIInv
<1>2. IInv /\ [Next]_vars => IInv'
  BY NextIInv
<1> QED
  BY <1>1, <1>2, PTL DEF Spec

\* Every variable always has its type.
THEOREM TypeCorrect == Spec => []TypeOK
<1>1. IInv => TypeOK
  BY DEF IInv
<1> QED
  BY <1>1, Invariance, PTL

\* However calls, sweeps and crashes interleave, a user never has two active
\* subscriptions.
THEOREM OneActivePerUser == Spec => []AtMostOneActive
<1>1. IInv => AtMostOneActive
  BY DEF IInv
<1> QED
  BY <1>1, Invariance, PTL

\* A user who ever had a subscription is never seen without one.
THEOREM NeverWithoutPlan == Spec => []PlanKept
<1>1. IInv => PlanKept
  BY DEF IInv
<1> QED
  BY <1>1, Invariance, PTL

\* No calls and sweeps, however many run at once, wait for each other: a chain of those
\* who wait for a row or an index entry has at most two links (subscribe, cancel and the
\* sweep, services.py:41-85 and 148-176).
THEOREM NoDeadlock == Spec => []WaitsEnd
<1>1. IInv => WaitsEnd
  <2> SUFFICES ASSUME IInv, NEW p \in Proc, NEW q \in Proc, NEW r \in Proc, NEW s \in Proc,
                      Waits(p, q), Waits(q, r), Waits(r, s)
               PROVE  FALSE
    BY DEF WaitsEnd
  \* Who is about to UPDATE holds nothing yet, and who is about to commit waits for nobody.
  <2>1. txn[q].pc = "insert" /\ txn[r].pc = "insert"
    BY DEF Waits, MustWait, Holds
  \* So r closes the active row of q's user, and s stands in the way of r's INSERT.
  <2>2. /\ txn[r].user = txn[q].user /\ Holds(txn[r]) /\ sub[txn[r].cur].status = "active"
        /\ s # r /\ txn[s].user = txn[r].user
    BY <2>1 DEF Waits, MustWait
  <2>3. /\ txn[r].cur \in SubId /\ sub[txn[r].cur].user = txn[r].user
        /\ txn[r].cur \in ActiveSubs(txn[r].user)
    BY <2>2 DEF IInv, TypeOK, Txn, CallOK, Holds, ActiveSubs
  <2>4. CASE txn[s].pc = "quota"
    <3>1. txn[s].cur = txn[r].cur
      BY <2>2, <2>3, <2>4 DEF IInv, CallOK
    <3>2. Holds(txn[s])
      BY <2>2, <2>4, <3>1 DEF Holds
    <3> QED
      BY <2>2, <3>1, <3>2 DEF IInv, Compatible
  <2>5. CASE /\ Holds(txn[s]) /\ txn[s].cur # txn[r].cur
             /\ sub[txn[s].cur].status = "active"
    <3>1. txn[s].cur \in SubId /\ sub[txn[s].cur].user = txn[s].user
      BY <2>5 DEF IInv, TypeOK, Txn, CallOK, Holds
    <3> QED
      BY <2>2, <2>3, <2>5, <3>1 DEF IInv, AtMostOneActive
  <2> QED
    BY <2>1, <2>4, <2>5 DEF Waits, MustWait
<1> QED
  BY <1>1, Invariance, PTL

-------------------------------------------------------------------------------------
(* Action properties: the only step that writes subscriptions is a commit *)

LEMMA OnlyCommitsWrite ==
    ASSUME [Next]_vars, sub' # sub
    PROVE  \E p \in Proc : /\ txn[p].pc = "quota"
                           /\ sub' = Committed(p)
                           /\ txn' = [txn EXCEPT ![p] = AfterCall(p)]
                           /\ now' = now
<1>1. ASSUME NEW p \in Proc, UserCall(p) PROVE FALSE
  BY <1>1 DEF UserCall, Register, EnsureSubscribed, Cancel, Subscribe, Call
<1>2. ASSUME NEW p \in Proc, SweepStart(p) \/ Crash(p) PROVE FALSE
  BY <1>2 DEF SweepStart, Crash
<1>3. ASSUME NEW p \in Proc,
             \/ SelectCurrent(p) \/ CloseCurrent(p) \/ LookupFree(p)
             \/ CreateSub(p) \/ SweepNext(p) \/ SweepEnd(p)
      PROVE FALSE
  BY <1>3 DEF SelectCurrent, CloseCurrent, LookupFree, CreateSub, SweepNext, SweepEnd, Raise
<1>4. ASSUME NEW p \in Proc, OpenQuota(p)
      PROVE  /\ txn[p].pc = "quota" /\ sub' = Committed(p)
             /\ txn' = [txn EXCEPT ![p] = AfterCall(p)] /\ now' = now
  BY <1>4 DEF OpenQuota, Raise, Advance
<1>5. ~(\/ \E u \in User : CreateSuperuser(u)
        \/ \E pl \in Plan : TogglePlan(pl)
        \/ SeedPlans \/ Tick \/ UNCHANGED vars)
  BY DEF CreateSuperuser, TogglePlan, SeedPlans, Tick, vars
<1> QED
  BY <1>1, <1>2, <1>3, <1>4, <1>5 DEF Next, Proceed

\* A closed subscription is never written again, although the sweep and a call
\* that lost a race update rows by primary key alone.
THEOREM TerminalStatusFinal == Spec => ClosedStaysClosed
<1>1. ASSUME IInv, [Next]_vars, NEW s \in SubId, sub[s].status \in Closed
      PROVE  sub'[s] = sub[s]
  <2> SUFFICES ASSUME sub' # sub PROVE sub'[s] = sub[s]
    OBVIOUS
  <2>1. PICK p \in Proc : txn[p].pc = "quota" /\ sub' = Committed(p)
    BY <1>1, OnlyCommitsWrite
  <2>2. s # txn[p].new /\ s # txn[p].cur
    BY <1>1, <2>1, CommitFacts, ConstantsAssumption DEF Closed, NoRow
  <2> QED
    BY <1>1, <2>1, <2>2, CommitRows
<1>2. IInv /\ [Next]_vars =>
        [\A s \in SubId : sub[s].status \in Closed => sub'[s] = sub[s]]_vars
  BY <1>1
<1> QED
  BY <1>2, Invariance, PTL DEF Spec, ClosedStaysClosed

\* Subscriptions end when their term is over or because their own user said so.
THEOREM NoUnreasonedEnd == Spec => EndsForAReason
<1>1. ASSUME IInv, [Next]_vars, NEW s \in SubId,
             sub[s].status = "active", sub'[s].status # "active"
      PROVE  \/ sub'[s].status = "expired" /\ Due(s)
             \/ /\ sub'[s].status = "canceled"
                /\ \E p \in Web : /\ txn[p].user = sub[s].user
                                  /\ txn[p].op \in {"subscribe", "cancel"}
                                  /\ txn'[p] = Idle
  <2>1. PICK p \in Proc : /\ txn[p].pc = "quota" /\ sub' = Committed(p)
                          /\ txn' = [txn EXCEPT ![p] = AfterCall(p)]
    BY <1>1, OnlyCommitsWrite
  <2>2. s = txn[p].cur /\ s # None
    BY <1>1, <2>1, CommitRows, ConstantsAssumption DEF NoRow
  <2>3. txn[p] \in Txn /\ CallOK(p, txn[p]) /\ txn \in [Proc -> Txn]
    BY <1>1 DEF IInv, TypeOK
  <2>4. /\ txn[p].op \in {"subscribe", "cancel", "expire"} /\ sub[s].user = txn[p].user
        /\ sub'[s].status = IF txn[p].op = "expire" THEN "expired" ELSE "canceled"
    BY <1>1, <2>1, <2>2, <2>3, CommitRows DEF CallOK
  <2>5. CASE txn[p].op = "expire"
    BY <1>1, <2>2, <2>3, <2>4, <2>5 DEF CallOK, Due
  <2>6. CASE txn[p].op # "expire"
    <3>1. p \in Web /\ txn'[p] = Idle
      BY <2>1, <2>3, <2>4, <2>6 DEF CallOK, AfterCall
    <3> QED
      BY <2>4, <2>6, <3>1
  <2> QED
    BY <2>5, <2>6
<1>2. IInv /\ [Next]_vars =>
        [\A s \in SubId :
          sub[s].status = "active" /\ sub'[s].status # "active" =>
            \/ sub'[s].status = "expired" /\ Due(s)
            \/ /\ sub'[s].status = "canceled"
               /\ \E p \in Web : /\ txn[p].user = sub[s].user
                                 /\ txn[p].op \in {"subscribe", "cancel"}
                                 /\ txn'[p] = Idle]_vars
  BY <1>1
<1> QED
  BY <1>2, Invariance, PTL DEF Spec, EndsForAReason

\* Enrolment, cancel and the sweep put a user on Free for good; another plan or a term takes
\* a subscribe of the user's own (services.py:34-104).
THEOREM NoUnaskedPlan == Spec => FreeUnlessSubscribed
<1>1. ASSUME IInv, [Next]_vars, NEW t \in SubId,
             sub[t].status # "active", sub'[t].status = "active"
      PROVE  \/ sub'[t].plan = Free /\ sub'[t].expires = None
             \/ \E p \in Web : /\ txn[p].op = "subscribe" /\ txn[p].user = sub'[t].user
                              /\ txn[p].plan = sub'[t].plan /\ txn'[p] = Idle
  <2>1. PICK p \in Proc : /\ txn[p].pc = "quota" /\ sub' = Committed(p)
                          /\ txn' = [txn EXCEPT ![p] = AfterCall(p)]
    BY <1>1, OnlyCommitsWrite
  <2>2. txn[p] \in Txn /\ CallOK(p, txn[p]) /\ txn \in [Proc -> Txn]
    BY <1>1 DEF IInv, TypeOK
  <2>3. t = txn[p].new
    <3>1. CASE t # txn[p].new /\ t = txn[p].cur
      <4>1. t # None
        BY ConstantsAssumption
      <4> QED
        BY <1>1, <2>1, <3>1, <4>1, CommitRows
    <3>2. CASE t # txn[p].new /\ t # txn[p].cur
      BY <1>1, <2>1, <3>2, CommitRows
    <3> QED
      BY <3>1, <3>2
  <2>4. sub'[t] = [status |-> "active", user |-> txn[p].user, plan |-> txn[p].plan,
                   expires |-> IF Expiring(p) THEN txn[p].start + Duration[txn[p].plan] ELSE None]
    BY <2>1, <2>3 DEF Committed
  <2>5. CASE txn[p].op = "subscribe"
    <3>1. p \in Web /\ txn'[p] = Idle
      BY <2>1, <2>2, <2>5 DEF CallOK, AfterCall
    <3> QED
      BY <2>4, <2>5, <3>1
  <2>6. CASE txn[p].op # "subscribe"
    <3>1. txn[p].plan = Free /\ ~Expiring(p)
      BY <2>1, <2>2, <2>6 DEF CallOK, Expiring
    <3> QED
      BY <2>4, <3>1
  <2> QED
    BY <2>5, <2>6
<1>2. IInv /\ [Next]_vars =>
        [\A t \in SubId :
          sub[t].status # "active" /\ sub'[t].status = "active" =>
            \/ sub'[t].plan = Free /\ sub'[t].expires = None
            \/ \E p \in Web : /\ txn[p].op = "subscribe" /\ txn[p].user = sub'[t].user
                             /\ txn[p].plan = sub'[t].plan /\ txn'[p] = Idle]_vars
  BY <1>1
<1> QED
  BY <1>2, Invariance, PTL DEF Spec, FreeUnlessSubscribed

-------------------------------------------------------------------------------------
(* Refinement *)

\* The subscription a user is on is the one the partial index allows.
LEMMA OpenIs ==
    ASSUME AtMostOneActive, NEW u \in User
    PROVE  /\ ActiveSubs(u) = {} => Open[u] = None
           /\ \A s \in ActiveSubs(u) : Open[u] = s
<1>1. ActiveSubs(u) = {} => Open[u] = None
  BY DEF Open
<1>2. ASSUME NEW s \in ActiveSubs(u) PROVE Open[u] = s
  <2>1. Open[u] = CHOOSE t \in ActiveSubs(u) : TRUE
    BY <1>2 DEF Open
  <2>2. \A t \in ActiveSubs(u) : t = s
    BY DEF ActiveSubs, AtMostOneActive
  <2> QED
    BY <1>2, <2>1, <2>2
<1> QED
  BY <1>1, <1>2

\* A commit that gives user u the row n in place of c (None: of nothing) is a
\* step of the ledger.
LEMMA CommitIsLedgerStep ==
    ASSUME AtMostOneActive, AtMostOneActive',
           NEW u \in User, NEW n \in SubId, NEW c \in SubId \cup {None},
           sub[n] = NoRow, ActiveSubs(u) \subseteq {c},
           sub'[n].status = "active", sub'[n].user = u,
           c # None => /\ c # n /\ sub[c].status = "active" /\ sub[c].user = u
                       /\ sub'[c].status \in Closed /\ sub'[c].user = u,
           \A s \in SubId \ {n, c} : sub'[s] = sub[s]
    PROVE  Ledger!Next
<1> USE ConstantsAssumption
<1>1. Open[u] = c
  <2>1. CASE c = None
    <3>1. ActiveSubs(u) = {}
      BY <2>1 DEF ActiveSubs
    <3> QED
      BY <2>1, <3>1, OpenIs
  <2>2. CASE c # None
    <3>1. c \in ActiveSubs(u)
      BY <2>2 DEF ActiveSubs
    <3> QED
      BY <3>1, OpenIs
  <2> QED
    BY <2>1, <2>2
<1>2. Open'[u] = n
  <2>1. n \in ActiveSubs(u)'
    BY DEF ActiveSubs
  <2>2. Open'[u] = CHOOSE t \in ActiveSubs(u)' : TRUE
    BY <2>1 DEF Open
  <2>3. \A t \in ActiveSubs(u)' : t = n
    BY DEF ActiveSubs, AtMostOneActive
  <2> QED
    BY <2>1, <2>2, <2>3
<1>3. ASSUME NEW v \in User, v # u PROVE Open'[v] = Open[v]
  <2>1. \A s \in SubId : s \in ActiveSubs(v)' <=> s \in ActiveSubs(v)
    BY <1>3 DEF ActiveSubs, NoRow, Closed
  <2>2. ActiveSubs(v)' = ActiveSubs(v)
    BY <2>1 DEF ActiveSubs
  <2> QED
    BY <2>2 DEF Open
<1>4. Open' = [Open EXCEPT ![u] = n]
  <2>1. Open = [v \in User |-> Open[v]] /\ Open' = [v \in User |-> Open'[v]]
    BY DEF Open
  <2> QED
    BY <1>2, <1>3, <2>1
<1>5. Ended' = IF c = None THEN Ended ELSE Ended \cup {c}
  <2>1. \A s \in SubId : s \in Ended' <=> s \in Ended \/ (c # None /\ s = c)
    BY DEF Ended, Closed, NoRow
  <2>2. Ended \subseteq SubId /\ Ended' \subseteq SubId
    BY DEF Ended
  <2> QED
    BY <2>1, <2>2
<1>6. Ledger!Unused(n)
  <2>1. n \notin Ended
    BY DEF Ended, Closed, NoRow
  <2>2. ASSUME NEW v \in User PROVE Open[v] # n
    <3>1. n \notin ActiveSubs(v)
      BY DEF ActiveSubs, NoRow
    <3>2. ActiveSubs(v) = {} => Open[v] = None
      BY OpenIs
    <3>3. \A s \in ActiveSubs(v) : Open[v] = s
      BY OpenIs
    <3> QED
      BY <3>1, <3>2, <3>3
  <2> QED
    BY <2>1, <2>2 DEF Ledger!Unused
<1>7. CASE c = None
  <2>1. Ledger!Enrol(u, n)
    BY <1>1, <1>4, <1>5, <1>6, <1>7 DEF Ledger!Enrol
  <2> QED
    BY <2>1 DEF Ledger!Next
<1>8. CASE c # None
  <2>1. Ledger!Replace(u, n)
    BY <1>1, <1>4, <1>5, <1>6, <1>8 DEF Ledger!Replace
  <2> QED
    BY <2>1 DEF Ledger!Next
<1> QED
  BY <1>7, <1>8

\* The statement-level model implements the ledger.
THEOREM Refinement == Spec => ImplementsLedger
<1> USE ConstantsAssumption
<1>1. Init => Ledger!Init
  <2> SUFFICES ASSUME Init PROVE Ledger!Init
    OBVIOUS
  <2>1. \A u \in User : ActiveSubs(u) = {}
    BY DEF Init, ActiveSubs, NoRow
  <2>2. Open = [u \in User |-> None]
    BY <2>1 DEF Open
  <2>3. Ended = {}
    BY DEF Init, Ended, Closed, NoRow
  <2> QED
    BY <2>2, <2>3 DEF Ledger!Init
<1>2. ASSUME IInv, IInv', [Next]_vars PROVE [Ledger!Next]_(Ledger!vars)
  <2>1. CASE sub' = sub
    <3>1. ASSUME NEW u \in User PROVE Open'[u] = Open[u]
      <4>1. ActiveSubs(u)' = ActiveSubs(u)
        BY <2>1 DEF ActiveSubs
      <4> QED
        BY <4>1 DEF Open
    <3>2. Open' = Open
      <4>1. Open = [u \in User |-> Open[u]] /\ Open' = [u \in User |-> Open'[u]]
        BY DEF Open
      <4> QED
        BY <3>1, <4>1
    <3>3. Ended' = Ended
      BY <2>1 DEF Ended
    <3> QED
      BY <3>2, <3>3 DEF Ledger!vars
  <2>2. CASE sub' # sub
    <3>1. PICK p \in Proc : txn[p].pc = "quota" /\ sub' = Committed(p)
      BY <1>2, <2>2, OnlyCommitsWrite
    <3>2. PICK u \in User, n \in SubId, c \in SubId \cup {None} :
             u = txn[p].user /\ n = txn[p].new /\ c = txn[p].cur
      BY <1>2, <3>1, CommitFacts
    <3>3. /\ sub[n] = NoRow
          /\ ActiveSubs(u) \subseteq {c}
          /\ c # None => c # n /\ sub[c].status = "active" /\ sub[c].user = u
      BY <1>2, <3>1, <3>2, CommitFacts
    <3>4. /\ sub'[n].status = "active" /\ sub'[n].user = u
          /\ c # None => sub'[c].status \in Closed /\ sub'[c].user = u
          /\ \A s \in SubId \ {n, c} : sub'[s] = sub[s]
      BY <1>2, <3>1, <3>2, CommitRows DEF Closed
    <3>5. AtMostOneActive /\ AtMostOneActive'
      BY <1>2 DEF IInv
    <3> QED
      BY <3>3, <3>4, <3>5, CommitIsLedgerStep
  <2> QED
    BY <2>1, <2>2
<1>3. IInv /\ IInv' /\ [Next]_vars => [Ledger!Next]_(Ledger!vars)
  BY <1>2
<1> QED
  BY <1>1, <1>3, Invariance, PTL DEF Spec, ImplementsLedger, Ledger!Spec
=====================================================================================
