---------------------------------- MODULE AccountsProofs ----------------------------------
(***************************************************************************)
(* Theorems about Accounts, for any addresses, threads, workers and calls, *)
(* any accounts registered before, and any number of retries and faults.   *)
(***************************************************************************)
EXTENDS Accounts, SetLemmas, TLAPS

(* Rows and calls *)

LEMMA AccountFields ==
    ASSUME NEW a \in AccountRow \cup {NoAccount}
    PROVE  /\ a.email \in Email \cup {None} /\ a.verified \in BOOLEAN /\ a.password \in Id \cup {None}
           /\ a # NoAccount => a \in AccountRow /\ a.email # None /\ a.password # None
           /\ a = NoAccount => a.email = None /\ a.password = None /\ ~a.verified
<1>1. None \notin Email \cup Id
  BY AccountAssumption
<1>2. CASE a = NoAccount
  <2>1. a.email = None /\ a.password = None /\ a.verified = FALSE
    BY <1>2 DEF NoAccount
  <2> QED
    BY <1>2, <2>1
<1>3. CASE a \in AccountRow
  <2>1. a.email \in Email /\ a.verified \in BOOLEAN /\ a.password \in Id
    BY <1>3 DEF AccountRow
  <2>2. NoAccount.email = None
    BY DEF NoAccount
  <2> QED
    BY <1>1, <1>3, <2>1, <2>2
<1> QED
  BY <1>2, <1>3

LEMMA TokenFields ==
    ASSUME NEW t \in TokenRow \cup {NoToken}
    PROVE  /\ t.kind \in {"verify", "reset", None} /\ t.user \in Id \cup {None} /\ t.used \in BOOLEAN
           /\ t # NoToken => t \in TokenRow /\ t.kind # None /\ t.user # None
           /\ t = NoToken => t.kind = None /\ t.user = None /\ ~t.used
<1>1. None \notin Id \cup {"verify", "reset"}
  BY AccountAssumption
<1>2. CASE t = NoToken
  <2>1. t.kind = None /\ t.user = None /\ t.used = FALSE
    BY <1>2 DEF NoToken
  <2> QED
    BY <1>2, <2>1
<1>3. CASE t \in TokenRow
  <2>1. t.kind \in {"verify", "reset"} /\ t.user \in Id /\ t.used \in BOOLEAN
    BY <1>3 DEF TokenRow
  <2>2. NoToken.kind = None
    BY DEF NoToken
  <2> QED
    BY <1>1, <1>3, <2>1, <2>2
<1> QED
  BY <1>2, <1>3

LEMMA NoCallFields ==
    /\ NoCall \in Call /\ NoCall.pc = "idle" /\ NoCall.op = "none" /\ NoCall.row = NoAccount
    /\ NoTask \notin Task
<1>1. NoCall \in Call
  BY DEF NoCall, Call
<1>2. NoTask.user = None /\ \A k \in Task : k.user \in Id
  BY DEF NoTask, Task
<1>3. None \notin Id
  BY AccountAssumption
<1>4. NoCall.pc = "idle" /\ NoCall.op = "none" /\ NoCall.row = NoAccount
  BY DEF NoCall
<1> QED
  BY <1>1, <1>2, <1>3, <1>4

LEMMA NewIdDrawn == drawn \subseteq Id /\ drawn # Id => NewId \in Id \ drawn
BY DEF NewId

\* What TypeOK says of the rows and the calls one by one.
LEMMA Typed ==
    ASSUME TypeOK
    PROVE  /\ \A u \in Id : account[u] \in AccountRow \cup {NoAccount}
           /\ \A t \in Id : token[t] \in TokenRow \cup {NoToken}
           /\ \A u \in Id : resets[u] \in Nat
           /\ \A p \in Web : call[p] \in Call
           /\ \A w \in Worker : task[w] \in Task \cup {NoTask}
BY DEF TypeOK

------------------------------------------------------------------------------------
(* Steps of calls that write no rows *)

\* The call c may take the place of the call of thread p.
Fits(p, c) ==
    /\ c.pc = "idle" => c = NoCall
    /\ c.pc \in {"insert", "commit"} => c.op = "register"
    /\ c.pc \in {"store", "consume"} => c.op \in {"verify", "reset"}
    /\ c.pc \in {"store", "consume", "save"} => account[c.user] # NoAccount
    /\ c.pc \in {"store", "enqueue", "consume", "save"} => c.user \in Id
    /\ c.pc \in {"enqueue", "consume"} => c.token \in Id
    /\ c.op = "register" => account[c.id] = NoAccount /\ c.email \in Email
    /\ c.op = "register" \/ c.pc = "store" => token[c.id] = NoToken
    /\ c.op = "register" /\ c.pc # "insert" => c.user = c.id /\ c.token = c.id
    /\ c.op = "register" /\ c.pc \in {"enqueue", "commit"} =>
          ~Registered(c.email) /\ \A q \in Web \ {p} : ~Inserted(q, c.email)
    /\ c.pc = "enqueue" => Deliverable(c.user, c.token)
    /\ c.pc = "consume" => /\ token[c.token].kind = c.op /\ token[c.token].user = c.user
                           /\ c.row.verified => account[c.user].verified

\* Its id is the one of before, or new.
IdFits(p, c) ==
    \/ drawn' = drawn /\ (c.pc = "idle" \/ (Busy(p) /\ c.id = call[p].id))
    \/ c.id \in Id \ drawn /\ drawn' = drawn \cup {c.id}

LEMMA CallStep ==
    ASSUME IInv, TypeOK', NEW p \in Web, NEW c \in Call, call' = [call EXCEPT ![p] = c],
           UNCHANGED <<account, token, task, mailed, retired, resets, vouched>>,
           Fits(p, c), IdFits(p, c),
           c.pc = "consume" /\ c.op = "reset" => resets[c.user] = 0,
           \A k \in queue' : k \in queue \/ Deliverable(k.user, k.token)
    PROVE  IInv'
<1>1. /\ TypeOK /\ CallShape /\ IdsUnused /\ RowsNew /\ EmailsClaimed /\ MailSound /\ ReadSound
      /\ TokensOwned /\ ResetsSpent
      /\ OneAccountPerEmail /\ MailedTokensStored /\ VerifiedIffUsed /\ ResetsBounded /\ PasswordGone
  BY DEF IInv
<1>2. call'[p] = c /\ \A q \in Web \ {p} : call'[q] = call[q]
  BY <1>1 DEF TypeOK
<1>3. CallShape'
  BY <1>1, <1>2 DEF CallShape, Fits, Busy
<1>4. IdsUnused'
  <2>1. \A q \in Web : Busy(q) => call[q].id \in drawn
    BY <1>1 DEF IdsUnused
  <2>2. \A q \in Web : Busy(q)' => /\ call'[q].id \in drawn' \ retired
                                   /\ \A u \in Id : account[u].password # call'[q].id
    BY <1>1, <1>2 DEF IdsUnused, IdFits, Busy
  <2>3. \A q, r \in Web : Busy(q)' /\ Busy(r)' /\ call'[q].id = call'[r].id => q = r
    BY <1>1, <1>2, <2>1 DEF IdsUnused, IdFits, Busy
  <2>4. Id \ drawn' \subseteq Id \ drawn
    BY DEF IdFits
  <2> QED
    BY <1>1, <2>2, <2>3, <2>4 DEF IdsUnused
<1>5. RowsNew'
  BY <1>1, <1>2 DEF RowsNew, Fits
<1>6. EmailsClaimed'
  <2>1. \A q \in Web \ {p}, e \in Email : Inserted(q, e)' <=> Inserted(q, e)
    BY <1>2 DEF Inserted
  <2>2. \A e \in Email : Inserted(p, e)' <=>
            c.op = "register" /\ c.pc \in {"enqueue", "commit"} /\ c.email = e
    BY <1>2 DEF Inserted
  <2>3. \A e \in Email : Registered(e)' <=> Registered(e)
    BY DEF Registered
  <2> QED
    BY <1>1, <2>1, <2>2, <2>3 DEF EmailsClaimed, Fits
<1>7. MailSound'
  <2>1. \A q \in Web : call'[q].pc = "enqueue" => Deliverable(call'[q].user, call'[q].token)
    BY <1>1, <1>2 DEF MailSound, Fits
  <2>2. drawn \subseteq drawn'
    BY DEF IdFits
  <2> QED
    BY <1>1, <2>1, <2>2 DEF MailSound, Deliverable
<1>8. ReadSound'
  BY <1>1, <1>2 DEF ReadSound, Fits
<1>9. TokensOwned' /\ ResetsSpent' /\ OneAccountPerEmail' /\ MailedTokensStored' /\ VerifiedIffUsed'
      /\ PasswordGone'
  BY <1>1 DEF TokensOwned, ResetsSpent, OneAccountPerEmail, MailedTokensStored, VerifiedIffUsed, PasswordGone
<1>10. ResetsBounded'
  <2> SUFFICES ASSUME NEW u \in Id PROVE (resets[u] + Cardinality(Confirming(u)) <= Cardinality(Web))'
    BY DEF ResetsBounded
  <2>1. PICK C \in SUBSET Web : C = Confirming(u)
    BY DEF Confirming
  <2>2. PICK D \in SUBSET Web : D = Confirming(u)'
    BY DEF Confirming
  <2>3. /\ Cardinality(C) \in Nat /\ Cardinality(D) \in Nat /\ Cardinality(D) <= Cardinality(Web)
        /\ D \subseteq C => Cardinality(D) <= Cardinality(C)
        /\ resets[u] \in Nat /\ Cardinality(Web) \in Nat
    <3>1. IsFiniteSet(Web)
      BY AccountAssumption
    <3>2. /\ IsFiniteSet(C) /\ Cardinality(C) \in Nat /\ Cardinality(D) \in Nat
          /\ Cardinality(D) <= Cardinality(Web) /\ Cardinality(Web) \in Nat
      BY <3>1, SmallerSet
    <3>3. D \subseteq C => Cardinality(D) <= Cardinality(C)
      BY <3>2, SmallerSet
    <3> QED
      BY <1>1, <3>2, <3>3, Typed
  <2>4. resets[u] + Cardinality(C) <= Cardinality(Web) /\ resets'[u] = resets[u]
    BY <1>1, <2>1 DEF ResetsBounded
  <2>5. D \subseteq C \/ resets[u] = 0
    BY <1>2, <2>1, <2>2 DEF Confirming
  <2> QED
    BY <2>2, <2>3, <2>4, <2>5
<1> QED
  BY <1>3, <1>4, <1>5, <1>6, <1>7, <1>8, <1>9, <1>10 DEF IInv

\* A call may start as r, but for its id.
Starts(r) ==
    /\ r.pc \in {"insert", "store", "consume", "save"}
    /\ r.op = "register" <=> r.pc = "insert"
    /\ r.pc = "insert" => r.email \in Email
    /\ r.pc \in {"store", "consume"} => r.op \in {"verify", "reset"}
    /\ r.pc # "insert" => r.user \in Id /\ account[r.user] # NoAccount
    /\ r.pc = "consume" => /\ r.token \in Id /\ token[r.token].kind = r.op /\ token[r.token].user = r.user
                           /\ r.row.verified => account[r.user].verified
                           /\ r.op = "reset" => resets[r.user] = 0

LEMMA StartStep ==
    ASSUME IInv, NEW p \in Web, NEW r \in Call, Start(p, r), Starts(r)
    PROVE  IInv'
<1>1. TypeOK /\ IdsUnused
  BY DEF IInv
<1>2. PICK i \in Id \ drawn : i = NewId
  BY <1>1, NewIdDrawn DEF Start, TypeOK
<1>3. PICK c : c = [r EXCEPT !.id = i]
  OBVIOUS
<1>4. /\ call' = [call EXCEPT ![p] = c] /\ drawn' = drawn \cup {i}
      /\ UNCHANGED <<account, token, queue, task, mailed, failures, crashes, retired, resets, vouched>>
  BY <1>2, <1>3 DEF Start, Goto
<1>5. /\ c \in Call /\ c.id = i /\ c.pc = r.pc /\ c.op = r.op /\ c.email = r.email
      /\ c.user = r.user /\ c.token = r.token /\ c.row = r.row
  <2>1. c \in Call
    BY <1>3 DEF Call
  <2>2. /\ c.id = i /\ c.pc = r.pc /\ c.op = r.op /\ c.email = r.email
        /\ c.user = r.user /\ c.token = r.token /\ c.row = r.row
    BY <1>3 DEF Call
  <2> QED
    BY <2>1, <2>2
<1>6. TypeOK'
  BY <1>1, <1>4, <1>5 DEF TypeOK
<1>7. account[i] = NoAccount /\ token[i] = NoToken
  BY <1>1 DEF IdsUnused
<1>8. Fits(p, c)
  BY <1>5, <1>7 DEF Fits, Starts
<1>9. IdFits(p, c)
  BY <1>4, <1>5 DEF IdFits
<1>10. c.pc = "consume" /\ c.op = "reset" => resets[c.user] = 0
  BY <1>5 DEF Starts
<1> QED
  BY <1>4, <1>5, <1>6, <1>8, <1>9, <1>10, CallStep

LEMMA RegisterStep ==
    ASSUME IInv, NEW p \in Web, NEW e \in Email, Register(p, e)
    PROVE  IInv'
<1>1. PICK r : r = [NoCall EXCEPT !.pc = "insert", !.op = "register", !.email = e]
  OBVIOUS
<1>2. r \in Call
  BY <1>1, NoCallFields DEF Call
<1>3. r.pc = "insert" /\ r.op = "register" /\ r.email = e
  BY <1>1 DEF NoCall
<1> QED
  BY <1>1, <1>2, <1>3, StartStep DEF Register, Starts

LEMMA RequestStep ==
    ASSUME IInv, NEW p \in Web, NEW u \in Id, NEW kind \in {"verify", "reset"}, Request(p, u, kind)
    PROVE  IInv'
<1>1. PICK r : r = [NoCall EXCEPT !.pc = "store", !.op = kind, !.user = u]
  OBVIOUS
<1>2. r \in Call
  BY <1>1, NoCallFields DEF Call
<1>3. r.pc = "store" /\ r.op = kind /\ r.user = u
  BY <1>1 DEF NoCall
<1> QED
  BY <1>1, <1>2, <1>3, StartStep DEF Request, Starts

LEMMA ChangePasswordStep ==
    ASSUME IInv, NEW p \in Web, NEW u \in Id, ChangePassword(p, u)
    PROVE  IInv'
<1>1. PICK r : r = [NoCall EXCEPT !.pc = "save", !.op = "password", !.user = u]
  OBVIOUS
<1>2. r \in Call
  BY <1>1, NoCallFields DEF Call
<1>3. r.pc = "save" /\ r.op = "password" /\ r.user = u
  BY <1>1 DEF NoCall
<1>4. account[u] # NoAccount
  BY DEF ChangePassword, NoAccount
<1> QED
  BY <1>1, <1>2, <1>3, <1>4, StartStep DEF ChangePassword, Starts

LEMMA PresentStep ==
    ASSUME IInv, NEW p \in Web, NEW t \in Id, Present(p, t)
    PROVE  IInv'
<1>1. TypeOK /\ MailedTokensStored /\ TokensOwned /\ ResetsSpent
  BY DEF IInv
<1>2. t \in mailed /\ ~token[t].used
  BY DEF Present, IsValid
<1>3. PICK k \in TokenRow : k = token[t]
  BY <1>1, <1>2, Typed DEF MailedTokensStored
<1>4. /\ k.kind \in {"verify", "reset"} /\ k.user \in Id
      /\ account[k.user] # NoAccount /\ account[k.user] \in AccountRow \cup {NoAccount}
      /\ k.kind = "reset" => resets[k.user] = 0
  BY <1>1, <1>2, <1>3, Typed DEF TokenRow, MailedTokensStored, ResetsSpent
<1>5. PICK r : r = [NoCall EXCEPT !.pc = "consume", !.op = k.kind, !.token = t,
                                  !.user = k.user, !.row = account[k.user]]
  OBVIOUS
<1>6. r \in Call
  BY <1>4, <1>5, NoCallFields DEF Call
<1>7. /\ r.pc = "consume" /\ r.op = k.kind /\ r.token = t /\ r.user = k.user
      /\ r.row = account[k.user]
  BY <1>5 DEF NoCall
<1>8. Start(p, r)
  BY <1>3, <1>5 DEF Present
<1>9. Starts(r)
  BY <1>3, <1>4, <1>7 DEF Starts
<1> QED
  BY <1>6, <1>8, <1>9, StartStep

\* A call that ends, whatever it has done, fits.
LEMMA EndFits ==
    ASSUME NEW p \in Web, drawn' = drawn
    PROVE  NoCall \in Call /\ Fits(p, NoCall) /\ IdFits(p, NoCall) /\ NoCall.pc # "consume"
BY NoCallFields DEF Fits, IdFits

LEMMA CrashStep ==
    ASSUME IInv, NEW p \in Web, Crash(p)
    PROVE  IInv'
<1>1. TypeOK'
  BY NoCallFields DEF IInv, TypeOK, Crash, Goto
<1> QED
  BY <1>1, EndFits, CallStep DEF Crash, Goto

LEMMA InsertUserStep ==
    ASSUME IInv, NEW p \in Web, InsertUser(p)
    PROVE  IInv'
<1>1. TypeOK /\ CallShape /\ IdsUnused /\ RowsNew
  BY DEF IInv
<1>2. PICK c \in Call : c = call[p] /\ c.pc = "insert"
  BY <1>1, Typed DEF InsertUser
<1>3. PICK d : d = [c EXCEPT !.pc = "enqueue", !.user = c.id, !.token = c.id]
  OBVIOUS
<1>4. d \in Call
  BY <1>2, <1>3 DEF Call
<1>5. /\ d.pc = "enqueue" /\ d.user = c.id /\ d.token = c.id /\ d.id = c.id /\ d.op = c.op
      /\ d.email = c.email
  BY <1>2, <1>3 DEF Call
<1>6. UNCHANGED <<account, token, queue, task, mailed, drawn, failures, crashes, retired, resets, vouched>>
  BY DEF InsertUser
<1>7. CASE call' = [call EXCEPT ![p] = NoCall]
  <2>1. TypeOK'
    BY <1>1, <1>6, <1>7, NoCallFields DEF TypeOK
  <2> QED
    BY <1>6, <1>7, <2>1, EndFits, CallStep
<1>8. CASE /\ ~Registered(c.email) /\ \A q \in Web \ {p} : ~Inserted(q, c.email)
           /\ call' = [call EXCEPT ![p] = d]
  <2>1. TypeOK'
    BY <1>1, <1>4, <1>6, <1>8 DEF TypeOK
  <2>2. c.op = "register" /\ account[c.id] = NoAccount /\ token[c.id] = NoToken /\ c.email \in Email
    BY <1>1, <1>2 DEF CallShape, RowsNew
  <2>3. Fits(p, d)
    BY <1>1, <1>2, <1>5, <1>8, <2>2 DEF Fits, Deliverable, TypeOK, IdsUnused, Busy
  <2>4. IdFits(p, d)
    BY <1>2, <1>5, <1>6 DEF IdFits, Busy
  <2> QED
    BY <1>4, <1>5, <1>6, <1>8, <2>1, <2>3, <2>4, CallStep
<1> QED
  BY <1>2, <1>3, <1>7, <1>8 DEF InsertUser, Goto

LEMMA EnqueueStep ==
    ASSUME IInv, NEW p \in Web, Enqueue(p)
    PROVE  IInv'
<1>1. TypeOK /\ CallShape /\ RowsNew /\ EmailsClaimed /\ MailSound
  BY DEF IInv
<1>2. PICK c \in Call : c = call[p] /\ c.pc = "enqueue"
  BY <1>1, Typed DEF Enqueue
<1>3. PICK d : d = [c EXCEPT !.pc = "commit"]
  OBVIOUS
<1>4. d \in Call
  BY <1>2, <1>3 DEF Call
<1>5. /\ d.pc = "commit" /\ d.user = c.user /\ d.token = c.token /\ d.id = c.id /\ d.op = c.op
      /\ d.email = c.email
  BY <1>2, <1>3 DEF Call
<1>6. UNCHANGED <<account, token, task, mailed, drawn, failures, crashes, retired, resets, vouched>>
  BY DEF Enqueue
<1>7. PICK k : k = [user |-> c.user, token |-> c.token, tries |-> 0]
  OBVIOUS
<1>8. queue' = queue \cup {k} /\ k.user = c.user /\ k.token = c.token
  BY <1>2, <1>7 DEF Enqueue
<1>9. Deliverable(c.user, c.token)
  BY <1>1, <1>2 DEF MailSound
<1>10. k \in Task
  <2>1. 0 \in 0 .. MaxRetries
    BY AccountAssumption
  <2> QED
    BY <1>1, <1>2, <1>7, <2>1 DEF CallShape, Task
<1>11. \A x \in queue' : x \in queue \/ Deliverable(x.user, x.token)
  BY <1>8, <1>9
<1>12. CASE call' = [call EXCEPT ![p] = NoCall]
  <2>1. TypeOK'
    BY <1>1, <1>6, <1>8, <1>10, <1>12, NoCallFields DEF TypeOK
  <2> QED
    BY <1>6, <1>11, <1>12, <2>1, EndFits, CallStep
<1>13. CASE c.op = "register" /\ call' = [call EXCEPT ![p] = d]
  <2>1. TypeOK'
    BY <1>1, <1>4, <1>6, <1>8, <1>10, <1>13 DEF TypeOK
  <2>2. /\ account[c.id] = NoAccount /\ token[c.id] = NoToken /\ c.email \in Email
        /\ c.user = c.id /\ c.token = c.id
    BY <1>1, <1>2, <1>13 DEF RowsNew
  <2>3. ~Registered(c.email) /\ \A q \in Web \ {p} : ~Inserted(q, c.email)
    BY <1>1, <1>2, <1>13, <2>2 DEF EmailsClaimed, Inserted
  <2>4. Fits(p, d)
    BY <1>1, <1>2, <1>5, <1>13, <2>2, <2>3 DEF Fits, CallShape
  <2>5. IdFits(p, d)
    BY <1>2, <1>5, <1>6 DEF IdFits, Busy
  <2> QED
    BY <1>4, <1>5, <1>6, <1>11, <1>13, <2>1, <2>4, <2>5, CallStep
<1> QED
  BY <1>2, <1>3, <1>12, <1>13 DEF Enqueue, Goto

------------------------------------------------------------------------------------
(* Steps of workers *)

LEMMA WorkerStep ==
    ASSUME IInv, TypeOK', UNCHANGED <<account, token, call, drawn, retired, resets, vouched>>,
           \A k \in queue' : Deliverable(k.user, k.token),
           \A w \in Worker : task'[w] # NoTask =>
              account[task'[w].user] # NoAccount /\ Deliverable(task'[w].user, task'[w].token),
           \A t \in mailed' : token[t] # NoToken /\ account[token[t].user] # NoAccount
    PROVE  IInv'
<1>1. /\ TypeOK /\ CallShape /\ IdsUnused /\ RowsNew /\ EmailsClaimed /\ MailSound /\ ReadSound
      /\ TokensOwned /\ ResetsSpent
      /\ OneAccountPerEmail /\ MailedTokensStored /\ VerifiedIffUsed /\ ResetsBounded /\ PasswordGone
  BY DEF IInv
<1>2. CallShape' /\ IdsUnused' /\ RowsNew' /\ ReadSound' /\ TokensOwned' /\ ResetsSpent'
  BY <1>1 DEF CallShape, IdsUnused, RowsNew, ReadSound, TokensOwned, ResetsSpent, Busy
<1>3. EmailsClaimed' /\ OneAccountPerEmail' /\ VerifiedIffUsed' /\ PasswordGone'
  BY <1>1 DEF EmailsClaimed, Inserted, Registered, OneAccountPerEmail, VerifiedIffUsed, PasswordGone
<1>4. ResetsBounded'
  BY <1>1 DEF ResetsBounded, Confirming
<1>5. MailSound'
  BY <1>1 DEF MailSound, Deliverable
<1>6. MailedTokensStored'
  BY DEF MailedTokensStored, Deliverable
<1> QED
  BY <1>2, <1>3, <1>4, <1>5, <1>6 DEF IInv

\* What is queued and what is at work is deliverable, what was mailed is stored.
LEMMA Mail ==
    ASSUME IInv
    PROVE  /\ \A k \in queue : k \in Task /\ Deliverable(k.user, k.token)
           /\ \A w \in Worker : task[w] # NoTask =>
                 /\ task[w] \in Task /\ account[task[w].user] # NoAccount
                 /\ Deliverable(task[w].user, task[w].token)
           /\ \A t \in mailed : token[t] # NoToken /\ account[token[t].user] # NoAccount
BY Typed DEF IInv, TypeOK, MailSound, MailedTokensStored

LEMMA TakeTaskStep ==
    ASSUME IInv, NEW w \in Worker, TakeTask(w)
    PROVE  IInv'
<1>1. TypeOK /\ UNCHANGED <<account, token, mailed, call, drawn, failures, crashes, retired, resets, vouched>>
  BY DEF IInv, TakeTask
<1>2. PICK k \in queue : /\ queue' = queue \ {k}
                         /\ \/ account[k.user] # NoAccount /\ task' = [task EXCEPT ![w] = k]
                            \/ UNCHANGED task
  BY DEF TakeTask
<1>3. TypeOK'
  BY <1>1, <1>2 DEF TypeOK
<1>4. \A x \in Worker : task'[x] # NoTask =>
          account[task'[x].user] # NoAccount /\ Deliverable(task'[x].user, task'[x].token)
  <2>1. \A x \in Worker : task'[x] = task[x] \/ (task'[x] = k /\ account[k.user] # NoAccount)
    BY <1>1, <1>2 DEF TypeOK
  <2> QED
    BY <1>2, <2>1, Mail
<1> QED
  BY <1>1, <1>2, <1>3, <1>4, Mail, WorkerStep

\* A worker that has done with its task, or lost it, may have put it back and mailed it.
LEMMA TaskEnds ==
    ASSUME IInv, TypeOK', NEW w \in Worker, task' = [task EXCEPT ![w] = NoTask],
           UNCHANGED <<account, token, call, drawn, retired, resets, vouched>>,
           \A k \in queue' : k \in queue \/ (k.user = task[w].user /\ k.token = task[w].token),
           task[w] # NoTask, mailed' \subseteq mailed \cup {task[w].token}
    PROVE  IInv'
<1>1. \A x \in Worker : task'[x] = NoTask \/ task'[x] = task[x]
  BY DEF IInv, TypeOK
<1>2. account[task[w].user] # NoAccount /\ Deliverable(task[w].user, task[w].token)
  BY Mail
<1>3. token[task[w].token] # NoToken /\ account[token[task[w].token].user] # NoAccount
  BY <1>2 DEF Deliverable
<1>4. \A k \in queue' : Deliverable(k.user, k.token)
  BY <1>2, Mail
<1>5. \A x \in Worker : task'[x] # NoTask =>
          account[task'[x].user] # NoAccount /\ Deliverable(task'[x].user, task'[x].token)
  BY <1>1, Mail
<1>6. \A t \in mailed' : token[t] # NoToken /\ account[token[t].user] # NoAccount
  BY <1>3, Mail
<1> QED
  BY <1>4, <1>5, <1>6, WorkerStep

LEMMA SendMailStep ==
    ASSUME IInv, NEW w \in Worker, SendMail(w)
    PROVE  IInv'
<1>1. TypeOK /\ task[w] # NoTask /\ task[w] \in Task
  BY Typed DEF IInv, SendMail
<1>2. task[w].token \in Id
  BY <1>1 DEF Task
<1>3. TypeOK'
  BY <1>1, <1>2 DEF TypeOK, SendMail
<1> QED
  BY <1>1, <1>3, TaskEnds DEF SendMail

LEMMA SmtpErrorStep ==
    ASSUME IInv, NEW w \in Worker, SmtpError(w)
    PROVE  IInv'
<1>1. TypeOK /\ task[w] # NoTask
  BY DEF IInv, SmtpError
<1>2. PICK k \in Task : k = task[w]
  BY <1>1, Typed
<1>3. PICK r : r = [k EXCEPT !.tries = @ + 1]
  OBVIOUS
<1>4. r.user = k.user /\ r.token = k.token
  BY <1>3 DEF Task
<1>5. \/ queue' = queue \cup {r} /\ r \in Task
      \/ queue' = queue
  <2>1. k.tries < MaxRetries => k.tries + 1 \in 0 .. MaxRetries
    <3>1. k.tries \in 0 .. MaxRetries
      BY DEF Task
    <3> QED
      BY <3>1, AccountAssumption
  <2>2. k.tries < MaxRetries => r \in Task
    BY <1>3, <2>1 DEF Task
  <2> QED
    BY <1>2, <1>3, <2>2 DEF SmtpError
<1>6. TypeOK'
  BY <1>1, <1>5 DEF TypeOK, SmtpError
<1>7. \A x \in queue' : x \in queue \/ (x.user = task[w].user /\ x.token = task[w].token)
  BY <1>2, <1>4, <1>5
<1> QED
  BY <1>1, <1>6, <1>7, TaskEnds DEF SmtpError

LEMMA KillWorkerStep ==
    ASSUME IInv, NEW w \in Worker, KillWorker(w)
    PROVE  IInv'
<1>1. TypeOK'
  BY DEF IInv, TypeOK, KillWorker
<1> QED
  BY <1>1, TaskEnds DEF KillWorker

------------------------------------------------------------------------------------
(* Steps that write rows *)

\* Rows stay, with their kind and user; who is new comes with a token.
Grows ==
    /\ \A u \in Id : account[u] # NoAccount =>
          account'[u] # NoAccount /\ (account[u].verified => account'[u].verified)
    /\ \A u \in Id : account[u] = NoAccount /\ account'[u] # NoAccount =>
          token'[u] # NoToken /\ token'[u].user = u
    /\ \A t \in Id : token[t] # NoToken =>
          token'[t] # NoToken /\ token'[t].kind = token[t].kind /\ token'[t].user = token[t].user

\* Only what has the id i is new: a row, or a password.
OnlyNew(i) ==
    /\ \A j \in Id \ {i} : account[j] = NoAccount => account'[j] = NoAccount
    /\ \A j \in Id \ {i} : token[j] = NoToken => token'[j] = NoToken
    /\ \A j \in Id \ {i}, u \in Id : account'[u].password = j => account[u].password = j
    /\ \A j \in Id : j \in retired' => j \in retired \/ \E u \in Id : account[u].password = j
    /\ \A u, v \in Id : account'[u] # NoAccount /\ account'[u].password = account'[v].password => u = v

\* The call ends, or it goes on to deliver the token it has stored.
Written(p, c) ==
    \/ c = NoCall
    \/ /\ c.pc = "enqueue" /\ c.op \in {"verify", "reset"} /\ c.id = call[p].id
       /\ c.user \in Id /\ c.token \in Id
       /\ account[c.user] # NoAccount /\ token'[c.token] # NoToken /\ token'[c.token].user = c.user
       /\ account' = account /\ retired' = retired

LEMMA RowStep ==
    ASSUME IInv, TypeOK', NEW p \in Web, Busy(p), NEW c \in Call, call' = [call EXCEPT ![p] = c],
           UNCHANGED <<queue, task, mailed, drawn>>, Written(p, c), Grows, OnlyNew(call[p].id)
    PROVE  CallShape' /\ IdsUnused' /\ RowsNew' /\ MailSound' /\ ReadSound' /\ MailedTokensStored'
<1>1. TypeOK /\ CallShape /\ IdsUnused /\ RowsNew /\ MailSound /\ ReadSound /\ MailedTokensStored
  BY DEF IInv
<1>2. call'[p] = c /\ \A q \in Web \ {p} : call'[q] = call[q]
  BY <1>1 DEF TypeOK
<1>3. c = NoCall \/ (c.pc = "enqueue" /\ c.op \in {"verify", "reset"} /\ c.user \in Id /\ c.token \in Id)
  BY DEF Written
<1>4. call[p].id \in drawn /\ drawn \subseteq Id /\ drawn' = drawn
  BY <1>1 DEF IdsUnused, TypeOK
<1>5. \A q \in Web \ {p} : Busy(q) => call[q].id \in Id \ {call[p].id}
  BY <1>1, <1>4 DEF IdsUnused
<1>6. CallShape'
  <2>1. \A u \in Id : account[u] # NoAccount => account'[u] # NoAccount
    BY DEF Grows
  <2>2. ASSUME NEW q \in Web
        PROVE  /\ ~Busy(q)' => call'[q] = NoCall
               /\ call'[q].pc \in {"insert", "commit"} => call'[q].op = "register"
               /\ call'[q].pc \in {"store", "consume"} => call'[q].op \in {"verify", "reset"}
               /\ call'[q].pc \in {"store", "consume", "save"} => account'[call'[q].user] # NoAccount
               /\ call'[q].pc \in {"store", "enqueue", "consume", "save"} => call'[q].user \in Id
               /\ call'[q].pc \in {"enqueue", "consume"} => call'[q].token \in Id
    <3>1. CASE q = p
      BY <1>2, <1>3, <3>1, NoCallFields DEF Busy
    <3>2. CASE q # p
      BY <1>1, <1>2, <2>1, <3>2 DEF CallShape, Busy
    <3> QED
      BY <3>1, <3>2
  <2> QED
    BY <2>2 DEF CallShape
<1>7. IdsUnused'
  <2>1. ASSUME NEW q \in Web, call'[q].pc # "idle"
        PROVE  /\ call'[q].id \in drawn \ retired' /\ Busy(q) /\ call'[q].id = call[q].id
               /\ \A u \in Id : account'[u].password # call'[q].id
    <3>1. CASE q = p
      BY <1>1, <1>2, <2>1, <3>1, NoCallFields DEF IdsUnused, Written
    <3>2. CASE q # p
      <4>1. PICK j \in Id : j = call[q].id
        BY <1>2, <1>5, <2>1, <3>2 DEF Busy
      <4>2. j # call[p].id /\ j \in drawn \ retired /\ \A u \in Id : account[u].password # j
        BY <1>1, <1>2, <1>5, <2>1, <3>2, <4>1 DEF IdsUnused, Busy
      <4>3. j \notin retired' /\ \A u \in Id : account'[u].password # j
        BY <4>2 DEF OnlyNew
      <4> QED
        BY <1>2, <2>1, <3>2, <4>1, <4>2, <4>3 DEF Busy
    <3> QED
      BY <3>1, <3>2
  <2>2. \A q, r \in Web : Busy(q)' /\ Busy(r)' /\ call'[q].id = call'[r].id => q = r
    BY <1>1, <2>1 DEF IdsUnused, Busy
  <2>3. ASSUME NEW j \in Id \ drawn
        PROVE  /\ account'[j] = NoAccount /\ token'[j] = NoToken /\ j \notin retired'
               /\ \A u \in Id : account'[u].password # j
    <3>1. /\ j # call[p].id /\ account[j] = NoAccount /\ token[j] = NoToken /\ j \notin retired
          /\ \A u \in Id : account[u].password # j
      BY <1>1, <1>4 DEF IdsUnused
    <3> QED
      BY <3>1 DEF OnlyNew
  <2>4. \A u, v \in Id : account'[u] # NoAccount /\ account'[u].password = account'[v].password => u = v
    BY DEF OnlyNew
  <2> QED
    BY <1>4, <2>1, <2>2, <2>3, <2>4 DEF IdsUnused, Busy
<1>8. RowsNew'
  <2>1. ASSUME NEW q \in Web \ {p}, NEW j, j = call[q].id, call[q].op = "register" \/ call[q].pc = "store"
        PROVE  /\ account[j] = NoAccount => account'[j] = NoAccount
               /\ token[j] = NoToken => token'[j] = NoToken
    <3>1. Busy(q)
      BY <1>1, <2>1, NoCallFields DEF CallShape, Busy
    <3> QED
      BY <1>5, <2>1, <3>1 DEF OnlyNew
  <2>2. c.op # "register" /\ c.pc # "store"
    BY <1>3, NoCallFields
  <2> QED
    BY <1>1, <1>2, <2>1, <2>2 DEF RowsNew
<1>9. ASSUME NEW u \in Id, NEW t \in Id, Deliverable(u, t)
      PROVE  Deliverable(u, t)'
  BY <1>9 DEF Deliverable, Grows
<1>10. MailSound'
  <2>1. ASSUME NEW q \in Web, call'[q].pc = "enqueue"
        PROVE  Deliverable(call[q].user, call[q].token)' 
    <3>1. PICK u \in Id, t \in Id : u = call'[q].user /\ t = call'[q].token
      BY <1>1, <1>2, <1>3, <2>1, NoCallFields DEF CallShape
    <3>2. CASE q = p
      <4>1. account[u] # NoAccount /\ token'[t] # NoToken /\ token'[t].user = u
        BY <1>2, <2>1, <3>1, <3>2, NoCallFields DEF Written
      <4>2. Deliverable(u, t)'
        BY <4>1 DEF Deliverable, Grows
      <4> QED
        BY <3>1, <4>2 DEF Deliverable
    <3>3. CASE q # p
      <4>1. Deliverable(u, t)
        BY <1>1, <1>2, <2>1, <3>1, <3>3 DEF MailSound
      <4>2. Deliverable(u, t)'
        BY <1>9, <4>1
      <4> QED
        BY <3>1, <4>2 DEF Deliverable
    <3> QED
      BY <3>2, <3>3
  <2>2. \A k \in queue : Deliverable(k.user, k.token)'
    <3> SUFFICES ASSUME NEW k \in queue PROVE Deliverable(k.user, k.token)'
      OBVIOUS
    <3>1. k.user \in Id /\ k.token \in Id
      BY <1>1 DEF TypeOK, Task
    <3> QED
      BY <1>1, <1>9, <3>1 DEF MailSound
  <2>3. ASSUME NEW w \in Worker, task[w] # NoTask
        PROVE  account'[task[w].user] # NoAccount /\ Deliverable(task[w].user, task[w].token)'
    <3>1. PICK k \in Task : k = task[w]
      BY <1>1, <2>3, Typed
    <3>2. k.user \in Id /\ k.token \in Id /\ account[k.user] # NoAccount /\ Deliverable(k.user, k.token)
      BY <1>1, <2>3, <3>1 DEF MailSound, Task
    <3>3. account'[k.user] # NoAccount /\ Deliverable(k.user, k.token)'
      BY <1>9, <3>2 DEF Grows
    <3> QED
      BY <3>1, <3>3 DEF Deliverable
  <2> QED
    BY <2>1, <2>2, <2>3 DEF MailSound, Deliverable
<1>11. ReadSound'
  <2>1. ASSUME NEW q \in Web \ {p}, call[q].pc = "consume"
        PROVE  /\ token'[call[q].token].kind = call[q].op /\ token'[call[q].token].user = call[q].user
               /\ call[q].row.verified => account'[call[q].user].verified
    <3>1. PICK r \in Call : r = call[q]
      BY <1>1, Typed
    <3>2. /\ r.token \in Id /\ r.user \in Id /\ account[r.user] # NoAccount
          /\ r.op \in {"verify", "reset"} /\ token[r.token].kind = r.op /\ token[r.token].user = r.user
          /\ r.row.verified => account[r.user].verified
      BY <1>1, <2>1, <3>1 DEF CallShape, ReadSound
    <3>3. token[r.token] # NoToken
      <4>1. NoToken.kind \notin {"verify", "reset"}
        BY AccountAssumption DEF NoToken
      <4> QED
        BY <3>2, <4>1
    <3>4. /\ token'[r.token].kind = r.op /\ token'[r.token].user = r.user
          /\ r.row.verified => account'[r.user].verified
      BY <3>2, <3>3 DEF Grows
    <3> QED
      BY <3>1, <3>4
  <2>2. c.pc # "consume"
    BY <1>3, NoCallFields
  <2> QED
    BY <1>2, <2>1, <2>2 DEF ReadSound
<1>12. MailedTokensStored'
  <2>1. \A t \in mailed : token'[t] # NoToken /\ account'[token'[t].user] # NoAccount
    BY <1>1, Typed, TokenFields DEF MailedTokensStored, Grows, TypeOK
  <2>2. ASSUME NEW w \in Worker, task[w] # NoTask
        PROVE  token'[task[w].token].user = task[w].user
    <3>1. PICK k \in Task : k = task[w]
      BY <1>1, <2>2, Typed
    <3>2. k.token \in Id /\ token[k.token] # NoToken /\ token[k.token].user = k.user
      BY <1>1, <2>2, <3>1 DEF MailSound, Deliverable, Task
    <3> QED
      BY <3>1, <3>2 DEF Grows
  <2> QED
    BY <2>1, <2>2 DEF MailedTokensStored
<1> QED
  BY <1>6, <1>7, <1>8, <1>10, <1>11, <1>12

\* The addresses of the accounts stay, and no registration inserts.
LEMMA EmailsKept ==
    ASSUME IInv, NEW p \in Web, NEW c \in Call, call' = [call EXCEPT ![p] = c], c.op # "register",
           \A u \in Id : account'[u].email = account[u].email,
           \A u \in Id : account'[u] # NoAccount => account[u] # NoAccount
    PROVE  EmailsClaimed' /\ OneAccountPerEmail'
<1>1. TypeOK /\ EmailsClaimed /\ OneAccountPerEmail
  BY DEF IInv
<1>2. call'[p] = c /\ \A q \in Web \ {p} : call'[q] = call[q]
  BY <1>1 DEF TypeOK
<1>3. \A e \in Email : Registered(e)' <=> Registered(e)
  BY DEF Registered
<1>4. \A q \in Web, e \in Email : Inserted(q, e)' => Inserted(q, e)
  BY <1>2 DEF Inserted
<1>5. EmailsClaimed'
  BY <1>1, <1>3, <1>4 DEF EmailsClaimed
<1> QED
  BY <1>1, <1>5 DEF OneAccountPerEmail

\* A reset is one more, and one confirmation less.
LEMMA ResetsCounted ==
    ASSUME IInv, NEW p \in Web, NEW c \in Call, call' = [call EXCEPT ![p] = c], c.pc # "consume",
           \A u \in Id : /\ resets'[u] \in Nat
                         /\ resets'[u] <= resets[u] \/ (resets'[u] = resets[u] + 1 /\ p \in Confirming(u))
    PROVE  ResetsBounded'
<1> SUFFICES ASSUME NEW u \in Id PROVE (resets[u] + Cardinality(Confirming(u)) <= Cardinality(Web))'
  BY DEF ResetsBounded
<1>1. TypeOK /\ ResetsBounded
  BY DEF IInv
<1>2. call'[p] = c /\ \A q \in Web \ {p} : call'[q] = call[q]
  BY <1>1 DEF TypeOK
<1>3. PICK C \in SUBSET Web : C = Confirming(u)
  BY DEF Confirming
<1>4. PICK D \in SUBSET Web : D = Confirming(u)'
  BY DEF Confirming
<1>5. D \subseteq C \ {p}
  BY <1>2, <1>3, <1>4 DEF Confirming
<1>6. PICK r \in Nat, s \in Nat :
         /\ r = resets[u] /\ s = resets'[u] /\ r + Cardinality(C) <= Cardinality(Web)
         /\ s <= r \/ (s = r + 1 /\ p \in C)
  BY <1>1, <1>3, Typed DEF ResetsBounded
<1>7. IsFiniteSet(Web)
  BY AccountAssumption
<1>8. /\ IsFiniteSet(C) /\ Cardinality(C) \in Nat /\ Cardinality(D) \in Nat /\ Cardinality(Web) \in Nat
      /\ Cardinality(D) <= Cardinality(C)
  <2>1. IsFiniteSet(C) /\ Cardinality(C) \in Nat /\ Cardinality(D) \in Nat /\ Cardinality(Web) \in Nat
    BY <1>7, SmallerSet
  <2>2. Cardinality(D) <= Cardinality(C)
    BY <1>5, <2>1, SmallerSet
  <2> QED
    BY <2>1, <2>2
<1>9. p \in C => Cardinality(D) + 1 <= Cardinality(C)
  <2> SUFFICES ASSUME p \in C PROVE Cardinality(D) + 1 <= Cardinality(C)
    OBVIOUS
  <2>1. /\ IsFiniteSet(C \ {p}) /\ Cardinality(C \ {p}) \in Nat
        /\ Cardinality(C) = Cardinality(C \ {p}) + 1
    BY <1>8, WithoutElement
  <2>2. Cardinality(D) <= Cardinality(C \ {p})
    BY <1>5, <2>1, SmallerSet
  <2> QED
    BY <1>8, <2>1, <2>2
<1>10. s + Cardinality(D) <= Cardinality(Web)
  BY <1>6, <1>8, <1>9
<1> QED
  BY <1>4, <1>6, <1>10

LEMMA StoreTokenStep ==
    ASSUME IInv, NEW p \in Web, StoreToken(p)
    PROVE  IInv'
<1>1. /\ TypeOK /\ CallShape /\ IdsUnused /\ RowsNew
      /\ TokensOwned /\ ResetsSpent /\ VerifiedIffUsed /\ PasswordGone
  BY DEF IInv
<1>2. PICK c \in Call : c = call[p] /\ c.pc = "store"
  BY <1>1, Typed DEF StoreToken
<1>3. PICK t \in Id, u \in Id, k \in {"verify", "reset"} : t = c.id /\ u = c.user /\ k = c.op
  BY <1>1, <1>2 DEF CallShape, IdsUnused, Busy, TypeOK
<1>4. PICK n : n = [kind |-> k, user |-> u, used |-> FALSE, expired |-> FALSE]
  OBVIOUS
<1>5. PICK d : d = [c EXCEPT !.pc = "enqueue", !.token = t]
  OBVIOUS
<1>6. n \in TokenRow /\ n.kind = k /\ n.user = u /\ ~n.used
  BY <1>4 DEF TokenRow
<1>7. n # NoToken
  <2>1. NoToken.kind = None
    BY DEF NoToken
  <2> QED
    BY <1>6, <2>1, AccountAssumption
<1>8. /\ d \in Call /\ d.pc = "enqueue" /\ d.op = k /\ d.id = t /\ d.user = u /\ d.token = t
  <2>1. d \in Call
    BY <1>2, <1>3, <1>5 DEF Call
  <2>2. d.pc = "enqueue" /\ d.op = k /\ d.id = t /\ d.user = u /\ d.token = t
    BY <1>2, <1>3, <1>5 DEF Call
  <2> QED
    BY <2>1, <2>2
<1>9. /\ token' = [token EXCEPT ![t] = n] /\ call' = [call EXCEPT ![p] = d]
      /\ resets' = IF k = "reset" THEN [resets EXCEPT ![u] = 0] ELSE resets
      /\ UNCHANGED <<account, queue, task, mailed, drawn, failures, crashes, retired, vouched>>
  BY <1>2, <1>3, <1>4, <1>5 DEF StoreToken, Goto
<1>10. account[u] # NoAccount /\ token[t] = NoToken
  BY <1>1, <1>2, <1>3 DEF CallShape, RowsNew
<1>11. token'[t] = n /\ \A x \in Id \ {t} : token'[x] = token[x]
  BY <1>1, <1>9 DEF TypeOK
<1>12. TypeOK'
  BY <1>1, <1>6, <1>8, <1>9 DEF TypeOK
<1>13. \A x \in Id : token[x] # NoToken => token'[x] = token[x]
  BY <1>10, <1>11
<1>14. Grows /\ OnlyNew(t) /\ Written(p, d)
  <2>1. Grows
    BY <1>9, <1>13 DEF Grows
  <2>2. OnlyNew(t)
    BY <1>1, <1>9, <1>11 DEF OnlyNew, IdsUnused
  <2>3. Written(p, d)
    BY <1>2, <1>3, <1>6, <1>7, <1>8, <1>9, <1>10, <1>11 DEF Written
  <2> QED
    BY <2>1, <2>2, <2>3
<1>15. CallShape' /\ IdsUnused' /\ RowsNew' /\ MailSound' /\ ReadSound' /\ MailedTokensStored'
  BY <1>2, <1>3, <1>8, <1>9, <1>12, <1>14, RowStep DEF Busy
<1>16. EmailsClaimed' /\ OneAccountPerEmail'
  BY <1>8, <1>9, EmailsKept
<1>17. TokensOwned'
  BY <1>1, <1>6, <1>9, <1>10, <1>11 DEF TokensOwned
<1>18. ResetsSpent'
  <2>1. \A x \in Id : resets'[x] = resets[x] \/ resets'[x] = 0
    BY <1>1, <1>9 DEF TypeOK
  <2>2. k = "reset" => resets'[u] = 0
    BY <1>1, <1>9 DEF TypeOK
  <2>3. ASSUME NEW x \in Id \ {t}, token[x].kind = "reset", ~token[x].used
        PROVE  resets'[token[x].user] = 0
    <3>1. token[x].user \in Id /\ resets[token[x].user] = 0
      <4>1. token[x] # NoToken
        BY <2>3, AccountAssumption DEF NoToken
      <4> QED
        BY <1>1, <2>3, <4>1, Typed DEF ResetsSpent, TokenRow
    <3> QED
      BY <2>1, <3>1
  <2> QED
    BY <1>6, <1>11, <2>2, <2>3 DEF ResetsSpent
<1>19. VerifiedIffUsed'
  <2>1. \A x \in Id : token'[x].used <=> token[x].used
    BY <1>6, <1>10, <1>11 DEF NoToken
  <2>2. \A x \in Id : token[x].used => token'[x] = token[x]
    BY <1>10, <1>11 DEF NoToken
  <2> QED
    BY <1>1, <1>9, <2>1, <2>2 DEF VerifiedIffUsed
<1>20. ResetsBounded'
  <2>1. \A x \in Id : resets'[x] \in Nat /\ resets'[x] <= resets[x]
    BY <1>1, <1>9, Typed DEF TypeOK
  <2> QED
    BY <1>8, <1>9, <2>1, ResetsCounted
<1>21. PasswordGone'
  BY <1>1, <1>9 DEF PasswordGone
<1> QED
  BY <1>12, <1>15, <1>16, <1>17, <1>18, <1>19, <1>20, <1>21 DEF IInv

LEMMA CommitUserStep ==
    ASSUME IInv, NEW p \in Web, CommitUser(p)
    PROVE  IInv'
<1>1. /\ TypeOK /\ CallShape /\ IdsUnused /\ RowsNew /\ EmailsClaimed
      /\ TokensOwned /\ ResetsSpent /\ OneAccountPerEmail /\ VerifiedIffUsed /\ PasswordGone
  BY DEF IInv
<1>2. PICK c \in Call : c = call[p] /\ c.pc = "commit"
  BY <1>1, Typed DEF CommitUser
<1>3. PICK i \in Id, e \in Email : i = c.id /\ e = c.email
  BY <1>1, <1>2 DEF CallShape, RowsNew, IdsUnused, Busy, TypeOK
<1>4. PICK a, n : /\ a = [email |-> e, verified |-> FALSE, password |-> i]
                  /\ n = [kind |-> "verify", user |-> i, used |-> FALSE, expired |-> FALSE]
  OBVIOUS
<1>5. /\ a \in AccountRow /\ a.email = e /\ ~a.verified /\ a.password = i
      /\ n \in TokenRow /\ n.kind = "verify" /\ n.user = i /\ ~n.used
  BY <1>4 DEF AccountRow, TokenRow
<1>6. a # NoAccount /\ n # NoToken
  <2>1. NoAccount.email = None /\ NoToken.user = None
    BY DEF NoAccount, NoToken
  <2> QED
    BY <1>5, <2>1, AccountAssumption
<1>7. /\ account' = [account EXCEPT ![i] = a] /\ token' = [token EXCEPT ![i] = n]
      /\ call' = [call EXCEPT ![p] = NoCall]
      /\ UNCHANGED <<queue, task, mailed, drawn, failures, crashes, retired, resets, vouched>>
  BY <1>2, <1>3, <1>4 DEF CommitUser, Goto
<1>8. /\ account[i] = NoAccount /\ token[i] = NoToken
      /\ ~Registered(e) /\ \A q \in Web \ {p} : ~Inserted(q, e)
      /\ i \notin retired /\ \A u \in Id : account[u].password # i
  BY <1>1, <1>2, <1>3 DEF CallShape, RowsNew, EmailsClaimed, Inserted, IdsUnused, Busy
<1>9. /\ account'[i] = a /\ \A u \in Id \ {i} : account'[u] = account[u]
      /\ token'[i] = n /\ \A t \in Id \ {i} : token'[t] = token[t]
      /\ call'[p] = NoCall /\ \A q \in Web \ {p} : call'[q] = call[q]
  BY <1>1, <1>7 DEF TypeOK
<1>10. TypeOK'
  BY <1>1, <1>5, <1>7, NoCallFields DEF TypeOK
<1>11. NoToken.user = None /\ ~NoToken.used /\ NoToken.kind = None /\ NoAccount.email = None
       /\ ~NoAccount.verified /\ NoAccount.password = None /\ None \notin Id
  BY AccountAssumption DEF NoToken, NoAccount
<1>12. Grows /\ OnlyNew(i) /\ Written(p, NoCall)
  <2>1. Grows
    BY <1>5, <1>6, <1>8, <1>9 DEF Grows
  <2>2. OnlyNew(i)
    BY <1>1, <1>5, <1>7, <1>8, <1>9 DEF OnlyNew, IdsUnused
  <2> QED
    BY <2>1, <2>2 DEF Written
<1>13. CallShape' /\ IdsUnused' /\ RowsNew' /\ MailSound' /\ ReadSound' /\ MailedTokensStored'
  BY <1>2, <1>3, <1>7, <1>10, <1>12, NoCallFields, RowStep DEF Busy
<1>14. EmailsClaimed'
  <2>1. \A q \in Web, x \in Email : Inserted(q, x)' => Inserted(q, x) /\ q # p
    BY <1>9, NoCallFields DEF Inserted
  <2>2. \A x \in Email \ {e} : Registered(x)' => Registered(x)
    BY <1>5, <1>9 DEF Registered
  <2> QED
    BY <1>1, <1>8, <2>1, <2>2 DEF EmailsClaimed
<1>15. OneAccountPerEmail'
  BY <1>1, <1>5, <1>8, <1>9 DEF OneAccountPerEmail, Registered
<1>16. TokensOwned'
  <2>1. \A t \in Id : token[t] # NoToken => token[t].user \in Id
    BY <1>1, Typed DEF TokenRow
  <2> QED
    BY <1>1, <1>5, <1>6, <1>9, <2>1 DEF TokensOwned
<1>17. ResetsSpent'
  BY <1>1, <1>5, <1>7, <1>9 DEF ResetsSpent
<1>18. VerifiedIffUsed'
  <2>1. \A t \in Id : token[t].user # i
    BY <1>1, <1>8, <1>11 DEF TokensOwned
  <2>2. ASSUME NEW u \in Id
        PROVE  account'[u].verified <=> u \in vouched \/
                  \E t \in Id : token'[t].kind = "verify" /\ token'[t].user = u /\ token'[t].used
    <3>1. \A t \in Id : token'[t].used <=> token[t].used
      BY <1>5, <1>8, <1>9, <1>11
    <3>2. \A t \in Id : token[t].used => token'[t] = token[t]
      BY <1>8, <1>9, <1>11
    <3>3. CASE u = i
      <4>1. i \notin vouched
        BY <1>1, <1>8, <1>11 DEF VerifiedIffUsed
      <4> QED
        BY <1>5, <1>9, <2>1, <3>1, <3>2, <3>3, <4>1
    <3>4. CASE u # i
      BY <1>1, <1>9, <3>1, <3>2, <3>4 DEF VerifiedIffUsed
    <3> QED
      BY <3>3, <3>4
  <2> QED
    BY <1>7, <2>2 DEF VerifiedIffUsed
<1>19. ResetsBounded'
  <2>1. \A u \in Id : resets'[u] \in Nat /\ resets'[u] <= resets[u]
    BY <1>1, <1>7, Typed
  <2> QED
    BY <1>7, <2>1, NoCallFields, ResetsCounted
<1>20. PasswordGone'
  BY <1>1, <1>5, <1>7, <1>8, <1>9 DEF PasswordGone
<1> QED
  BY <1>10, <1>13, <1>14, <1>15, <1>16, <1>17, <1>18, <1>19, <1>20 DEF IInv

\* The tokens are as before; after a reset, those for a reset of u are used.
TokensKept(u) ==
    /\ token' \in [Id -> TokenRow \cup {NoToken}]
    /\ \A t \in Id : /\ token'[t].kind = token[t].kind /\ token'[t].user = token[t].user
                     /\ token'[t] # NoToken <=> token[t] # NoToken
                     /\ token'[t].used = (token[t].used \/
                           (resets' # resets /\ token[t].kind = "reset" /\ token[t].user = u))

\* The password of u becomes i.
LEMMA PasswordStep ==
    ASSUME IInv, NEW p \in Web, Busy(p), NEW u \in Id, NEW i \in Id, i = call[p].id,
           account[u] # NoAccount, account' = [account EXCEPT ![u].password = i],
           retired' = retired \cup {account[u].password},
           TokensKept(u),
           \/ resets' = resets
           \/ resets' = [resets EXCEPT ![u] = @ + 1] /\ p \in Confirming(u),
           call' = [call EXCEPT ![p] = NoCall],
           UNCHANGED <<queue, task, mailed, drawn, failures, crashes, vouched>>
    PROVE  IInv'
<1>1. /\ TypeOK /\ IdsUnused /\ TokensOwned /\ ResetsSpent /\ VerifiedIffUsed /\ PasswordGone
  BY DEF IInv
<1>2. PICK b \in AccountRow : b = account[u]
  BY <1>1, Typed
<1>3. PICK a : a = [b EXCEPT !.password = i]
  OBVIOUS
<1>4. /\ a \in AccountRow /\ a.email = b.email /\ a.verified = b.verified /\ a.password = i
  BY <1>3 DEF AccountRow
<1>5. a # NoAccount /\ b.password \in Id
  <2>1. NoAccount.password = None
    BY DEF NoAccount
  <2> QED
    BY <1>4, <2>1, AccountAssumption DEF AccountRow
<1>6. account'[u] = a /\ \A v \in Id \ {u} : account'[v] = account[v]
  BY <1>1, <1>2, <1>3 DEF TypeOK
<1>7. i \in drawn \ retired /\ \A v \in Id : account[v].password # i
  BY <1>1 DEF IdsUnused
<1>8. TypeOK'
  <2>1. account' \in [Id -> AccountRow \cup {NoAccount}]
    <3>1. account' = [account EXCEPT ![u] = a]
      BY <1>1, <1>2, <1>3 DEF TypeOK
    <3> QED
      BY <1>1, <1>4, <3>1 DEF TypeOK
  <2>2. call' \in [Web -> Call] /\ retired' \subseteq Id
    BY <1>1, <1>2, <1>5, NoCallFields DEF TypeOK
  <2>3. resets' \in [Id -> Nat]
    BY <1>1 DEF TypeOK
  <2> QED
    BY <1>1, <2>1, <2>2, <2>3 DEF TypeOK, TokensKept
<1>9. Grows
  BY <1>2, <1>4, <1>5, <1>6 DEF Grows, TokensKept
<1>10. OnlyNew(i)
  <2>1. \A j \in Id \ {i} : account[j] = NoAccount => account'[j] = NoAccount
    BY <1>6
  <2>2. \A j \in Id \ {i} : token[j] = NoToken => token'[j] = NoToken
    BY DEF TokensKept
  <2>3. \A j \in Id \ {i}, v \in Id : account'[v].password = j => account[v].password = j
    BY <1>4, <1>6
  <2>4. \A j \in Id : j \in retired' => j \in retired \/ \E v \in Id : account[v].password = j
    OBVIOUS
  <2>5. \A v, w \in Id : account'[v] # NoAccount /\ account'[v].password = account'[w].password => v = w
    BY <1>1, <1>4, <1>6, <1>7 DEF IdsUnused
  <2> QED
    BY <2>1, <2>2, <2>3, <2>4, <2>5 DEF OnlyNew
<1>11. CallShape' /\ IdsUnused' /\ RowsNew' /\ MailSound' /\ ReadSound' /\ MailedTokensStored'
  <2>1. Written(p, NoCall)
    BY DEF Written
  <2> QED
    BY <1>8, <1>9, <1>10, <2>1, NoCallFields, RowStep
<1>12. EmailsClaimed' /\ OneAccountPerEmail'
  <2>1. \A v \in Id : /\ account'[v].email = account[v].email
                      /\ account'[v] # NoAccount => account[v] # NoAccount
    BY <1>2, <1>4, <1>6
  <2>2. NoCall.op # "register"
    BY NoCallFields
  <2> QED
    BY <2>1, <2>2, NoCallFields, EmailsKept
<1>13. TokensOwned'
  <2>1. \A t \in Id : token[t] # NoToken => token[t].user \in Id
    BY <1>1, Typed DEF TokenRow
  <2> QED
    BY <1>1, <1>5, <1>6, <2>1 DEF TokensOwned, TokensKept
<1>14. ResetsSpent'
  <2> SUFFICES ASSUME NEW t \in Id, token'[t].kind = "reset", ~token'[t].used
               PROVE  resets'[token'[t].user] = 0
    BY DEF ResetsSpent
  <2>1. token[t].kind = "reset" /\ ~token[t].used /\ resets[token[t].user] = 0
    BY <1>1, Typed, TokenFields DEF ResetsSpent, TokensKept
  <2>2. CASE resets' = resets
    BY <2>1, <2>2 DEF TokensKept
  <2>3. CASE resets' # resets
    <3>1. token[t].user # u /\ token[t].user \in Id
      <4>1. token[t].user # u
        BY <2>1, <2>3 DEF TokensKept
      <4>2. NoToken.kind # "reset"
        BY AccountAssumption DEF NoToken
      <4> QED
        BY <1>1, <2>1, <4>1, <4>2, Typed DEF TokenRow
    <3>2. resets'[token[t].user] = resets[token[t].user]
      BY <1>1, <2>3, <3>1 DEF TypeOK
    <3> QED
      BY <2>1, <3>2 DEF TokensKept
  <2> QED
    BY <2>2, <2>3
<1>15. VerifiedIffUsed'
  <2>1. \A v \in Id : account'[v].verified = account[v].verified
    BY <1>2, <1>4, <1>6
  <2>2. \A t \in Id : token[t].kind = "verify" => token'[t].used = token[t].used
    BY <1>1, Typed, TokenFields DEF TokensKept
  <2> QED
    BY <1>1, <2>1, <2>2 DEF VerifiedIffUsed, TokensKept
<1>16. ResetsBounded'
  <2>1. \A v \in Id :
           /\ resets'[v] \in Nat
           /\ resets'[v] <= resets[v] \/ (resets'[v] = resets[v] + 1 /\ p \in Confirming(v))
    <3>1. resets \in [Id -> Nat]
      BY <1>1 DEF TypeOK
    <3> QED
      BY <3>1
  <2> QED
    BY <2>1, NoCallFields, ResetsCounted
<1>17. PasswordGone'
  <2> SUFFICES ASSUME NEW v \in Id PROVE account'[v].password \notin retired'
    BY DEF PasswordGone
  <2>1. CASE v = u
    BY <1>4, <1>6, <1>7, <2>1
  <2>2. CASE v # u
    <3>1. account[v].password \notin retired /\ account[v].password # b.password
      BY <1>1, <1>2, <2>2 DEF PasswordGone, IdsUnused
    <3> QED
      BY <1>2, <1>6, <2>2, <3>1
  <2> QED
    BY <2>1, <2>2
<1> QED
  BY <1>8, <1>11, <1>12, <1>13, <1>14, <1>15, <1>16, <1>17 DEF IInv

LEMMA SavePasswordStep ==
    ASSUME IInv, NEW p \in Web, SavePassword(p)
    PROVE  IInv'
<1>1. TypeOK /\ CallShape /\ IdsUnused
  BY DEF IInv
<1>2. PICK c \in Call : c = call[p] /\ c.pc = "save"
  BY <1>1, Typed DEF SavePassword
<1>3. c.user \in Id /\ account[c.user] # NoAccount /\ c.id \in Id /\ Busy(p)
  BY <1>1, <1>2 DEF CallShape, IdsUnused, Busy, TypeOK
<1>4. \A t \in Id : token[t].used \in BOOLEAN
  BY <1>1, Typed, TokenFields
<1>5. /\ account' = [account EXCEPT ![c.user].password = c.id]
      /\ retired' = retired \cup {account[c.user].password}
      /\ call' = [call EXCEPT ![p] = NoCall]
      /\ UNCHANGED <<token, queue, task, mailed, drawn, failures, crashes, resets, vouched>>
  BY <1>2 DEF SavePassword, Goto
<1>6. token' \in [Id -> TokenRow \cup {NoToken}]
  BY <1>1, <1>5 DEF TypeOK
<1>7. TokensKept(c.user)
  BY <1>4, <1>5, <1>6 DEF TokensKept
<1> QED
  BY <1>2, <1>3, <1>5, <1>7, PasswordStep

LEMMA ResetPasswordStep ==
    ASSUME IInv, NEW p \in Web, ResetPassword(p)
    PROVE  IInv'
<1>1. TypeOK /\ CallShape /\ IdsUnused
  BY DEF IInv
<1>2. PICK c \in Call : c = call[p] /\ c.pc = "consume" /\ c.op = "reset"
  BY <1>1, Typed DEF ResetPassword
<1>3. PICK u \in Id, i \in Id : u = c.user /\ i = c.id
  BY <1>1, <1>2 DEF CallShape, IdsUnused, Busy, TypeOK
<1>4. account[u] # NoAccount /\ i = call[p].id /\ Busy(p) /\ p \in Confirming(u)
  BY <1>1, <1>2, <1>3 DEF CallShape, Busy, Confirming
<1>5. /\ account' = [account EXCEPT ![u].password = i]
      /\ retired' = retired \cup {account[u].password}
      /\ token' = [t \in Id |-> IF token[t].kind = "reset" /\ token[t].user = u
                                THEN [token[t] EXCEPT !.used = TRUE] ELSE token[t]]
      /\ resets' = [resets EXCEPT ![u] = @ + 1]
      /\ call' = [call EXCEPT ![p] = NoCall]
      /\ UNCHANGED <<queue, task, mailed, drawn, failures, crashes, vouched>>
  BY <1>2, <1>3 DEF ResetPassword, Goto
<1>6. resets' # resets
  <2>1. resets[u] \in Nat /\ resets'[u] = resets[u] + 1
    BY <1>1, <1>5 DEF TypeOK
  <2> QED
    BY <2>1
<1>7. ASSUME NEW t \in Id
      PROVE  /\ token'[t] \in TokenRow \cup {NoToken}
             /\ token'[t].kind = token[t].kind /\ token'[t].user = token[t].user
             /\ token'[t] # NoToken <=> token[t] # NoToken
             /\ token'[t].used = (token[t].used \/
                   (resets' # resets /\ token[t].kind = "reset" /\ token[t].user = u))
  <2>1. PICK k \in TokenRow \cup {NoToken} : k = token[t]
    BY <1>1, Typed
  <2>2. CASE k.kind = "reset" /\ k.user = u
    <3>1. k \in TokenRow
      BY <2>2, AccountAssumption DEF NoToken
    <3>2. PICK n : n = [k EXCEPT !.used = TRUE]
      OBVIOUS
    <3>3. n \in TokenRow /\ n.kind = k.kind /\ n.user = k.user /\ n.used = TRUE
      BY <3>1, <3>2 DEF TokenRow
    <3>4. n # NoToken /\ k # NoToken /\ k.used \in BOOLEAN
      BY <2>2, <3>3, TokenFields
    <3>5. token'[t] = n
      BY <1>5, <2>1, <2>2, <3>2
    <3> QED
      BY <1>6, <2>1, <2>2, <3>3, <3>4, <3>5
  <2>3. CASE ~(k.kind = "reset" /\ k.user = u)
    <3>1. token'[t] = k /\ k.used \in BOOLEAN
      BY <1>5, <2>1, <2>3, TokenFields
    <3> QED
      BY <2>1, <2>3, <3>1
  <2> QED
    BY <2>2, <2>3
<1>8. token' \in [Id -> TokenRow \cup {NoToken}]
  <2>1. token' = [t \in Id |-> token'[t]]
    BY <1>5
  <2> QED
    BY <1>7, <2>1
<1>9. TokensKept(u)
  BY <1>7, <1>8 DEF TokensKept
<1> QED
  BY <1>4, <1>5, <1>9, PasswordStep

LEMMA VerifyUserStep ==
    ASSUME IInv, NEW p \in Web, VerifyUser(p)
    PROVE  IInv'
<1>1. /\ TypeOK /\ CallShape /\ IdsUnused /\ ReadSound
      /\ TokensOwned /\ ResetsSpent /\ VerifiedIffUsed /\ PasswordGone
  BY DEF IInv
<1>2. PICK c \in Call : c = call[p] /\ c.pc = "consume" /\ c.op = "verify"
  BY <1>1, Typed DEF VerifyUser
<1>3. PICK u \in Id, x \in Id : u = c.user /\ x = c.token
  BY <1>1, <1>2 DEF CallShape
<1>4. /\ account[u] # NoAccount /\ token[x].kind = "verify" /\ token[x].user = u
      /\ c.row.verified => account[u].verified
      /\ Busy(p) /\ call[p].id \in Id
  BY <1>1, <1>2, <1>3 DEF CallShape, ReadSound, IdsUnused, Busy, TypeOK
<1>5. /\ token' = [token EXCEPT ![x].used = TRUE]
      /\ account' = IF c.row.verified THEN account ELSE [account EXCEPT ![u].verified = TRUE]
      /\ call' = [call EXCEPT ![p] = NoCall]
      /\ UNCHANGED <<queue, task, mailed, drawn, failures, crashes, retired, resets, vouched>>
  BY <1>2, <1>3 DEF VerifyUser, Goto
<1>6. PICK k \in TokenRow : k = token[x]
  <2>1. NoToken.kind # "verify"
    BY AccountAssumption DEF NoToken
  <2> QED
    BY <1>1, <1>4, <2>1, Typed
<1>7. PICK b \in AccountRow : b = account[u]
  BY <1>1, <1>4, Typed
<1>8. PICK n, a : n = [k EXCEPT !.used = TRUE] /\ a = [b EXCEPT !.verified = TRUE]
  OBVIOUS
<1>9. n \in TokenRow /\ n.kind = k.kind /\ n.user = k.user /\ n.used = TRUE
  BY <1>8 DEF TokenRow
<1>10. a \in AccountRow /\ a.email = b.email /\ a.verified = TRUE /\ a.password = b.password
  BY <1>8 DEF AccountRow
<1>11. a # NoAccount /\ n # NoToken /\ k # NoToken /\ b # NoAccount
  <2>1. NoAccount.email = None /\ NoToken.user = None
    BY DEF NoAccount, NoToken
  <2>2. a.email \in Email /\ n.user \in Id /\ b.email \in Email /\ k.user \in Id
    BY <1>9, <1>10 DEF AccountRow, TokenRow
  <2> QED
    BY <2>1, <2>2, AccountAssumption
<1>12. /\ token'[x] = n /\ \A t \in Id \ {x} : token'[t] = token[t]
       /\ \A v \in Id \ {u} : account'[v] = account[v]
       /\ account'[u] = b \/ account'[u] = a
       /\ account'[u].verified
  <2>1. token' = [token EXCEPT ![x] = n]
    BY <1>1, <1>5, <1>6, <1>8 DEF TypeOK
  <2>2. (account' = account /\ account[u].verified) \/ account' = [account EXCEPT ![u] = a]
    BY <1>1, <1>4, <1>5, <1>7, <1>8 DEF TypeOK
  <2> QED
    BY <1>1, <1>7, <1>10, <2>1, <2>2 DEF TypeOK
<1>13. TypeOK'
  <2>1. token' \in [Id -> TokenRow \cup {NoToken}]
    <3>1. token' = [token EXCEPT ![x] = n]
      BY <1>1, <1>5, <1>6, <1>8 DEF TypeOK
    <3> QED
      BY <1>1, <1>9, <3>1 DEF TypeOK
  <2>2. account' \in [Id -> AccountRow \cup {NoAccount}]
    <3>1. account' = account \/ account' = [account EXCEPT ![u] = a]
      BY <1>1, <1>5, <1>7, <1>8 DEF TypeOK
    <3> QED
      BY <1>1, <1>10, <3>1 DEF TypeOK
  <2> QED
    BY <1>1, <1>5, <2>1, <2>2, NoCallFields DEF TypeOK
<1>14. \A v \in Id : /\ account'[v].email = account[v].email
                     /\ account'[v].password = account[v].password
                     /\ account'[v] # NoAccount <=> account[v] # NoAccount
                     /\ v # u => account'[v].verified = account[v].verified
  BY <1>7, <1>10, <1>11, <1>12
<1>15. \A t \in Id : /\ token'[t].kind = token[t].kind /\ token'[t].user = token[t].user
                     /\ token'[t] # NoToken <=> token[t] # NoToken
                     /\ t # x => token'[t].used = token[t].used
  BY <1>6, <1>9, <1>11, <1>12
<1>16. Grows
  BY <1>12, <1>14, <1>15 DEF Grows
<1>17. OnlyNew(call[p].id)
  <2>1. retired' = retired
    BY <1>5
  <2>2. \A j \in Id : (account[j] = NoAccount => account'[j] = NoAccount)
                     /\ (token[j] = NoToken => token'[j] = NoToken)
    BY <1>14, <1>15
  <2>3. \A v, w \in Id : account'[v] # NoAccount /\ account'[v].password = account'[w].password => v = w
    BY <1>1, <1>14 DEF IdsUnused
  <2> QED
    BY <1>14, <2>1, <2>2, <2>3 DEF OnlyNew
<1>18. CallShape' /\ IdsUnused' /\ RowsNew' /\ MailSound' /\ ReadSound' /\ MailedTokensStored'
  <2>1. Written(p, NoCall)
    BY DEF Written
  <2> QED
    BY <1>4, <1>5, <1>13, <1>16, <1>17, <2>1, NoCallFields, RowStep
<1>19. EmailsClaimed' /\ OneAccountPerEmail'
  <2>1. NoCall.op # "register"
    BY NoCallFields
  <2> QED
    BY <1>5, <1>14, <2>1, NoCallFields, EmailsKept
<1>20. TokensOwned'
  <2>1. \A t \in Id : token[t] # NoToken => token[t].user \in Id
    BY <1>1, Typed DEF TokenRow
  <2> QED
    BY <1>1, <1>14, <1>15, <2>1 DEF TokensOwned
<1>21. ResetsSpent'
  BY <1>1, <1>4, <1>5, <1>15 DEF ResetsSpent
<1>22. VerifiedIffUsed'
  <2>1. ASSUME NEW v \in Id \ {u}
        PROVE  account'[v].verified <=> v \in vouched \/
                  \E t \in Id : token'[t].kind = "verify" /\ token'[t].user = v /\ token'[t].used
    BY <1>1, <1>4, <1>14, <1>15 DEF VerifiedIffUsed
  <2>2. token'[x].kind = "verify" /\ token'[x].user = u /\ token'[x].used /\ account'[u].verified
    BY <1>4, <1>9, <1>12, <1>15
  <2> QED
    BY <1>5, <2>1, <2>2 DEF VerifiedIffUsed
<1>23. ResetsBounded'
  <2>1. \A v \in Id : resets'[v] \in Nat /\ resets'[v] <= resets[v]
    BY <1>1, <1>5, Typed
  <2> QED
    BY <1>5, <2>1, NoCallFields, ResetsCounted
<1>24. PasswordGone'
  BY <1>1, <1>5, <1>14 DEF PasswordGone
<1> QED
  BY <1>13, <1>18, <1>19, <1>20, <1>21, <1>22, <1>23, <1>24 DEF IInv

\* No token that is expired is looked at differently by the invariant.
LEMMA ExpireStep ==
    ASSUME IInv, NEW x \in Id, Expire(x)
    PROVE  IInv'
<1>1. /\ TypeOK /\ CallShape /\ IdsUnused /\ RowsNew /\ EmailsClaimed /\ MailSound /\ ReadSound
      /\ TokensOwned /\ ResetsSpent
      /\ OneAccountPerEmail /\ MailedTokensStored /\ VerifiedIffUsed /\ ResetsBounded /\ PasswordGone
  BY DEF IInv
<1>2. /\ token' = [token EXCEPT ![x].expired = TRUE] /\ x \in mailed
      /\ UNCHANGED <<account, queue, task, mailed, call, drawn, failures, crashes, retired, resets, vouched>>
  BY DEF Expire
<1>3. PICK k \in TokenRow : k = token[x]
  BY <1>1, <1>2, Typed DEF MailedTokensStored
<1>4. PICK n : n = [k EXCEPT !.expired = TRUE]
  OBVIOUS
<1>5. n \in TokenRow /\ n.kind = k.kind /\ n.user = k.user /\ n.used = k.used
  BY <1>4 DEF TokenRow
<1>6. n # NoToken /\ k # NoToken
  <2>1. NoToken.user = None /\ n.user \in Id /\ k.user \in Id
    BY <1>5 DEF NoToken, TokenRow
  <2> QED
    BY <2>1, AccountAssumption
<1>7. token' = [token EXCEPT ![x] = n]
  BY <1>1, <1>2, <1>3, <1>4 DEF TypeOK
<1>8. \A t \in Id : /\ token'[t].kind = token[t].kind /\ token'[t].user = token[t].user
                    /\ token'[t] # NoToken <=> token[t] # NoToken /\ token'[t].used = token[t].used
  BY <1>1, <1>3, <1>5, <1>6, <1>7 DEF TypeOK
<1>9. TypeOK'
  BY <1>1, <1>2, <1>5, <1>7 DEF TypeOK
<1>10. CallShape' /\ IdsUnused' /\ EmailsClaimed' /\ OneAccountPerEmail' /\ PasswordGone'
  <2>1. CallShape' /\ OneAccountPerEmail' /\ PasswordGone'
    BY <1>1, <1>2 DEF CallShape, Busy, OneAccountPerEmail, PasswordGone
  <2>2. IdsUnused'
    BY <1>1, <1>2, <1>8 DEF IdsUnused, Busy
  <2>3. EmailsClaimed'
    BY <1>1, <1>2 DEF EmailsClaimed, Registered, Inserted
  <2> QED
    BY <2>1, <2>2, <2>3
<1>11. RowsNew'
  <2>1. ASSUME NEW p \in Web, call[p].op = "register" \/ call[p].pc = "store"
        PROVE  token'[call[p].id] = NoToken
    <3>1. Busy(p)
      BY <1>1, <2>1, NoCallFields DEF CallShape, Busy
    <3>2. call[p].id \in Id /\ token[call[p].id] = NoToken
      BY <1>1, <2>1, <3>1 DEF IdsUnused, TypeOK, RowsNew
    <3> QED
      BY <1>8, <3>2
  <2> QED
    BY <1>1, <1>2, <2>1 DEF RowsNew
<1>12. \A u \in Id, t \in Id : Deliverable(u, t) => Deliverable(u, t)'
  BY <1>2, <1>8 DEF Deliverable
<1>13. MailSound'
  <2>1. ASSUME NEW p \in Web, call[p].pc = "enqueue"
        PROVE  Deliverable(call[p].user, call[p].token)'
    <3>1. PICK u \in Id, t \in Id : u = call[p].user /\ t = call[p].token /\ Deliverable(u, t)
      BY <1>1, <2>1 DEF CallShape, MailSound
    <3>2. Deliverable(u, t)'
      BY <1>12, <3>1
    <3> QED
      BY <1>2, <3>1, <3>2 DEF Deliverable
  <2>2. \A k2 \in queue : Deliverable(k2.user, k2.token)'
    <3> SUFFICES ASSUME NEW j \in queue PROVE Deliverable(j.user, j.token)'
      OBVIOUS
    <3>1. j.user \in Id /\ j.token \in Id
      BY <1>1 DEF TypeOK, Task
    <3> QED
      BY <1>1, <1>12, <3>1 DEF MailSound
  <2>3. ASSUME NEW w \in Worker, task[w] # NoTask
        PROVE  account[task[w].user] # NoAccount /\ Deliverable(task[w].user, task[w].token)'
    <3>1. PICK j \in Task : j = task[w]
      BY <1>1, <2>3, Typed
    <3>2. j.user \in Id /\ j.token \in Id /\ account[j.user] # NoAccount /\ Deliverable(j.user, j.token)
      BY <1>1, <2>3, <3>1 DEF MailSound, Task
    <3>3. Deliverable(j.user, j.token)'
      BY <1>12, <3>2
    <3> QED
      BY <1>2, <3>1, <3>2, <3>3 DEF Deliverable
  <2> QED
    BY <1>2, <2>1, <2>2, <2>3 DEF MailSound, Deliverable
<1>14. ReadSound'
  <2>1. \A p \in Web : call[p].pc = "consume" => call[p].token \in Id
    BY <1>1 DEF CallShape
  <2> QED
    BY <1>1, <1>2, <1>8, <2>1 DEF ReadSound
<1>15. TokensOwned' /\ ResetsSpent' /\ VerifiedIffUsed'
  BY <1>1, <1>2, <1>8 DEF TokensOwned, ResetsSpent, VerifiedIffUsed
<1>16. MailedTokensStored'
  <2>1. ASSUME NEW w \in Worker, task[w] # NoTask
        PROVE  task[w].token \in Id
    <3>1. PICK j \in Task : j = task[w]
      BY <1>1, <2>1, Typed
    <3> QED
      BY <3>1 DEF Task
  <2> QED
    BY <1>1, <1>2, <1>8, <2>1 DEF MailedTokensStored, TypeOK
<1>17. ResetsBounded'
  BY <1>1, <1>2 DEF ResetsBounded, Confirming
<1> QED
  BY <1>9, <1>10, <1>11, <1>13, <1>14, <1>15, <1>16, <1>17 DEF IInv

\* A row that comes from the shell or the admin, without a call.
LEMMA AddUserStep ==
    ASSUME IInv, NEW e \in Email, NEW verified \in BOOLEAN, AddUser(e, verified)
    PROVE  IInv'
<1>1. /\ TypeOK /\ CallShape /\ IdsUnused /\ RowsNew /\ EmailsClaimed /\ MailSound /\ ReadSound
      /\ TokensOwned /\ ResetsSpent
      /\ OneAccountPerEmail /\ MailedTokensStored /\ VerifiedIffUsed /\ ResetsBounded /\ PasswordGone
  BY DEF IInv
<1>2. PICK i \in Id \ drawn : i = NewId
  BY <1>1, NewIdDrawn DEF AddUser, TypeOK
<1>3. PICK a : a = [email |-> e, verified |-> verified, password |-> i]
  OBVIOUS
<1>4. a \in AccountRow /\ a.email = e /\ a.verified = verified /\ a.password = i
  BY <1>3 DEF AccountRow
<1>5. a # NoAccount
  <2>1. NoAccount.email = None
    BY DEF NoAccount
  <2> QED
    BY <1>4, <2>1, AccountAssumption
<1>6. /\ account' = [account EXCEPT ![i] = a] /\ drawn' = drawn \cup {i}
      /\ vouched' = (IF verified THEN vouched \cup {i} ELSE vouched)
      /\ ~Registered(e) /\ \A q \in Web : ~Inserted(q, e)
      /\ UNCHANGED <<token, queue, task, mailed, call, failures, crashes, retired, resets>>
  BY <1>2, <1>3 DEF AddUser
<1>7. account'[i] = a /\ \A u \in Id \ {i} : account'[u] = account[u]
  BY <1>1, <1>6 DEF TypeOK
<1>8. /\ account[i] = NoAccount /\ token[i] = NoToken /\ i \notin retired
      /\ \A u \in Id : account[u].password # i
  BY <1>1 DEF IdsUnused
<1>9. /\ ~NoAccount.verified /\ NoAccount.password = None /\ None \notin Id /\ NoToken.user = None
  BY AccountAssumption DEF NoToken, NoAccount
<1>10. TypeOK'
  <2>1. account' \in [Id -> AccountRow \cup {NoAccount}]
    BY <1>1, <1>4, <1>6 DEF TypeOK
  <2>2. vouched' \subseteq Id /\ drawn' \subseteq Id
    BY <1>1, <1>6 DEF TypeOK
  <2> QED
    BY <1>1, <1>6, <2>1, <2>2 DEF TypeOK
<1>11. \A u \in Id : account[u] # NoAccount => account'[u] = account[u]
  BY <1>7, <1>8
<1>12. CallShape'
  BY <1>1, <1>6, <1>11 DEF CallShape, Busy
<1>13. IdsUnused'
  <2>1. \A p \in Web : Busy(p) => call[p].id # i
    BY <1>1 DEF IdsUnused
  <2>2. \A p \in Web : Busy(p) => /\ call[p].id \in drawn' \ retired
                                  /\ \A u \in Id : account'[u].password # call[p].id
    BY <1>1, <1>4, <1>6, <1>7, <2>1 DEF IdsUnused
  <2>3. \A j \in Id \ drawn' : /\ account'[j] = NoAccount /\ token[j] = NoToken /\ j \notin retired
                               /\ \A u \in Id : account'[u].password # j
    BY <1>1, <1>4, <1>6, <1>7 DEF IdsUnused
  <2>4. \A u, v \in Id : account'[u] # NoAccount /\ account'[u].password = account'[v].password => u = v
    BY <1>1, <1>4, <1>7, <1>8 DEF IdsUnused
  <2> QED
    BY <1>1, <1>6, <2>2, <2>3, <2>4 DEF IdsUnused, Busy
<1>14. RowsNew'
  <2>1. ASSUME NEW p \in Web, call[p].op = "register"
        PROVE  account'[call[p].id] = NoAccount
    <3>1. Busy(p)
      BY <1>1, <2>1, NoCallFields DEF CallShape, Busy
    <3>2. call[p].id \in Id \ {i} /\ account[call[p].id] = NoAccount
      BY <1>1, <2>1, <3>1 DEF IdsUnused, RowsNew, TypeOK
    <3> QED
      BY <1>7, <3>2
  <2> QED
    BY <1>1, <1>6, <2>1 DEF RowsNew
<1>15. \A x \in Email \ {e} : Registered(x)' => Registered(x)
  BY <1>4, <1>7 DEF Registered
<1>16. EmailsClaimed'
  BY <1>1, <1>6, <1>15 DEF EmailsClaimed, Inserted
<1>17. OneAccountPerEmail'
  BY <1>1, <1>4, <1>6, <1>7 DEF OneAccountPerEmail, Registered
<1>18. ASSUME NEW u \in Id, NEW t, Deliverable(u, t)
       PROVE  Deliverable(u, t)'
  BY <1>6, <1>7, <1>8, <1>11, <1>18 DEF Deliverable
<1>19. MailSound'
  <2>1. ASSUME NEW p \in Web, call[p].pc = "enqueue"
        PROVE  Deliverable(call[p].user, call[p].token)'
    <3>1. PICK u \in Id, t \in {call[p].token} : u = call[p].user /\ t = call[p].token /\ Deliverable(u, t)
      BY <1>1, <2>1 DEF CallShape, MailSound
    <3>2. Deliverable(u, t)'
      BY <1>18, <3>1
    <3> QED
      BY <1>6, <3>1, <3>2 DEF Deliverable
  <2>2. ASSUME NEW k \in queue
        PROVE  Deliverable(k.user, k.token)'
    <3>1. k.user \in Id /\ Deliverable(k.user, k.token)
      BY <1>1, <2>2 DEF TypeOK, Task, MailSound
    <3> QED
      BY <1>18, <3>1
  <2>3. ASSUME NEW w \in Worker, task[w] # NoTask
        PROVE  account'[task[w].user] # NoAccount /\ Deliverable(task[w].user, task[w].token)'
    <3>1. PICK k \in Task : k = task[w]
      BY <1>1, <2>3, Typed
    <3>2. k.user \in Id /\ account[k.user] # NoAccount /\ Deliverable(k.user, k.token)
      BY <1>1, <2>3, <3>1 DEF MailSound, Task
    <3> QED
      BY <1>6, <1>7, <1>8, <3>1, <3>2 DEF Deliverable
  <2> QED
    BY <1>6, <2>1, <2>2, <2>3 DEF MailSound, Deliverable
<1>20. ReadSound'
  <2>1. ASSUME NEW p \in Web, call[p].pc = "consume"
        PROVE  account'[call[p].user] = account[call[p].user]
    BY <1>1, <1>11, <2>1 DEF CallShape
  <2> QED
    BY <1>1, <1>6, <2>1 DEF ReadSound
<1>21. \A t \in Id : token[t] # NoToken => token[t].user \in Id
  BY <1>1, Typed DEF TokenRow
<1>22. TokensOwned' /\ ResetsSpent' /\ ResetsBounded'
  <2>1. TokensOwned'
    BY <1>1, <1>6, <1>11, <1>21 DEF TokensOwned
  <2> QED
    BY <1>1, <1>6, <2>1 DEF ResetsSpent, ResetsBounded, Confirming
<1>23. MailedTokensStored'
  BY <1>1, <1>6, <1>11, <1>21 DEF MailedTokensStored, TypeOK
<1>24. VerifiedIffUsed'
  <2>1. \A t \in Id : token[t].user # i
    BY <1>1, <1>8, <1>9 DEF TokensOwned
  <2>2. i \notin vouched
    BY <1>1, <1>8, <1>9 DEF VerifiedIffUsed
  <2>3. \A u \in Id : u \in vouched' <=> u \in vouched \/ (u = i /\ verified)
    BY <1>6
  <2> QED
    BY <1>1, <1>4, <1>6, <1>7, <2>1, <2>2, <2>3 DEF VerifiedIffUsed
<1>25. PasswordGone'
  BY <1>1, <1>4, <1>6, <1>7, <1>8 DEF PasswordGone
<1> QED
  BY <1>10, <1>12, <1>13, <1>14, <1>16, <1>17, <1>19, <1>20, <1>22, <1>23, <1>24, <1>25 DEF IInv

LEMMA NextIInv == IInv /\ [Next]_vars => IInv'
<1> SUFFICES ASSUME IInv, [Next]_vars PROVE IInv'
  OBVIOUS
<1>1. ASSUME NEW p \in Web, Proceed(p) PROVE IInv'
  BY <1>1, InsertUserStep, CommitUserStep, StoreTokenStep, EnqueueStep, VerifyUserStep,
     ResetPasswordStep, SavePasswordStep DEF Proceed
<1>2. ASSUME NEW p \in Web, NEW u \in Id,
             (\E kind \in {"verify", "reset"} : Request(p, u, kind)) \/ ChangePassword(p, u)
      PROVE  IInv'
  BY <1>2, RequestStep, ChangePasswordStep
<1>3. CASE Next
  BY <1>1, <1>2, <1>3, RegisterStep, AddUserStep, PresentStep, CrashStep, TakeTaskStep, SendMailStep,
     SmtpErrorStep, KillWorkerStep, ExpireStep DEF Next
<1>4. CASE UNCHANGED vars
  <2>1. /\ CallShape' /\ IdsUnused' /\ RowsNew' /\ EmailsClaimed' /\ ReadSound'
    BY <1>4 DEF IInv, vars, CallShape, IdsUnused, RowsNew, EmailsClaimed, Registered, Inserted,
       ReadSound, Busy
  <2>2. MailSound' /\ TokensOwned' /\ ResetsSpent' /\ TypeOK'
    BY <1>4 DEF IInv, vars, MailSound, Deliverable, TokensOwned, ResetsSpent, TypeOK
  <2>3. /\ OneAccountPerEmail' /\ MailedTokensStored' /\ VerifiedIffUsed' /\ ResetsBounded' /\ PasswordGone'
    BY <1>4 DEF IInv, vars, OneAccountPerEmail, MailedTokensStored, VerifiedIffUsed, ResetsBounded,
       Confirming, PasswordGone
  <2> QED
    BY <2>1, <2>2, <2>3 DEF IInv
<1> QED
  BY <1>3, <1>4

LEMMA InitIInv == Init => IInv
<1> SUFFICES ASSUME Init PROVE IInv
  OBVIOUS
<1> DEFINE a(i) == [email |-> Earlier[i], verified |-> TRUE, password |-> i]
           k(i) == [kind |-> "verify", user |-> i, used |-> TRUE, expired |-> FALSE]
<1>1. \A i \in Id : IF i \in DOMAIN Earlier THEN account[i] = a(i) /\ token[i] = k(i)
                    ELSE account[i] = NoAccount /\ token[i] = NoToken
  BY DEF Init
<1>2. DOMAIN Earlier \subseteq Id /\ \A i \in DOMAIN Earlier : Earlier[i] \in Email
  BY AccountAssumption DEF Range
<1>3. \A i \in DOMAIN Earlier : a(i) \in AccountRow /\ k(i) \in TokenRow
  BY <1>2 DEF AccountRow, TokenRow
<1>4. /\ \A i \in DOMAIN Earlier : a(i).email = Earlier[i] /\ a(i).verified = TRUE /\ a(i).password = i
      /\ \A i \in DOMAIN Earlier : k(i).kind = "verify" /\ k(i).user = i /\ k(i).used = TRUE
  OBVIOUS
<1>5. /\ NoAccount.email = None /\ NoAccount.password = None /\ NoAccount.verified = FALSE
      /\ NoToken.kind = None /\ NoToken.user = None /\ NoToken.used = FALSE
      /\ None \notin Email \cup Id \cup {"verify", "reset"}
  BY AccountAssumption DEF NoAccount, NoToken
<1> HIDE DEF a, k
<1>6. /\ queue = {} /\ mailed = {} /\ drawn = DOMAIN Earlier /\ retired = {} /\ vouched = {}
      /\ task = [w \in Worker |-> NoTask] /\ call = [p \in Web |-> NoCall]
      /\ resets = [i \in Id |-> 0] /\ failures = 0 /\ crashes = 0
  BY DEF Init
<1>7. TypeOK
  <2>1. account \in [Id -> AccountRow \cup {NoAccount}] /\ token \in [Id -> TokenRow \cup {NoToken}]
    <3>1. account = [i \in Id |-> account[i]] /\ token = [i \in Id |-> token[i]]
      BY DEF Init
    <3> QED
      BY <1>1, <1>3, <3>1
  <2> QED
    BY <1>2, <1>6, <2>1, NoCallFields DEF TypeOK
<1>8. CallShape /\ RowsNew /\ EmailsClaimed /\ MailSound /\ ReadSound
  BY <1>6, NoCallFields DEF CallShape, RowsNew, EmailsClaimed, Inserted, MailSound, ReadSound, Busy
<1>9. IdsUnused
  BY <1>1, <1>2, <1>4, <1>5, <1>6, NoCallFields DEF IdsUnused, Busy
<1>10. TokensOwned
  BY <1>1, <1>2, <1>4, <1>5 DEF TokensOwned
<1>11. ResetsSpent /\ VerifiedIffUsed
  BY <1>1, <1>2, <1>4, <1>5, <1>6 DEF ResetsSpent, VerifiedIffUsed
<1>12. OneAccountPerEmail
  <2>1. \A i, j \in DOMAIN Earlier : Earlier[i] = Earlier[j] => i = j
    BY AccountAssumption DEF IsInjective
  <2> QED
    BY <1>1, <1>2, <1>4, <1>5, <2>1 DEF OneAccountPerEmail
<1>13. MailedTokensStored /\ PasswordGone
  BY <1>6 DEF MailedTokensStored, PasswordGone
<1>14. ResetsBounded
  <2>1. \A u \in Id : Confirming(u) = {} /\ resets[u] = 0
    BY <1>6, NoCallFields DEF Confirming
  <2>2. Cardinality({}) = 0 /\ Cardinality(Web) \in Nat
    BY FS_EmptySet, FS_CardinalityType, AccountAssumption
  <2> QED
    BY <2>1, <2>2 DEF ResetsBounded
<1> QED
  BY <1>7, <1>8, <1>9, <1>10, <1>11, <1>12, <1>13, <1>14 DEF IInv

------------------------------------------------------------------------------------
(* The theorems *)

\* IInv holds of the accounts, the tokens, the calls on them and the mails about them
\* (authentication/services.py, authentication/models.py, authentication/tasks.py,
\* users/services.py).
THEOREM Invariance == Spec => []IInv
<1> QED
  BY InitIInv, NextIInv, PTL DEF Spec

\* Rows, tasks and calls keep their shape.
THEOREM TypeCorrect == Spec => []TypeOK
<1>1. IInv => TypeOK
  BY DEF IInv
<1> QED
  BY <1>1, Invariance, PTL

\* Whatever registrations race, an address has one account (create_user,
\* users/services.py:18-44, and the unique index of users/models.py).
THEOREM UniqueEmails == Spec => []OneAccountPerEmail
<1>1. IInv => OneAccountPerEmail
  BY DEF IInv
<1> QED
  BY <1>1, Invariance, PTL

\* A mail never goes out with a token that was rolled back, although its task may run
\* before the commit (register_user, authentication/services.py:34-51).
THEOREM MailedAreStored == Spec => []MailedTokensStored
<1>1. IInv => MailedTokensStored
  BY DEF IInv
<1> QED
  BY <1>1, Invariance, PTL

\* An account is verified exactly if it was made so (create_superuser,
\* users/managers.py:29-39, and the add form of users/admin.py:24-31) or one of its tokens
\* was used (verify_email, authentication/services.py:69-86).
THEOREM VerifiedByToken == Spec => []VerifiedIffUsed
<1>1. IInv => VerifiedIffUsed
  BY DEF IInv
<1> QED
  BY <1>1, Invariance, PTL

\* The tokens of a user reset the password at most once per thread
\* (confirm_password_reset, authentication/services.py:117-141).
THEOREM BoundedResets == Spec => []ResetsBounded
<1>1. IInv => ResetsBounded
  BY DEF IInv
<1> QED
  BY <1>1, Invariance, PTL

\* A replaced password stays replaced (confirm_password_reset and change_password).
THEOREM OldPasswordGone == Spec => []PasswordGone
<1>1. IInv => PasswordGone
  BY DEF IInv
<1> QED
  BY <1>1, Invariance, PTL
===========================================================================================
