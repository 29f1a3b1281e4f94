--------------------------------- MODULE ApiKeys ---------------------------------
(***************************************************************************)
(* apps/api_keys: creating, revoking, rotating and using API keys, one     *)
(* action per SQL statement.  create_api_key and rotate_api_key are        *)
(* transactions, revoke_api_key and mark_used are not.  key holds the      *)
(* committed rows; a rotation's writes reach it at the commit, and until   *)
(* then the row it has selected FOR UPDATE is locked.  Changes of plan are *)
(* the single steps that SubscriptionsProofs shows them to be.             *)
(***************************************************************************)
EXTENDS Naturals, FiniteSets

CONSTANTS
    User, Plan,
    MaxKeys,         \* [Plan -> Nat]: Plan.max_api_keys
    MostKeys,        \* no plan allows more
    Proc,            \* gunicorn threads
    KeyId,           \* primary keys of api_keys_api_key
    None,
    Killable,        \* the threads that may be killed in the middle of a call
    MaxTime,         \* bound: the last day
    MaxCalls,        \* bound: calls made
    MaxPlanChanges   \* bound: changes of plan

ASSUME KeysAssumption ==
    /\ MaxKeys \in [Plan -> Nat]
    /\ MostKeys \in Nat \ {0} /\ \A pl \in Plan : MaxKeys[pl] <= MostKeys
    /\ IsFiniteSet(Proc) /\ Killable \subseteq Proc
    /\ None \notin User \cup Plan \cup KeyId \cup Nat
    /\ MaxTime \in Nat /\ MaxCalls \in Nat /\ MaxPlanChanges \in Nat

VARIABLES
    now,      \* timezone.now(), in days
    plan,     \* [User -> the plan of the active subscription, or None]
    key,      \* committed rows of api_keys_api_key
    call,     \* [Proc -> the call it is in]
    calls,    \* calls made so far, at most MaxCalls
    changes   \* changes of plan so far, at most MaxPlanChanges

vars == <<now, plan, key, call, calls, changes>>

------------------------------------------------------------------------------------
(* Rows and calls *)

\* source: the key this one replaces, known from the rotation that made it (no
\* column of the table).
NoKey == [user |-> None, used |-> None, revoked |-> None, source |-> None]
KeyRow == [user : User \cup {None}, used : Nat \cup {None}, revoked : Nat \cup {None},
           source : KeyId \cup {None}]

\* pc names the statement the call executes next; at is the time it works with.
NoCall == [pc |-> "idle", op |-> "none", user |-> None, key |-> None, limit |-> 0, at |-> 0]
KeyCall == [pc : {"idle", "update", "mark", "plan", "count", "insert"},
            op : {"none", "create", "rotate", "revoke", "use"},
            user : User \cup {None}, key : KeyId \cup {None}, limit : Nat, at : Nat]

\* APIKey.is_active, and the rows with revoked_at NULL of a user.
IsActive(k) == key[k].user # None /\ key[k].revoked = None
ActiveKeys(u) == {k \in KeyId : IsActive(k) /\ key[k].user = u}

\* A rotation holds the row it rotates from its SELECT FOR UPDATE to its end.
Locked(p, k) == \E q \in Proc \ {p} : call[q].op = "rotate" /\ call[q].key = k

UnusedKeys == {k \in KeyId : key[k] = NoKey}
NewKey == CHOOSE k \in UnusedKeys : TRUE

Goto(p, r) == call' = [call EXCEPT ![p] = r]

\* A call that arrives at an idle thread.
Start(p, r) ==
    /\ call[p] = NoCall
    /\ calls < MaxCalls
    /\ Goto(p, r)
    /\ calls' = calls + 1
    /\ UNCHANGED <<now, plan, key, changes>>

Init ==
    /\ now = 0
    /\ plan \in [User -> Plan \cup {None}]
    /\ key = [k \in KeyId |-> NoKey]
    /\ call = [p \in Proc |-> NoCall]
    /\ calls = 0
    /\ changes = 0

------------------------------------------------------------------------------------
(* create_api_key, also the second half of rotate_api_key *)

Create(p, u) == Start(p, [NoCall EXCEPT !.pc = "plan", !.op = "create", !.user = u])

\* Wrong on purpose: the limit of a user without a subscription is NULL.
ReadPlan_NoDefault(p) ==
    /\ call[p].pc = "plan"
    /\ LET pl == plan[call[p].user] IN
       Goto(p, [call[p] EXCEPT !.pc = "count", !.limit = IF pl = None THEN None ELSE MaxKeys[pl]])
    /\ UNCHANGED <<now, plan, key, calls, changes>>

\* SELECT the active subscription and its plan; one key without a subscription.
ReadPlan(p) ==
    /\ call[p].pc = "plan"
    /\ LET pl == plan[call[p].user] IN
       Goto(p, [call[p] EXCEPT !.pc = "count", !.limit = IF pl = None THEN 1 ELSE MaxKeys[pl]])
    /\ UNCHANGED <<now, plan, key, calls, changes>>

\* Wrong on purpose: the limit is not checked.
CountKeys_NoLimit(p) ==
    /\ call[p].pc = "count"
    /\ Goto(p, [call[p] EXCEPT !.pc = "insert"])
    /\ UNCHANGED <<now, plan, key, calls, changes>>

\* SELECT count(*) of the active keys, without the one this rotation has revoked;
\* at the limit PermissionDenied rolls everything back.
CountKeys(p) ==
    /\ call[p].pc = "count"
    /\ LET current == Cardinality(ActiveKeys(call[p].user) \ {call[p].key}) IN
       \/ current >= call[p].limit /\ Goto(p, NoCall)
       \/ current < call[p].limit /\ Goto(p, [call[p] EXCEPT !.pc = "insert"])
    /\ UNCHANGED <<now, plan, key, calls, changes>>

\* INSERT and COMMIT.
InsertKey(p) ==
    /\ call[p].pc = "insert"
    /\ UnusedKeys # {}
    /\ key' = [k \in KeyId |->
                  IF k = NewKey THEN [NoKey EXCEPT !.user = call[p].user, !.source = call[p].key]
                  ELSE IF k = call[p].key THEN [key[k] EXCEPT !.revoked = call[p].at]
                  ELSE key[k]]
    /\ Goto(p, NoCall)
    /\ UNCHANGED <<now, plan, calls, changes>>

(* rotate_api_key *)

\* Wrong on purpose: the row is read, but not FOR UPDATE.
Rotate_NoLock(p, k) ==
    /\ IsActive(k)
    /\ Start(p, [NoCall EXCEPT !.pc = "plan", !.op = "rotate", !.user = key[k].user,
                               !.key = k, !.at = now])

\* Wrong on purpose: without transaction.atomic the revocation commits by itself.
Rotate_Autocommit(p, k) ==
    /\ IsActive(k) /\ ~Locked(p, k)
    /\ call[p] = NoCall
    /\ calls < MaxCalls
    /\ Goto(p, [NoCall EXCEPT !.pc = "plan", !.op = "rotate", !.user = key[k].user,
                              !.key = k, !.at = now])
    /\ key' = [key EXCEPT ![k].revoked = now]
    /\ calls' = calls + 1
    /\ UNCHANGED <<now, plan, changes>>

\* SELECT ... FOR UPDATE waits for the row, finds it active (else Conflict), and
\* the UPDATE of revoked_at follows under the lock.
Rotate(p, k) ==
    /\ IsActive(k) /\ ~Locked(p, k)
    /\ Start(p, [NoCall EXCEPT !.pc = "plan", !.op = "rotate", !.user = key[k].user,
                               !.key = k, !.at = now])

(* revoke_api_key *)

\* SELECT without a lock; a key already revoked is a Conflict.
Revoke(p, k) ==
    /\ IsActive(k)
    /\ Start(p, [NoCall EXCEPT !.pc = "update", !.op = "revoke", !.user = key[k].user,
                               !.key = k, !.at = now])

\* UPDATE ... SET revoked_at WHERE id = pk, whatever the row is by now; waits for
\* a rotation that holds it.
RevokeUpdate(p) ==
    /\ call[p].pc = "update"
    /\ ~Locked(p, call[p].key)
    /\ key' = [key EXCEPT ![call[p].key].revoked = call[p].at]
    /\ Goto(p, NoCall)
    /\ UNCHANGED <<now, plan, calls, changes>>

(* APIKeyAuthentication *)

\* The candidate rows are those with revoked_at NULL.
Authenticate(p, k) ==
    /\ IsActive(k)
    /\ Start(p, [NoCall EXCEPT !.pc = "mark", !.op = "use", !.user = key[k].user,
                               !.key = k, !.at = now])

\* Wrong on purpose: self.save() writes every column as it was read.
MarkUsed_FullSave(p) ==
    /\ call[p].pc = "mark"
    /\ ~Locked(p, call[p].key)
    /\ key' = [key EXCEPT ![call[p].key].used = call[p].at, ![call[p].key].revoked = None]
    /\ Goto(p, NoCall)
    /\ UNCHANGED <<now, plan, calls, changes>>

\* mark_used: UPDATE ... SET last_used_at WHERE id = pk; an error is only logged.
MarkUsed(p) ==
    /\ call[p].pc = "mark"
    /\ ~Locked(p, call[p].key)
    /\ key' \in {[key EXCEPT ![call[p].key].used = call[p].at], key}
    /\ Goto(p, NoCall)
    /\ UNCHANGED <<now, plan, calls, changes>>

(* The environment *)

\* subscribe, cancel or the sweep commits.
ChangePlan(u, pl) ==
    /\ plan[u] # pl
    /\ changes < MaxPlanChanges
    /\ plan' = [plan EXCEPT ![u] = pl]
    /\ changes' = changes + 1
    /\ UNCHANGED <<now, key, call, calls>>

\* The thread is killed: a transaction rolls back, the lock is free again.
Crash(p) ==
    /\ p \in Killable /\ call[p] # NoCall
    /\ Goto(p, NoCall)
    /\ UNCHANGED <<now, plan, key, calls, changes>>

Tick ==
    /\ now < MaxTime
    /\ now' = now + 1
    /\ UNCHANGED <<plan, key, call, calls, changes>>

Proceed(p) ==
    ReadPlan(p) \/ CountKeys(p) \/ InsertKey(p) \/ RevokeUpdate(p) \/ MarkUsed(p)

Next ==
    \/ \E p \in Proc, u \in User : Create(p, u)
    \/ \E p \in Proc, k \in KeyId : Rotate(p, k) \/ Revoke(p, k) \/ Authenticate(p, k)
    \/ \E p \in Proc : Proceed(p) \/ Crash(p)
    \/ \E u \in User, pl \in Plan : ChangePlan(u, pl)
    \/ Tick

Spec == Init /\ [][Next]_vars

------------------------------------------------------------------------------------
(* Properties *)

TypeOK ==
    /\ now \in Nat
    /\ plan \in [User -> Plan \cup {None}]
    /\ key \in [KeyId -> KeyRow]
    /\ call \in [Proc -> KeyCall]
    /\ calls \in Nat /\ changes \in Nat

\* The calls that have passed the limit check and add a key to u's.
Creating(u) ==
    {p \in Proc : call[p].pc = "insert" /\ call[p].op = "create" /\ call[p].user = u}

\* The count and the INSERT are two statements (services.py:27-36), so a user can
\* get more keys than the plan allows; but never by as many as there are threads,
\* however many creations, rotations and changes of plan came before.
KeysBounded ==
    \A u \in User : Cardinality(ActiveKeys(u)) < MostKeys + Cardinality(Proc)

\* "Revoke + issue replacement": a key is replaced by at most one other, which is
\* its owner's, and never stays active beside it.
ReplacedOnce ==
    \A k \in KeyId : key[k].source # None =>
        /\ key[key[k].source].revoked # None
        /\ key[key[k].source].user = key[k].user
        /\ \A j \in KeyId : key[j].source = key[k].source => j = k

(* The inductive invariant *)

\* What a call relies on: the key it works on is its user's, a key that is being
\* rotated is active, and a creation has no key to replace.
CallOK(c) ==
    /\ c.op = "none" <=> c.pc = "idle"
    /\ c.op \in {"create", "rotate"} <=> c.pc \in {"plan", "count", "insert"}
    /\ c.op = "revoke" <=> c.pc = "update"
    /\ c.op = "create" => c.key = None /\ c.user \in User
    /\ c.op \in {"rotate", "revoke", "use"} =>
          c.key \in KeyId /\ key[c.key].user = c.user /\ c.user \in User
    /\ c.op = "rotate" => key[c.key].revoked = None
    /\ c.pc = "count" => c.limit <= MostKeys

\* Two rotations never work on the same key.
RotationsExclusive ==
    \A p, q \in Proc : call[p].op = "rotate" /\ call[q].op = "rotate" /\ p # q =>
        call[p].key # call[q].key

\* Rows not used yet, and keys that replace others.
RowsOK ==
    \A k \in KeyId : /\ key[k].user = None => key[k] = NoKey
                     /\ key[k].source # None => key[k].user # None

\* Keys on their way count as created.
CountersOK ==
    \A u \in User :
        /\ IsFiniteSet(ActiveKeys(u))
        /\ Cardinality(ActiveKeys(u)) + Cardinality(Creating(u)) < MostKeys + Cardinality(Proc)

\* The strengthening of KeysBounded and ReplacedOnce that every step preserves.
IInv ==
    /\ TypeOK
    /\ \A p \in Proc : CallOK(call[p])
    /\ RotationsExclusive
    /\ RowsOK
    /\ CountersOK
    /\ ReplacedOnce

\* A revoked key never works again, although each request that uses it writes to
\* its row after having read it (authentication.py:36-44).
RevokedStaysRevoked ==
    [][\A k \in KeyId : key[k].revoked # None => key'[k].revoked # None]_vars

\* A key stops working because its owner's call revokes it, or in the commit that
\* issues its replacement: a rotation that is refused or dies leaves it usable.
RevokedForAReason ==
    [][\A k \in KeyId : IsActive(k) /\ key'[k].revoked # None =>
          \/ \E p \in Proc : /\ call[p].op = "revoke" /\ call[p].key = k
                             /\ call'[p] = NoCall
          \/ \E j \in KeyId : key[j] = NoKey /\ key'[j].source = k]_vars

(* Refinement of KeyRing *)

Ring == [u \in User |-> ActiveKeys(u)]
Revoked == {k \in KeyId : key[k].revoked # None}
Heirs == {<<key[k].source, k>> : k \in {j \in KeyId : key[j].source # None}}

Promised == INSTANCE KeyRing WITH Most <- MostKeys + Cardinality(Proc) - 1,
                                  ring <- Ring, dead <- Revoked, heirs <- Heirs

\* Statement by statement, with rollbacks, kills and rows written long after they were
\* read, the component keeps the promise of KeyRing: a rotation is one step (services.py:53),
\* what is revoked stays so, an INSERT is refused in time to bound the ring.
ImplementsKeyRing == Promised!Spec
====================================================================================
