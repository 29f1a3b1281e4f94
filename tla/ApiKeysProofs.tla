------------------------------ MODULE ApiKeysProofs ------------------------------
(***************************************************************************)
(* Theorems about ApiKeys, for any users, plans and keys and any number of *)
(* threads.                                                                *)
(***************************************************************************)
EXTENDS ApiKeys, SetLemmas

LEMMA CreatingSet ==
    ASSUME NEW u \in User
    PROVE  /\ IsFiniteSet(Creating(u)) /\ Cardinality(Creating(u)) \in Nat
           /\ Cardinality(Proc) \in Nat /\ Cardinality(Creating(u)) <= Cardinality(Proc)
<1>1. Creating(u) \in SUBSET Proc /\ IsFiniteSet(Proc)
  BY KeysAssumption DEF Creating
<1> QED
  BY <1>1, SmallerSet

LEMMA InitIInv == Init => IInv
<1> SUFFICES ASSUME Init PROVE IInv
  OBVIOUS
<1> USE KeysAssumption
<1>1. TypeOK
  BY DEF Init, TypeOK, NoKey, KeyRow, NoCall, KeyCall
<1>2. \A p \in Proc : CallOK(call[p])
  BY DEF Init, CallOK, NoCall
<1>3. RotationsExclusive /\ RowsOK /\ ReplacedOnce
  BY DEF Init, RotationsExclusive, RowsOK, ReplacedOnce, NoCall, NoKey
<1>4. CountersOK
  <2> SUFFICES ASSUME NEW u \in User
               PROVE  /\ IsFiniteSet(ActiveKeys(u))
                      /\ Cardinality(ActiveKeys(u)) + Cardinality(Creating(u))
                            < MostKeys + Cardinality(Proc)
    BY DEF CountersOK
  <2>1. ActiveKeys(u) = {}
    BY DEF Init, ActiveKeys, IsActive, NoKey
  <2>2. IsFiniteSet(ActiveKeys(u)) /\ Cardinality(ActiveKeys(u)) = 0
    BY <2>1, FS_EmptySet
  <2> QED
    BY <2>2, CreatingSet
<1> QED
  BY <1>1, <1>2, <1>3, <1>4 DEF IInv

------------------------------------------------------------------------------------
(* Steps that change one call and no row *)

LEMMA CallStep ==
    ASSUME IInv, NEW p \in Proc, NEW r \in KeyCall, call' = [call EXCEPT ![p] = r],
           UNCHANGED <<now, plan, key>>, calls' \in Nat, changes' \in Nat,
           CallOK(r),
           r.op = "rotate" => \A q \in Proc \ {p} : call[q].op = "rotate" => call[q].key # r.key,
           r.pc = "insert" /\ r.op = "create" => Cardinality(ActiveKeys(r.user)) < MostKeys
    PROVE  IInv'
<1>1. /\ call' \in [Proc -> KeyCall] /\ call'[p] = r
      /\ \A x \in Proc \ {p} : call'[x] = call[x]
  BY DEF IInv, TypeOK
<1>2. TypeOK'
  BY <1>1 DEF IInv, TypeOK
<1>3. \A x \in Proc : CallOK(call[x])'
  <2>1. CallOK(r) /\ \A x \in Proc : CallOK(call[x])
    BY DEF IInv
  <2> QED
    BY <1>1, <2>1 DEF CallOK
<1>4. RotationsExclusive'
  BY <1>1 DEF IInv, RotationsExclusive
<1>5. RowsOK' /\ ReplacedOnce'
  BY DEF IInv, RowsOK, ReplacedOnce
<1>6. CountersOK'
  <2> SUFFICES ASSUME NEW u \in User
               PROVE  /\ IsFiniteSet(ActiveKeys(u))
                      /\ Cardinality(ActiveKeys(u)) + Cardinality(Creating(u)')
                            < MostKeys + Cardinality(Proc)
    BY DEF CountersOK, ActiveKeys, IsActive
  <2>1. /\ IsFiniteSet(ActiveKeys(u)) /\ Cardinality(ActiveKeys(u)) \in Nat
        /\ Cardinality(ActiveKeys(u)) + Cardinality(Creating(u)) < MostKeys + Cardinality(Proc)
    BY FS_CardinalityType DEF IInv, CountersOK
  <2>2. /\ Cardinality(Creating(u)) \in Nat /\ Cardinality(Proc) \in Nat /\ MostKeys \in Nat
    BY CreatingSet, KeysAssumption
  <2>3. Creating(u)' \in SUBSET Proc /\ IsFiniteSet(Proc)
    BY KeysAssumption DEF Creating
  <2>4. Cardinality(Creating(u)') \in Nat /\ Cardinality(Creating(u)') <= Cardinality(Proc)
    BY <2>3, SmallerSet
  <2>5. CASE r.pc = "insert" /\ r.op = "create" /\ r.user = u
    BY <2>1, <2>2, <2>4, <2>5
  <2>6. CASE ~(r.pc = "insert" /\ r.op = "create" /\ r.user = u)
    <3>1. Creating(u)' \subseteq Creating(u)
      BY <1>1, <2>6 DEF Creating
    <3>2. Cardinality(Creating(u)') <= Cardinality(Creating(u))
      BY <3>1, CreatingSet, SmallerSet
    <3> QED
      BY <2>1, <2>2, <2>4, <3>2
  <2> QED
    BY <2>5, <2>6
<1> QED
  BY <1>2, <1>3, <1>4, <1>5, <1>6 DEF IInv

\* A call that arrives for a key: rotation, revocation or authentication.
LEMMA KeyCallStep ==
    ASSUME IInv, NEW p \in Proc, NEW k \in KeyId, IsActive(k),
           NEW pc \in {"update", "mark", "plan"}, NEW op \in {"rotate", "revoke", "use"},
           op = "rotate" <=> pc = "plan", op = "revoke" <=> pc = "update",
           op = "rotate" => ~Locked(p, k),
           Start(p, [NoCall EXCEPT !.pc = pc, !.op = op, !.user = key[k].user,
                                   !.key = k, !.at = now])
    PROVE  IInv'
<1> USE KeysAssumption
<1>1. key[k] \in KeyRow /\ key[k].user \in User /\ key[k].revoked = None /\ now \in Nat
  BY DEF IInv, TypeOK, IsActive, KeyRow
<1> DEFINE r == [NoCall EXCEPT !.pc = pc, !.op = op, !.user = key[k].user, !.key = k, !.at = now]
<1>2. r \in KeyCall /\ r.pc = pc /\ r.op = op /\ r.user = key[k].user /\ r.key = k
  BY <1>1 DEF NoCall, KeyCall
<1>3. /\ call' = [call EXCEPT ![p] = r]
      /\ UNCHANGED <<now, plan, key>> /\ calls' \in Nat /\ changes' \in Nat
  BY DEF Start, Goto, IInv, TypeOK
<1> HIDE DEF r
<1>4. CallOK(r)
  BY <1>1, <1>2 DEF CallOK
<1>5. r.op = "rotate" => \A q \in Proc \ {p} : call[q].op = "rotate" => call[q].key # r.key
  BY <1>2 DEF Locked
<1> QED
  BY <1>2, <1>3, <1>4, <1>5, CallStep

LEMMA CreateStep ==
    ASSUME IInv, NEW p \in Proc, NEW u \in User, Create(p, u)
    PROVE  IInv'
<1> DEFINE r == [NoCall EXCEPT !.pc = "plan", !.op = "create", !.user = u]
<1>1. r \in KeyCall /\ r.pc = "plan" /\ r.op = "create" /\ r.user = u /\ r.key = None
  BY DEF NoCall, KeyCall
<1>2. /\ call' = [call EXCEPT ![p] = r]
      /\ UNCHANGED <<now, plan, key>> /\ calls' \in Nat /\ changes' \in Nat
  BY DEF Create, Start, Goto, IInv, TypeOK
<1> HIDE DEF r
<1>3. CallOK(r)
  BY <1>1 DEF CallOK
<1> QED
  BY <1>1, <1>2, <1>3, CallStep

\* The call ends without having written: refused or killed.
LEMMA IdleStep ==
    ASSUME IInv, NEW p \in Proc, call' = [call EXCEPT ![p] = NoCall],
           UNCHANGED <<now, plan, key, calls, changes>>
    PROVE  IInv'
<1>1. NoCall \in KeyCall /\ NoCall.pc = "idle" /\ NoCall.op = "none"
  BY DEF NoCall, KeyCall
<1>2. CallOK(NoCall)
  BY <1>1 DEF CallOK
<1> QED
  BY <1>1, <1>2, CallStep DEF IInv, TypeOK

LEMMA PlanStep ==
    ASSUME IInv, NEW p \in Proc, ReadPlan(p)
    PROVE  IInv'
<1> USE KeysAssumption
<1> DEFINE pl == plan[call[p].user]
           n == IF pl = None THEN 1 ELSE MaxKeys[pl]
           r == [call[p] EXCEPT !.pc = "count", !.limit = n]
<1>1. call[p] \in KeyCall /\ CallOK(call[p]) /\ call[p].pc = "plan"
  BY DEF IInv, TypeOK, ReadPlan
<1>2. call[p].op \in {"create", "rotate"} /\ call[p].user \in User
  BY <1>1 DEF CallOK
<1>3. n \in Nat /\ n <= MostKeys
  BY <1>2 DEF IInv, TypeOK
<1>4. /\ call' = [call EXCEPT ![p] = r]
      /\ UNCHANGED <<now, plan, key>> /\ calls' \in Nat /\ changes' \in Nat
  BY DEF ReadPlan, Goto, IInv, TypeOK
<1> HIDE DEF n
<1>5. /\ r \in KeyCall /\ r.pc = "count" /\ r.op = call[p].op /\ r.user = call[p].user
      /\ r.key = call[p].key /\ r.limit = n
  BY <1>1, <1>3 DEF KeyCall
<1> HIDE DEF r
<1>6. CallOK(r)
  BY <1>1, <1>2, <1>3, <1>5 DEF CallOK
<1>7. r.op = "rotate" => \A q \in Proc \ {p} : call[q].op = "rotate" => call[q].key # r.key
  BY <1>5 DEF IInv, RotationsExclusive
<1> QED
  BY <1>4, <1>5, <1>6, <1>7, CallStep

LEMMA CountStep ==
    ASSUME IInv, NEW p \in Proc, CountKeys(p)
    PROVE  IInv'
<1> USE KeysAssumption
<1>0. UNCHANGED <<now, plan, key, calls, changes>>
  BY DEF CountKeys
<1>1. CASE Goto(p, NoCall)
  BY <1>0, <1>1, IdleStep DEF Goto
<1>2. CASE /\ Cardinality(ActiveKeys(call[p].user) \ {call[p].key}) < call[p].limit
           /\ Goto(p, [call[p] EXCEPT !.pc = "insert"])
  <2> DEFINE r == [call[p] EXCEPT !.pc = "insert"]
  <2>1. call[p] \in KeyCall /\ CallOK(call[p]) /\ call[p].pc = "count"
    BY DEF IInv, TypeOK, CountKeys
  <2>2. /\ r \in KeyCall /\ r.pc = "insert" /\ r.op = call[p].op /\ r.user = call[p].user
        /\ r.key = call[p].key
    BY <2>1 DEF KeyCall
  <2>3. call' = [call EXCEPT ![p] = r]
    BY <1>2 DEF Goto
  <2> HIDE DEF r
  <2>4. CallOK(r)
    BY <2>1, <2>2 DEF CallOK
  <2>5. r.op = "rotate" => \A q \in Proc \ {p} : call[q].op = "rotate" => call[q].key # r.key
    BY <2>2 DEF IInv, RotationsExclusive
  <2>6. ASSUME r.op = "create" PROVE Cardinality(ActiveKeys(r.user)) < MostKeys
    <3>1. call[p].key = None /\ call[p].user \in User /\ call[p].limit <= MostKeys
          /\ call[p].limit \in Nat
      BY <2>1, <2>2, <2>6 DEF CallOK, KeyCall
    <3>2. ActiveKeys(call[p].user) \ {call[p].key} = ActiveKeys(call[p].user)
      BY <3>1 DEF ActiveKeys
    <3>3. Cardinality(ActiveKeys(call[p].user)) \in Nat
      BY <3>1, FS_CardinalityType DEF IInv, CountersOK
    <3>4. Cardinality(ActiveKeys(call[p].user)) < call[p].limit
      BY <1>2, <3>2
    <3> QED
      BY <2>2, <3>1, <3>3, <3>4
  <2>7. calls' \in Nat /\ changes' \in Nat
    BY <1>0 DEF IInv, TypeOK
  <2> QED
    BY <1>0, <2>2, <2>3, <2>4, <2>5, <2>6, <2>7, CallStep
<1> QED
  BY <1>1, <1>2 DEF CountKeys

------------------------------------------------------------------------------------
(* Updates by primary key of a row that was read earlier *)

LEMMA UpdateStep ==
    ASSUME IInv, NEW p \in Proc, NEW k \in KeyId, NEW row \in KeyRow,
           call[p].op \in {"revoke", "use"}, call[p].key = k, ~Locked(p, k),
           call' = [call EXCEPT ![p] = NoCall],
           key' = [key EXCEPT ![k] = row],
           row.user = key[k].user, row.source = key[k].source,
           key[k].revoked # None => row.revoked # None,
           UNCHANGED <<now, plan, calls, changes>>
    PROVE  IInv'
<1> USE KeysAssumption
<1>1. /\ call' \in [Proc -> KeyCall] /\ call'[p] = NoCall
      /\ \A x \in Proc \ {p} : call'[x] = call[x]
  BY DEF IInv, TypeOK, NoCall, KeyCall
<1>2. NoCall.pc = "idle" /\ NoCall.op = "none"
  BY DEF NoCall
<1>3. /\ key' \in [KeyId -> KeyRow] /\ key'[k] = row
      /\ \A j \in KeyId \ {k} : key'[j] = key[j]
  BY DEF IInv, TypeOK
<1>4. \A j \in KeyId : /\ key'[j].user = key[j].user /\ key'[j].source = key[j].source
                       /\ key[j].revoked # None => key'[j].revoked # None
  BY <1>3
<1>5. key[k].user \in User
  BY DEF IInv, CallOK
<1>6. TypeOK'
  BY <1>1, <1>3 DEF IInv, TypeOK
\* No other call rotates k, so every rotation still works on an active key.
<1>7. \A x \in Proc : CallOK(call[x])'
  <2> SUFFICES ASSUME NEW x \in Proc \ {p} PROVE CallOK(call[x])'
    BY <1>1, <1>2 DEF CallOK
  <2>1. CallOK(call[x]) /\ call'[x] = call[x]
    BY <1>1 DEF IInv
  <2>2. ASSUME call[x].op = "rotate" PROVE key'[call[x].key].revoked = None
    <3>1. call[x].key \in KeyId /\ call[x].key # k /\ key[call[x].key].revoked = None
      BY <2>1, <2>2 DEF CallOK, Locked
    <3> QED
      BY <1>3, <3>1
  <2> QED
    BY <1>4, <2>1, <2>2 DEF CallOK
<1>8. RotationsExclusive'
  BY <1>1, <1>2 DEF IInv, RotationsExclusive
<1>9. RowsOK'
  <2>1. \A j \in KeyId : key[j].user = None => key'[j] = NoKey
    BY <1>3, <1>5 DEF IInv, RowsOK
  <2> QED
    BY <1>4, <2>1 DEF IInv, RowsOK
<1>10. ReplacedOnce'
  <2> SUFFICES ASSUME NEW j \in KeyId, key[j].source # None
               PROVE  /\ key'[key[j].source].revoked # None
                      /\ key'[key[j].source].user = key[j].user
                      /\ \A i \in KeyId : key[i].source = key[j].source => i = j
    BY <1>4 DEF ReplacedOnce
  <2>1. key[j].source \in KeyId
    BY DEF IInv, TypeOK, KeyRow
  <2> QED
    BY <1>4, <2>1 DEF IInv, ReplacedOnce
<1>11. CountersOK'
  <2> SUFFICES ASSUME NEW u \in User
               PROVE  /\ IsFiniteSet(ActiveKeys(u)')
                      /\ Cardinality(ActiveKeys(u)') + Cardinality(Creating(u)')
                            < MostKeys + Cardinality(Proc)
    BY DEF CountersOK
  <2>1. ActiveKeys(u)' \subseteq ActiveKeys(u)
    BY <1>4 DEF ActiveKeys, IsActive
  <2>2. Creating(u)' \subseteq Creating(u)
    BY <1>1, <1>2 DEF Creating
  <2>3. /\ IsFiniteSet(ActiveKeys(u))
        /\ Cardinality(ActiveKeys(u)) + Cardinality(Creating(u)) < MostKeys + Cardinality(Proc)
    BY DEF IInv, CountersOK
  <2>4. /\ IsFiniteSet(ActiveKeys(u)') /\ Cardinality(ActiveKeys(u)') \in Nat
        /\ Cardinality(ActiveKeys(u)) \in Nat
        /\ Cardinality(ActiveKeys(u)') <= Cardinality(ActiveKeys(u))
    BY <2>1, <2>3, SmallerSet
  <2>5. /\ Cardinality(Creating(u)') \in Nat /\ Cardinality(Creating(u)) \in Nat
        /\ Cardinality(Proc) \in Nat /\ Cardinality(Creating(u)') <= Cardinality(Creating(u))
    BY <2>2, CreatingSet, SmallerSet
  <2> QED
    BY <2>3, <2>4, <2>5
<1> QED
  BY <1>6, <1>7, <1>8, <1>9, <1>10, <1>11 DEF IInv

LEMMA RevokeStep ==
    ASSUME IInv, NEW p \in Proc, RevokeUpdate(p)
    PROVE  IInv'
<1> USE KeysAssumption
<1>1. call[p] \in KeyCall /\ CallOK(call[p]) /\ call[p].pc = "update"
  BY DEF IInv, TypeOK, RevokeUpdate
<1>2. PICK k \in KeyId : k = call[p].key
  BY <1>1 DEF CallOK, KeyCall
<1> DEFINE row == [key[k] EXCEPT !.revoked = call[p].at]
<1>3. row \in KeyRow /\ row.user = key[k].user /\ row.source = key[k].source /\ row.revoked # None
  BY <1>1 DEF IInv, TypeOK, KeyRow, KeyCall
<1>4. key' = [key EXCEPT ![k] = row]
  BY <1>2 DEF RevokeUpdate
<1> HIDE DEF row
<1>5. /\ ~Locked(p, k) /\ call' = [call EXCEPT ![p] = NoCall]
      /\ UNCHANGED <<now, plan, calls, changes>>
  BY <1>2 DEF RevokeUpdate, Goto
<1>6. call[p].op \in {"revoke", "use"}
  BY <1>1 DEF CallOK, KeyCall
<1> QED
  BY <1>2, <1>3, <1>4, <1>5, <1>6, UpdateStep

LEMMA MarkStep ==
    ASSUME IInv, NEW p \in Proc, MarkUsed(p)
    PROVE  IInv'
<1>1. call[p] \in KeyCall /\ CallOK(call[p]) /\ call[p].pc = "mark"
  BY DEF IInv, TypeOK, MarkUsed
<1>2. PICK k \in KeyId : k = call[p].key
  BY <1>1 DEF CallOK, KeyCall
<1>3. /\ ~Locked(p, k) /\ call' = [call EXCEPT ![p] = NoCall]
      /\ UNCHANGED <<now, plan, calls, changes>>
  BY <1>2 DEF MarkUsed, Goto
<1>4. call[p].op \in {"revoke", "use"}
  BY <1>1 DEF CallOK, KeyCall
<1>5. CASE UNCHANGED key
  BY <1>3, <1>5, IdleStep
<1>6. CASE key' = [key EXCEPT ![call[p].key].used = call[p].at]
  <2> DEFINE row == [key[k] EXCEPT !.used = call[p].at]
  <2>1. /\ row \in KeyRow /\ row.user = key[k].user /\ row.source = key[k].source
        /\ row.revoked = key[k].revoked
    BY <1>1 DEF IInv, TypeOK, KeyRow, KeyCall
  <2>2. key' = [key EXCEPT ![k] = row]
    BY <1>2, <1>6
  <2> HIDE DEF row
  <2> QED
    BY <1>2, <1>3, <1>4, <2>1, <2>2, UpdateStep
<1> QED
  BY <1>5, <1>6 DEF MarkUsed

------------------------------------------------------------------------------------
(* A new key: created, or in the place of the one that is rotated *)

LEMMA InsertStep ==
    ASSUME IInv, NEW p \in Proc, InsertKey(p)
    PROVE  IInv'
<1> USE KeysAssumption
<1>1. /\ call[p] \in KeyCall /\ CallOK(call[p]) /\ call[p].pc = "insert"
      /\ call[p].op \in {"create", "rotate"} /\ call[p].user \in User
      /\ UNCHANGED <<now, plan, calls, changes>> /\ call' = [call EXCEPT ![p] = NoCall]
      /\ \A x \in Proc : CallOK(call[x])
  BY DEF IInv, TypeOK, InsertKey, Goto, CallOK
<1>2. PICK n \in UnusedKeys : n = NewKey
  BY DEF InsertKey, NewKey
<1>3. /\ n \in KeyId /\ key[n] = NoKey /\ key[n].user = None /\ key[n].revoked = None
      /\ key[n].source = None
  BY <1>2 DEF UnusedKeys, NoKey
<1> DEFINE row == [NoKey EXCEPT !.user = call[p].user, !.source = call[p].key]
           old == call[p].key
           u == call[p].user
<1>4. row \in KeyRow /\ row.user = u /\ row.source = old /\ row.revoked = None
  BY <1>1 DEF NoKey, KeyRow, KeyCall
<1>5. /\ DOMAIN key' = KeyId /\ key' = [k \in KeyId |-> key'[k]] /\ key'[n] = row
      /\ \A k \in KeyId \ {n} :
            key'[k] = IF k = old THEN [key[k] EXCEPT !.revoked = call[p].at] ELSE key[k]
  BY <1>2, <1>3 DEF InsertKey
<1> HIDE DEF row
<1>6. ASSUME NEW k \in KeyId \ {n}
      PROVE  /\ key'[k] \in KeyRow
             /\ key'[k].user = key[k].user /\ key'[k].source = key[k].source
             /\ k = old => key'[k].revoked # None
             /\ k # old => key'[k] = key[k]
  BY <1>1, <1>5 DEF IInv, TypeOK, KeyRow, KeyCall
<1>7. /\ call' \in [Proc -> KeyCall] /\ call'[p].pc = "idle" /\ call'[p].op = "none"
      /\ call'[p] = NoCall /\ \A x \in Proc \ {p} : call'[x] = call[x]
  BY <1>1 DEF IInv, TypeOK, NoCall, KeyCall
<1>8. TypeOK'
  BY <1>1, <1>4, <1>5, <1>6, <1>7 DEF IInv, TypeOK
\* Nobody works on the new row yet, and nobody else on the one being rotated.
<1>9. \A x \in Proc : CallOK(call[x])'
  <2>1. CallOK(call[p])'
    BY <1>7 DEF CallOK, NoCall
  <2> SUFFICES ASSUME NEW x \in Proc \ {p} PROVE CallOK(call[x])'
    BY <2>1
  <2>2. CallOK(call[x]) /\ call'[x] = call[x]
    BY <1>1, <1>7
  <2>3. ASSUME call[x].op \in {"rotate", "revoke", "use"}
        PROVE  call[x].key \in KeyId \ {n} /\ key'[call[x].key].user = call[x].user
    <3>1. call[x].key \in KeyId /\ call[x].key # n
      BY <1>3, <2>2, <2>3 DEF CallOK
    <3> QED
      BY <1>6, <2>2, <2>3, <3>1 DEF CallOK
  <2>4. ASSUME call[x].op = "rotate" PROVE key'[call[x].key].revoked = None
    <3>1. call[x].key # old
      BY <1>1, <2>2, <2>4 DEF CallOK, IInv, RotationsExclusive
    <3> QED
      BY <1>6, <2>2, <2>3, <2>4, <3>1 DEF CallOK
  <2> QED
    BY <2>2, <2>3, <2>4 DEF CallOK
<1>10. RotationsExclusive'
  BY <1>7 DEF IInv, RotationsExclusive
<1>11. RowsOK'
  <2> SUFFICES ASSUME NEW k \in KeyId
               PROVE  /\ key'[k].user = None => key'[k] = NoKey
                      /\ key'[k].source # None => key'[k].user # None
    BY DEF RowsOK
  <2>1. CASE k = n
    BY <1>1, <1>4, <1>5, <2>1
  <2>2. CASE k # n
    <3>1. old = k => key[k].user # None
      BY <1>1 DEF CallOK
    <3> QED
      BY <1>6, <2>2, <3>1 DEF IInv, RowsOK
  <2> QED
    BY <2>1, <2>2
\* A key that replaces none leaves the others' replacements alone; one that does
\* is the first, because the key it replaces is active.
<1>12. ReplacedOnce'
  <2>1. ASSUME NEW k \in KeyId, k # n, key[k].source # None
        PROVE  /\ key[k].source \in KeyId \ {n} /\ key[k].source # old
               /\ key'[key[k].source].revoked # None
               /\ key'[key[k].source].user = key[k].user
    <3>1. /\ key[k].source \in KeyId /\ key[key[k].source].revoked # None
          /\ key[key[k].source].user = key[k].user
      BY <2>1 DEF IInv, TypeOK, KeyRow, ReplacedOnce
    <3>2. key[k].source # n
      BY <1>3, <3>1
    <3>3. key[k].source # old
      BY <1>1, <3>1 DEF CallOK
    <3> QED
      BY <1>6, <3>1, <3>2, <3>3
  <2>2. ASSUME old # None
        PROVE  old \in KeyId \ {n} /\ key[old].user = u
    BY <1>1, <1>3, <2>2 DEF CallOK
  <2> SUFFICES ASSUME NEW k \in KeyId, key'[k].source # None
               PROVE  /\ key'[key'[k].source].revoked # None
                      /\ key'[key'[k].source].user = key'[k].user
                      /\ \A j \in KeyId : key'[j].source = key'[k].source => j = k
    BY DEF ReplacedOnce
  <2>3. CASE k = n
    <3>1. key'[k].source = old /\ key'[k].user = u /\ old # None
      BY <1>4, <1>5, <2>3
    <3>2. key'[old].revoked # None /\ key'[old].user = u
      BY <1>6, <2>2, <3>1
    <3>3. ASSUME NEW j \in KeyId, j # n PROVE key'[j].source # old
      BY <1>6, <2>1, <3>1, <3>3
    <3> QED
      BY <2>3, <3>1, <3>2, <3>3
  <2>4. CASE k # n
    <3>1. key'[k].source = key[k].source /\ key'[k].user = key[k].user
      BY <1>6, <2>4
    <3>2. ASSUME NEW j \in KeyId, key'[j].source = key[k].source PROVE j = k
      <4>1. j # n
        BY <1>4, <1>5, <2>1, <2>4, <3>1, <3>2
      <4>2. key[j].source = key[k].source
        BY <1>6, <3>2, <4>1
      <4> QED
        BY <3>1, <4>2 DEF IInv, ReplacedOnce
    <3> QED
      BY <2>1, <2>4, <3>1, <3>2
  <2> QED
    BY <2>3, <2>4
<1>13. CountersOK'
  <2> SUFFICES ASSUME NEW v \in User
               PROVE  /\ IsFiniteSet(ActiveKeys(v)')
                      /\ Cardinality(ActiveKeys(v)') + Cardinality(Creating(v)')
                            < MostKeys + Cardinality(Proc)
    BY DEF CountersOK
  <2>1. /\ IsFiniteSet(ActiveKeys(v)) /\ Cardinality(ActiveKeys(v)) \in Nat
        /\ Cardinality(ActiveKeys(v)) + Cardinality(Creating(v)) < MostKeys + Cardinality(Proc)
    BY FS_CardinalityType DEF IInv, CountersOK
  <2>2. /\ IsFiniteSet(Creating(v)) /\ Cardinality(Creating(v)) \in Nat /\ Cardinality(Proc) \in Nat
    BY CreatingSet
  <2>3. CASE v # u
    <3>1. ActiveKeys(v)' = ActiveKeys(v)
      <4>1. ASSUME NEW k \in KeyId PROVE k \in ActiveKeys(v)' <=> k \in ActiveKeys(v)
        <5>1. CASE k = n
          BY <1>3, <1>4, <1>5, <2>3, <5>1 DEF ActiveKeys, IsActive
        <5>2. CASE k # n /\ k = old
          <6>1. key[k].user = u
            BY <1>1, <5>2 DEF CallOK
          <6> QED
            BY <1>6, <2>3, <5>2, <6>1 DEF ActiveKeys, IsActive
        <5>3. CASE k # n /\ k # old
          BY <1>6, <5>3 DEF ActiveKeys, IsActive
        <5> QED
          BY <5>1, <5>2, <5>3
      <4> QED
        BY <4>1 DEF ActiveKeys
    <3>2. Creating(v)' = Creating(v)
      BY <1>7, <2>3 DEF Creating
    <3> QED
      BY <2>1, <3>1, <3>2
  <2>4. CASE v = u /\ call[p].op = "create"
    <3>1. old = None
      BY <1>1, <2>4 DEF CallOK
    <3>2. ActiveKeys(v)' \subseteq ActiveKeys(v) \cup {n}
      BY <1>6, <3>1 DEF ActiveKeys, IsActive
    <3>3. /\ IsFiniteSet(ActiveKeys(v) \cup {n}) /\ Cardinality(ActiveKeys(v) \cup {n}) \in Nat
          /\ Cardinality(ActiveKeys(v) \cup {n}) <= Cardinality(ActiveKeys(v)) + 1
      BY <2>1, LargerSet
    <3>4. /\ IsFiniteSet(ActiveKeys(v)') /\ Cardinality(ActiveKeys(v)') \in Nat
          /\ Cardinality(ActiveKeys(v)') <= Cardinality(ActiveKeys(v) \cup {n})
      BY <3>2, <3>3, SmallerSet
    <3>5. p \in Creating(v) /\ Creating(v)' = Creating(v) \ {p}
      BY <1>1, <1>7, <2>4 DEF Creating
    <3>6. Cardinality(Creating(v)') \in Nat /\ Cardinality(Creating(v)) = Cardinality(Creating(v)') + 1
      BY <2>2, <3>5, WithoutElement
    <3> QED
      BY <2>1, <2>2, <3>3, <3>4, <3>6
  <2>5. CASE v = u /\ call[p].op = "rotate"
    <3>1. old \in ActiveKeys(v) /\ old # n
      BY <1>1, <1>3, <2>5 DEF CallOK, ActiveKeys, IsActive
    <3>2. ActiveKeys(v)' \subseteq (ActiveKeys(v) \ {old}) \cup {n}
      BY <1>6, <3>1 DEF ActiveKeys, IsActive
    <3>3. /\ IsFiniteSet(ActiveKeys(v) \ {old}) /\ Cardinality(ActiveKeys(v) \ {old}) \in Nat
          /\ Cardinality(ActiveKeys(v)) = Cardinality(ActiveKeys(v) \ {old}) + 1
      BY <2>1, <3>1, WithoutElement
    <3>4. /\ IsFiniteSet((ActiveKeys(v) \ {old}) \cup {n})
          /\ Cardinality((ActiveKeys(v) \ {old}) \cup {n}) \in Nat
          /\ Cardinality((ActiveKeys(v) \ {old}) \cup {n}) <= Cardinality(ActiveKeys(v) \ {old}) + 1
      BY <3>3, LargerSet
    <3>5. /\ IsFiniteSet(ActiveKeys(v)') /\ Cardinality(ActiveKeys(v)') \in Nat
          /\ Cardinality(ActiveKeys(v)') <= Cardinality((ActiveKeys(v) \ {old}) \cup {n})
      BY <3>2, <3>4, SmallerSet
    <3>6. Creating(v)' = Creating(v)
      BY <1>7, <2>5 DEF Creating
    <3> QED
      BY <2>1, <2>2, <3>3, <3>4, <3>5, <3>6
  <2> QED
    BY <1>1, <2>3, <2>4, <2>5
<1> QED
  BY <1>8, <1>9, <1>10, <1>11, <1>12, <1>13 DEF IInv

LEMMA NextIInv == IInv /\ [Next]_vars => IInv'
<1> SUFFICES ASSUME IInv, [Next]_vars PROVE IInv'
  OBVIOUS
<1>1. ASSUME NEW p \in Proc, NEW u \in User, Create(p, u) PROVE IInv'
  BY <1>1, CreateStep
<1>2. ASSUME NEW p \in Proc, NEW k \in KeyId, Rotate(p, k) PROVE IInv'
  BY <1>2, KeyCallStep DEF Rotate
<1>3. ASSUME NEW p \in Proc, NEW k \in KeyId, Revoke(p, k) PROVE IInv'
  BY <1>3, KeyCallStep DEF Revoke
<1>4. ASSUME NEW p \in Proc, NEW k \in KeyId, Authenticate(p, k) PROVE IInv'
  BY <1>4, KeyCallStep DEF Authenticate
<1>5. ASSUME NEW p \in Proc, Proceed(p) PROVE IInv'
  BY <1>5, PlanStep, CountStep, InsertStep, RevokeStep, MarkStep DEF Proceed
<1>6. ASSUME NEW p \in Proc, Crash(p) PROVE IInv'
  BY <1>6, IdleStep DEF Crash, Goto
\* What remains changes neither a key nor a call.
<1>7. ASSUME plan' \in [User -> Plan \cup {None}], now' \in Nat, changes' \in Nat,
             UNCHANGED <<key, call, calls>>
      PROVE  IInv'
  BY <1>7 DEF IInv, TypeOK, CallOK, RotationsExclusive, RowsOK, CountersOK, ReplacedOnce,
              ActiveKeys, IsActive, Creating
<1>8. ASSUME NEW u \in User, NEW pl \in Plan, ChangePlan(u, pl) PROVE IInv'
  <2>1. plan' \in [User -> Plan \cup {None}] /\ now' \in Nat /\ changes' \in Nat
    BY <1>8 DEF ChangePlan, IInv, TypeOK
  <2> QED
    BY <1>7, <1>8, <2>1 DEF ChangePlan
<1>9. CASE Tick
  <2>1. plan' \in [User -> Plan \cup {None}] /\ now' \in Nat /\ changes' \in Nat
    BY <1>9 DEF Tick, IInv, TypeOK
  <2> QED
    BY <1>7, <1>9, <2>1 DEF Tick
<1>10. CASE UNCHANGED vars
  BY <1>7, <1>10 DEF vars, IInv, TypeOK
<1> QED
  BY <1>1, <1>2, <1>3, <1>4, <1>5, <1>6, <1>8, <1>9, <1>10 DEF Next

------------------------------------------------------------------------------------
(* What the statements write *)

LEMMA OnlyTheseWrite ==
    ASSUME [Next]_vars, key' # key
    PROVE  \E p \in Proc : InsertKey(p) \/ RevokeUpdate(p) \/ MarkUsed(p)
<1>1. ASSUME NEW p \in Proc, ReadPlan(p) \/ CountKeys(p) \/ Crash(p) PROVE FALSE
  BY <1>1 DEF ReadPlan, CountKeys, Crash
<1>2. ASSUME NEW p \in Proc, NEW i \in KeyId, Rotate(p, i) \/ Revoke(p, i) \/ Authenticate(p, i)
      PROVE  FALSE
  BY <1>2 DEF Rotate, Revoke, Authenticate, Start
<1>3. ASSUME NEW p \in Proc, NEW u \in User, Create(p, u) PROVE FALSE
  BY <1>3 DEF Create, Start
<1>4. ASSUME NEW u \in User, NEW pl \in Plan, ChangePlan(u, pl) PROVE FALSE
  BY <1>4 DEF ChangePlan
<1>5. ~Tick /\ ~UNCHANGED vars
  BY DEF Tick, vars
<1> QED
  BY <1>1, <1>2, <1>3, <1>4, <1>5 DEF Next, Proceed

\* The row of a new key; the row of the key it replaces, if any; no other.
LEMMA InsertWrites ==
    ASSUME IInv, NEW p \in Proc, InsertKey(p)
    PROVE  \E n \in KeyId :
             /\ key[n] = NoKey /\ call[p].key # n
             /\ key'[n].user = call[p].user /\ key'[n].source = call[p].key
             /\ key'[n].revoked = None
             /\ \A k \in KeyId \ {n} :
                   /\ key'[k].user = key[k].user /\ key'[k].source = key[k].source
                   /\ k = call[p].key => key'[k].revoked # None
                   /\ k # call[p].key => key'[k] = key[k]
<1> USE KeysAssumption
<1>1. call[p] \in KeyCall /\ CallOK(call[p]) /\ call[p].pc = "insert" /\ call[p].at # None
  BY DEF IInv, TypeOK, InsertKey, KeyCall
<1>2. PICK n \in UnusedKeys : n = NewKey
  BY DEF InsertKey, NewKey
<1>3. n \in KeyId /\ key[n] = NoKey /\ key[n].user = None
  BY <1>2 DEF UnusedKeys, NoKey
<1>4. call[p].key # n
  BY <1>1, <1>3 DEF CallOK
<1> DEFINE row == [NoKey EXCEPT !.user = call[p].user, !.source = call[p].key]
<1>5. row.user = call[p].user /\ row.source = call[p].key /\ row.revoked = None
  BY DEF NoKey
<1>6. /\ key'[n] = row
      /\ \A k \in KeyId \ {n} :
            key'[k] = IF k = call[p].key THEN [key[k] EXCEPT !.revoked = call[p].at] ELSE key[k]
  BY <1>2, <1>3 DEF InsertKey
<1> HIDE DEF row
<1>7. ASSUME NEW k \in KeyId \ {n}
      PROVE  /\ key'[k].user = key[k].user /\ key'[k].source = key[k].source
             /\ k = call[p].key => key'[k].revoked # None
             /\ k # call[p].key => key'[k] = key[k]
  <2>1. key[k] \in KeyRow
    BY DEF IInv, TypeOK
  <2>2. CASE k = call[p].key
    <3>1. key'[k] = [key[k] EXCEPT !.revoked = call[p].at]
      BY <1>6, <2>2
    <3> QED
      BY <1>1, <2>1, <2>2, <3>1 DEF KeyRow
  <2>3. CASE k # call[p].key
    BY <1>6, <2>3
  <2> QED
    BY <2>2, <2>3
<1> QED
  BY <1>3, <1>4, <1>5, <1>6, <1>7

LEMMA RevokeWrites ==
    ASSUME IInv, NEW p \in Proc, RevokeUpdate(p)
    PROVE  \E k \in KeyId :
             /\ k = call[p].key /\ call[p].op = "revoke" /\ call'[p] = NoCall
             /\ key[k].user \in User
             /\ key'[k].user = key[k].user /\ key'[k].source = key[k].source
             /\ key'[k].revoked # None
             /\ \A j \in KeyId \ {k} : key'[j] = key[j]
<1> USE KeysAssumption
<1>1. /\ call[p] \in KeyCall /\ CallOK(call[p]) /\ call[p].pc = "update" /\ call[p].at # None
      /\ key \in [KeyId -> KeyRow] /\ call \in [Proc -> KeyCall]
  BY DEF IInv, TypeOK, RevokeUpdate, KeyCall
<1>2. PICK k \in KeyId : k = call[p].key
  BY <1>1 DEF CallOK, KeyCall
<1>3. call[p].op = "revoke" /\ key[k].user \in User
  BY <1>1, <1>2 DEF CallOK
<1>4. call'[p] = NoCall
  BY <1>1 DEF RevokeUpdate, Goto
<1>5. /\ key'[k] = [key[k] EXCEPT !.revoked = call[p].at]
      /\ \A j \in KeyId \ {k} : key'[j] = key[j]
  BY <1>1, <1>2 DEF RevokeUpdate
<1>6. /\ key'[k].user = key[k].user /\ key'[k].source = key[k].source
      /\ key'[k].revoked # None
  BY <1>1, <1>5 DEF KeyRow
<1> QED
  BY <1>2, <1>3, <1>4, <1>5, <1>6

LEMMA MarkWrites ==
    ASSUME IInv, NEW p \in Proc, MarkUsed(p), NEW k \in KeyId
    PROVE  /\ key'[k].user = key[k].user /\ key'[k].source = key[k].source
           /\ key'[k].revoked = key[k].revoked
  BY DEF MarkUsed, IInv, TypeOK, KeyRow

------------------------------------------------------------------------------------
(* The theorems *)

\* IInv holds in every reachable state of the API key operations
\* (api_keys/services.py:22-65).
THEOREM Invariance == Spec => []IInv
<1>1. Init => IInv
  BY InitIInv
<1>2. IInv /\ [Next]_vars => IInv'
  BY NextIInv
<1> QED
  BY <1>1, <1>2, PTL DEF Spec

\* Rows and calls keep their shape.
THEOREM TypeCorrect == Spec => []TypeOK
<1>1. IInv => TypeOK
  BY DEF IInv
<1> QED
  BY <1>1, Invariance, PTL

\* However creations, rotations and changes of plan interleave, a user's active keys
\* exceed the highest limit by less than the number of threads (services.py:27-36).
THEOREM BoundedKeys == Spec => []KeysBounded
<1>1. IInv => KeysBounded
  <2> SUFFICES ASSUME IInv, NEW u \in User
               PROVE  Cardinality(ActiveKeys(u)) < MostKeys + Cardinality(Proc)
    BY DEF KeysBounded
  <2>1. /\ IsFiniteSet(ActiveKeys(u))
        /\ Cardinality(ActiveKeys(u)) + Cardinality(Creating(u)) < MostKeys + Cardinality(Proc)
    BY DEF IInv, CountersOK
  <2>2. /\ Cardinality(ActiveKeys(u)) \in Nat /\ Cardinality(Creating(u)) \in Nat
        /\ Cardinality(Proc) \in Nat /\ MostKeys \in Nat
    BY <2>1, CreatingSet, FS_CardinalityType, KeysAssumption
  <2> QED
    BY <2>1, <2>2
<1> QED
  BY <1>1, Invariance, PTL

\* No interleaving of rotations, revocations and crashes gives a key two
\* replacements, or leaves it active beside one (rotate_api_key, services.py:55-65).
THEOREM OneReplacement == Spec => []ReplacedOnce
<1>1. IInv => ReplacedOnce
  BY DEF IInv
<1> QED
  BY <1>1, Invariance, PTL

\* A revoked key never works again, whatever was read before it was revoked
\* (APIKey.mark_used and revoke, models.py:50-55).
THEOREM RevokedForGood == Spec => RevokedStaysRevoked
<1>1. ASSUME IInv, [Next]_vars, NEW k \in KeyId, key[k].revoked # None
      PROVE  key'[k].revoked # None
  <2>1. CASE UNCHANGED key
    BY <1>1, <2>1
  <2>2. ASSUME NEW p \in Proc, InsertKey(p) PROVE key'[k].revoked # None
    <3>1. key[k] # NoKey
      BY <1>1 DEF NoKey
    <3> QED
      BY <1>1, <2>2, <3>1, InsertWrites
  <2>3. ASSUME NEW p \in Proc, RevokeUpdate(p) PROVE key'[k].revoked # None
    BY <1>1, <2>3, RevokeWrites
  <2>4. ASSUME NEW p \in Proc, MarkUsed(p) PROVE key'[k].revoked # None
    BY <1>1, <2>4, MarkWrites
  <2> QED
    BY <1>1, <2>1, <2>2, <2>3, <2>4, OnlyTheseWrite
<1>2. IInv /\ [Next]_vars =>
         [\A k \in KeyId : key[k].revoked # None => key'[k].revoked # None]_vars
  BY <1>1
<1> QED
  BY <1>2, Invariance, PTL DEF Spec, RevokedStaysRevoked

\* A key stops working only through a revocation of it, or in the commit that issues
\* its replacement (services.py:45-65).
THEOREM NoUnreasonedRevocation == Spec => RevokedForAReason
<1> DEFINE Reason(k) ==
      \/ \E p \in Proc : call[p].op = "revoke" /\ call[p].key = k /\ call'[p] = NoCall
      \/ \E j \in KeyId : key[j] = NoKey /\ key'[j].source = k
<1>1. ASSUME IInv, [Next]_vars, NEW k \in KeyId, IsActive(k), key'[k].revoked # None
      PROVE  Reason(k)
  <2>0. key[k].revoked = None /\ key[k] # NoKey
    BY <1>1 DEF IsActive, NoKey
  <2>1. CASE UNCHANGED key
    BY <1>1, <2>0, <2>1
  <2>2. ASSUME NEW p \in Proc, InsertKey(p) PROVE Reason(k)
    <3>1. PICK n \in KeyId : /\ key[n] = NoKey /\ key'[n].source = call[p].key
                             /\ \A i \in KeyId \ {n} : i # call[p].key => key'[i] = key[i]
      BY <1>1, <2>2, InsertWrites
    <3>2. k = call[p].key
      BY <1>1, <2>0, <3>1
    <3> QED
      BY <3>1, <3>2
  <2>3. ASSUME NEW p \in Proc, RevokeUpdate(p) PROVE Reason(k)
    <3>1. PICK i \in KeyId : /\ i = call[p].key /\ call[p].op = "revoke" /\ call'[p] = NoCall
                             /\ \A j \in KeyId \ {i} : key'[j] = key[j]
      BY <1>1, <2>3, RevokeWrites
    <3>2. k = i
      BY <1>1, <2>0, <3>1
    <3> QED
      BY <3>1, <3>2
  <2>4. ASSUME NEW p \in Proc, MarkUsed(p) PROVE Reason(k)
    BY <1>1, <2>0, <2>4, MarkWrites
  <2> HIDE DEF Reason
  <2> QED
    BY <1>1, <2>1, <2>2, <2>3, <2>4, OnlyTheseWrite
<1>2. IInv /\ [Next]_vars =>
         [\A k \in KeyId : IsActive(k) /\ key'[k].revoked # None =>
             \/ \E p \in Proc : /\ call[p].op = "revoke" /\ call[p].key = k
                                /\ call'[p] = NoCall
             \/ \E j \in KeyId : key[j] = NoKey /\ key'[j].source = k]_vars
  BY <1>1
<1> QED
  BY <1>2, Invariance, PTL DEF Spec, RevokedForAReason

------------------------------------------------------------------------------------
(* The promise of KeyRing *)

\* The instance has its own copy of FiniteSets.
LEMMA SameCardinality ==
    ASSUME NEW S
    PROVE  Promised!Cardinality(S) = Cardinality(S)
  BY DEF Promised!Cardinality, Cardinality

LEMMA RingIs ==
    /\ Ring = [u \in User |-> Ring[u]] /\ Ring' = [u \in User |-> Ring'[u]]
    /\ \A u \in User : /\ Ring[u] = {k \in KeyId : IsActive(k) /\ key[k].user = u}
                       /\ Ring'[u] = {k \in KeyId : IsActive(k)' /\ key'[k].user = u}
  BY DEF Ring, ActiveKeys

LEMMA RingSame ==
    ASSUME NEW u \in User,
           \A k \in KeyId : IsActive(k)' /\ key'[k].user = u <=> IsActive(k) /\ key[k].user = u
    PROVE  Ring'[u] = Ring[u]
<1>1. \A k \in KeyId : k \in Ring'[u] <=> k \in Ring[u]
  BY RingIs
<1>2. Ring[u] \subseteq KeyId /\ Ring'[u] \subseteq KeyId
  BY RingIs
<1> QED
  BY <1>1, <1>2

LEMMA StutterIsStutter ==
    ASSUME \A k \in KeyId : /\ key'[k].user = key[k].user /\ key'[k].source = key[k].source
                            /\ key'[k].revoked = None <=> key[k].revoked = None
    PROVE  UNCHANGED Promised!vars
<1>1. Ring' = Ring
  <2>1. ASSUME NEW u \in User PROVE Ring'[u] = Ring[u]
    <3>1. \A k \in KeyId : IsActive(k)' <=> IsActive(k)
      BY DEF IsActive
    <3> QED
      BY <3>1, RingSame
  <2> QED
    BY <2>1, RingIs
<1>2. Revoked' = Revoked
  BY DEF Revoked
<1>3. Heirs' = Heirs
  BY DEF Heirs
<1> QED
  BY <1>1, <1>2, <1>3 DEF Promised!vars

\* The UPDATE of a revocation: a step of the ring, unless the key was revoked before.
LEMMA RevokeIsRingStep ==
    ASSUME IInv, NEW p \in Proc, RevokeUpdate(p)
    PROVE  Promised!Next \/ UNCHANGED Promised!vars
<1>1. PICK k \in KeyId :
         /\ key[k].user \in User
         /\ key'[k].user = key[k].user /\ key'[k].source = key[k].source
         /\ key'[k].revoked # None
         /\ \A j \in KeyId \ {k} : key'[j] = key[j]
  BY RevokeWrites
<1>2. CASE key[k].revoked # None
  <2>1. \A j \in KeyId : /\ key'[j].user = key[j].user /\ key'[j].source = key[j].source
                         /\ key'[j].revoked = None <=> key[j].revoked = None
    BY <1>1, <1>2
  <2> QED
    BY <2>1, StutterIsStutter
<1>3. CASE key[k].revoked = None
  <2> USE KeysAssumption
  <2>1. PICK u \in User : u = key[k].user
    BY <1>1
  <2>2. k \in Ring[u]
    BY <1>3, <2>1, RingIs DEF IsActive
  <2>3. Ring' = [Ring EXCEPT ![u] = @ \ {k}]
    <3>1. \A j \in KeyId : IsActive(j)' <=> IsActive(j) /\ j # k
      BY <1>1 DEF IsActive
    <3>2. Ring'[u] = Ring[u] \ {k}
      BY <1>1, <3>1, RingIs
    <3>3. ASSUME NEW v \in User \ {u} PROVE Ring'[v] = Ring[v]
      <4>1. \A j \in KeyId : IsActive(j)' /\ key'[j].user = v <=> IsActive(j) /\ key[j].user = v
        BY <1>1, <2>1, <3>1
      <4> QED
        BY <4>1, RingSame
    <3> QED
      BY <3>2, <3>3, RingIs
  <2>4. Revoked' = Revoked \cup {k}
    BY <1>1 DEF Revoked
  <2>5. Heirs' = Heirs
    <3>1. \A j \in KeyId : key'[j].source = key[j].source
      BY <1>1
    <3> QED
      BY <3>1 DEF Heirs
  <2>6. Promised!Revoke(u, k)
    BY <2>3, <2>4, <2>5 DEF Promised!Revoke
  <2> QED
    BY <2>2, <2>6 DEF Promised!Next
<1> QED
  BY <1>2, <1>3

\* The COMMIT of an INSERT: a key is issued, below the bound, or takes the place of one.
LEMMA InsertIsRingStep ==
    ASSUME IInv, NEW p \in Proc, InsertKey(p)
    PROVE  Promised!Next
<1> USE KeysAssumption
<1>1. PICK n \in KeyId :
         /\ key[n] = NoKey /\ call[p].key # n
         /\ key'[n].user = call[p].user /\ key'[n].source = call[p].key
         /\ key'[n].revoked = None
         /\ \A k \in KeyId \ {n} :
               /\ key'[k].user = key[k].user /\ key'[k].source = key[k].source
               /\ k = call[p].key => key'[k].revoked # None
               /\ k # call[p].key => key'[k] = key[k]
  BY InsertWrites
<1>2. call[p].op \in {"create", "rotate"} /\ call[p].pc = "insert" /\ CallOK(call[p])
  BY DEF IInv, CallOK, InsertKey
<1>3. PICK u \in User, old \in KeyId \cup {None} : u = call[p].user /\ old = call[p].key
  BY <1>2 DEF CallOK
<1>4. key[n].user = None /\ key[n].revoked = None /\ key[n].source = None
  BY <1>1 DEF NoKey
<1>5. Promised!Unused(n)
  <2>1. n \notin Revoked
    BY <1>4 DEF Revoked
  <2>2. \A v \in User : n \notin Ring[v]
    BY <1>4, RingIs DEF IsActive
  <2> QED
    BY <2>1, <2>2 DEF Promised!Unused
<1>6. Ring' = [Ring EXCEPT ![u] = (@ \ {old}) \cup {n}]
  <2>1. \A k \in KeyId : IsActive(k)' <=> k = n \/ (IsActive(k) /\ k # old)
    BY <1>1, <1>3, <1>4 DEF IsActive
  <2>2. Ring'[u] = (Ring[u] \ {old}) \cup {n}
    BY <1>1, <1>3, <1>4, <2>1, RingIs
  <2>3. ASSUME NEW v \in User \ {u} PROVE Ring'[v] = Ring[v]
    <3>1. old \in KeyId => key[old].user = u
      BY <1>2, <1>3 DEF CallOK
    <3>2. \A k \in KeyId : IsActive(k)' /\ key'[k].user = v <=> IsActive(k) /\ key[k].user = v
      BY <1>1, <1>3, <1>4, <2>1, <3>1 DEF IsActive
    <3> QED
      BY <3>2, RingSame
  <2> QED
    BY <2>2, <2>3, RingIs
<1>7. CASE call[p].op = "create"
  <2>1. old = None
    BY <1>2, <1>3, <1>7 DEF CallOK
  <2>2. Ring' = [Ring EXCEPT ![u] = @ \cup {n}]
    <3>1. old \notin Ring[u]
      BY <2>1, RingIs
    <3>2. Ring[u] \ {old} = Ring[u]
      BY <3>1
    <3> QED
      BY <1>6, <3>2
  <2>3. Revoked' = Revoked /\ Heirs' = Heirs
    BY <1>1, <1>3, <1>4, <2>1 DEF Revoked, Heirs
  <2>4. Cardinality(Ring[u]) < MostKeys + Cardinality(Proc) - 1
    <3>1. Ring[u] = ActiveKeys(u)
      BY DEF Ring
    <3>2. /\ IsFiniteSet(ActiveKeys(u))
          /\ Cardinality(ActiveKeys(u)) + Cardinality(Creating(u)) < MostKeys + Cardinality(Proc)
      BY DEF IInv, CountersOK
    <3>3. p \in Creating(u)
      BY <1>2, <1>3, <1>7 DEF Creating
    <3>4. /\ Cardinality(Creating(u) \ {p}) \in Nat
          /\ Cardinality(Creating(u)) = Cardinality(Creating(u) \ {p}) + 1
      BY <3>3, CreatingSet, WithoutElement
    <3>5. /\ Cardinality(ActiveKeys(u)) \in Nat /\ MostKeys \in Nat
          /\ Cardinality(Proc) \in Nat
      BY <3>2, CreatingSet, FS_CardinalityType
    <3> QED
      BY <3>1, <3>2, <3>4, <3>5
  <2>5. Promised!Issue(u, n)
    BY <1>5, <2>2, <2>3, <2>4, SameCardinality DEF Promised!Issue
  <2> QED
    BY <2>5 DEF Promised!Next
<1>8. CASE call[p].op = "rotate"
  <2>1. old \in KeyId /\ old # n /\ key[old].user = u /\ key[old].revoked = None
    BY <1>1, <1>2, <1>3, <1>8 DEF CallOK
  <2>2. old \in Ring[u]
    BY <2>1, RingIs DEF IsActive
  <2>3. Revoked' = Revoked \cup {old}
    BY <1>1, <1>3, <1>4, <2>1 DEF Revoked
  <2>4. Heirs' = Heirs \cup {<<old, n>>}
    <3>1. \A k \in KeyId : key'[k].source = IF k = n THEN old ELSE key[k].source
      BY <1>1, <1>3
    <3> QED
      BY <1>4, <2>1, <3>1 DEF Heirs
  <2>5. Promised!Rotate(u, old, n)
    BY <1>5, <1>6, <2>3, <2>4 DEF Promised!Rotate
  <2> QED
    BY <2>1, <2>2, <2>5 DEF Promised!Next
<1> QED
  BY <1>2, <1>7, <1>8

\* The statement-level model implements KeyRing: creations, rotations and revocations of
\* keys take effect in single steps, within the bound and for good (services.py:22-65).
THEOREM Refinement == Spec => ImplementsKeyRing
<1>1. Init => Promised!Init
  <2> SUFFICES ASSUME Init PROVE Promised!Init
    OBVIOUS
  <2>1. Ring = [u \in User |-> {}]
    BY RingIs DEF Init, IsActive, NoKey
  <2>2. Revoked = {} /\ Heirs = {}
    BY DEF Init, Revoked, Heirs, NoKey
  <2> QED
    BY <2>1, <2>2 DEF Promised!Init
<1>2. IInv /\ [Next]_vars => [Promised!Next]_(Promised!vars)
  <2> SUFFICES ASSUME IInv, [Next]_vars PROVE Promised!Next \/ UNCHANGED Promised!vars
    OBVIOUS
  <2>1. CASE UNCHANGED key
    BY <2>1, StutterIsStutter
  <2>2. ASSUME NEW p \in Proc, MarkUsed(p) PROVE UNCHANGED Promised!vars
    BY <2>2, MarkWrites, StutterIsStutter
  <2> QED
    BY <2>1, <2>2, OnlyTheseWrite, InsertIsRingStep, RevokeIsRingStep
<1> QED
  BY <1>1, <1>2, Invariance, PTL DEF Spec, ImplementsKeyRing, Promised!Spec
==================================================================================
