----------------------------- MODULE UsageQuotasProofs -----------------------------
(***************************************************************************)
(* Theorems about UsageQuotas, for every number of threads, every limit,   *)
(* every length of period and any number of subscriptions and rows.        *)
(***************************************************************************)
EXTENDS UsageQuotas, SetLemmas

-------------------------------------------------------------------------------------
(* Sets of threads *)

LEMMA ProcSets ==
    /\ Cardinality(Proc) \in Nat /\ Cardinality(Proc) >= 1
    /\ \A S \in SUBSET Proc : /\ IsFiniteSet(S)
                              /\ Cardinality(S) \in Nat
                              /\ Cardinality(S) <= Cardinality(Proc)
<1>1. IsFiniteSet(Proc) /\ Proc # {}
  BY QuotaAssumption
<1>2. Cardinality(Proc) \in Nat /\ Cardinality(Proc) # 0
  BY <1>1, FS_CardinalityType, FS_EmptySet
<1>3. ASSUME NEW S \in SUBSET Proc
      PROVE  IsFiniteSet(S) /\ Cardinality(S) \in Nat /\ Cardinality(S) <= Cardinality(Proc)
  BY <1>1, FS_Subset, FS_CardinalityType
<1> QED
  BY <1>2, <1>3

\* The invariant without NoLostIncrements, which has lemmas of its own below.
Core ==
    /\ TypeOK /\ RowsOK /\ CallsOK /\ ChargedToSubscription
    /\ CountersOK /\ PeriodsOK

-------------------------------------------------------------------------------------
LEMMA InitCore == Init => Core
<1> SUFFICES ASSUME Init PROVE Core
  OBVIOUS
<1> USE QuotaAssumption
<1>1. TypeOK
  BY DEF Init, TypeOK, NoSub, SubRow, NoQuota, QuotaRow, NoCall, Request
<1>2. RowsOK /\ CallsOK /\ ChargedToSubscription
  BY DEF Init, RowsOK, CallsOK, ChargedToSubscription, NoSub, NoQuota, NoCall
<1>3. CountersOK
  BY DEF Init, CountersOK, NoQuota
<1>4. PeriodsOK
  <2> SUFFICES ASSUME NEW s \in SubId
               PROVE  /\ IsFiniteSet(Current(s))
                      /\ Cardinality(Current(s)) + Cardinality(Rotating(s)) <= Cardinality(Proc)
    BY DEF PeriodsOK
  <2>1. Current(s) = {}
    BY DEF Init, Current, NoQuota
  <2>2. Rotating(s) \in SUBSET Proc
    BY DEF Rotating
  <2> QED
    BY <2>1, <2>2, FS_EmptySet, ProcSets
<1> QED
  BY <1>1, <1>2, <1>3, <1>4 DEF Core

-------------------------------------------------------------------------------------
(* Steps that change one call and no row *)

LEMMA CallStep ==
    ASSUME IInv, NEW p \in Proc, NEW r \in Request,
           req' = [req EXCEPT ![p] = r],
           UNCHANGED <<now, sub, quota>>, requests' \in Nat, owed' \in [QuotaId -> Nat],
           r.pc # "idle" => r.sub \in SubId /\ sub[r.sub].status # "absent",
           r.pc = "count" => /\ r.quota \in QuotaId
                             /\ quota[r.quota].sub = r.sub
                             /\ Limit[sub[r.sub].plan] > 0 =>
                                    quota[r.quota].used < Limit[sub[r.sub].plan],
           r.pc = "rotate" => Current(r.sub) = {}
    PROVE  Core'
<1> USE QuotaAssumption
<1>1. /\ req' \in [Proc -> Request] /\ req'[p] = r
      /\ \A x \in Proc \ {p} : req'[x] = req[x]
  BY DEF IInv, TypeOK
<1>2. TypeOK'
  BY <1>1 DEF IInv, TypeOK
<1>3. RowsOK'
  BY DEF IInv, RowsOK
<1>4. CallsOK'
  BY <1>1 DEF IInv, CallsOK
<1>5. ChargedToSubscription'
  BY <1>1 DEF IInv, ChargedToSubscription, CallsOK
<1>6. CountersOK'
  <2> SUFFICES ASSUME NEW q \in QuotaId, quota[q].sub # None, Limit[sub[quota[q].sub].plan] > 0
               PROVE  quota[q].used + Cardinality(Pending(q)')
                         < Limit[sub[quota[q].sub].plan] + Cardinality(Proc)
    BY DEF CountersOK, Pending
  <2>0. /\ quota[q].used \in Nat /\ quota[q].sub \in SubId
        /\ Limit[sub[quota[q].sub].plan] \in Nat
    BY DEF IInv, TypeOK, QuotaRow, RowsOK
  <2>1. Pending(q) \in SUBSET Proc /\ Pending(q)' \in SUBSET Proc
    BY DEF Pending
  <2>2. Cardinality(Pending(q)') \in Nat /\ Cardinality(Pending(q)') <= Cardinality(Proc)
        /\ Cardinality(Proc) \in Nat
    BY <2>1, ProcSets
  <2>3. CASE r.pc = "count" /\ r.quota = q
    BY <2>0, <2>2, <2>3
  <2>4. CASE ~(r.pc = "count" /\ r.quota = q)
    <3>1. Pending(q)' \subseteq Pending(q)
      BY <1>1, <2>4 DEF Pending
    <3>2. Cardinality(Pending(q)') <= Cardinality(Pending(q)) /\ Cardinality(Pending(q)) \in Nat
      BY <2>1, <3>1, ProcSets, SmallerSet
    <3>3. quota[q].used + Cardinality(Pending(q))
             < Limit[sub[quota[q].sub].plan] + Cardinality(Proc)
      BY DEF IInv, CountersOK
    <3> QED
      BY <2>0, <2>2, <3>2, <3>3
  <2> QED
    BY <2>3, <2>4
<1>7. PeriodsOK'
  <2> SUFFICES ASSUME NEW s \in SubId
               PROVE  /\ IsFiniteSet(Current(s))
                      /\ Cardinality(Current(s)) + Cardinality(Rotating(s)') <= Cardinality(Proc)
    BY DEF PeriodsOK, Current
  <2>0. /\ IsFiniteSet(Current(s))
        /\ Cardinality(Current(s)) + Cardinality(Rotating(s)) <= Cardinality(Proc)
        /\ Cardinality(Current(s)) \in Nat
    BY FS_CardinalityType DEF IInv, PeriodsOK
  <2>1. Rotating(s) \in SUBSET Proc /\ Rotating(s)' \in SUBSET Proc
    BY DEF Rotating
  <2>2. Cardinality(Rotating(s)') \in Nat /\ Cardinality(Rotating(s)') <= Cardinality(Proc)
        /\ Cardinality(Proc) \in Nat
    BY <2>1, ProcSets
  <2>3. CASE r.pc = "rotate" /\ r.sub = s
    <3>1. Cardinality(Current(s)) = 0
      BY <2>3, FS_EmptySet
    <3> QED
      BY <2>0, <2>2, <3>1
  <2>4. CASE ~(r.pc = "rotate" /\ r.sub = s)
    <3>1. Rotating(s)' \subseteq Rotating(s)
      BY <1>1, <2>4 DEF Rotating
    <3>2. Cardinality(Rotating(s)') <= Cardinality(Rotating(s)) /\ Cardinality(Rotating(s)) \in Nat
      BY <2>1, <3>1, ProcSets, SmallerSet
    <3> QED
      BY <2>0, <2>2, <3>2
  <2> QED
    BY <2>3, <2>4
<1> QED
  BY <1>2, <1>3, <1>4, <1>5, <1>6, <1>7 DEF Core

\* The history stays a function to Nat.
LEMMA PassTyped ==
    ASSUME IInv, NEW p \in Proc, NEW q \in QuotaId, NEW seen, Pass(p, q, seen)
    PROVE  owed' \in [QuotaId -> Nat]
BY DEF IInv, TypeOK, Pass

LEMMA RecordStep ==
    ASSUME IInv, NEW p \in Proc, Record(p)
    PROVE  Core'
<1>1. PICK s \in SubId : /\ sub[s].status = "active"
                         /\ req' = [req EXCEPT ![p] = [NoCall EXCEPT !.pc = "read", !.sub = s]]
  BY DEF Record
<1> DEFINE r == [NoCall EXCEPT !.pc = "read", !.sub = s]
<1>2. r \in Request /\ r.pc = "read" /\ r.sub = s
  BY DEF NoCall, Request
<1>3. req' = [req EXCEPT ![p] = r]
  BY <1>1
<1>4. UNCHANGED <<now, sub, quota>> /\ requests' \in Nat /\ owed' \in [QuotaId -> Nat]
  BY DEF Record, IInv, TypeOK
<1> HIDE DEF r
<1> QED
  BY <1>1, <1>2, <1>3, <1>4, CallStep

\* Back to idle: refused, swallowed or killed.
LEMMA IdleStep ==
    ASSUME IInv, NEW p \in Proc,
           req' = [req EXCEPT ![p] = NoCall], UNCHANGED <<now, sub, quota, requests>>,
           owed' \in [QuotaId -> Nat]
    PROVE  Core'
<1>1. NoCall \in Request /\ NoCall.pc = "idle"
  BY DEF NoCall, Request
<1> QED
  BY <1>1, CallStep DEF IInv, TypeOK

LEMMA ReadStep ==
    ASSUME IInv, NEW p \in Proc, ReadQuota(p)
    PROVE  Core'
<1> USE QuotaAssumption
<1> DEFINE s == req[p].sub
<1>0. /\ req[p] \in Request /\ req[p].pc = "read"
      /\ s \in SubId /\ sub[s].status # "absent" /\ sub[s].plan \in Plan
      /\ UNCHANGED <<now, sub, quota, requests>> /\ requests' \in Nat
  BY DEF IInv, TypeOK, ReadQuota, CallsOK, RowsOK
<1>1. CASE req' = [req EXCEPT ![p] = NoCall] /\ UNCHANGED owed
  BY <1>0, <1>1, IdleStep DEF IInv, TypeOK
<1>2. ASSUME NEW q \in Latest(s), ~Exceeded(s, quota[q].used), Pass(p, q, quota[q].used)
      PROVE  Core'
  <2> DEFINE r == [pc |-> "count", sub |-> s, quota |-> q, seen |-> quota[q].used]
  <2>1. q \in QuotaId /\ quota[q].sub = s
    BY <1>2 DEF Latest, Current
  <2>2. quota[q].used \in Nat /\ Limit[sub[s].plan] \in Nat
    BY <1>0, <2>1 DEF IInv, TypeOK, QuotaRow
  <2>3. Limit[sub[s].plan] > 0 => quota[q].used < Limit[sub[s].plan]
    BY <1>2, <2>2 DEF Exceeded
  <2>4. r \in Request /\ r.pc = "count" /\ r.sub = s /\ r.quota = q
    BY <1>0, <2>1, <2>2 DEF Request
  <2>5. req' = [req EXCEPT ![p] = r] /\ owed' \in [QuotaId -> Nat]
    BY <1>2, <2>1, PassTyped DEF Pass
  <2> HIDE DEF r, s
  <2> QED
    BY <1>0, <2>1, <2>3, <2>4, <2>5, CallStep
<1>3. CASE Current(s) = {} /\ req' = [req EXCEPT ![p].pc = "rotate"] /\ UNCHANGED owed
  <2> DEFINE r == [req[p] EXCEPT !.pc = "rotate"]
  <2>1. r \in Request /\ r.pc = "rotate" /\ r.sub = s
    BY <1>0 DEF Request
  <2>2. req' = [req EXCEPT ![p] = r] /\ owed' \in [QuotaId -> Nat]
    BY <1>3 DEF IInv, TypeOK
  <2> HIDE DEF r, s
  <2> QED
    BY <1>0, <1>3, <2>1, <2>2, CallStep
<1> QED
  BY <1>1, <1>2, <1>3 DEF ReadQuota

-------------------------------------------------------------------------------------
(* The increment *)

LEMMA CountStep ==
    ASSUME IInv, NEW p \in Proc, Count(p)
    PROVE  Core'
<1> USE QuotaAssumption
<1>1. PICK n \in QuotaId : n = req[p].quota
  BY DEF Count, IInv, ChargedToSubscription
<1>2. /\ req[p].pc = "count" /\ quota[n].sub = req[p].sub
      /\ req \in [Proc -> Request] /\ quota \in [QuotaId -> QuotaRow]
      /\ UNCHANGED <<now, sub, requests, owed>>
      /\ req' = [req EXCEPT ![p] = NoCall]
  BY <1>1 DEF Count, IInv, TypeOK, ChargedToSubscription
<1>3. quota' = [quota EXCEPT ![n] = [quota[n] EXCEPT !.used = quota[n].used + 1]]
  BY <1>1 DEF Count
<1>4. /\ quota' \in [QuotaId -> QuotaRow]
      /\ quota'[n].used = quota[n].used + 1
      /\ \A q \in QuotaId \ {n} : quota'[q] = quota[q]
      /\ \A q \in QuotaId : /\ quota'[q].sub = quota[q].sub
                            /\ quota'[q].start = quota[q].start
                            /\ quota'[q].end = quota[q].end
  BY <1>2, <1>3 DEF QuotaRow
<1>5. /\ req' \in [Proc -> Request] /\ req'[p].pc = "idle"
      /\ \A x \in Proc \ {p} : req'[x] = req[x]
  BY <1>2 DEF NoCall, Request
<1>6. TypeOK'
  BY <1>2, <1>4, <1>5 DEF IInv, TypeOK
<1>7. RowsOK'
  BY <1>2, <1>4 DEF IInv, RowsOK
<1>8. (CallsOK /\ ChargedToSubscription)'
  BY <1>2, <1>4, <1>5 DEF IInv, CallsOK, ChargedToSubscription
<1>9. CountersOK'
  <2> SUFFICES ASSUME NEW q \in QuotaId, quota[q].sub # None, Limit[sub[quota[q].sub].plan] > 0
               PROVE  quota'[q].used + Cardinality(Pending(q)')
                         < Limit[sub[quota[q].sub].plan] + Cardinality(Proc)
    BY <1>2, <1>4 DEF CountersOK, Pending
  <2>0. /\ quota[q].used \in Nat /\ Limit[sub[quota[q].sub].plan] \in Nat
    BY DEF IInv, TypeOK, QuotaRow, RowsOK
  <2>1. quota[q].used + Cardinality(Pending(q))
             < Limit[sub[quota[q].sub].plan] + Cardinality(Proc)
    BY DEF IInv, CountersOK
  <2>2. Pending(q) \in SUBSET Proc /\ IsFiniteSet(Pending(q)) /\ Cardinality(Pending(q)) \in Nat
        /\ Cardinality(Proc) \in Nat
    BY ProcSets DEF Pending
  <2>3. CASE q = n
    <3>1. Pending(n)' = Pending(n) \ {p} /\ p \in Pending(n)
      BY <1>1, <1>2, <1>5 DEF Pending
    <3>2. Cardinality(Pending(n)') = Cardinality(Pending(n)) - 1
      BY <2>2, <2>3, <3>1, FS_RemoveElement
    <3> QED
      BY <1>4, <2>0, <2>1, <2>2, <2>3, <3>2
  <2>4. CASE q # n
    <3>1. Pending(q)' = Pending(q)
      BY <1>1, <1>2, <1>5, <2>4 DEF Pending
    <3> QED
      BY <1>4, <2>1, <2>4, <3>1
  <2> QED
    BY <2>3, <2>4
<1>10. PeriodsOK'
  <2>1. \A s \in SubId : Current(s)' = Current(s)
    BY <1>2, <1>4 DEF Current
  <2>2. \A s \in SubId : Rotating(s)' = Rotating(s)
    BY <1>2, <1>5 DEF Rotating
  <2> QED
    BY <2>1, <2>2 DEF IInv, PeriodsOK
<1> QED
  BY <1>6, <1>7, <1>8, <1>9, <1>10 DEF Core

-------------------------------------------------------------------------------------
(* New periods *)

LEMMA RotateStep ==
    ASSUME IInv, NEW p \in Proc, Rotate(p)
    PROVE  Core'
<1> USE QuotaAssumption
<1>1. CASE req' = [req EXCEPT ![p] = NoCall] /\ UNCHANGED <<quota, owed>>
  BY <1>1, IdleStep DEF Rotate, IInv, TypeOK
<1>2. CASE /\ FreshQuotas # {}
           /\ quota' = [quota EXCEPT ![NewQuota] =
                           [sub |-> req[p].sub, start |-> now, end |-> PeriodEnd(req[p].sub), used |-> 0]]
           /\ Pass(p, NewQuota, 0)
  <2>1. PICK n \in FreshQuotas : n = NewQuota
    BY <1>2 DEF NewQuota
  <2>2. PICK s \in SubId : s = req[p].sub
    BY DEF Rotate, IInv, CallsOK
  <2>3. n \in QuotaId /\ quota[n] = NoQuota /\ quota[n].sub = None
    BY <2>1 DEF FreshQuotas, NoQuota
  <2>4. /\ req[p].pc = "rotate" /\ req \in [Proc -> Request] /\ quota \in [QuotaId -> QuotaRow]
        /\ sub[s].status # "absent" /\ sub[s].plan \in Plan /\ now \in Nat
        /\ UNCHANGED <<now, sub, requests>>
    BY <2>2 DEF Rotate, IInv, TypeOK, CallsOK, RowsOK
  <2>5. PeriodEnd(s) \in Nat
    BY <2>4 DEF PeriodEnd
  <2> DEFINE row == [sub |-> s, start |-> now, end |-> PeriodEnd(s), used |-> 0]
             r == [pc |-> "count", sub |-> s, quota |-> n, seen |-> 0]
  <2>6. row \in QuotaRow /\ row.sub = s /\ row.start = now /\ row.used = 0
    BY <2>4, <2>5 DEF QuotaRow
  <2>7. r \in Request /\ r.pc = "count" /\ r.sub = s /\ r.quota = n
    BY <2>3 DEF Request
  <2>8. quota' = [quota EXCEPT ![n] = row] /\ req' = [req EXCEPT ![p] = r]
    BY <1>2, <2>1, <2>2 DEF Pass
  <2> HIDE DEF row, r
  <2>9. /\ quota' \in [QuotaId -> QuotaRow] /\ quota'[n] = row
        /\ \A q \in QuotaId \ {n} : quota'[q] = quota[q]
    BY <2>3, <2>4, <2>6, <2>8
  <2>10. /\ req' \in [Proc -> Request] /\ req'[p] = r
         /\ \A x \in Proc \ {p} : req'[x] = req[x]
    BY <2>4, <2>7, <2>8
  <2>11. TypeOK'
    <3>1. owed' \in [QuotaId -> Nat]
      BY <1>2, <2>1, <2>3, PassTyped
    <3> QED
      BY <2>4, <2>9, <2>10, <3>1 DEF IInv, TypeOK
  <2>12. RowsOK'
    BY <2>4, <2>6, <2>9 DEF IInv, RowsOK
  <2>13. CallsOK'
    BY <2>4, <2>7, <2>10 DEF IInv, CallsOK
  \* No call was counting in the new row: it belonged to no subscription.
  <2>14. \A x \in Proc : req[x].pc = "count" => req[x].quota # n
    <3> SUFFICES ASSUME NEW x \in Proc, req[x].pc = "count", req[x].quota = n PROVE FALSE
      OBVIOUS
    <3>1. req[x].sub \in SubId /\ quota[n].sub = req[x].sub
      BY DEF IInv, CallsOK, ChargedToSubscription
    <3> QED
      BY <2>3, <3>1
  <2>15. ChargedToSubscription'
    BY <2>3, <2>4, <2>6, <2>7, <2>9, <2>10, <2>14 DEF IInv, ChargedToSubscription
  <2>16. CountersOK'
    <3> SUFFICES ASSUME NEW q \in QuotaId, quota'[q].sub # None,
                        Limit[sub[quota'[q].sub].plan] > 0
                 PROVE  quota'[q].used + Cardinality(Pending(q)')
                           < Limit[sub[quota'[q].sub].plan] + Cardinality(Proc)
      BY <2>4 DEF CountersOK, Pending
    <3>1. CASE q = n
      <4>1. Pending(n)' = {p}
        BY <2>7, <2>10, <2>14 DEF Pending
      <4>2. Cardinality(Pending(n)') = 1
        BY <4>1, FS_Singleton
      <4>3. Cardinality(Proc) \in Nat /\ Cardinality(Proc) >= 1 /\ Limit[sub[s].plan] \in Nat
        BY <2>4, ProcSets
      <4> QED
        BY <2>6, <2>9, <3>1, <4>2, <4>3
    <3>2. CASE q # n
      <4>1. Pending(q)' = Pending(q)
        BY <2>4, <2>7, <2>10, <3>2 DEF Pending
      <4> QED
        BY <2>9, <3>2, <4>1 DEF IInv, CountersOK
    <3> QED
      BY <3>1, <3>2
  <2>17. PeriodsOK'
    <3> SUFFICES ASSUME NEW t \in SubId
                 PROVE  /\ IsFiniteSet(Current(t)')
                        /\ Cardinality(Current(t)') + Cardinality(Rotating(t)') <= Cardinality(Proc)
      BY DEF PeriodsOK
    <3>0. /\ IsFiniteSet(Current(t)) /\ Cardinality(Current(t)) \in Nat
          /\ Cardinality(Current(t)) + Cardinality(Rotating(t)) <= Cardinality(Proc)
          /\ Rotating(t) \in SUBSET Proc /\ IsFiniteSet(Rotating(t))
          /\ Cardinality(Rotating(t)) \in Nat /\ Cardinality(Proc) \in Nat
      BY ProcSets, FS_CardinalityType DEF IInv, PeriodsOK, Rotating
    <3>1. CASE t = s
      <4>1. Current(s)' \subseteq Current(s) \cup {n}
        BY <2>4, <2>9 DEF Current
      <4>2. IsFiniteSet(Current(s) \cup {n})
            /\ Cardinality(Current(s) \cup {n}) <= Cardinality(Current(s)) + 1
            /\ Cardinality(Current(s) \cup {n}) \in Nat
        BY <3>0, <3>1, LargerSet
      <4>3. IsFiniteSet(Current(s)') /\ Cardinality(Current(s)') \in Nat
            /\ Cardinality(Current(s)') <= Cardinality(Current(s) \cup {n})
        BY <4>1, <4>2, SmallerSet
      <4>4. Rotating(s)' = Rotating(s) \ {p} /\ p \in Rotating(s)
        BY <2>2, <2>4, <2>7, <2>10 DEF Rotating
      <4>5. Cardinality(Rotating(s)') = Cardinality(Rotating(s)) - 1
        BY <3>0, <3>1, <4>4, FS_RemoveElement
      <4> QED
        BY <3>0, <3>1, <4>2, <4>3, <4>5
    <3>2. CASE t # s
      <4>1. Current(t)' = Current(t)
        BY <2>3, <2>4, <2>6, <2>9, <3>2 DEF Current
      <4>2. Rotating(t)' = Rotating(t)
        BY <2>2, <2>4, <2>7, <2>10, <3>2 DEF Rotating
      <4> QED
        BY <3>0, <4>1, <4>2
    <3> QED
      BY <3>1, <3>2
  <2> QED
    BY <2>11, <2>12, <2>13, <2>15, <2>16, <2>17 DEF Core
<1> QED
  BY <1>1, <1>2 DEF Rotate

LEMMA ChangeStep ==
    ASSUME IInv, NEW u \in User, NEW pl \in Plan, NEW s \in SubId, ChangePlan(u, pl, s)
    PROVE  Core'
<1> USE QuotaAssumption
<1>1. PICK n \in FreshQuotas : n = NewQuota
  BY DEF ChangePlan, NewQuota
<1>2. n \in QuotaId /\ quota[n] = NoQuota /\ quota[n].sub = None
  BY <1>1 DEF FreshQuotas, NoQuota
<1>3. /\ req \in [Proc -> Request] /\ quota \in [QuotaId -> QuotaRow] /\ sub \in [SubId -> SubRow]
      /\ sub[s].status = "absent" /\ now \in Nat
      /\ UNCHANGED <<now, req, requests, owed>>
  BY DEF ChangePlan, IInv, TypeOK, NoSub
<1> DEFINE row == [sub |-> s, start |-> now, used |-> 0,
                   end |-> now + IF Duration[pl] = 0 THEN FiftyYears ELSE Duration[pl]]
<1>4. row \in QuotaRow /\ row.sub = s /\ row.start = now /\ row.used = 0
  BY <1>3 DEF QuotaRow
<1>5. quota' = [quota EXCEPT ![n] = row]
  BY <1>1 DEF ChangePlan
<1> HIDE DEF row
<1>6. /\ quota' \in [QuotaId -> QuotaRow] /\ quota'[n] = row
      /\ \A q \in QuotaId \ {n} : quota'[q] = quota[q]
  BY <1>2, <1>3, <1>4, <1>5
<1>7. /\ sub' \in [SubId -> SubRow]
      /\ sub'[s].status = "active" /\ sub'[s].plan = pl
      /\ \A t \in SubId \ {s} : /\ sub'[t].plan = sub[t].plan
                                /\ sub'[t].status = "absent" <=> sub[t].status = "absent"
  <2>1. /\ DOMAIN sub' = SubId /\ sub' = [t \in SubId |-> sub'[t]]
        /\ sub'[s] = [status |-> "active", user |-> u, plan |-> pl]
        /\ \A t \in SubId \ {s} :
              sub'[t] = IF sub[t].status = "active" /\ sub[t].user = u
                        THEN [sub[t] EXCEPT !.status = "ended"] ELSE sub[t]
    BY DEF ChangePlan
  <2>2. sub'[s] \in SubRow
    BY <2>1 DEF SubRow
  <2>3. ASSUME NEW t \in SubId \ {s}
        PROVE  /\ sub'[t] \in SubRow /\ sub'[t].plan = sub[t].plan
               /\ sub'[t].status = "absent" <=> sub[t].status = "absent"
    BY <1>3, <2>1 DEF SubRow
  <2> QED
    BY <2>1, <2>2, <2>3
<1>8. TypeOK'
  BY <1>3, <1>6, <1>7 DEF IInv, TypeOK
\* Nothing refers to the subscription yet.
<1>9. /\ \A q \in QuotaId : quota[q].sub # s
      /\ \A x \in Proc : req[x].pc # "idle" => req[x].sub # s
  <2>1. \A q \in QuotaId : quota[q].sub # None => sub[quota[q].sub].status # "absent"
    BY DEF IInv, RowsOK
  <2>2. \A x \in Proc : req[x].pc # "idle" => sub[req[x].sub].status # "absent"
    BY DEF IInv, CallsOK
  <2> QED
    BY <1>3, <2>1, <2>2
<1>10. RowsOK'
  <2>1. \A t \in SubId : sub'[t].status # "absent" => sub'[t].plan \in Plan
    BY <1>7 DEF IInv, RowsOK
  <2>2. ASSUME NEW q \in QuotaId, quota'[q].sub # None
        PROVE  sub'[quota'[q].sub].status # "absent" /\ quota'[q].start <= now'
    <3>1. CASE q = n
      BY <1>3, <1>4, <1>6, <1>7, <3>1
    <3>2. CASE q # n
      <4>1. quota'[q] = quota[q] /\ quota[q].sub \in SubId
        BY <1>3, <1>6, <2>2, <3>2 DEF QuotaRow
      <4> QED
        BY <1>3, <1>7, <1>9, <2>2, <4>1 DEF IInv, RowsOK
    <3> QED
      BY <3>1, <3>2
  <2> QED
    BY <2>1, <2>2 DEF RowsOK
<1>11. CallsOK'
  BY <1>3, <1>7, <1>9 DEF IInv, CallsOK
<1>12. \A x \in Proc : req[x].pc = "count" => req[x].quota # n
  <2> SUFFICES ASSUME NEW x \in Proc, req[x].pc = "count", req[x].quota = n PROVE FALSE
    OBVIOUS
  <2>1. req[x].sub \in SubId /\ quota[n].sub = req[x].sub
    BY DEF IInv, CallsOK, ChargedToSubscription
  <2> QED
    BY <1>2, <2>1
<1>13. ChargedToSubscription'
  <2> SUFFICES ASSUME NEW x \in Proc, req[x].pc = "count"
               PROVE  /\ req[x].quota \in QuotaId
                      /\ quota'[req[x].quota].sub = req[x].sub
                      /\ sub'[req[x].sub].status # "absent"
    BY <1>3 DEF ChargedToSubscription
  <2>1. /\ req[x].quota \in QuotaId /\ req[x].sub \in SubId
        /\ quota[req[x].quota].sub = req[x].sub /\ sub[req[x].sub].status # "absent"
    BY DEF IInv, CallsOK, ChargedToSubscription
  <2> QED
    BY <1>6, <1>7, <1>12, <2>1
<1>14. CountersOK'
  <2> SUFFICES ASSUME NEW q \in QuotaId, quota'[q].sub # None,
                      Limit[sub'[quota'[q].sub].plan] > 0
               PROVE  quota'[q].used + Cardinality(Pending(q))
                         < Limit[sub'[quota'[q].sub].plan] + Cardinality(Proc)
    BY <1>3 DEF CountersOK, Pending
  <2>1. CASE q = n
    <3>1. Pending(n) = {}
      BY <1>12 DEF Pending
    <3>2. Cardinality(Pending(n)) = 0
      BY <3>1, FS_EmptySet
    <3>3. Limit[sub'[s].plan] \in Nat /\ Cardinality(Proc) \in Nat /\ Cardinality(Proc) >= 1
      BY <1>7, ProcSets
    <3> QED
      BY <1>4, <1>6, <2>1, <3>2, <3>3
  <2>2. CASE q # n
    <3>1. quota'[q] = quota[q] /\ quota[q].sub \in SubId /\ quota[q].sub # s
      BY <1>3, <1>6, <1>9, <2>2 DEF QuotaRow
    <3>2. sub'[quota[q].sub].plan = sub[quota[q].sub].plan
      BY <1>7, <3>1
    <3> QED
      BY <3>1, <3>2 DEF IInv, CountersOK
  <2> QED
    BY <2>1, <2>2
<1>15. PeriodsOK'
  <2> SUFFICES ASSUME NEW t \in SubId
               PROVE  /\ IsFiniteSet(Current(t)')
                      /\ Cardinality(Current(t)') + Cardinality(Rotating(t)) <= Cardinality(Proc)
    BY <1>3 DEF PeriodsOK, Rotating
  <2>1. CASE t = s
    <3>1. Current(s)' \subseteq {n}
      BY <1>6, <1>9 DEF Current
    <3>2. IsFiniteSet({n}) /\ Cardinality({n}) = 1
      BY FS_Singleton
    <3>3. IsFiniteSet(Current(s)') /\ Cardinality(Current(s)') <= 1 /\ Cardinality(Current(s)') \in Nat
      BY <3>1, <3>2, SmallerSet
    <3>4. Rotating(s) = {}
      BY <1>9 DEF Rotating
    <3>5. Cardinality(Rotating(s)) = 0
      BY <3>4, FS_EmptySet
    <3> QED
      BY <2>1, <3>3, <3>5, ProcSets
  <2>2. CASE t # s
    <3>1. Current(t)' = Current(t)
      BY <1>2, <1>3, <1>4, <1>6, <2>2 DEF Current
    <3> QED
      BY <3>1 DEF IInv, PeriodsOK
  <2> QED
    BY <2>1, <2>2
<1> QED
  BY <1>8, <1>10, <1>11, <1>13, <1>14, <1>15 DEF Core

-------------------------------------------------------------------------------------
(* Time only ends periods: none starts later than it was opened. *)

LEMMA TickStep ==
    ASSUME IInv, Tick
    PROVE  Core'
<1>1. now \in Nat /\ now' = now + 1 /\ UNCHANGED <<sub, quota, req, requests, owed>>
  BY DEF Tick, IInv, TypeOK
<1>2. TypeOK'
  BY <1>1 DEF IInv, TypeOK
<1>3. RowsOK'
  <2> SUFFICES ASSUME NEW q \in QuotaId, quota[q].sub # None
               PROVE  sub[quota[q].sub].status # "absent" /\ quota[q].start <= now'
    BY <1>1 DEF IInv, RowsOK
  <2>1. quota[q].start \in Nat
    BY DEF IInv, TypeOK, QuotaRow
  <2>2. sub[quota[q].sub].status # "absent" /\ quota[q].start <= now
    BY DEF IInv, RowsOK
  <2> QED
    BY <1>1, <2>1, <2>2
<1>4. CallsOK' /\ ChargedToSubscription'
  BY <1>1 DEF IInv, CallsOK, ChargedToSubscription
<1>5. CountersOK'
  BY <1>1 DEF IInv, CountersOK, Pending
<1>6. PeriodsOK'
  <2> SUFFICES ASSUME NEW s \in SubId
               PROVE  /\ IsFiniteSet(Current(s)')
                      /\ Cardinality(Current(s)') + Cardinality(Rotating(s)) <= Cardinality(Proc)
    BY <1>1 DEF PeriodsOK, Rotating
  <2>1. Current(s)' \subseteq Current(s)
    <3> SUFFICES ASSUME NEW q \in QuotaId, quota[q].sub = s, quota[q].start <= now',
                        now' < quota[q].end
                 PROVE  quota[q].start <= now /\ now < quota[q].end
      BY <1>1 DEF Current
    <3>1. quota[q].sub # None /\ quota[q].end \in Nat
      BY QuotaAssumption DEF IInv, TypeOK, QuotaRow
    <3> QED
      BY <1>1, <3>1 DEF IInv, RowsOK
  <2>2. /\ IsFiniteSet(Current(s))
        /\ Cardinality(Current(s)) + Cardinality(Rotating(s)) <= Cardinality(Proc)
    BY DEF IInv, PeriodsOK
  <2>3. /\ IsFiniteSet(Current(s)') /\ Cardinality(Current(s)') \in Nat
        /\ Cardinality(Current(s)) \in Nat /\ Cardinality(Current(s)') <= Cardinality(Current(s))
    BY <2>1, <2>2, SmallerSet
  <2>4. Cardinality(Rotating(s)) \in Nat /\ Cardinality(Proc) \in Nat
    BY ProcSets DEF Rotating
  <2> QED
    BY <2>2, <2>3, <2>4
<1> QED
  BY <1>2, <1>3, <1>4, <1>5, <1>6 DEF Core

-------------------------------------------------------------------------------------
(* No increment is lost *)

\* A call that is not counting passes the check on a row, and whatever else happens to
\* the rows leaves their counters.
LEMMA PassOwed ==
    ASSUME IInv, NEW p \in Proc, NEW n \in QuotaId, NEW seen, Pass(p, n, seen),
           req[p].pc # "count", \A q \in QuotaId : quota'[q].used = quota[q].used
    PROVE  NoLostIncrements'
<1> SUFFICES ASSUME NEW q \in QuotaId
             PROVE  quota[q].used + Cardinality(Pending(q)') = owed'[q]
  BY DEF NoLostIncrements, Pending
<1>1. /\ IsFiniteSet(Pending(q)) /\ Cardinality(Pending(q)) \in Nat /\ quota[q].used \in Nat
      /\ quota[q].used + Cardinality(Pending(q)) = owed[q] /\ owed[q] \in Nat
  BY ProcSets DEF IInv, TypeOK, QuotaRow, NoLostIncrements, Pending
<1>2. /\ req'[p].pc = "count" /\ req'[p].quota = n /\ \A x \in Proc \ {p} : req'[x] = req[x]
      /\ owed' = [owed EXCEPT ![n] = @ + 1] /\ owed \in [QuotaId -> Nat]
  BY DEF Pass, IInv, TypeOK
<1>3. CASE q = n
  <2>1. Pending(q)' = Pending(q) \cup {p} /\ p \notin Pending(q)
    BY <1>2, <1>3 DEF Pending
  <2>2. Cardinality(Pending(q)') = Cardinality(Pending(q)) + 1
    BY <1>1, <2>1, FS_AddElement
  <2> QED
    BY <1>1, <1>2, <1>3, <2>2
<1>4. CASE q # n
  <2>1. Pending(q)' = Pending(q)
    BY <1>2, <1>4 DEF Pending
  <2> QED
    BY <1>1, <1>2, <1>4, <2>1
<1> QED
  BY <1>3, <1>4

\* A call that is not counting goes on to something else.
LEMMA IdleOwed ==
    ASSUME IInv, NEW p \in Proc, NEW r, req' = [req EXCEPT ![p] = r], UNCHANGED owed,
           req[p].pc # "count", r.pc # "count",
           \A q \in QuotaId : quota'[q].used = quota[q].used
    PROVE  NoLostIncrements'
<1>1. \A q \in QuotaId : Pending(q)' = Pending(q)
  BY DEF Pending, IInv, TypeOK
<1> QED
  BY <1>1 DEF IInv, NoLostIncrements

\* A call that was counting in a row is no longer there: it has counted, or was killed.
LEMMA GoneOwed ==
    ASSUME IInv, NEW p \in Proc, req[p].pc = "count", req' = [req EXCEPT ![p] = NoCall],
           NEW n \in QuotaId, n = req[p].quota,
           \A q \in QuotaId \ {n} : quota'[q].used = quota[q].used /\ owed'[q] = owed[q],
           \/ quota'[n].used = quota[n].used + 1 /\ owed'[n] = owed[n]
           \/ quota'[n].used = quota[n].used /\ owed'[n] = owed[n] - 1
    PROVE  NoLostIncrements' /\ owed[n] - 1 \in Nat
<1>1. req'[p].pc = "idle" /\ \A x \in Proc \ {p} : req'[x] = req[x]
  BY DEF IInv, TypeOK, NoCall
<1>2. ASSUME NEW q \in QuotaId
      PROVE  /\ IsFiniteSet(Pending(q)) /\ Cardinality(Pending(q)) \in Nat /\ quota[q].used \in Nat
             /\ quota[q].used + Cardinality(Pending(q)) = owed[q] /\ owed[q] \in Nat
  BY ProcSets DEF IInv, TypeOK, QuotaRow, NoLostIncrements, Pending
<1>3. Pending(n)' = Pending(n) \ {p} /\ p \in Pending(n)
  BY <1>1 DEF Pending
<1>4. Cardinality(Pending(n)') \in Nat /\ Cardinality(Pending(n)) = Cardinality(Pending(n)') + 1
  BY <1>2, <1>3, WithoutElement
<1>5. ASSUME NEW q \in QuotaId \ {n} PROVE Pending(q)' = Pending(q)
  BY <1>1, <1>5 DEF Pending
<1>6. quota'[n].used + Cardinality(Pending(n)') = owed'[n] /\ owed[n] - 1 \in Nat
  BY <1>2, <1>4
<1> QED
  BY <1>2, <1>5, <1>6 DEF NoLostIncrements

LEMMA CountOwed ==
    ASSUME IInv, NEW p \in Proc, Count(p)
    PROVE  NoLostIncrements'
<1>1. PICK n \in QuotaId : n = req[p].quota
  BY DEF Count, IInv, ChargedToSubscription
<1>2. /\ quota' = [quota EXCEPT ![n] = [quota[n] EXCEPT !.used = quota[n].used + 1]]
      /\ req' = [req EXCEPT ![p] = NoCall] /\ UNCHANGED owed
      /\ quota \in [QuotaId -> QuotaRow] /\ req[p].pc = "count"
  BY <1>1 DEF Count, IInv, TypeOK
<1>3. /\ quota'[n].used = quota[n].used + 1
      /\ \A q \in QuotaId \ {n} : quota'[q].used = quota[q].used
  BY <1>2 DEF QuotaRow
<1> QED
  BY <1>1, <1>2, <1>3, GoneOwed

\* A call is killed.
LEMMA CrashStep ==
    ASSUME IInv, NEW p \in Proc, Crash(p)
    PROVE  IInv'
<1>1. /\ req' = [req EXCEPT ![p] = NoCall] /\ UNCHANGED <<now, sub, quota, requests>>
      /\ owed \in [QuotaId -> Nat] /\ NoCall.pc = "idle"
  BY DEF Crash, IInv, TypeOK, NoCall
<1>2. CASE req[p].pc = "count"
  <2>1. PICK n \in QuotaId : n = req[p].quota
    BY <1>2 DEF IInv, ChargedToSubscription
  <2>2. owed' = [owed EXCEPT ![n] = owed[n] - 1]
    BY <1>2, <2>1 DEF Crash
  <2>3. owed'[n] = owed[n] - 1 /\ \A q \in QuotaId \ {n} : owed'[q] = owed[q]
    BY <1>1, <2>2
  <2>4. NoLostIncrements' /\ owed[n] - 1 \in Nat
    BY <1>1, <1>2, <2>1, <2>3, GoneOwed
  <2>5. owed' \in [QuotaId -> Nat]
    BY <1>1, <2>2, <2>4
  <2> QED
    BY <1>1, <2>4, <2>5, IdleStep DEF Core, IInv
<1>3. CASE req[p].pc # "count"
  <2>1. UNCHANGED owed
    BY <1>3 DEF Crash
  <2>2. NoLostIncrements'
    BY <1>1, <1>3, <2>1, IdleOwed
  <2> QED
    BY <1>1, <2>1, <2>2, IdleStep DEF Core, IInv
<1> QED
  BY <1>2, <1>3

LEMMA ReadOwed ==
    ASSUME IInv, NEW p \in Proc, ReadQuota(p)
    PROVE  NoLostIncrements'
<1>1. req[p] \in Request /\ req[p].pc = "read" /\ UNCHANGED quota
  BY DEF ReadQuota, IInv, TypeOK
<1>2. CASE \E q \in Latest(req[p].sub) : Pass(p, q, quota[q].used)
  <2>1. PICK q \in QuotaId : Pass(p, q, quota[q].used)
    BY <1>2 DEF Latest, Current
  <2> QED
    BY <1>1, <2>1, PassOwed
<1>3. CASE req' = [req EXCEPT ![p] = NoCall] /\ UNCHANGED owed
  <2>1. NoCall.pc # "count"
    BY DEF NoCall
  <2> QED
    BY <1>1, <1>3, <2>1, IdleOwed
<1>4. CASE req' = [req EXCEPT ![p].pc = "rotate"] /\ UNCHANGED owed
  <2>1. PICK r : r = [req[p] EXCEPT !.pc = "rotate"]
    OBVIOUS
  <2>2. r.pc = "rotate" /\ req' = [req EXCEPT ![p] = r]
    BY <1>1, <1>4, <2>1 DEF Request
  <2> QED
    BY <1>1, <1>4, <2>2, IdleOwed
<1> QED
  BY <1>2, <1>3, <1>4 DEF ReadQuota

\* A new row is written over none: its counter was zero, and is.
LEMMA NewRow ==
    ASSUME IInv, FreshQuotas # {}, NEW row, row.used = 0, quota' = [quota EXCEPT ![NewQuota] = row]
    PROVE  NewQuota \in QuotaId /\ \A q \in QuotaId : quota'[q].used = quota[q].used
<1>1. NewQuota \in QuotaId /\ quota[NewQuota] = NoQuota
  BY DEF NewQuota, FreshQuotas
<1>2. quota[NewQuota].used = 0
  BY <1>1 DEF NoQuota
<1> QED
  BY <1>1, <1>2 DEF IInv, TypeOK

LEMMA RotateOwed ==
    ASSUME IInv, NEW p \in Proc, Rotate(p)
    PROVE  NoLostIncrements'
<1>1. req[p].pc = "rotate"
  BY DEF Rotate
<1>2. CASE req' = [req EXCEPT ![p] = NoCall] /\ UNCHANGED <<quota, owed>>
  <2>1. NoCall.pc # "count"
    BY DEF NoCall
  <2> QED
    BY <1>1, <1>2, <2>1, IdleOwed
<1>3. CASE /\ FreshQuotas # {}
           /\ quota' = [quota EXCEPT ![NewQuota] =
                           [sub |-> req[p].sub, start |-> now, end |-> PeriodEnd(req[p].sub), used |-> 0]]
           /\ Pass(p, NewQuota, 0)
  <2> DEFINE new == [sub |-> req[p].sub, start |-> now, end |-> PeriodEnd(req[p].sub), used |-> 0]
  <2>1. PICK row : row.used = 0 /\ quota' = [quota EXCEPT ![NewQuota] = row]
    <3>1. new.used = 0 /\ quota' = [quota EXCEPT ![NewQuota] = new]
      BY <1>3
    <3> QED
      BY <3>1
  <2> HIDE DEF new
  <2> QED
    BY <1>1, <1>3, <2>1, NewRow, PassOwed
<1> QED
  BY <1>2, <1>3 DEF Rotate

LEMMA ChangeOwed ==
    ASSUME IInv, NEW u \in User, NEW pl \in Plan, NEW s \in SubId, ChangePlan(u, pl, s)
    PROVE  NoLostIncrements'
<1> DEFINE new == [sub |-> s, start |-> now, used |-> 0,
                   end |-> now + IF Duration[pl] = 0 THEN FiftyYears ELSE Duration[pl]]
<1>1. /\ FreshQuotas # {} /\ UNCHANGED <<req, owed>>
      /\ new.used = 0 /\ quota' = [quota EXCEPT ![NewQuota] = new]
  BY DEF ChangePlan
<1> HIDE DEF new
<1>2. \A q \in QuotaId : quota'[q].used = quota[q].used
  BY <1>1, NewRow
<1> QED
  BY <1>1, <1>2 DEF IInv, NoLostIncrements, Pending

LEMMA InitIInv == Init => IInv
<1> SUFFICES ASSUME Init PROVE NoLostIncrements
  BY InitCore DEF Core, IInv
<1> SUFFICES ASSUME NEW q \in QuotaId
             PROVE  quota[q].used + Cardinality(Pending(q)) = owed[q]
  BY DEF NoLostIncrements
<1>1. quota[q].used = 0 /\ Pending(q) = {} /\ owed[q] = 0
  BY DEF Init, NoQuota, NoCall, Pending
<1> QED
  BY <1>1, FS_EmptySet

LEMMA NextIInv == IInv /\ [Next]_vars => IInv'
<1> SUFFICES ASSUME IInv, [Next]_vars PROVE IInv'
  OBVIOUS
<1>1. Core' /\ NoLostIncrements' => IInv'
  BY DEF Core, IInv
<1>2. ASSUME NEW u \in User, NEW pl \in Plan, NEW s \in SubId, ChangePlan(u, pl, s)
      PROVE  IInv'
  BY <1>1, <1>2, ChangeStep, ChangeOwed
<1>3. ASSUME NEW p \in Proc, Record(p) PROVE IInv'
  <2>1. PICK r : r.pc = "read" /\ req' = [req EXCEPT ![p] = r]
    <3>1. PICK s : req' = [req EXCEPT ![p] = [NoCall EXCEPT !.pc = "read", !.sub = s]]
      BY <1>3 DEF Record
    <3>2. [NoCall EXCEPT !.pc = "read", !.sub = s].pc = "read"
      BY DEF NoCall
    <3> QED
      BY <3>1, <3>2
  <2>2. req[p].pc = "idle" /\ UNCHANGED <<quota, owed>>
    BY <1>3 DEF Record, NoCall
  <2> QED
    BY <1>1, <1>3, <2>1, <2>2, RecordStep, IdleOwed
<1>4. ASSUME NEW p \in Proc, ReadQuota(p) PROVE IInv'
  BY <1>1, <1>4, ReadStep, ReadOwed
<1>5. ASSUME NEW p \in Proc, Rotate(p) PROVE IInv'
  BY <1>1, <1>5, RotateStep, RotateOwed
<1>6. ASSUME NEW p \in Proc, Count(p) PROVE IInv'
  BY <1>1, <1>6, CountStep, CountOwed
<1>7. ASSUME NEW p \in Proc, Crash(p) PROVE IInv'
  BY <1>7, CrashStep
<1>8. CASE Tick
  <2>1. NoLostIncrements'
    BY <1>8 DEF Tick, IInv, NoLostIncrements, Pending
  <2> QED
    BY <1>1, <1>8, <2>1, TickStep
<1>9. CASE UNCHANGED vars
  BY <1>9 DEF vars, IInv, TypeOK, RowsOK, CallsOK, ChargedToSubscription, CountersOK,
              PeriodsOK, NoLostIncrements, Pending, Current, Rotating
<1> QED
  BY <1>2, <1>3, <1>4, <1>5, <1>6, <1>7, <1>8, <1>9 DEF Next

-------------------------------------------------------------------------------------
(* The theorems *)

\* IInv holds in every reachable state of record_request and the changes of plan
\* around it (services.py:88-145).
THEOREM Invariance == Spec => []IInv
<1>1. Init => IInv
  BY InitIInv
<1>2. IInv /\ [Next]_vars => IInv'
  BY NextIInv
<1> QED
  BY <1>1, <1>2, PTL DEF Spec

\* Rows and calls keep their shape.
THEOREM TypeCorrect == Spec => []TypeOK
<1>1. IInv => TypeOK
  BY DEF IInv
<1> QED
  BY <1>1, Invariance, PTL

\* However many threads record requests at once, no counter passes the plan's limit
\* by as many as there are threads (record_request, services.py:124-134).
THEOREM BoundedOvershoot == Spec => []OvershootBounded
<1>1. IInv => OvershootBounded
  <2> SUFFICES ASSUME IInv, NEW q \in QuotaId, quota[q].sub # None,
                      Limit[sub[quota[q].sub].plan] > 0
               PROVE  quota[q].used < Limit[sub[quota[q].sub].plan] + Cardinality(Proc)
    BY DEF OvershootBounded
  <2>1. quota[q].used + Cardinality(Pending(q))
             < Limit[sub[quota[q].sub].plan] + Cardinality(Proc)
    BY DEF IInv, CountersOK
  <2>2. Cardinality(Pending(q)) \in Nat /\ Cardinality(Proc) \in Nat
    BY ProcSets DEF Pending
  <2>3. quota[q].used \in Nat /\ Limit[sub[quota[q].sub].plan] \in Nat
    BY QuotaAssumption DEF IInv, TypeOK, QuotaRow, RowsOK
  <2> QED
    BY <2>1, <2>2, <2>3
<1> QED
  BY <1>1, Invariance, PTL

\* A subscription never has more current periods than there are threads
\* (_current_or_rotate_quota, services.py:137-145).
THEOREM BoundedRotations == Spec => []RotationsBounded
<1>1. IInv => RotationsBounded
  <2> SUFFICES ASSUME IInv, NEW s \in SubId
               PROVE  Cardinality(Current(s)) <= Cardinality(Proc)
    BY DEF RotationsBounded
  <2>1. /\ IsFiniteSet(Current(s))
        /\ Cardinality(Current(s)) + Cardinality(Rotating(s)) <= Cardinality(Proc)
    BY DEF IInv, PeriodsOK
  <2>2. /\ Cardinality(Current(s)) \in Nat /\ Cardinality(Rotating(s)) \in Nat
        /\ Cardinality(Proc) \in Nat
    BY <2>1, ProcSets, FS_CardinalityType DEF Rotating
  <2> QED
    BY <2>1, <2>2
<1> QED
  BY <1>1, Invariance, PTL

\* A request is counted in a period of the subscription it was recorded for, even if
\* the plan changes in between (services.py:116-132).
THEOREM ChargedRight == Spec => []ChargedToSubscription
<1>1. IInv => ChargedToSubscription
  BY DEF IInv
<1> QED
  BY <1>1, Invariance, PTL

\* Every call that passed the check on a period and lived is counted in it, once: no
\* increment is lost to another thread, or lands in another period (F("requests_used")
\* + 1, services.py:131-134).
THEOREM NothingLost == Spec => []NoLostIncrements
<1>1. IInv => NoLostIncrements
  BY DEF IInv
<1> QED
  BY <1>1, Invariance, PTL

\* A usage period is never shortened, moved or counted down (models.py:109-111).
THEOREM Monotone == Spec => NeverDecremented
<1> DEFINE Kept(q) == /\ quota'[q].used >= quota[q].used
                      /\ quota'[q].sub = quota[q].sub
                      /\ quota'[q].start = quota[q].start /\ quota'[q].end = quota[q].end
<1>1. ASSUME IInv, [Next]_vars, NEW q \in QuotaId, quota[q] # NoQuota
      PROVE  Kept(q)
  <2>1. quota[q] \in QuotaRow /\ quota \in [QuotaId -> QuotaRow]
    BY <1>1 DEF IInv, TypeOK
  <2>2. CASE quota'[q] = quota[q]
    BY <2>1, <2>2 DEF QuotaRow
  \* The row a change of plan or a rotation writes is one that was not there.
  <2>3. ASSUME FreshQuotas # {}, NEW row, quota' = [quota EXCEPT ![NewQuota] = row]
        PROVE  quota'[q] = quota[q]
    <3>1. NewQuota \in FreshQuotas
      BY <2>3 DEF NewQuota
    <3>2. NewQuota # q
      BY <1>1, <3>1 DEF FreshQuotas
    <3> QED
      BY <2>1, <2>3, <3>2
  <2>4. ASSUME NEW u \in User, NEW pl \in Plan, NEW s \in SubId, ChangePlan(u, pl, s)
        PROVE  Kept(q)
    BY <2>2, <2>3, <2>4 DEF ChangePlan
  <2>5. ASSUME NEW p \in Proc, Rotate(p) PROVE Kept(q)
    BY <2>2, <2>3, <2>5 DEF Rotate
  <2>6. ASSUME NEW p \in Proc, Count(p) PROVE Kept(q)
    <3>1. CASE q = req[p].quota
      <4>1. quota'[q] = [quota[q] EXCEPT !.used = quota[q].used + 1]
        BY <2>1, <2>6, <3>1 DEF Count
      <4> QED
        BY <2>1, <4>1 DEF QuotaRow
    <3>2. CASE q # req[p].quota
      <4>1. quota'[q] = quota[q]
        BY <2>1, <2>6, <3>2 DEF Count
      <4> QED
        BY <2>2, <4>1
    <3> QED
      BY <3>1, <3>2
  <2>7. CASE UNCHANGED quota
    BY <2>2, <2>7
  <2>8. ASSUME NEW p \in Proc, Record(p) \/ ReadQuota(p) \/ Crash(p) PROVE UNCHANGED quota
    BY <2>8 DEF Record, ReadQuota, Crash
  <2>9. Tick \/ UNCHANGED vars => UNCHANGED quota
    BY DEF Tick, vars
  <2> QED
    BY <1>1, <2>4, <2>5, <2>6, <2>7, <2>8, <2>9 DEF Next
<1>2. IInv /\ [Next]_vars =>
         [\A q \in QuotaId : quota[q] # NoQuota => Kept(q)]_vars
  BY <1>1
<1> QED
  BY <1>2, Invariance, PTL DEF Spec, NeverDecremented
=====================================================================================
