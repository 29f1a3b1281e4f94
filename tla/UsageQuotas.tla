-------------------------------- MODULE UsageQuotas --------------------------------
(***************************************************************************)
(* Usage accounting of apps/subscriptions: record_request and the usage    *)
(* periods it counts in, one action per SQL statement.  record_request is  *)
(* not in a transaction: each statement commits by itself, and whatever it *)
(* read can have changed before its next statement.  Changes of plan are   *)
(* the single steps that SubscriptionsProofs shows them to be.             *)
(***************************************************************************)
EXTENDS Naturals, FiniteSets

CONSTANTS
    User, Plan,
    Limit,         \* [Plan -> Nat]: Plan.request_quota, 0 for unlimited
    Duration,      \* [Plan -> Nat]: Plan.duration_days, 0 for "never expires"
    Proc,          \* gunicorn threads
    SubId, QuotaId,
    None,
    Month,         \* days of the default period (30)
    FiftyYears,    \* days of the opening period of a plan that never expires
    MaxTime,       \* bound: the last day
    MaxRequests    \* bound: requests made

ASSUME QuotaAssumption ==
    /\ Limit \in [Plan -> Nat] /\ Duration \in [Plan -> Nat]
    /\ Month \in Nat \ {0} /\ FiftyYears \in Nat
    /\ IsFiniteSet(Proc) /\ Proc # {}
    /\ None \notin User \cup Plan \cup SubId \cup QuotaId
    /\ MaxTime \in Nat /\ MaxRequests \in Nat

VARIABLES
    now,       \* timezone.now(), in days
    sub,       \* rows of subscriptions_subscription
    quota,     \* rows of subscriptions_usage_quota
    req,       \* [Proc -> the record_request call it is in]
    requests,  \* calls made so far, at most MaxRequests
    owed       \* history: [QuotaId -> calls that passed the check on the row and were not killed]

vars == <<now, sub, quota, req, requests, owed>>

-------------------------------------------------------------------------------------
(* Rows *)

NoSub == [status |-> "absent", user |-> None, plan |-> None]
SubRow == [status : {"absent", "active", "ended"}, user : User \cup {None}, plan : Plan \cup {None}]

NoQuota == [sub |-> None, start |-> 0, end |-> 0, used |-> 0]
QuotaRow == [sub : SubId \cup {None}, start : Nat, end : Nat, used : Nat]

\* pc names the statement the call executes next; seen is quota.requests_used as
\* the call read it.
NoCall == [pc |-> "idle", sub |-> None, quota |-> None, seen |-> 0]
Request == [pc : {"idle", "read", "rotate", "count"},
            sub : SubId \cup {None}, quota : QuotaId \cup {None}, seen : Nat]

\* The rows get_current_quota selects from.
Current(s) == {q \in QuotaId : quota[q].sub = s /\ quota[q].start <= now /\ now < quota[q].end}

\* .order_by("-period_start").first()
Latest(s) == {q \in Current(s) : \A r \in Current(s) : quota[r].start <= quota[q].start}

\* default_period_window: the end of a period that starts now.
PeriodEnd(s) == now + (IF Duration[sub[s].plan] = 0 THEN Month ELSE Duration[sub[s].plan])

\* if limit and requests_used >= limit: raise QuotaExceeded
Exceeded(s, used) == Limit[sub[s].plan] > 0 /\ used >= Limit[sub[s].plan]

FreshQuotas == {q \in QuotaId : quota[q] = NoQuota}
NewQuota == CHOOSE q \in FreshQuotas : TRUE

-------------------------------------------------------------------------------------
Init ==
    /\ now = 0
    /\ sub = [s \in SubId |-> NoSub]
    /\ quota = [q \in QuotaId |-> NoQuota]
    /\ req = [p \in Proc |-> NoCall]
    /\ requests = 0
    /\ owed = [q \in QuotaId |-> 0]

\* Wrong on purpose: the subscription that ends is parked as past_due.
ChangePlan_PastDue(u, pl, s) ==
    /\ sub[s] = NoSub
    /\ sub' = [t \in SubId |->
                  IF t = s THEN [status |-> "active", user |-> u, plan |-> pl]
                  ELSE IF sub[t].status = "active" THEN [sub[t] EXCEPT !.status = "past_due"]
                  ELSE sub[t]]
    /\ UNCHANGED <<now, quota, req, requests, owed>>

\* _create_subscription commits: the user's active subscription, if any, ends, and
\* the next one comes with its opening quota.
ChangePlan(u, pl, s) ==
    /\ sub[s] = NoSub
    /\ FreshQuotas # {}
    /\ sub' = [t \in SubId |->
                  IF t = s THEN [status |-> "active", user |-> u, plan |-> pl]
                  ELSE IF sub[t].status = "active" /\ sub[t].user = u
                       THEN [sub[t] EXCEPT !.status = "ended"] ELSE sub[t]]
    /\ quota' = [quota EXCEPT ![NewQuota] =
                    [sub |-> s, start |-> now, used |-> 0,
                     end |-> now + IF Duration[pl] = 0 THEN FiftyYears ELSE Duration[pl]]]
    /\ UNCHANGED <<now, req, requests, owed>>

\* record_request: SELECT the active subscription.  It may be past expires_at: as
\* long as the sweep has not visited it, it counts.
Record(p) ==
    /\ req[p] = NoCall
    /\ requests < MaxRequests
    /\ \E s \in SubId : /\ sub[s].status = "active"
                        /\ req' = [req EXCEPT ![p] = [NoCall EXCEPT !.pc = "read", !.sub = s]]
    /\ requests' = requests + 1
    /\ UNCHANGED <<now, sub, quota, owed>>

\* Call p goes on to count itself in row q, where it has seen so many.
Pass(p, q, seen) ==
    /\ req' = [req EXCEPT ![p] = [pc |-> "count", sub |-> req[p].sub, quota |-> q, seen |-> seen]]
    /\ owed' = [owed EXCEPT ![q] = @ + 1]

\* Wrong on purpose: nobody compares with the limit.
ReadQuota_Unchecked(p) ==
    /\ req[p].pc = "read"
    /\ \E q \in Latest(req[p].sub) : Pass(p, q, quota[q].used)
    /\ UNCHANGED <<now, sub, quota, requests>>

\* Wrong on purpose: an exhausted period is replaced by a new one.
ReadQuota_RotateWhenExceeded(p) ==
    LET s == req[p].sub IN
    /\ req[p].pc = "read"
    /\ \/ \E q \in Latest(s) : ~Exceeded(s, quota[q].used) /\ Pass(p, q, quota[q].used)
       \/ /\ \A q \in Latest(s) : Exceeded(s, quota[q].used)
          /\ req' = [req EXCEPT ![p].pc = "rotate"]
          /\ UNCHANGED owed
    /\ UNCHANGED <<now, sub, quota, requests>>

\* Wrong on purpose: the period is not looked up by subscription.
ReadQuota_AnySubscription(p) ==
    /\ req[p].pc = "read"
    /\ \E q \in QuotaId :
          /\ quota[q] # NoQuota /\ quota[q].start <= now /\ now < quota[q].end
          /\ Pass(p, q, quota[q].used)
    /\ UNCHANGED <<now, sub, quota, requests>>

\* get_current_quota, then the comparison with the limit; a refused call is over.
ReadQuota(p) ==
    LET s == req[p].sub IN
    /\ req[p].pc = "read"
    /\ \/ \E q \in Latest(s) : ~Exceeded(s, quota[q].used) /\ Pass(p, q, quota[q].used)
       \/ /\ \E q \in Latest(s) : Exceeded(s, quota[q].used)
          /\ req' = [req EXCEPT ![p] = NoCall] /\ UNCHANGED owed
       \/ /\ Current(s) = {}
          /\ req' = [req EXCEPT ![p].pc = "rotate"] /\ UNCHANGED owed
    /\ UNCHANGED <<now, sub, quota, requests>>

\* _current_or_rotate_quota: INSERT a period that starts now, unless the
\* subscription has one with the same start (uniq_quota_per_period).
Rotate(p) ==
    LET s == req[p].sub IN
    /\ req[p].pc = "rotate"
    /\ \/ /\ \A q \in QuotaId : ~(quota[q].sub = s /\ quota[q].start = now)
          /\ FreshQuotas # {}
          /\ quota' = [quota EXCEPT ![NewQuota] =
                          [sub |-> s, start |-> now, end |-> PeriodEnd(s), used |-> 0]]
          /\ Pass(p, NewQuota, 0)
       \/ /\ \E q \in QuotaId : quota[q].sub = s /\ quota[q].start = now
          /\ req' = [req EXCEPT ![p] = NoCall]      \* IntegrityError, swallowed
          /\ UNCHANGED <<quota, owed>>
    /\ UNCHANGED <<now, sub, requests>>

\* Wrong on purpose: quota.requests_used += 1; quota.save().
Count_ReadModifyWrite(p) ==
    /\ req[p].pc = "count"
    /\ quota' = [quota EXCEPT ![req[p].quota].used = req[p].seen + 1]
    /\ req' = [req EXCEPT ![p] = NoCall]
    /\ UNCHANGED <<now, sub, requests, owed>>

\* UPDATE ... SET requests_used = requests_used + 1, whatever the value is by now.
Count(p) ==
    /\ req[p].pc = "count"
    /\ quota' = [quota EXCEPT ![req[p].quota].used = @ + 1]
    /\ req' = [req EXCEPT ![p] = NoCall]
    /\ UNCHANGED <<now, sub, requests, owed>>

\* The thread is killed between two statements; what it committed stays.
Crash(p) ==
    /\ req[p] # NoCall
    /\ req' = [req EXCEPT ![p] = NoCall]
    /\ \/ req[p].pc = "count" /\ owed' = [owed EXCEPT ![req[p].quota] = @ - 1]
       \/ req[p].pc # "count" /\ UNCHANGED owed
    /\ UNCHANGED <<now, sub, quota, requests>>

Tick ==
    /\ now < MaxTime
    /\ now' = now + 1
    /\ UNCHANGED <<sub, quota, req, requests, owed>>

Next ==
    \/ \E u \in User, pl \in Plan, s \in SubId : ChangePlan(u, pl, s)
    \/ \E p \in Proc : Record(p) \/ ReadQuota(p) \/ Rotate(p) \/ Count(p) \/ Crash(p)
    \/ Tick

Spec == Init /\ [][Next]_vars

-------------------------------------------------------------------------------------
(* Properties *)

TypeOK ==
    /\ now \in Nat
    /\ sub \in [SubId -> SubRow]
    /\ quota \in [QuotaId -> QuotaRow]
    /\ req \in [Proc -> Request]
    /\ requests \in Nat /\ owed \in [QuotaId -> Nat]

\* The calls that have passed the check on row q and not yet counted in it.
Pending(q) == {p \in Proc : req[p].pc = "count" /\ req[p].quota = q}

\* The calls that have seen no current period for subscription s.
Rotating(s) == {p \in Proc : req[p].pc = "rotate" /\ req[p].sub = s}

\* The check and the increment are two statements, so the counter can pass the
\* plan's limit; but never by as much as there are threads.
OvershootBounded ==
    \A q \in QuotaId : quota[q].sub # None /\ Limit[sub[quota[q].sub].plan] > 0 =>
        quota[q].used < Limit[sub[quota[q].sub].plan] + Cardinality(Proc)

\* Threads that find no current period each open one.  A subscription never has
\* more current periods than there are threads, so what it is served within one
\* period is bounded by as many times the limit.
RotationsBounded == \A s \in SubId : Cardinality(Current(s)) <= Cardinality(Proc)

\* "Atomic increment to survive concurrent requests" (services.py:131): every call that
\* passed the check on a period and was not killed is counted in it once, or is about to
\* be.  None is lost, none is counted in another period.
NoLostIncrements ==
    \A q \in QuotaId : quota[q].used + Cardinality(Pending(q)) = owed[q]

(* The inductive invariant *)

\* Rows refer to rows that exist, and no period starts in the future.
RowsOK ==
    /\ \A s \in SubId : sub[s].status # "absent" => sub[s].plan \in Plan
    /\ \A q \in QuotaId : quota[q].sub # None => /\ sub[quota[q].sub].status # "absent"
                                                 /\ quota[q].start <= now

\* A call works on a subscription that exists.
CallsOK ==
    \A p \in Proc : req[p].pc # "idle" =>
        req[p].sub \in SubId /\ sub[req[p].sub].status # "absent"

\* Increments on their way count as made; periods on their way count as opened.
CountersOK ==
    \A q \in QuotaId : quota[q].sub # None /\ Limit[sub[quota[q].sub].plan] > 0 =>
        quota[q].used + Cardinality(Pending(q)) < Limit[sub[quota[q].sub].plan] + Cardinality(Proc)

PeriodsOK ==
    \A s \in SubId :
        /\ IsFiniteSet(Current(s))
        /\ Cardinality(Current(s)) + Cardinality(Rotating(s)) <= Cardinality(Proc)

\* A request is counted in a period of the subscription that was active when it
\* was recorded, even if the plan has changed, and the period ended, since then.
ChargedToSubscription ==
    \A p \in Proc : req[p].pc = "count" =>
        /\ req[p].quota \in QuotaId
        /\ quota[req[p].quota].sub = req[p].sub
        /\ sub[req[p].sub].status # "absent"

\* The strengthening of the five above that every step preserves.
IInv ==
    /\ TypeOK /\ RowsOK /\ CallsOK /\ ChargedToSubscription
    /\ CountersOK /\ PeriodsOK /\ NoLostIncrements

\* "Reset by starting a new period; never decremented mid-period" (models.py:109).
NeverDecremented ==
    [][\A q \in QuotaId : quota[q] # NoQuota =>
          /\ quota'[q].used >= quota[q].used
          /\ quota'[q].sub = quota[q].sub
          /\ quota'[q].start = quota[q].start /\ quota'[q].end = quota[q].end]_vars
=====================================================================================
