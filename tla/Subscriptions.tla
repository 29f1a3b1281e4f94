------------------------------- MODULE Subscriptions -------------------------------
(***************************************************************************)
(* apps/subscriptions: enrolment, plan changes, cancellation and the       *)
(* expiry sweep, one action per SQL statement.                             *)
(*                                                                         *)
(* A process is a gunicorn thread (Web) or a celery worker (Worker).  Its  *)
(* entry in txn is its database transaction: what it has read and what it  *)
(* has written but not committed.  sub, users and planActive are the       *)
(* committed rows, which is all that any other process can read (READ      *)
(* COMMITTED); the writes of a transaction reach them in one step, at the  *)
(* commit.  A row a transaction has updated is locked until it ends, and   *)
(* the partial unique index makes an INSERT wait for any transaction that  *)
(* is adding or closing another active row of the same user.               *)
(***************************************************************************)
EXTENDS Naturals, FiniteSets

CONSTANTS
    User, Plan, Free,   \* Free is PlanSlug.FREE
    Duration,           \* [Plan -> Nat]: Plan.duration_days, 0 for "never expires"
    Web, Worker,        \* the processes
    SubId,              \* primary keys of subscription rows
    None,               \* SQL NULL, Python None
    LeapDays,           \* the days that are a February 29th
    MaxTime,            \* bound: the last day
    MaxCalls,           \* bound: calls made by users
    MaxCrashes          \* bound: processes killed

Proc == Web \cup Worker

ASSUME ConstantsAssumption ==
    /\ Free \in Plan
    /\ Duration \in [Plan -> Nat]
    /\ None \notin User \cup Plan \cup SubId \cup Nat
    /\ Web \cap Worker = {}
    /\ MaxTime \in Nat /\ MaxCalls \in Nat /\ MaxCrashes \in Nat

VARIABLES
    now,         \* timezone.now(), in days
    planActive,  \* the plans with is_active = True
    users,       \* committed rows of users_user
    sub,         \* committed rows of subscriptions_subscription
    txn,         \* [Proc -> what the process is doing]
    calls,       \* calls made so far, at most MaxCalls
    crashes      \* crashes so far, at most MaxCrashes

vars == <<now, planActive, users, sub, txn, calls, crashes>>

-------------------------------------------------------------------------------------
(* Rows and transactions *)

Closed == {"canceled", "expired"}

\* A row that does not exist yet.
NoRow == [status |-> "absent", user |-> None, plan |-> None, expires |-> None]

Row == [status  : {"absent", "active"} \cup Closed,
        user    : User \cup {None},
        plan    : Plan \cup {None},
        expires : Nat \cup {None}]

\* pc names the statement the process executes next.
Idle == [pc |-> "idle", op |-> "none", user |-> None, plan |-> None,
         cur |-> None, new |-> None, start |-> 0, todo |-> {}]

Txn == [pc    : {"idle", "select", "close", "enroll", "insert", "quota", "sweep"},
        op    : {"none", "register", "ensure", "subscribe", "cancel", "expire"},
        user  : User \cup {None},
        plan  : Plan \cup {None},
        cur   : SubId \cup {None},    \* the subscription it read and replaces
        new   : SubId \cup {None},    \* the subscription it has inserted
        start : Nat,                  \* started_at of the new subscription
        todo  : SUBSET SubId]         \* rows the sweep fetched, not yet visited

\* get_active_subscription: status alone decides, expires_at is not looked at.
ActiveSubs(u) == {s \in SubId : sub[s].status = "active" /\ sub[s].user = u}

\* The queryset of expire_due_subscriptions.
Due(s) == /\ sub[s].status = "active"
          /\ sub[s].expires # None
          /\ sub[s].expires <= now

\* A transaction that has updated its cur row and not committed holds its lock.
Holds(t) == t.pc \in {"enroll", "insert", "quota"} /\ t.cur # None

\* Wrong on purpose: an index without its condition on the status.
MustWait_AnyStatus(p, q) ==
    /\ q # p
    /\ txn[q].user = txn[p].user
    /\ txn[q].pc = "quota" \/ (Holds(txn[q]) /\ txn[q].cur # txn[p].cur)

\* p's INSERT of an active row for its user has to wait for q to end.
MustWait(p, q) ==
    /\ q # p
    /\ txn[q].user = txn[p].user
    /\ \/ txn[q].pc = "quota"
       \/ Holds(txn[q]) /\ txn[q].cur # txn[p].cur /\ sub[txn[q].cur].status = "active"

\* p cannot go on before q ends, which holds the row that p updates or stands in the way
\* of p's INSERT.
Waits(p, q) ==
    \/ txn[p].pc = "close" /\ q # p /\ Holds(txn[q]) /\ txn[q].cur = txn[p].cur
    \/ txn[p].pc = "insert" /\ MustWait(p, q)

\* A primary key nobody uses (uuid4; which one is immaterial).
FreshIds == {s \in SubId : sub[s] = NoRow /\ \A p \in Proc : txn[p].new # s}

Advance(p, r) == txn' = [txn EXCEPT ![p] = r]

\* The service returned or raised: the request ends, a sweep takes its next row.
AfterCall(p) == IF txn[p].op = "expire"
                THEN [Idle EXCEPT !.pc = "sweep", !.todo = txn[p].todo]
                ELSE Idle

\* An exception leaves transaction.atomic: every write of p is rolled back.
Raise(p) ==
    /\ Advance(p, AfterCall(p))
    /\ UNCHANGED <<now, planActive, users, sub, calls, crashes>>

-------------------------------------------------------------------------------------
Init ==
    /\ now = 0
    /\ planActive = Plan
    /\ users = {}
    /\ sub = [s \in SubId |-> NoRow]
    /\ txn = [p \in Proc |-> Idle]
    /\ calls = 0
    /\ crashes = 0

(* Calls of the users *)

\* A user's request reaches an idle web process.
Call(p, r) ==
    /\ p \in Web
    /\ txn[p] = Idle
    /\ calls < MaxCalls
    /\ Advance(p, r)
    /\ calls' = calls + 1
    /\ UNCHANGED <<now, planActive, users, sub, crashes>>

Registering(u) == \E p \in Proc : txn[p].op = "register" /\ txn[p].user = u

\* create_user: the email is new, the user row is inserted in the transaction.
Register(p, u) ==
    /\ u \notin users
    /\ ~Registering(u)
    /\ Call(p, [Idle EXCEPT !.pc = "enroll", !.op = "register", !.user = u])

\* create_superuser makes a user row and no subscription.
CreateSuperuser(u) ==
    /\ u \notin users
    /\ ~Registering(u)
    /\ users' = users \cup {u}
    /\ UNCHANGED <<now, planActive, sub, txn, calls, crashes>>

\* record_request: a user seen without a subscription is enrolled.
EnsureSubscribed(p, u) ==
    /\ u \in users
    /\ ActiveSubs(u) = {}
    /\ Call(p, [Idle EXCEPT !.pc = "enroll", !.op = "ensure", !.user = u])

\* subscribe: the plan is looked up among the active ones (none: NotFound).
Subscribe(p, u, pl) ==
    /\ u \in users
    /\ pl \in planActive
    /\ Call(p, [Idle EXCEPT !.pc = "select", !.op = "subscribe", !.user = u, !.plan = pl])

\* cancel: reads the active subscription (none: NotFound).
Cancel(p, u) ==
    \E s \in ActiveSubs(u) :
        Call(p, [Idle EXCEPT !.pc = "close", !.op = "cancel", !.user = u, !.cur = s])

(* The statements of a call *)

\* subscribe reads the active subscription and compares the plans.
SelectCurrent(p) ==
    /\ txn[p].pc = "select"
    /\ \/ \E s \in ActiveSubs(txn[p].user) :
            \/ sub[s].plan = txn[p].plan /\ Advance(p, Idle)      \* Conflict
            \/ sub[s].plan # txn[p].plan
               /\ Advance(p, [txn[p] EXCEPT !.pc = "close", !.cur = s])
       \/ ActiveSubs(txn[p].user) = {}
          /\ Advance(p, [txn[p] EXCEPT !.pc = "insert", !.start = now])
    /\ UNCHANGED <<now, planActive, users, sub, calls, crashes>>

\* Wrong on purpose: without transaction.atomic the UPDATE commits by itself.
CloseCurrent_Autocommit(p) ==
    /\ txn[p].pc = "close"
    /\ Advance(p, [txn[p] EXCEPT
                     !.pc = IF txn[p].op = "subscribe" THEN "insert" ELSE "enroll",
                     !.start = now])
    /\ sub' = [sub EXCEPT ![txn[p].cur].status = "canceled"]
    /\ UNCHANGED <<now, planActive, users, calls, crashes>>

\* sub.save(update_fields=["status", ...]): UPDATE ... WHERE id = pk, whatever
\* the row's status is by now; waits for the row lock.
CloseCurrent(p) ==
    /\ txn[p].pc = "close"
    /\ \A q \in Proc : ~Waits(p, q)
    /\ Advance(p, [txn[p] EXCEPT
                     !.pc = IF txn[p].op = "subscribe" THEN "insert" ELSE "enroll",
                     !.start = now])
    /\ UNCHANGED <<now, planActive, users, sub, calls, crashes>>

\* Wrong on purpose: cancel and the sweep renew the plan that ended.
LookupFree_Renew(p) ==
    /\ txn[p].pc = "enroll"
    /\ Advance(p, [txn[p] EXCEPT !.pc = "insert", !.start = now,
                     !.plan = IF txn[p].cur # None THEN sub[txn[p].cur].plan ELSE Free])
    /\ UNCHANGED <<now, planActive, users, sub, calls, crashes>>

\* enroll_in_free_plan: the Free plan must be active.
LookupFree(p) ==
    /\ txn[p].pc = "enroll"
    /\ \/ /\ Free \in planActive
          /\ Advance(p, [txn[p] EXCEPT !.pc = "insert", !.plan = Free, !.start = now])
          /\ UNCHANGED <<now, planActive, users, sub, calls, crashes>>
       \/ Free \notin planActive /\ Raise(p)

\* Wrong on purpose: no partial unique index on the active rows.
CreateSub_NoIndex(p) ==
    /\ txn[p].pc = "insert"
    /\ FreshIds # {}
    /\ Advance(p, [txn[p] EXCEPT !.pc = "quota", !.new = CHOOSE s \in FreshIds : TRUE])
    /\ UNCHANGED <<now, planActive, users, sub, calls, crashes>>

\* The INSERT of _create_subscription, under uniq_active_subscription_per_user.
CreateSub(p) ==
    /\ txn[p].pc = "insert"
    /\ \A q \in Proc : ~Waits(p, q)
    /\ \/ /\ ActiveSubs(txn[p].user) \subseteq {txn[p].cur}
          /\ FreshIds # {}
          /\ Advance(p, [txn[p] EXCEPT !.pc = "quota", !.new = CHOOSE s \in FreshIds : TRUE])
          /\ UNCHANGED <<now, planActive, users, sub, calls, crashes>>
       \/ ~(ActiveSubs(txn[p].user) \subseteq {txn[p].cur}) /\ Raise(p)  \* IntegrityError

\* expires argument of _create_subscription.
Expiring(p) == txn[p].op = "subscribe" /\ Duration[txn[p].plan] > 0

\* Wrong on purpose: the row that ends is parked as past_due.
Committed_PastDue(p) ==
    [s \in SubId |->
        IF s = txn[p].new
        THEN [status |-> "active", user |-> txn[p].user, plan |-> txn[p].plan,
              expires |-> None]
        ELSE IF s = txn[p].cur THEN [sub[s] EXCEPT !.status = "past_due"] ELSE sub[s]]

\* The rows of the transaction once it commits.
Committed(p) ==
    [s \in SubId |->
        IF s = txn[p].new
        THEN [status  |-> "active",
              user    |-> txn[p].user,
              plan    |-> txn[p].plan,
              expires |-> IF Expiring(p) THEN txn[p].start + Duration[txn[p].plan] ELSE None]
        ELSE IF s = txn[p].cur
        THEN [sub[s] EXCEPT !.status = IF txn[p].op = "expire" THEN "expired" ELSE "canceled"]
        ELSE sub[s]]

\* The opening UsageQuota and COMMIT.  start.replace(year=start.year + 50), for a
\* subscription that does not expire, raises ValueError on a February 29th.
OpenQuota(p) ==
    /\ txn[p].pc = "quota"
    /\ \/ /\ ~Expiring(p) => txn[p].start \notin LeapDays
          /\ sub' = Committed(p)
          /\ users' = users \cup {txn[p].user}
          /\ Advance(p, AfterCall(p))
          /\ UNCHANGED <<now, planActive, calls, crashes>>
       \/ ~Expiring(p) /\ txn[p].start \in LeapDays /\ Raise(p)

(* expire_due_subscriptions *)

\* Wrong on purpose: every active row with a term, due or not.
SweepStart_NoTermCheck(p) ==
    /\ p \in Worker
    /\ txn[p] = Idle
    /\ Advance(p, [Idle EXCEPT !.pc = "sweep",
                     !.todo = {s \in SubId : sub[s].status = "active" /\ sub[s].expires # None}])
    /\ UNCHANGED <<now, planActive, users, sub, calls, crashes>>

\* Wrong on purpose: only the rows whose term ends today, no second chance.
SweepStart_TodayOnly(p) ==
    /\ p \in Worker
    /\ txn[p] = Idle
    /\ Advance(p, [Idle EXCEPT !.pc = "sweep",
                     !.todo = {s \in SubId : Due(s) /\ sub[s].expires = now}])
    /\ UNCHANGED <<now, planActive, users, sub, calls, crashes>>

\* The due rows are fetched once; each is then visited with what was read here.
SweepStart(p) ==
    /\ p \in Worker
    /\ txn[p] = Idle
    /\ Advance(p, [Idle EXCEPT !.pc = "sweep", !.todo = {s \in SubId : Due(s)}])
    /\ UNCHANGED <<now, planActive, users, sub, calls, crashes>>

\* Wrong on purpose: a row stays on the list until its update succeeds.
SweepNext_Retry(p) ==
    /\ txn[p].pc = "sweep"
    /\ \E s \in txn[p].todo :
         Advance(p, [Idle EXCEPT !.pc = "close", !.op = "expire", !.user = sub[s].user,
                                 !.cur = s, !.todo = txn[p].todo])
    /\ UNCHANGED <<now, planActive, users, sub, calls, crashes>>

SweepNext(p) ==
    /\ txn[p].pc = "sweep"
    /\ \E s \in txn[p].todo :
         Advance(p, [Idle EXCEPT !.pc = "close", !.op = "expire", !.user = sub[s].user,
                                 !.cur = s, !.todo = txn[p].todo \ {s}])
    /\ UNCHANGED <<now, planActive, users, sub, calls, crashes>>

SweepEnd(p) ==
    /\ txn[p].pc = "sweep"
    /\ txn[p].todo = {}
    /\ Advance(p, Idle)
    /\ UNCHANGED <<now, planActive, users, sub, calls, crashes>>

(* The environment *)

\* A worker is killed (timeout, deploy, OOM): the connection drops, rollback.
Crash(p) ==
    /\ crashes < MaxCrashes
    /\ txn[p].pc # "idle"
    /\ Advance(p, Idle)
    /\ crashes' = crashes + 1
    /\ UNCHANGED <<now, planActive, users, sub, calls>>

\* PlanAdmin edits is_active.
TogglePlan(pl) ==
    /\ planActive' = IF pl \in planActive THEN planActive \ {pl} ELSE planActive \cup {pl}
    /\ UNCHANGED <<now, users, sub, txn, calls, crashes>>

\* manage.py seed_plans reactivates every canonical plan.
SeedPlans ==
    /\ planActive # Plan
    /\ planActive' = Plan
    /\ UNCHANGED <<now, users, sub, txn, calls, crashes>>

Tick ==
    /\ now < MaxTime
    /\ now' = now + 1
    /\ UNCHANGED <<planActive, users, sub, txn, calls, crashes>>

\* The next statement of a process that is inside a call or a sweep.
Proceed(p) ==
    \/ SelectCurrent(p) \/ CloseCurrent(p) \/ LookupFree(p)
    \/ CreateSub(p) \/ OpenQuota(p) \/ SweepNext(p) \/ SweepEnd(p)

UserCall(p) ==
    \E u \in User :
        \/ Register(p, u) \/ EnsureSubscribed(p, u) \/ Cancel(p, u)
        \/ \E pl \in Plan : Subscribe(p, u, pl)

Next ==
    \/ \E p \in Proc : UserCall(p) \/ SweepStart(p) \/ Proceed(p) \/ Crash(p)
    \/ \E u \in User : CreateSuperuser(u)
    \/ \E pl \in Plan : TogglePlan(pl)
    \/ SeedPlans
    \/ Tick

Spec == Init /\ [][Next]_vars

\* A running process is scheduled, beat starts the nightly sweep, time passes.
\* The two statements that wait for a lock are woken when its holder ends, even
\* if a sweep that keeps failing takes the lock again and again: strong fairness.
Fairness ==
    /\ \A p \in Proc : WF_vars(Proceed(p)) /\ SF_vars(CloseCurrent(p) \/ CreateSub(p))
    /\ \A p \in Worker : WF_vars(SweepStart(p))
    /\ WF_vars(Tick)

FairSpec == Spec /\ Fairness

-------------------------------------------------------------------------------------
(* Properties *)

\* Every variable has its type; a process has at most one transaction.
TypeOK ==
    /\ now \in Nat
    /\ planActive \subseteq Plan
    /\ users \subseteq User
    /\ sub \in [SubId -> Row]
    /\ txn \in [Proc -> Txn]
    /\ calls \in Nat
    /\ crashes \in Nat

\* "only one active subscription per user" (models.py:80): whatever calls and
\* sweeps interleave, no two committed rows of a user are active.
AtMostOneActive ==
    \A s, t \in SubId : /\ sub[s].status = "active"
                        /\ sub[t].status = "active"
                        /\ sub[s].user = sub[t].user
                        => s = t

\* "so the user keeps a baseline plan" (services.py:84): a user who ever had a
\* subscription has an active one, in every state another process can read, even
\* when a change of plan fails or its process dies half way.
PlanKept == \A s \in SubId : sub[s].status # "absent" => ActiveSubs(sub[s].user) # {}

\* However many calls and sweeps of a user run at once, whoever waits does so for one that
\* can go on, or that waits for one that can: nobody waits in a circle, although a call
\* locks a row first and meets the index entries of others later.
WaitsEnd ==
    \A p, q, r \in Proc : Waits(p, q) /\ Waits(q, r) => \A s \in Proc : ~Waits(r, s)

(* The inductive invariant *)

\* What a transaction t of process p relies on.  Its calls are for a user; the
\* rows it has read exist and are its user's (the sweep's are past their term,
\* and stay so); once it has inserted the new active row, the row it closes is
\* the only active one the user has.
CallOK(p, t) ==
    /\ t.pc \notin {"idle", "sweep"} => t.user \in User
    /\ t.pc \in {"insert", "quota"} \/ t.op = "subscribe" => t.plan \in Plan
    /\ t.pc \in {"insert", "quota"} /\ t.op # "subscribe" => t.plan = Free
    /\ t.pc = "select" => t.op = "subscribe" /\ t.cur = None
    /\ t.op \in {"register", "ensure", "subscribe", "cancel"} => p \in Web
    /\ t.cur # None => /\ t.op \in {"subscribe", "cancel", "expire"}
                       /\ sub[t.cur].status # "absent"
                       /\ sub[t.cur].user = t.user
    /\ \A s \in t.todo : sub[s].status # "absent"
    /\ \A s \in SubId : s \in t.todo \/ (t.op = "expire" /\ s = t.cur) =>
          sub[s].expires # None /\ sub[s].expires <= now
    /\ t.pc = "quota" => /\ t.new \in SubId
                         /\ sub[t.new] = NoRow
                         /\ ActiveSubs(t.user) \subseteq {t.cur}

\* Two transactions never hold the same row, nor each a pending active row of
\* the same user.
Compatible(t, t2) ==
    /\ ~(Holds(t) /\ Holds(t2) /\ t.cur = t2.cur)
    /\ t.pc = "quota" /\ t2.pc = "quota" => t.user # t2.user /\ t.new # t2.new

\* The strengthening of AtMostOneActive and PlanKept that every step preserves.
IInv ==
    /\ TypeOK
    /\ AtMostOneActive
    /\ PlanKept
    /\ \A s \in SubId : sub[s].status # "absent" => sub[s].user \in User
    /\ \A p \in Proc : CallOK(p, txn[p])
    /\ \A p, q \in Proc : p # q => Compatible(txn[p], txn[q])

\* A canceled or expired subscription is never written again: not by the sweep,
\* which visits rows it read before the user changed plan and updates them by
\* primary key alone (services.py:163-168), nor by a call that lost a race.
ClosedStaysClosed ==
    [][\A s \in SubId : sub[s].status \in Closed => sub'[s] = sub[s]]_vars

\* A subscription ends for one of two reasons: its term is over and the sweep
\* expires it, or its own user's call, made on a web process, cancels it.
EndsForAReason ==
    [][\A s \in SubId :
          sub[s].status = "active" /\ sub'[s].status # "active" =>
            \/ sub'[s].status = "expired" /\ Due(s)
            \/ /\ sub'[s].status = "canceled"
               /\ \E p \in Web : /\ txn[p].user = sub[s].user
                                 /\ txn[p].op \in {"subscribe", "cancel"}
                                 /\ txn'[p] = Idle]_vars

\* A user is put on another plan than Free, or on a term, only by the commit of a subscribe
\* of his own for that plan.  Registration, the safety net, cancel and the sweep, whatever
\* plan they end and whoever runs beside them, lead to Free, which never runs out
\* (services.py:38, expires=False).
FreeUnlessSubscribed ==
    [][\A t \in SubId :
          sub[t].status # "active" /\ sub'[t].status = "active" =>
            \/ sub'[t].plan = Free /\ sub'[t].expires = None
            \/ \E p \in Web : /\ txn[p].op = "subscribe" /\ txn[p].user = sub'[t].user
                             /\ txn[p].plan = sub'[t].plan /\ txn'[p] = Idle]_vars

\* Every call and every sweep comes to an end: no two transactions wait for
\* each other's row or index entry for ever.
CallsReturn == \A p \in Proc : txn[p].pc # "idle" ~> txn[p].pc = "idle"

\* "expire subscriptions whose end date has passed" (tasks.py:13): while Free is
\* configured, a due subscription does not stay due, whatever sweeps failed on it.
DueSwept == <>[](Free \in planActive) => \A s \in SubId : Due(s) ~> ~Due(s)

\* An enrolment that got as far as the opening quota succeeds: "Auto-subscribe a
\* brand-new user to the Free plan" (services.py:34).
EnrolmentSucceeds ==
    [][\A p \in Proc : txn[p].pc = "quota" /\ txn'[p].pc # "quota" =>
          sub'[txn[p].new].status = "active"]_vars

\* The committed rows are a SubscriptionLedger: the statements, locks, rollbacks
\* and crashes are invisible in it.
Open == [u \in User |-> IF ActiveSubs(u) = {} THEN None
                        ELSE CHOOSE s \in ActiveSubs(u) : TRUE]
Ended == {s \in SubId : sub[s].status \in Closed}

Ledger == INSTANCE SubscriptionLedger WITH NoSub <- None, open <- Open, closed <- Ended

ImplementsLedger == Ledger!Spec
=====================================================================================
