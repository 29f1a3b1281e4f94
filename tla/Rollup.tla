----------------------------------- MODULE Rollup -----------------------------------
(***************************************************************************)
(* apps/analytics: the request log, the rollup of a day into DailyUsage    *)
(* and the charts read from both.  Rows of the log are kept as counts per  *)
(* user and day.  A rollup is one SELECT and then one upsert per user,     *)
(* each committed by itself, while requests go on being logged.            *)
(***************************************************************************)
EXTENDS Integers, Sequences, FiniteSets, FiniteSetsExt

CONSTANTS
    User,
    Proc,         \* gunicorn threads
    Worker,       \* celery worker processes
    None,
    LastDay,      \* bound: days 0 .. LastDay are simulated
    MaxRequests,  \* bound: requests logged
    MonthStart,   \* a sequence: the calendar, as the first day of each month
    Epochs        \* the calendar days that day 0 may be

Day == 0 .. LastDay

ASSUME RollupAssumption ==
    /\ None \notin User \cup Day
    /\ LastDay \in Nat /\ MaxRequests \in Nat

\* The months and years of the calendar, which has a year before the first day that is
\* simulated, and goes on after the last.
ASSUME CalendarAssumption ==
    /\ MonthStart \in Seq(Int)
    /\ \A k \in DOMAIN MonthStart :
          /\ k + 1 \in DOMAIN MonthStart => MonthStart[k + 1] - MonthStart[k] \in 28 .. 31
          /\ k + 12 \in DOMAIN MonthStart => MonthStart[k + 12] - MonthStart[k] \in 365 .. 366
    /\ Epochs \subseteq Int /\ 13 \in DOMAIN MonthStart
    /\ \A e \in Epochs : MonthStart[13] <= e /\ e + LastDay < MonthStart[Len(MonthStart)]

VARIABLES
    epoch,    \* the calendar day that day 0 is
    now,      \* timezone.now().date()
    present,  \* rows of users_user
    log,      \* [user, or None once deleted -> [Day -> its rows of analytics_request_log]]
    daily,    \* [User -> [Day -> its row of analytics_daily_usage, Nothing without one]]
    req,      \* [Proc -> the row it is about to INSERT]
    job,      \* [Worker -> the rollup it is in]
    requests, \* requests so far, at most MaxRequests
    done      \* history: days rolled up after they had settled

vars == <<epoch, now, present, log, daily, req, job, requests, done>>

-------------------------------------------------------------------------------------
(* Rows, requests and jobs *)

Nothing == [count |-> 0, errors |-> 0]
Counts == [count : Nat, errors : Nat]

NoRequest == [user |-> None, day |-> None, error |-> FALSE]
Request == [user : User, day : Day, error : BOOLEAN]

\* rows: what the SELECT returned and is not written yet; final: the day had settled.
NoJob == [day |-> None, rows |-> [u \in User |-> Nothing], final |-> FALSE]
Job == [day : Day \cup {None}, rows : [User -> Counts], final : BOOLEAN]

Plus(a, b) == [count |-> a.count + b.count, errors |-> a.errors + b.errors]
One(error) == [count |-> 1, errors |-> IF error THEN 1 ELSE 0]

\* Nothing more will be logged for day d, and no rollup that has missed some of it is
\* still writing.
Settled(d) ==
    /\ d < now
    /\ \A p \in Proc : req[p].day # d
    /\ \A w \in Worker : job[w].day = d => job[w].final

(* Charts *)

MonthOf(x) ==
    CHOOSE k \in DOMAIN MonthStart : /\ MonthStart[k] <= x
                                     /\ k + 1 \in DOMAIN MonthStart => x < MonthStart[k + 1]

\* Wrong on purpose: the current month is not counted.
EarliestMonth_OneMore(today, months) == MonthOf(today - 31 * months)

\* monthly_chart: 31 days per month back from today, the first of this month.
EarliestMonth(today, months) == MonthOf(today - 31 * (months - 1))

\* _parse_int_param: what the monthly views ask for.
AskedMonths == {Max({1, Min({12, n})}) : n \in 0 .. 13}

\* daily_chart of one user, or of all without one.
LoggedOn(scope, d) ==
    IF scope # None THEN log[scope][d]
    ELSE [count  |-> MapThenSumSet(LAMBDA u : log[u][d].count, User \cup {None}),
          errors |-> MapThenSumSet(LAMBDA u : log[u][d].errors, User \cup {None})]

-------------------------------------------------------------------------------------
Init ==
    /\ epoch \in Epochs
    /\ now = 0
    /\ present = User
    /\ log = [u \in User \cup {None} |-> [d \in Day |-> Nothing]]
    /\ daily = [u \in User |-> [d \in Day |-> Nothing]]
    /\ req = [p \in Proc |-> NoRequest]
    /\ job = [w \in Worker |-> NoJob]
    /\ requests = 0
    /\ done = {}

\* RequestLog.objects.create takes created_at from the clock,
Stamp(p, u, error) ==
    /\ req[p] = NoRequest
    /\ u \in present
    /\ requests < MaxRequests
    /\ req' = [req EXCEPT ![p] = [user |-> u, day |-> now, error |-> error]]
    /\ requests' = requests + 1
    /\ UNCHANGED <<epoch, now, present, log, daily, job, done>>

\* and INSERTs, later; without the user that fails, and the failure is swallowed.
Insert(p) ==
    LET r == req[p] IN
    /\ r # NoRequest
    /\ log' = IF r.user \in present THEN [log EXCEPT ![r.user][r.day] = Plus(@, One(r.error))] ELSE log
    /\ req' = [req EXCEPT ![p] = NoRequest]
    /\ UNCHANGED <<epoch, now, present, daily, job, requests, done>>

\* An administrator deletes a user: SET_NULL in the log, CASCADE in the rollup.
DeleteUser(u) ==
    /\ u \in present
    /\ present' = present \ {u}
    /\ log' = [log EXCEPT ![u] = [d \in Day |-> Nothing],
                          ![None] = [d \in Day |-> Plus(@[d], log[u][d])]]
    /\ daily' = [daily EXCEPT ![u] = [d \in Day |-> Nothing]]
    /\ UNCHANGED <<epoch, now, req, job, requests, done>>

\* rollup_daily_usage, of yesterday or of the day it is told: one SELECT of the counts
\* of each user with rows.
RollupStart(w, d) ==
    /\ job[w] = NoJob
    /\ job' = [job EXCEPT ![w] = [day |-> d, rows |-> [u \in User |-> log[u][d]], final |-> Settled(d)]]
    /\ UNCHANGED <<epoch, now, present, log, daily, req, requests, done>>

\* Wrong on purpose: the counts are added to those of the row.
RollupWrite_Adds(w, u) ==
    /\ job[w].rows[u] # Nothing /\ u \in present
    /\ daily' = [daily EXCEPT ![u][job[w].day] = Plus(@, job[w].rows[u])]
    /\ job' = [job EXCEPT ![w].rows[u] = Nothing]
    /\ UNCHANGED <<epoch, now, present, log, req, requests, done>>

\* Wrong on purpose: get_or_create.
RollupWrite_KeepsOld(w, u) ==
    /\ job[w].rows[u] # Nothing /\ u \in present
    /\ daily' = [daily EXCEPT ![u][job[w].day] = IF @ = Nothing THEN job[w].rows[u] ELSE @]
    /\ job' = [job EXCEPT ![w].rows[u] = Nothing]
    /\ UNCHANGED <<epoch, now, present, log, req, requests, done>>

\* Wrong on purpose: no errors are NULL, as a Sum would return them.
RollupWrite_NullErrors(w, u) ==
    LET row == job[w].rows[u] IN
    /\ row # Nothing /\ u \in present
    /\ daily' = [daily EXCEPT ![u][job[w].day] =
                    [row EXCEPT !.errors = IF @ = 0 THEN None ELSE @]]
    /\ job' = [job EXCEPT ![w].rows[u] = Nothing]
    /\ UNCHANGED <<epoch, now, present, log, req, requests, done>>

\* update_or_create of one user's row.  If the user is gone the whole task fails, and
\* it is not retried.
RollupWrite(w, u) ==
    /\ job[w].rows[u] # Nothing
    /\ \/ /\ u \in present
          /\ daily' = [daily EXCEPT ![u][job[w].day] = job[w].rows[u]]
          /\ job' = [job EXCEPT ![w].rows[u] = Nothing]
       \/ /\ u \notin present
          /\ job' = [job EXCEPT ![w] = NoJob]
          /\ UNCHANGED daily
    /\ UNCHANGED <<epoch, now, present, log, req, requests, done>>

RollupEnd(w) ==
    /\ job[w] # NoJob
    /\ \A u \in User : job[w].rows[u] = Nothing
    /\ done' = IF job[w].final THEN done \cup {job[w].day} ELSE done
    /\ job' = [job EXCEPT ![w] = NoJob]
    /\ UNCHANGED <<epoch, now, present, log, daily, req, requests>>

\* A thread or a worker is killed.
Crash ==
    /\ \/ \E p \in Proc : req[p] # NoRequest /\ req' = [req EXCEPT ![p] = NoRequest] /\ UNCHANGED job
       \/ \E w \in Worker : job[w] # NoJob /\ job' = [job EXCEPT ![w] = NoJob] /\ UNCHANGED req
    /\ UNCHANGED <<epoch, now, present, log, daily, requests, done>>

Tick ==
    /\ now < LastDay
    /\ now' = now + 1
    /\ UNCHANGED <<epoch, present, log, daily, req, job, requests, done>>

Next ==
    \/ \E p \in Proc, u \in User, error \in BOOLEAN : Stamp(p, u, error)
    \/ \E p \in Proc : Insert(p)
    \/ \E u \in User : DeleteUser(u)
    \/ \E w \in Worker, d \in Day : RollupStart(w, d)
    \/ \E w \in Worker, u \in User : RollupWrite(w, u)
    \/ \E w \in Worker : RollupEnd(w)
    \/ Crash
    \/ Tick

Spec == Init /\ [][Next]_vars

-------------------------------------------------------------------------------------
(* Properties *)

TypeOK ==
    /\ epoch \in Epochs /\ now \in Day /\ present \subseteq User /\ done \subseteq Day
    /\ log \in [User \cup {None} -> [Day -> Counts]]
    /\ daily \in [User -> [Day -> Counts]]
    /\ req \in [Proc -> Request \cup {NoRequest}]
    /\ job \in [Worker -> Job]
    /\ requests \in Nat

\* "Idempotent" (selectors.py:121): a day may be rolled up again and again, and by
\* several workers at once, and no request is counted twice.
NeverOvercounts ==
    \A u \in present, d \in Day : /\ daily[u][d].count <= log[u][d].count
                                  /\ daily[u][d].errors <= log[u][d].errors

\* Rollups that started too early may have missed requests, and overwrite what later
\* ones have written.  A day that is rolled up after it has settled is exact, whatever
\* it was before: the monthly chart shows what the daily one does.
SettledDayExact == \A d \in done, u \in present : daily[u][d] = LoggedOn(u, d)

\* The monthly chart covers the months asked for, the current one included, and at most
\* one month more, wherever in the year today is.
ChartWindow ==
    LET k == MonthOf(epoch + now) IN
    \A months \in AskedMonths :
        EarliestMonth(MonthStart[k], months) \in (k - months) .. (k - (months - 1))

-------------------------------------------------------------------------------------
(* The inductive invariant *)

Le(a, b) == a.count <= b.count /\ a.errors <= b.errors

\* A rollup in progress has a day, and counted no more than there is.
JobsWithin ==
    \A w \in Worker :
        /\ job[w].day = None => job[w] = NoJob
        /\ job[w].day # None => \A u \in present : Le(job[w].rows[u], log[u][job[w].day])

\* A rollup of a settled day has counted everything, and what it has written stays.
FinalJobsExact ==
    \A w \in Worker : job[w].final =>
        LET d == job[w].day IN
        /\ d \in Day /\ Settled(d)
        /\ \A u \in present : IF job[w].rows[u] = Nothing THEN daily[u][d] = log[u][d]
                               ELSE job[w].rows[u] = log[u][d]

DoneDaysExact ==
    \A d \in done : Settled(d) /\ \A u \in present : daily[u][d] = log[u][d]

DailyWithin == \A u \in present, d \in Day : Le(daily[u][d], log[u][d])

IInv == TypeOK /\ DailyWithin /\ JobsWithin /\ FinalJobsExact /\ DoneDaysExact
=====================================================================================
