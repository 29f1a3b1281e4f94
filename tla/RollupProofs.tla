---------------------------------- MODULE RollupProofs ----------------------------------
(***************************************************************************)
(* Theorems about Rollup, for any users, threads and workers, any calendar *)
(* and any number of days and requests.                                    *)
(***************************************************************************)
EXTENDS Rollup, SetLemmas

(* Counts *)

LEMMA NothingLeast ==
    ASSUME NEW a \in Counts
    PROVE  Nothing \in Counts /\ Le(Nothing, a) /\ Le(a, a) /\ (Le(a, Nothing) => a = Nothing)
BY DEF Counts, Nothing, Le

LEMMA PlusMore ==
    ASSUME NEW a \in Counts, NEW b \in Counts
    PROVE  Plus(a, b) \in Counts /\ Le(a, Plus(a, b))
BY DEF Counts, Plus, Le

LEMMA OneCounts == \A error \in BOOLEAN : One(error) \in Counts
BY DEF One, Counts

LEMMA LeTransitive ==
    ASSUME NEW a \in Counts, NEW b \in Counts, NEW c \in Counts, Le(a, b), Le(b, c)
    PROVE  Le(a, c)
BY DEF Counts, Le

LEMMA Idle ==
    /\ NoJob \in Job /\ NoJob.day = None /\ ~NoJob.final
    /\ \A u \in User : NoJob.rows[u] = Nothing
    /\ Nothing \in Counts /\ NoRequest.day = None
<1>1. Nothing \in Counts
  BY DEF Nothing, Counts
<1>2. [u \in User |-> Nothing] \in [User -> Counts]
  BY <1>1
<1>3. NoJob \in Job
  BY <1>2 DEF NoJob, Job
<1>4. NoJob.day = None /\ ~NoJob.final /\ \A u \in User : NoJob.rows[u] = Nothing
  BY DEF NoJob
<1> QED
  BY <1>1, <1>3, <1>4 DEF NoRequest

\* What is of the right type, and a row of the log or of the rollup.
LEMMA Rows ==
    ASSUME TypeOK
    PROVE  /\ \A u \in User \cup {None}, d \in Day : log[u][d] \in Counts
           /\ \A u \in User, d \in Day : daily[u][d] \in Counts
           /\ \A w \in Worker, u \in User : job[w].rows[u] \in Counts
           /\ \A w \in Worker : job[w].day \in Day \cup {None} /\ job[w].final \in BOOLEAN
           /\ present \subseteq User
BY DEF TypeOK, Job

------------------------------------------------------------------------------------
(* The steps *)

\* A step that changes no counts keeps the invariant if what has settled stays settled.
LEMMA QuietStep ==
    ASSUME IInv, TypeOK', UNCHANGED <<present, log, daily, job, done>>,
           \A d \in Day : Settled(d) => Settled(d)'
    PROVE  IInv'
<1>1. DailyWithin' /\ JobsWithin'
  BY DEF IInv, DailyWithin, JobsWithin
<1>2. FinalJobsExact'
  BY DEF IInv, FinalJobsExact
<1>3. DoneDaysExact'
  BY DEF IInv, DoneDaysExact, TypeOK
<1> QED
  BY <1>1, <1>2, <1>3 DEF IInv

LEMMA StampStep ==
    ASSUME IInv, NEW p \in Proc, NEW u \in User, NEW error \in BOOLEAN, Stamp(p, u, error)
    PROVE  IInv'
<1>1. TypeOK
  BY DEF IInv
<1>2. [user |-> u, day |-> now, error |-> error] \in Request
  BY <1>1 DEF TypeOK, Request
<1>3. TypeOK'
  BY <1>1, <1>2 DEF TypeOK, Stamp
<1>4. req'[p].day = now /\ \A q \in Proc \ {p} : req'[q] = req[q]
  BY <1>1 DEF TypeOK, Stamp
<1>5. ASSUME NEW d \in Day, Settled(d) PROVE Settled(d)'
  <2>1. d < now /\ now' = now /\ job' = job /\ now \in Nat
    BY <1>1, <1>5, RollupAssumption DEF Settled, Stamp, TypeOK, Day
  <2>2. \A q \in Proc : req'[q].day # d
    BY <1>4, <1>5, <2>1 DEF Settled, Day
  <2> QED
    BY <1>5, <2>1, <2>2 DEF Settled
<1> QED
  BY <1>3, <1>5, QuietStep DEF Stamp

LEMMA InsertStep ==
    ASSUME IInv, NEW p \in Proc, Insert(p)
    PROVE  IInv'
<1>1. TypeOK /\ DailyWithin /\ JobsWithin /\ FinalJobsExact /\ DoneDaysExact
  BY DEF IInv
<1>2. PICK r \in Request : r = req[p]
  BY <1>1 DEF TypeOK, Insert
<1>3. /\ r.user \in User /\ r.day \in Day /\ One(r.error) \in Counts
      /\ log' = IF r.user \in present THEN [log EXCEPT ![r.user][r.day] = Plus(@, One(r.error))] ELSE log
  BY <1>2, OneCounts DEF Request, Insert
<1>4. /\ UNCHANGED <<epoch, now, present, daily, job, requests, done>>
      /\ req'[p] = NoRequest /\ \A q \in Proc \ {p} : req'[q] = req[q]
  BY <1>1 DEF Insert, TypeOK
<1>5. ASSUME NEW v \in User, NEW d \in Day
      PROVE  /\ Le(log[v][d], log'[v][d]) /\ log'[v][d] \in Counts
             /\ d # r.day => log'[v][d] = log[v][d]
  <2>1. log[v][d] \in Counts /\ Plus(log[v][d], One(r.error)) \in Counts
        /\ Le(log[v][d], Plus(log[v][d], One(r.error))) /\ Le(log[v][d], log[v][d])
    BY <1>1, <1>3, Rows, PlusMore, NothingLeast
  <2>2. log'[v][d] = log[v][d] \/ (d = r.day /\ log'[v][d] = Plus(log[v][d], One(r.error)))
    BY <1>1, <1>3 DEF TypeOK
  <2> QED
    BY <2>1, <2>2
<1>6. TypeOK'
  <2>1. Plus(log[r.user][r.day], One(r.error)) \in Counts
    BY <1>1, <1>3, Rows, PlusMore
  <2>2. log' \in [User \cup {None} -> [Day -> Counts]]
    BY <1>1, <1>3, <2>1 DEF TypeOK
  <2>3. req' \in [Proc -> Request \cup {NoRequest}]
    BY <1>1 DEF TypeOK, Insert
  <2> QED
    BY <1>1, <1>4, <2>2, <2>3 DEF TypeOK
<1>7. ASSUME NEW d \in Day, Settled(d)
      PROVE  Settled(d)' /\ \A v \in User : log'[v][d] = log[v][d]
  <2>1. d # r.day
    BY <1>2, <1>7 DEF Settled
  <2>2. \A q \in Proc : req'[q].day # d
    BY <1>4, <1>7, Idle, RollupAssumption DEF Settled
  <2> QED
    BY <1>4, <1>5, <1>7, <2>1, <2>2 DEF Settled
<1>8. DailyWithin'
  <2> SUFFICES ASSUME NEW u \in present, NEW d \in Day PROVE Le(daily[u][d], log'[u][d])
    BY <1>4 DEF DailyWithin
  <2> QED
    BY <1>1, <1>5, Rows, LeTransitive DEF DailyWithin
<1>9. JobsWithin'
  <2>1. ASSUME NEW w \in Worker, NEW u \in present, job[w].day # None
        PROVE  Le(job[w].rows[u], log'[u][job[w].day])
    BY <1>1, <1>5, <2>1, Rows, LeTransitive DEF JobsWithin
  <2> QED
    BY <1>1, <1>4, <2>1 DEF JobsWithin
<1>10. FinalJobsExact'
  BY <1>1, <1>4, <1>7, Rows DEF FinalJobsExact
<1>11. DoneDaysExact'
  BY <1>1, <1>4, <1>7, Rows DEF DoneDaysExact, TypeOK
<1> QED
  BY <1>6, <1>8, <1>9, <1>10, <1>11 DEF IInv

LEMMA DeleteUserStep ==
    ASSUME IInv, NEW u \in User, DeleteUser(u)
    PROVE  IInv'
<1>1. TypeOK /\ DailyWithin /\ JobsWithin /\ FinalJobsExact /\ DoneDaysExact
  BY DEF IInv
<1>2. /\ present' = present \ {u} /\ UNCHANGED <<epoch, now, req, job, requests, done>>
      /\ log' = [log EXCEPT ![u] = [d \in Day |-> Nothing],
                            ![None] = [d \in Day |-> Plus(@[d], log[u][d])]]
      /\ daily' = [daily EXCEPT ![u] = [d \in Day |-> Nothing]]
  BY DEF DeleteUser
<1>3. \A v \in present' : log'[v] = log[v] /\ daily'[v] = daily[v]
  BY <1>1, <1>2, RollupAssumption DEF TypeOK
<1>4. TypeOK'
  <2>1. [d \in Day |-> Nothing] \in [Day -> Counts]
    BY Idle
  <2>2. \A d \in Day : Plus(log[None][d], log[u][d]) \in Counts
    BY <1>1, Rows, PlusMore
  <2>3. [d \in Day |-> Plus(log[None][d], log[u][d])] \in [Day -> Counts]
    BY <2>2
  <2>4. log' \in [User \cup {None} -> [Day -> Counts]]
    <3>1. log' = [log EXCEPT ![u] = [d \in Day |-> Nothing],
                             ![None] = [d \in Day |-> Plus(log[None][d], log[u][d])]]
      BY <1>1, <1>2, RollupAssumption DEF TypeOK
    <3> QED
      BY <1>1, <3>1, <2>1, <2>3 DEF TypeOK
  <2>5. daily' \in [User -> [Day -> Counts]]
    BY <1>1, <1>2, <2>1 DEF TypeOK
  <2> QED
    BY <1>1, <1>2, <2>4, <2>5 DEF TypeOK
<1>5. \A d \in Day : Settled(d) => Settled(d)'
  BY <1>2 DEF Settled
<1>6. DailyWithin'
  BY <1>1, <1>2, <1>3 DEF DailyWithin
<1>7. JobsWithin'
  BY <1>1, <1>2, <1>3 DEF JobsWithin
<1>8. FinalJobsExact'
  <2>1. ASSUME NEW w \in Worker, job[w].final
        PROVE  \E d \in Day :
                  /\ d = job[w].day /\ Settled(d)'
                  /\ \A v \in present' : IF job[w].rows[v] = Nothing THEN daily'[v][d] = log'[v][d]
                                         ELSE job[w].rows[v] = log'[v][d]
    <3>1. PICK d \in Day :
             /\ d = job[w].day /\ Settled(d)
             /\ \A v \in present : IF job[w].rows[v] = Nothing THEN daily[v][d] = log[v][d]
                                   ELSE job[w].rows[v] = log[v][d]
      BY <1>1, <2>1 DEF FinalJobsExact
    <3>2. ASSUME NEW v \in present'
          PROVE  IF job[w].rows[v] = Nothing THEN daily'[v][d] = log'[v][d]
                 ELSE job[w].rows[v] = log'[v][d]
      <4>1. v \in present /\ log'[v] = log[v] /\ daily'[v] = daily[v]
        BY <1>2, <1>3
      <4> QED
        BY <3>1, <4>1
    <3> QED
      BY <1>5, <3>1, <3>2
  <2>2. job' = job
    BY <1>2
  <2> QED
    BY <2>1, <2>2 DEF FinalJobsExact, Settled
<1>9. DoneDaysExact'
  BY <1>1, <1>2, <1>3, <1>5 DEF DoneDaysExact, TypeOK
<1> QED
  BY <1>4, <1>6, <1>7, <1>8, <1>9 DEF IInv

LEMMA RollupStartStep ==
    ASSUME IInv, NEW w \in Worker, NEW d \in Day, RollupStart(w, d)
    PROVE  IInv'
<1>1. TypeOK /\ DailyWithin /\ JobsWithin /\ FinalJobsExact /\ DoneDaysExact
  BY DEF IInv
<1>2. PICK j : j = [day |-> d, rows |-> [u \in User |-> log[u][d]], final |-> Settled(d)]
  OBVIOUS
<1>3. /\ job' = [job EXCEPT ![w] = j]
      /\ UNCHANGED <<epoch, now, present, log, daily, req, requests, done>>
  BY <1>2 DEF RollupStart
<1>4. /\ j \in Job /\ j.day = d /\ j.final = Settled(d) /\ \A u \in User : j.rows[u] = log[u][d]
  <2>1. [u \in User |-> log[u][d]] \in [User -> Counts]
    BY <1>1, Rows
  <2>2. Settled(d) \in BOOLEAN
    BY DEF Settled
  <2> QED
    BY <1>2, <2>1, <2>2 DEF Job
<1>5. job'[w] = j /\ \A x \in Worker \ {w} : job'[x] = job[x]
  BY <1>1, <1>3 DEF TypeOK
<1>6. TypeOK'
  BY <1>1, <1>3, <1>4 DEF TypeOK
<1>7. \A e \in Day : Settled(e) => Settled(e)'
  BY <1>3, <1>4, <1>5 DEF Settled
<1>8. DailyWithin'
  BY <1>1, <1>3 DEF DailyWithin
<1>9. JobsWithin'
  <2>1. \A u \in present : Le(j.rows[u], log[u][d])
    BY <1>1, <1>4, Rows, NothingLeast
  <2>2. d # None
    BY RollupAssumption
  <2> QED
    BY <1>1, <1>3, <1>4, <1>5, <2>1, <2>2 DEF JobsWithin
<1>10. FinalJobsExact'
  <2>1. ASSUME NEW u \in present, j.rows[u] = Nothing
        PROVE  daily[u][d] = log[u][d]
    BY <1>1, <1>4, <2>1, Rows, NothingLeast DEF DailyWithin
  <2>2. ASSUME NEW x \in Worker, job'[x].final
        PROVE  \E e \in Day :
                  /\ e = job'[x].day /\ Settled(e)'
                  /\ \A u \in present : IF job'[x].rows[u] = Nothing THEN daily[u][e] = log[u][e]
                                        ELSE job'[x].rows[u] = log[u][e]
    <3>1. CASE x = w
      BY <1>1, <1>4, <1>5, <1>7, <2>1, <2>2, <3>1, Rows
    <3>2. CASE x # w
      <4>1. job[x].final /\ job'[x] = job[x]
        BY <1>5, <2>2, <3>2
      <4>2. PICK e \in Day :
               /\ e = job[x].day /\ Settled(e)
               /\ \A u \in present : IF job[x].rows[u] = Nothing THEN daily[u][e] = log[u][e]
                                     ELSE job[x].rows[u] = log[u][e]
        BY <1>1, <4>1 DEF FinalJobsExact
      <4> QED
        BY <1>7, <4>1, <4>2
    <3> QED
      BY <3>1, <3>2
  <2> QED
    BY <1>3, <2>2 DEF FinalJobsExact, Settled
<1>11. DoneDaysExact'
  BY <1>1, <1>3, <1>7 DEF DoneDaysExact, TypeOK
<1> QED
  BY <1>6, <1>8, <1>9, <1>10, <1>11 DEF IInv

\* A job that ends, for whatever reason, leaves the others as they are.
LEMMA JobEnds ==
    ASSUME IInv, NEW w \in Worker, job' = [job EXCEPT ![w] = NoJob],
           UNCHANGED <<epoch, now, present, log, daily, req, requests>>
    PROVE  /\ done' = done => IInv'
           /\ \A d \in Day : Settled(d) => Settled(d)'
<1>1. TypeOK /\ DailyWithin /\ JobsWithin /\ FinalJobsExact /\ DoneDaysExact
  BY DEF IInv
<1>2. job'[w] = NoJob /\ \A x \in Worker \ {w} : job'[x] = job[x]
  BY <1>1 DEF TypeOK
<1>3. \A d \in Day : Settled(d) => Settled(d)'
  BY <1>2, Idle, RollupAssumption DEF Settled
<1>4. ASSUME done' = done PROVE IInv'
  <2>1. TypeOK'
    BY <1>1, <1>4, Idle DEF TypeOK
  <2>2. DailyWithin'
    BY <1>1 DEF DailyWithin
  <2>3. JobsWithin'
    BY <1>1, <1>2, Idle DEF JobsWithin
  <2>4. FinalJobsExact'
    BY <1>1, <1>2, <1>3, Idle DEF FinalJobsExact
  <2>5. DoneDaysExact'
    BY <1>1, <1>3, <1>4 DEF DoneDaysExact, TypeOK
  <2> QED
    BY <2>1, <2>2, <2>3, <2>4, <2>5 DEF IInv
<1> QED
  BY <1>3, <1>4

LEMMA RollupWriteStep ==
    ASSUME IInv, NEW w \in Worker, NEW u \in User, RollupWrite(w, u)
    PROVE  IInv'
<1>1. TypeOK /\ DailyWithin /\ JobsWithin /\ FinalJobsExact /\ DoneDaysExact
  BY DEF IInv
<1>2. /\ job[w].rows[u] # Nothing /\ UNCHANGED <<epoch, now, present, log, req, requests, done>>
  BY DEF RollupWrite
<1>3. CASE u \notin present
  BY <1>2, <1>3, JobEnds DEF RollupWrite
<1>4. CASE u \in present
  <2>1. PICK row \in Counts, d \in Day : row = job[w].rows[u] /\ d = job[w].day
    <3>1. job[w].day # None
      BY <1>1, <1>2, Idle DEF JobsWithin
    <3> QED
      BY <1>1, <3>1, Rows
  <2>2. /\ daily' = [daily EXCEPT ![u][d] = row]
        /\ job' = [job EXCEPT ![w].rows[u] = Nothing]
    BY <1>4, <2>1 DEF RollupWrite
  <2>3. /\ daily'[u][d] = row
        /\ \A v \in User, e \in Day : v # u \/ e # d => daily'[v][e] = daily[v][e]
    BY <1>1, <2>2 DEF TypeOK
  <2>4. /\ \A x \in Worker : job'[x].day = job[x].day /\ job'[x].final = job[x].final
        /\ job'[w].rows[u] = Nothing
        /\ \A x \in Worker, v \in User : x # w \/ v # u => job'[x].rows[v] = job[x].rows[v]
    BY <1>1, <2>2 DEF TypeOK, Job
  <2>5. TypeOK'
    <3>1. job' \in [Worker -> Job]
      BY <1>1, <2>2, Idle DEF TypeOK, Job
    <3>2. daily' \in [User -> [Day -> Counts]]
      BY <1>1, <2>2 DEF TypeOK
    <3> QED
      BY <1>1, <1>2, <3>1, <3>2 DEF TypeOK
  <2>6. \A e \in Day : Settled(e) => Settled(e)'
    BY <1>2, <2>4 DEF Settled
  <2>7. DailyWithin'
    <3>1. Le(row, log[u][d])
      BY <1>1, <1>4, <2>1, RollupAssumption DEF JobsWithin
    <3> QED
      BY <1>1, <1>2, <2>3, <3>1, Rows DEF DailyWithin
  <2>8. JobsWithin'
    <3>1. ASSUME NEW x \in Worker, NEW v \in present, job[x].day # None
          PROVE  Le(job'[x].rows[v], log[v][job[x].day])
      BY <1>1, <2>4, <3>1, Rows, NothingLeast DEF JobsWithin
    <3>2. ASSUME NEW x \in Worker, job[x].day = None
          PROVE  job'[x] = NoJob
      BY <1>1, <2>1, <2>2, <3>2, RollupAssumption DEF JobsWithin, TypeOK
    <3> QED
      BY <1>2, <2>4, <3>1, <3>2 DEF JobsWithin
  \* Whatever is written for a settled day is what the log has.
  <2>9. Settled(d) => row = log[u][d]
    BY <1>1, <1>2, <1>4, <2>1 DEF FinalJobsExact, Settled
  <2>10. ASSUME NEW e \in Day, Settled(e), NEW v \in present, daily[v][e] = log[v][e]
         PROVE  daily'[v][e] = log[v][e]
    BY <1>1, <2>3, <2>9, <2>10, Rows
  <2>11. FinalJobsExact'
    <3>1. ASSUME NEW x \in Worker, job[x].final
          PROVE  LET e == job[x].day IN
                 /\ e \in Day /\ Settled(e)
                 /\ \A v \in present : IF job'[x].rows[v] = Nothing THEN daily'[v][e] = log[v][e]
                                       ELSE job'[x].rows[v] = log[v][e]
      <4>1. PICK e \in Day : e = job[x].day /\ Settled(e)
        BY <1>1, <3>1 DEF FinalJobsExact
      <4>2. ASSUME NEW v \in present
            PROVE  IF job'[x].rows[v] = Nothing THEN daily'[v][e] = log[v][e]
                   ELSE job'[x].rows[v] = log[v][e]
        <5>1. CASE x = w /\ v = u
          BY <2>1, <2>3, <2>4, <2>9, <4>1, <5>1
        <5>2. CASE x # w \/ v # u
          BY <1>1, <2>4, <2>10, <3>1, <4>1, <5>2, Rows DEF FinalJobsExact
        <5> QED
          BY <5>1, <5>2
      <4> QED
        BY <4>1, <4>2
    <3> QED
      BY <1>2, <2>4, <2>6, <3>1 DEF FinalJobsExact
  <2>12. DoneDaysExact'
    BY <1>1, <1>2, <2>6, <2>10 DEF DoneDaysExact, TypeOK
  <2> QED
    BY <2>5, <2>7, <2>8, <2>11, <2>12 DEF IInv
<1> QED
  BY <1>3, <1>4

LEMMA RollupEndStep ==
    ASSUME IInv, NEW w \in Worker, RollupEnd(w)
    PROVE  IInv'
<1>1. /\ job' = [job EXCEPT ![w] = NoJob]
      /\ UNCHANGED <<epoch, now, present, log, daily, req, requests>>
      /\ \A u \in User : job[w].rows[u] = Nothing
      /\ done' = IF job[w].final THEN done \cup {job[w].day} ELSE done
  BY DEF RollupEnd
<1>2. CASE ~job[w].final
  BY <1>1, <1>2, JobEnds
<1>3. CASE job[w].final
  <2>1. TypeOK /\ DailyWithin /\ JobsWithin /\ FinalJobsExact /\ DoneDaysExact
    BY DEF IInv
  <2>2. PICK d \in Day : d = job[w].day /\ Settled(d) /\ \A u \in present : daily[u][d] = log[u][d]
    BY <1>1, <1>3, <2>1, Rows DEF FinalJobsExact
  <2>3. done' = done \cup {d}
    BY <1>1, <1>3, <2>2
  <2>4. \A e \in Day : Settled(e) => Settled(e)'
    BY <1>1, JobEnds
  <2>5. job'[w] = NoJob /\ \A x \in Worker \ {w} : job'[x] = job[x]
    BY <1>1, <2>1 DEF TypeOK
  <2>6. TypeOK'
    BY <1>1, <2>1, <2>3, Idle DEF TypeOK
  <2>7. DailyWithin'
    BY <1>1, <2>1 DEF DailyWithin
  <2>8. JobsWithin'
    BY <1>1, <2>1, <2>5, Idle DEF JobsWithin
  <2>9. FinalJobsExact'
    BY <1>1, <2>1, <2>4, <2>5, Idle DEF FinalJobsExact
  <2>10. DoneDaysExact'
    BY <1>1, <2>1, <2>2, <2>3, <2>4 DEF DoneDaysExact, TypeOK
  <2> QED
    BY <2>6, <2>7, <2>8, <2>9, <2>10 DEF IInv
<1> QED
  BY <1>2, <1>3

LEMMA CrashStep ==
    ASSUME IInv, Crash
    PROVE  IInv'
<1>1. TypeOK /\ UNCHANGED <<epoch, now, present, log, daily, requests, done>>
  BY DEF IInv, Crash
<1>2. ASSUME NEW p \in Proc, req' = [req EXCEPT ![p] = NoRequest], UNCHANGED job
      PROVE  IInv'
  <2>1. TypeOK' /\ req'[p] = NoRequest /\ \A q \in Proc \ {p} : req'[q] = req[q]
    BY <1>1, <1>2 DEF TypeOK
  <2>2. \A d \in Day : Settled(d) => Settled(d)'
    BY <1>1, <1>2, <2>1, Idle, RollupAssumption DEF Settled
  <2> QED
    BY <1>1, <1>2, <2>1, <2>2, QuietStep
<1>3. ASSUME NEW w \in Worker, job' = [job EXCEPT ![w] = NoJob], UNCHANGED req
      PROVE  IInv'
  BY <1>1, <1>3, JobEnds
<1> QED
  BY <1>2, <1>3 DEF Crash

LEMMA TickStep ==
    ASSUME IInv, Tick
    PROVE  IInv'
<1>1. TypeOK /\ now \in Nat /\ now' = now + 1 /\ UNCHANGED <<req, job>>
  BY RollupAssumption DEF IInv, TypeOK, Tick, Day
<1>2. TypeOK'
  BY <1>1, RollupAssumption DEF TypeOK, Tick, Day
<1>3. \A d \in Day : Settled(d) => Settled(d)'
  BY <1>1, RollupAssumption DEF Settled, Day
<1> QED
  BY <1>2, <1>3, QuietStep DEF Tick

LEMMA InitIInv == Init => IInv
<1> SUFFICES ASSUME Init PROVE IInv
  OBVIOUS
<1>1. TypeOK
  BY Idle, RollupAssumption DEF Init, TypeOK, Day
<1>2. DailyWithin
  BY Idle, NothingLeast DEF Init, DailyWithin
<1>3. JobsWithin /\ FinalJobsExact /\ DoneDaysExact
  BY Idle DEF Init, JobsWithin, FinalJobsExact, DoneDaysExact
<1> QED
  BY <1>1, <1>2, <1>3 DEF IInv

LEMMA NextIInv == IInv /\ [Next]_vars => IInv'
<1> SUFFICES ASSUME IInv, [Next]_vars PROVE IInv'
  OBVIOUS
<1>1. CASE Next
  BY <1>1, StampStep, InsertStep, DeleteUserStep, RollupStartStep, RollupWriteStep,
     RollupEndStep, CrashStep, TickStep DEF Next
<1>2. CASE UNCHANGED vars
  BY <1>2 DEF vars, IInv, TypeOK, DailyWithin, JobsWithin, FinalJobsExact, DoneDaysExact, Settled
<1> QED
  BY <1>1, <1>2

------------------------------------------------------------------------------------
(* The calendar *)

\* The months that the calendar knows: 1 .. Months; the last one only as an end.
Months == Len(MonthStart)

LEMMA CalendarOK ==
    /\ Months \in Nat /\ Months >= 13 /\ DOMAIN MonthStart = 1 .. Months
    /\ \A k \in 1 .. Months : MonthStart[k] \in Int
    /\ \A k \in 1 .. Months - 1 : MonthStart[k + 1] - MonthStart[k] \in 28 .. 31
    /\ \A k \in 1 .. Months - 12 : MonthStart[k + 12] - MonthStart[k] \in 365 .. 366
<1>1. /\ Months \in Nat /\ DOMAIN MonthStart = 1 .. Months
      /\ \A k \in 1 .. Months : MonthStart[k] \in Int
  BY CalendarAssumption DEF Months
<1>2. Months >= 13
  BY <1>1, CalendarAssumption
<1>3. ASSUME NEW k \in 1 .. Months - 1 PROVE MonthStart[k + 1] - MonthStart[k] \in 28 .. 31
  <2>1. k \in DOMAIN MonthStart /\ k + 1 \in DOMAIN MonthStart
    BY <1>1
  <2> QED
    BY <2>1, CalendarAssumption
<1>4. ASSUME NEW k \in 1 .. Months - 12 PROVE MonthStart[k + 12] - MonthStart[k] \in 365 .. 366
  <2>1. k \in DOMAIN MonthStart /\ k + 12 \in DOMAIN MonthStart
    BY <1>1, <1>2
  <2> QED
    BY <2>1, CalendarAssumption
<1> QED
  BY <1>1, <1>2, <1>3, <1>4

\* n months have from 28 to 31 days each.
LEMMA Distance ==
    \A n \in Nat : \A k \in 1 .. Months :
        k + n <= Months => /\ 28 * n <= MonthStart[k + n] - MonthStart[k]
                           /\ MonthStart[k + n] - MonthStart[k] <= 31 * n
<1> DEFINE S == {n \in Nat : \A k \in 1 .. Months :
                    k + n <= Months => /\ 28 * n <= MonthStart[k + n] - MonthStart[k]
                                       /\ MonthStart[k + n] - MonthStart[k] <= 31 * n}
<1>1. 0 \in S
  BY CalendarOK
<1>2. ASSUME NEW n \in S PROVE n + 1 \in S
  <2> SUFFICES ASSUME NEW k \in 1 .. Months, k + (n + 1) <= Months
               PROVE  /\ 28 * (n + 1) <= MonthStart[k + (n + 1)] - MonthStart[k]
                      /\ MonthStart[k + (n + 1)] - MonthStart[k] <= 31 * (n + 1)
    OBVIOUS
  <2>1. /\ n \in Nat /\ Months \in Nat /\ k + n \in 1 .. Months - 1 /\ k + (n + 1) = (k + n) + 1
        /\ MonthStart[k + n] \in Int /\ MonthStart[k] \in Int /\ MonthStart[(k + n) + 1] \in Int
    BY CalendarOK
  <2>2. /\ 28 * n <= MonthStart[k + n] - MonthStart[k]
        /\ MonthStart[k + n] - MonthStart[k] <= 31 * n
    BY <2>1
  <2>3. MonthStart[(k + n) + 1] - MonthStart[k + n] \in 28 .. 31
    BY <2>1, CalendarOK
  <2> QED
    BY <2>1, <2>2, <2>3
<1>3. S = Nat
  <2> HIDE DEF S
  <2>1. S \in SUBSET Nat
    BY DEF S
  <2> QED
    BY <1>1, <1>2, <2>1, Induction
<1> QED
  BY <1>3

LEMMA Apart ==
    ASSUME NEW j \in 1 .. Months, NEW k \in 1 .. Months, j <= k
    PROVE  /\ 28 * (k - j) <= MonthStart[k] - MonthStart[j]
           /\ MonthStart[k] - MonthStart[j] <= 31 * (k - j)
<1>1. PICK n \in Nat : j + n = k
  <2>1. k - j \in Nat /\ j + (k - j) = k
    BY CalendarOK
  <2> QED
    BY <2>1
<1>2. j + n <= Months /\ n = k - j
  BY <1>1, CalendarOK
<1>3. /\ 28 * n <= MonthStart[j + n] - MonthStart[j]
      /\ MonthStart[j + n] - MonthStart[j] <= 31 * n
  BY <1>2, Distance
<1> QED
  BY <1>1, <1>2, <1>3

LEMMA Increasing ==
    ASSUME NEW j \in 1 .. Months, NEW k \in 1 .. Months, j <= k
    PROVE  MonthStart[j] <= MonthStart[k]
<1>1. MonthStart[j] \in Int /\ MonthStart[k] \in Int /\ Months \in Nat
  BY CalendarOK
<1> QED
  BY <1>1, Apart

\* A day is in the month that starts on it or before, if the next one starts later.
LEMMA MonthIs ==
    ASSUME NEW x \in Int, NEW k \in 1 .. Months - 1, MonthStart[k] <= x, x < MonthStart[k + 1]
    PROVE  MonthOf(x) = k
<1> DEFINE In(j) == /\ MonthStart[j] <= x
                    /\ j + 1 \in DOMAIN MonthStart => x < MonthStart[j + 1]
<1>1. k \in DOMAIN MonthStart /\ In(k)
  BY CalendarOK
<1>2. ASSUME NEW j \in DOMAIN MonthStart, In(j) PROVE j = k
  <2>1. j \in 1 .. Months /\ k \in 1 .. Months /\ k + 1 \in 1 .. Months /\ Months \in Nat
    BY CalendarOK
  <2>2. MonthStart[j] \in Int /\ MonthStart[k] \in Int /\ MonthStart[k + 1] \in Int
    BY <2>1, CalendarOK
  <2>3. CASE j < k
    <3>1. j + 1 \in 1 .. Months /\ j + 1 <= k
      BY <2>1, <2>3
    <3>2. x < MonthStart[j + 1] /\ MonthStart[j + 1] <= MonthStart[k] /\ MonthStart[j + 1] \in Int
      BY <1>2, <2>1, <3>1, Increasing, CalendarOK
    <3> QED
      BY <2>2, <3>2
  <2>4. CASE k < j
    <3>1. MonthStart[k + 1] <= MonthStart[j]
      BY <2>1, <2>4, Increasing
    <3> QED
      BY <1>2, <2>2, <3>1
  <2> QED
    BY <2>1, <2>3, <2>4
<1>3. MonthOf(x) = CHOOSE j \in DOMAIN MonthStart : In(j)
  BY DEF MonthOf
<1> HIDE DEF In
<1>4. MonthOf(x) \in DOMAIN MonthStart /\ In(MonthOf(x))
  BY <1>1, <1>3
<1> QED
  BY <1>2, <1>4

\* The days from the first to the last month are each in one of them.
LEMMA MonthExists ==
    ASSUME NEW x \in Int, MonthStart[13] <= x, x < MonthStart[Months]
    PROVE  \E k \in 13 .. Months - 1 : MonthOf(x) = k
<1> DEFINE Later == {k \in 1 .. Months : x < MonthStart[k]}
<1>1. Later \in SUBSET Nat /\ Months \in Later
  BY CalendarOK
<1>2. PICK n \in Later : \A m \in Later : n <= m
  BY <1>1, LeastNumber
<1>3. n > 13
  <2> SUFFICES ASSUME n <= 13 PROVE FALSE
    BY <1>2
  <2>1. n \in 1 .. Months /\ 13 \in 1 .. Months
    BY <1>2, CalendarOK
  <2>2. MonthStart[n] <= MonthStart[13] /\ MonthStart[n] \in Int /\ MonthStart[13] \in Int
    BY <2>1, Increasing, CalendarOK
  <2> QED
    BY <1>2, <2>2
<1>4. n - 1 \in 13 .. Months - 1 /\ n - 1 \in 1 .. Months - 1 /\ n - 1 \in 1 .. Months /\ (n - 1) + 1 = n
  BY <1>2, <1>3, CalendarOK
<1>5. MonthStart[n - 1] <= x
  <2>1. n - 1 \notin Later
    BY <1>2, <1>4
  <2>2. MonthStart[n - 1] \in Int
    BY <1>4, CalendarOK
  <2> QED
    BY <1>4, <2>1, <2>2
<1>6. MonthOf(x) = n - 1
  BY <1>2, <1>4, <1>5, MonthIs
<1> QED
  BY <1>4, <1>6

LEMMA AskedMonthsOK == AskedMonths \subseteq 1 .. 12
<1> SUFFICES ASSUME NEW n \in 0 .. 13 PROVE Max({1, Min({12, n})}) \in 1 .. 12
  BY DEF AskedMonths
<1>1. Min({12, n}) \in {12, n} /\ Min({12, n}) <= 12
  <2>1. \E x \in {12, n} : \A y \in {12, n} : x <= y
    OBVIOUS
  <2> QED
    BY <2>1 DEF Min
<1>2. PICK m \in 0 .. 12 : m = Min({12, n})
  BY <1>1
<1>3. Max({1, m}) \in {1, m} /\ Max({1, m}) >= 1
  <2>1. \E x \in {1, m} : \A y \in {1, m} : x >= y
    OBVIOUS
  <2> QED
    BY <2>1 DEF Max
<1> QED
  BY <1>2, <1>3

\* 31 days back for each month but one is at least as far as those months, and no further
\* than one more.
LEMMA EarliestOK ==
    ASSUME NEW k \in 13 .. Months - 1, NEW months \in 1 .. 12
    PROVE  EarliestMonth(MonthStart[k], months) \in (k - months) .. (k - (months - 1))
<1> DEFINE x == MonthStart[k] - 31 * (months - 1)
<1>1. PICK f \in 1 .. Months - 1 : f = k - (months - 1)
  <2>1. k - (months - 1) \in 1 .. Months - 1
    BY CalendarOK
  <2> QED
    BY <2>1
<1>2. PICK b \in 1 .. Months - 1 : b = k - months
  <2>1. k - months \in 1 .. Months - 1
    BY CalendarOK
  <2> QED
    BY <2>1
<1>3. /\ Months \in Nat /\ k \in 1 .. Months /\ f \in 1 .. Months /\ b \in 1 .. Months
      /\ b + 1 = f /\ f + 1 \in 1 .. Months
  BY <1>1, <1>2, CalendarOK
<1>4. /\ MonthStart[k] \in Int /\ MonthStart[f] \in Int /\ MonthStart[b] \in Int
      /\ MonthStart[f + 1] \in Int /\ x \in Int
  BY <1>3, CalendarOK
<1>5. x <= MonthStart[f]
  <2>1. f <= k /\ k - f = months - 1
    BY <1>1
  <2>2. MonthStart[k] - MonthStart[f] <= 31 * (k - f)
    BY <1>3, <2>1, Apart
  <2> QED
    BY <1>4, <2>1, <2>2
\* A year is longer than twelve months of 28 days.
<1>6. MonthStart[b] <= x
  <2>1. b <= k /\ k - b = months
    BY <1>2
  <2>2. 28 * (k - b) <= MonthStart[k] - MonthStart[b]
    BY <1>3, <2>1, Apart
  <2>3. CASE months \in {11, 12}
    <3>1. PICK y \in 1 .. Months - 12 : y + 12 = k
      <4>1. k - 12 \in 1 .. Months - 12 /\ (k - 12) + 12 = k
        BY CalendarOK
      <4> QED
        BY <4>1
    <3>2. y \in 1 .. Months /\ y <= b /\ b - y = 12 - months
      BY <1>2, <2>3, <3>1, CalendarOK
    <3>3. MonthStart[y] \in Int /\ MonthStart[y + 12] - MonthStart[y] \in 365 .. 366
      BY <3>1, <3>2, CalendarOK
    <3>4. MonthStart[b] - MonthStart[y] <= 31 * (b - y)
      BY <1>3, <3>2, Apart
    <3>5. MonthStart[k] - MonthStart[y] >= 365
      BY <1>4, <3>1, <3>3
    <3> QED
      BY <1>4, <2>3, <3>2, <3>3, <3>4, <3>5
  <2>4. CASE months \notin {11, 12}
    BY <1>4, <2>1, <2>2, <2>4
  <2> QED
    BY <2>3, <2>4
<1>7. EarliestMonth(MonthStart[k], months) = MonthOf(x)
  BY DEF EarliestMonth
<1> HIDE DEF x
<1>8. CASE x = MonthStart[f]
  <2>1. MonthStart[f] < MonthStart[f + 1]
    <3>1. 28 * ((f + 1) - f) <= MonthStart[f + 1] - MonthStart[f]
      BY <1>3, Apart
    <3> QED
      BY <1>4, <3>1
  <2>2. MonthOf(x) = f
    BY <1>4, <1>8, <2>1, MonthIs
  <2> QED
    BY <1>1, <1>7, <2>2
<1>9. CASE x < MonthStart[f]
  <2>1. MonthOf(x) = b
    BY <1>3, <1>4, <1>6, <1>9, MonthIs
  <2> QED
    BY <1>2, <1>7, <2>1
<1> QED
  BY <1>4, <1>5, <1>8, <1>9

------------------------------------------------------------------------------------
(* The theorems *)

\* IInv holds of the log, the rollup and the tasks at work on it
\* (analytics/selectors.py:118-146, analytics/tasks.py, analytics/middleware.py:25-73).
THEOREM Invariance == Spec => []IInv
<1> QED
  BY InitIInv, NextIInv, PTL DEF Spec

\* The rows of the log, the rollup and the tasks keep their shape.
THEOREM TypeCorrect == Spec => []TypeOK
<1>1. IInv => TypeOK
  BY DEF IInv
<1> QED
  BY <1>1, Invariance, PTL

\* However often, and by however many workers at once, a day is rolled up, no request is
\* counted twice (update_or_create, analytics/selectors.py:134-145).
THEOREM NoDoubleCount == Spec => []NeverOvercounts
<1>1. IInv => NeverOvercounts
  BY DEF IInv, DailyWithin, Le, NeverOvercounts
<1> QED
  BY <1>1, Invariance, PTL

\* Once a rollup that started after the day had settled is through, the day stays
\* exact, whatever other rollups still write (analytics/selectors.py:118-146).
THEOREM ExactOnceSettled == Spec => []SettledDayExact
<1>1. IInv => SettledDayExact
  BY RollupAssumption DEF IInv, DoneDaysExact, SettledDayExact, LoggedOn, TypeOK
<1> QED
  BY <1>1, Invariance, PTL

\* Whatever day it is and however many months are asked for, the monthly chart starts
\* with the first of these months or the one before (analytics/selectors.py:84-91,
\* dashboard/views.py:102).
THEOREM MonthsCovered == Spec => []ChartWindow
<1>1. IInv => ChartWindow
  <2> SUFFICES ASSUME IInv PROVE ChartWindow
    OBVIOUS
  <2>1. /\ epoch + now \in Int
        /\ MonthStart[13] <= epoch + now /\ epoch + now < MonthStart[Months]
    <3>1. epoch \in Epochs /\ epoch \in Int /\ now \in Nat /\ now <= LastDay /\ LastDay \in Nat
      BY RollupAssumption, CalendarAssumption DEF IInv, TypeOK, Day
    <3>2. MonthStart[13] <= epoch /\ epoch + LastDay < MonthStart[Months]
      BY <3>1, CalendarAssumption DEF Months
    <3>3. MonthStart[13] \in Int /\ MonthStart[Months] \in Int
      BY CalendarOK
    <3> QED
      BY <3>1, <3>2, <3>3
  <2>2. PICK k \in 13 .. Months - 1 : k = MonthOf(epoch + now)
    BY <2>1, MonthExists
  <2>3. ASSUME NEW months \in AskedMonths
        PROVE  EarliestMonth(MonthStart[k], months) \in (k - months) .. (k - (months - 1))
    BY AskedMonthsOK, EarliestOK
  <2> QED
    BY <2>2, <2>3 DEF ChartWindow
<1> QED
  BY <1>1, Invariance, PTL
=========================================================================================
