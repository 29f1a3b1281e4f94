# Verification of saas-backend-api

TLA+ specifications of the Django REST backend in this repository, the TLC
configurations that check them on small instances, and theorems that TLAPS proves for
every instance. Paths are relative to `src/`; `services.py` without a directory is
`apps/subscriptions/services.py`.

## 1. The system

gunicorn runs several processes of several threads (`scripts/start-prod.sh`), celery runs
workers with four processes each and a beat (`docker-compose.prod.yml`). All of them share
one PostgreSQL database at its default isolation level, READ COMMITTED, and
`ATOMIC_REQUESTS` is off: a statement outside `transaction.atomic` commits by itself.
Everything that is hard here comes from that: whatever a thread has read can be old when
it writes.

| Component | State | Operations | Hard behaviour | What makes it correct |
|---|---|---|---|---|
| Subscriptions (`apps/subscriptions/services.py:32-104,151-172`) | `Plan`, `Subscription` rows; partial unique index "one active per user" | `enroll_in_free_plan`, `subscribe`, `cancel`, `expire_due_subscriptions`, `seed_plans`, admin | read-then-write without locks, sweep over a stale list, failures between two writes, lock waits, leap days | one active subscription, never none, ended ones final, each end has a reason, every due one is swept |
| Usage quotas (`services.py:110-145`) | `UsageQuota` rows | `record_request`, opening and rotating periods | no transaction at all, check and increment apart, racing rotations | bounded overshoot, no lost increment, charged to the right subscription, usage never drops inside a period |
| API keys (`apps/api_keys`) | `APIKey` rows | `create_api_key`, `rotate_api_key`, `revoke_api_key`, authentication | count-then-insert, one operation with a row lock and one without, blind updates | replaced once, revoked for good, rotation all or nothing, bounded excess |
| Registration and one-shot tokens (`apps/authentication/services.py:34-141`, `tasks.py`, `apps/users/services.py`) | users, verification and reset tokens, task queue | register, add by hand, verify, resend, request and confirm a reset, change a password, email tasks | task queued before the commit, retries, lost workers, tokens checked without a lock, rows saved long after they were read | one account per address, only stored tokens are mailed, verified by a token or made so, a reset token works at most once per thread that found it valid, a replaced password never again |
| Sessions and JWT (`services.py:143-176` there, `views.py`, `tokens.py`, `SIMPLE_JWT`) | `UserSession`, simplejwt's outstanding and blacklisted tokens | login, refresh, logout, revoke | refresh rotates the token but not the session; check and blacklist apart; two commits in logout | a token is exchanged a bounded number of times, rotation signs nobody out, every device is listed, what was asked for is revoked and nothing else, claims are current |
| Analytics (`apps/analytics`) | `RequestLog`, `DailyUsage` | middleware, nightly rollup, charts | rollup while requests are logged, overlapping rollups, deleted users, calendar arithmetic | nothing counted twice, a settled day exact |
| Request pipeline (`config/settings/base.py:84-98`, `apps/common`, `apps/subscriptions/middleware.py`) | attributes of the request, throttle history in the cache | middleware chain, authentication, permissions, throttle, exception handler, log and charge | the order of the layers, lazy authentication, read-then-write in the cache, the cache down | a bucket keeps its rate, a refusal is earned, the log row is right, nobody gets in without a credential |
| Permissions and users (`apps/common/permissions.py`, `apps/users`) | none of their own, or single-row updates | role checks, profile, admin | | part of the models above |
| Dashboard, serializers, pagination, deployment | none | queries, formatting | | |

Interactions: registration calls `enroll_in_free_plan` inside its transaction; the
analytics middleware calls `record_request` after every authenticated response and
swallows what it raises; `create_api_key` and the token claims read the active
subscription; the sweep and `cancel` re-enter `enroll_in_free_plan`.

The hazards of this code, each at its line, are listed in `PROJECT.json`.

## 2. Plan

| # | Module | Models | State |
|---|---|---|---|
| 1 | `Subscriptions`, `SubscriptionLedger` | subscriptions, and what they promise | checked, proved |
| 2 | `UsageQuotas` | usage accounting | checked, proved |
| 3 | `ApiKeys`, `KeyRing` | API keys, and what they promise | checked, proved |
| 4 | `Sessions` | login, refresh rotation, blacklist, logout, revocation; the plan claim | checked, proved |
| 5 | `Accounts` | registration, verification and reset tokens, passwords, the email tasks with retries and lost workers | checked, proved |
| 6 | `Rollup` | request log, rollup, deletion of users, the monthly chart's calendar arithmetic | checked, proved |
| 7 | `RequestPipeline` | order of the middleware, lazy authentication, permissions, throttle, log and charge | checked, proved |

`UsageQuotas`, `ApiKeys` and `Sessions` take a change of plan as one atomic step. They
may, because `SubscriptionsProofs!Refinement` proves that the statement-level model
implements `SubscriptionLedger`, where it is one. `RequestPipeline` keeps plans and roles
fixed, and takes the charge, which is `UsageQuotas`, as one step.

Next in line: an abstract specification of what `Sessions` promises a client, as
`KeyRing` is for keys, and the proof that it is implemented; an administrator's save of a
whole row against the operations that write single columns.

## 3. Modules and how they correspond to the code

One action is one SQL statement, with the Python before the next one. Writes of an open
transaction are kept in the process's record and reach the shared rows at the commit, so
what another process reads are committed rows. Definitions whose name ends in
`_Something` and whose comment begins "Wrong on purpose" are variants of an action with a
plausible mistake; no specification uses them. Each property has one that breaks it
(`PROJECT.json`, "mutants").

**`Subscriptions`.** `txn[p]` is the transaction of thread or worker `p`: `pc` the next
statement, `cur` the row it ends, `new` the row it inserts, `todo` what the sweep fetched.

| Code | Actions |
|---|---|
| `create_user`, the safety net of `record_request` | `Register` / `EnsureSubscribed`, `LookupFree`, `CreateSub`, `OpenQuota` |
| `subscribe` (`upgrade`, `downgrade`) | `Subscribe`, `SelectCurrent`, `CloseCurrent`, `CreateSub`, `OpenQuota` |
| `cancel` | `Cancel`, `CloseCurrent`, `LookupFree`, `CreateSub`, `OpenQuota` |
| `expire_due_subscriptions` | `SweepStart`, then per row `SweepNext`, `CloseCurrent`, `LookupFree`, `CreateSub`, `OpenQuota`; `SweepEnd` |
| `create_superuser` (a user without subscription) | `CreateSuperuser` |
| `PlanAdmin`, `seed_plans` | `TogglePlan`, `SeedPlans` |
| killed worker | `Crash`: rollback |

PostgreSQL appears as three rules: an UPDATE waits for the transaction that holds the row
(`Holds`) and then goes by primary key whatever the row has become; an INSERT of an
active row waits for any transaction that is adding or ending another active row of the
user (`MustWait`); after the wait it fails if another active row is there. `Waits(p, q)`
says that `p` is waiting for `q` in one of the two ways. `Raise` is what
an exception does: the `atomic` block is undone, and a sweep goes on to its next row.

**`SubscriptionLedger`** is what callers rely on: a user enrols once (`Enrol`) and from
then on is moved from one subscription to the next in one step (`Replace`).

**`UsageQuotas`.** `req[p]` is the `record_request` call of thread `p`: `Record` (read the
subscription), `ReadQuota` (find the current period and compare), `Rotate` (open one),
`Count` (the `F()` increment). No transaction: `Crash` keeps what was committed.
`ChangePlan` is a committed `_create_subscription` with its opening quota. `owed` is a
history variable: for each period the calls that have passed its check (`Pass`) and were
not killed before their increment. A subscription is past its `expires_at` until the sweep
has visited it and still counts, as in the code.

**`ApiKeys`.** `call[p]` is the call of thread `p`. Creation and rotation share
`ReadPlan`, `CountKeys`, `InsertKey` as they share `create_api_key`; a rotation holds its
row from `Rotate` on (`Locked`), and `RevokeUpdate` and `MarkUsed` wait for it. `source`
is a history field: the key a rotation replaced.

**`KeyRing`** is what callers rely on: a bounded ring of working keys per user (`Issue`), a
key that is revoked for good (`Revoke`) or replaced in one step (`Rotate`). `ApiKeys` maps
to it with `Ring` (the active rows), `Revoked` and `Heirs` (a key and the one whose
`source` it is); the bound it promises is the plan's limit and one more for each further
thread.

**`Sessions`.** `call[p]` is the call of thread `p`; `token[t]` what the refresh token `t`
claims, with the token it replaced and the login its chain began with; `black` the
blacklist; `session[t]` the session row with that `refresh_jti`; `held` the tokens that
have reached a client. `out` and `asked` are history variables: tokens that a logout has
blacklisted, and sessions that their user has asked to revoke by id. As in the code, any
signed-in user may log out with any valid refresh token. What simplejwt does is modelled from `SIMPLE_JWT` and the way the
views use it.

| Code | Actions |
|---|---|
| `LoginView`, `get_token`, `record_session`, `mark_logged_in` | `Login` (reads the account), `IssueToken` (reads the plan, signs, only then looks at `is_verified`), `RecordSession`, `Answer` |
| `RefreshView` | `Refresh` (check of the blacklist), `BlacklistOld`, `Rotate` |
| `logout` | `Logout`, `BlacklistLogout`, `FindSession` (the row with the `jti` of the token presented), `RevokeSession` |
| `revoke_session` | `RevokeById`, `RevokeSession` |
| verification, deactivation, a change of plan | `EditAccount`, `ChangePlan` |
| killed thread, lost answer | `Crash`: what was committed stays |

**`Accounts`.** Each call draws an id, which stands for the UUID, token or password it
makes up. `account` and `token` hold committed rows; a registration that is not committed
is in its `call`, and PostgreSQL's unique index on the address lets a second one wait
(`Inserted`). `queue` is the broker, `task[w]` what worker `w` has acknowledged, `vouched`
the history of the accounts that were made as verified ones.

| Code | Actions |
|---|---|
| `register_user`, in one transaction | `Register` (is the address free?), `InsertUser`, `Enqueue`, `CommitUser` |
| `resend_verification`, `request_password_reset` | `Request`, `StoreToken`, `Enqueue` |
| `verify_email`, `confirm_password_reset` | `Present` (reads token and user), then `VerifyUser` or `ResetPassword` |
| `change_password` | `ChangePassword` (the row authentication read), `SavePassword` |
| `create_superuser`, the admin's add form | `AddUser`: one row, verified or not, without token or mail |
| the email tasks | `TakeTask` (SELECT; without a user the task is over), `SendMail`, `SmtpError` (retry, up to `MaxRetries`) |
| TTL, killed processes | `Expire`, `Crash`, `KillWorker` |

**`Rollup`.** The log is kept as counts per user and day. `req[p]` is a row stamped and
not yet inserted, `job[w]` a rollup with the sums it has selected and not yet written.
`Stamp`, `Insert`; `RollupStart` (the aggregation), `RollupWrite` (one upsert),
`RollupEnd`; `DeleteUser` (`SET_NULL` in the log, `CASCADE` in the rollup); `Crash`,
`Tick`. A day is `Settled` when it is over and nothing that belongs to it is on its way.
`MonthOf` and `EarliestMonth` are `monthly_chart`'s arithmetic on a calendar given as the
first days of the months; `CalendarAssumption` says of it what every stretch of the
Gregorian calendar satisfies: a month has 28 to 31 days and twelve have 365 or 366.

**`RequestPipeline`.** `req[p]` is the request of thread `p`, with what each layer has put
on it: `Receive` (Django's session user and the plan slug), `Authenticate` (JWT, API key,
then `check_permissions`), `ReadHistory` and `WriteHistory` (the throttle: `cache.get`,
`cache.set`), `Handle`, `Record` (log row and charge, each of which may fail), `Finish`.
`CacheOutage` takes the cache down and brings it back with or without its data. The
throttle's list of instants is a set of `Admission`s, an instant and a number that tells
equal ones apart: the list is sorted, and only its length and what has left the window
matter. `admitted`
and `disturbed` are history variables: what each bucket let through, and the buckets that
two requests were in at once or whose cache failed.

Each `MC` module gives the constants of its specification small values. Each `Proofs`
module holds the theorems about its specification; `SetLemmas` has what they share: facts
about cardinalities, and about sets of numbers (a least element, induction).

## 4. What the runs show

| Run | Asks | Outcome |
|---|---|---|
| `subscriptions_race` | What can two web threads and two overlapping sweeps do to one user's subscription, with a crash, a leap day and plans switched off and on? | one active row (`AtMostOneActive`), never none (`PlanKept`), ended rows final (`ClosedStaysClosed`), ends only by term or by the owner's call (`EndsForAReason`), another plan than Free, or a term, only by a subscribe of the user's own, so that registration, the safety net, cancel and the sweep lead to Free without end (`FreeUnlessSubscribed`), every commit a ledger step (`ImplementsLedger`); nobody who is waited for by one who is waited for waits himself, so no deadlock (`WaitsEnd`) |
| `subscriptions_fair` | Does every call and sweep end, and is every due subscription swept? | yes (`CallsReturn`, `DueSwept`) |
| `subscriptions_leap_day` | Does an enrolment succeed? | not on a February 29th |
| `usage_quotas` | Where do increments go when threads race, plans change, periods end and threads die? | at most one too many per further thread (`OvershootBounded`), none lost (`NoLostIncrements`), none in another subscription's period (`ChargedToSubscription`), no more current periods than threads (`RotationsBounded`) |
| `api_keys` | What can three threads do to a user's keys, with crashes and plan changes? | what a key ring does (`ImplementsKeyRing`, which includes that a key is replaced once and revoked for good), each revocation asked for (`RevokedForAReason`), a bounded excess (`KeysBounded`) |
| `sessions` | What can two threads do with a user's refresh tokens, when the plan and the account change and calls or answers are lost? | a token is exchanged at most once per thread (`SuccessorsBounded`), rotation signs nobody out (`SpentForSuccessor`), every device descends from a listed login (`DevicesListed`), claims are those of the login's plan (`ClaimsCurrent`), a session is revoked exactly if it was asked for by id or its own token was logged out, deaths of calls aside (`RevokedIffAsked`); a logout with a token that a refresh returned is not among these, see below |
| `sessions_revoked` | Does a revoked device get no new tokens? | it does |
| `accounts` | What do racing registrations, accounts added by hand, confirmations and password changes do, with mails that fail and processes that die? | one account per address (`OneAccountPerEmail`), mails only of stored tokens (`MailedTokensStored`), accounts verified by a token or made so (`VerifiedIffUsed`), a replaced password never again (`PasswordGone`), what was asked for arrives (`MailArrives`). Reset tokens are not one-shot: the password is reset up to once per thread (`ResetsBounded`), see below |
| `accounts_mail` | Does whoever registers get a mail? | not if the worker is faster than the commit |
| `rollup` | Does the rollup agree with the log, whatever runs beside it? | never more (`NeverOvercounts`), exactly once the day has settled (`SettledDayExact`); the monthly chart shows the months asked for, or one more (`ChartWindow`) |
| `request_pipeline` | Who gets through, is refused, logged and charged? | an undisturbed bucket keeps its rate (`RateKept`), a 429 is earned (`RefusalsEarned`), wherever a view answers, log and charge are of the owner of the credential (`LoggedRight`); on a path that no URL matches they are of the session cookie's user |
| `pipeline_throttle` | Is a user throttled by the own plan? | no, by Free |

### Disagreements shown by a run

1. **Leap day** (`services.py:102`). `start.replace(year=start.year + 50)` raises on every
   February 29th, so that day nobody can register, cancel, or be moved to Free by the
   sweep; each attempt is rolled back. `DueSwept` holds because the sweep tries again.
2. **Revoked sessions** (`authentication/services.py:176`). Revoking sets `revoked_at`,
   which nothing that authenticates or refreshes reads: the device stays signed in
   ("see and revoke active devices", `authentication/models.py:91`).
3. **Lost verification mail** (`authentication/services.py:65`). `.delay()` is called
   inside the transaction, without `on_commit`: a fast worker finds no user and drops the
   task. The user has to ask for another mail.
4. **Throttled as Free** (`subscriptions/middleware.py:26`). The slug is looked up before
   the JWT or API key is, so it is that of an anonymous request.

### Also seen while modelling

These follow from the models, or lie outside them, and have no run of their own.

- `services.py:124`: check and increment are separate statements, so a counter can pass
  its limit. `OvershootBounded` is what remains true.
- `services.py:139-145`: two threads that find no current period open one each at slightly
  different times, which the unique constraint does not catch; the later one hides the
  usage in the earlier ("never decremented mid-period", `models.py:109`).
- `services.py:102,126`: a Free subscription has one period of fifty years, so its
  monthly quota is one for life.
- `api_keys/services.py:27-36`: concurrent creations pass the key limit (`KeysBounded` is
  what remains). `:46-51`: two revocations at once both succeed and the second moves
  `revoked_at`. `:65`: after a downgrade no key can be rotated.
- `authentication/services.py:164`: `logout` looks for a session row with the `jti` of the
  token presented, but the row keeps that of the login (`views.py:97` rotates the token and
  not the row). So a logout after a refresh, the ordinary one, blacklists the token and
  leaves the session listed as live for good, with no failure anywhere. "Blacklist a
  refresh token and revoke its session record" (`:156`), `README.md:201` ("Blacklist refresh
  token; revoke session.") and the list of active devices (`models.py:92`) are wrong then.
  `RevokedIffAsked` is what remains. A logout that races a refresh leaves the successor
  valid.
- `authentication/services.py:120-131`: `confirm_password_reset` reads the token without a
  lock and consumes it by primary key, so two confirmations of one token that both found it
  valid both set a password, and the later one stays. "One-shot password reset token"
  (`models.py:58`) holds only of confirmations one after the other; `ResetsBounded` is what
  remains.
- `analytics/middleware.py:35`: on a path under `/api/v1/` that no URL matches nothing looks
  at a credential, so the 404 is logged and charged to the user of the session cookie, if
  there is one, also when the request carried the token of another user; with a token alone
  it is not logged at all. Wherever a view answers, the cookie counts for nothing.
- `users/services.py:63`: a change of password that has passed its check overwrites a
  reset that commits meanwhile. `PasswordGone` is what remains.
- `analytics/middleware.py:63`: usage is recorded after the response and `QuotaExceeded`
  swallowed; the enforcement up front that the comment names does not exist. A user's
  requests that are answered 403, 404 or 429 are logged and charged as well.
- `common/middleware.py:73-74`: the duration is set after the analytics layer has read it,
  so `response_ms` is always 0.
- `analytics/models.py:51`: `CASCADE` removes a deleted user's rollup rows, and past months
  of the chart for all users shrink; the log keeps its rows under no user.
- `analytics/selectors.py:90`: from some months on the monthly chart shows one more than
  was asked for. `:118`: a row inserted after the nightly rollup of its day stays out of
  it unless the day is rolled up by hand; `README.md:35` says the dashboard reads the
  rollup, but its daily chart and summary read the log.

## 5. Bounds, symmetry, fairness

`MaxTime`, `MaxCalls`, `MaxCrashes`, `MaxRequests`, `MaxPlanChanges`, `MaxChanges`,
`MaxFaults` and `LastDay` bound the counters of the same name in the guards; the sets of
rows, tokens and ids bound what can be inserted. Once they are reached the system may
stop, so the runs switch deadlock checking off, except those of `Subscriptions`, where
plans can always be switched.

- *Subscriptions*: one user is enough, since locks, index and rows are per user; three
  calls and two sweeps are the fewest that let a sweep lose a race to a call that itself
  loses to another. A Pro term of one day inside three, the middle one a February 29th,
  lets a row become due, a sweep fail on it and a later one succeed. Six rows are never
  all used. In `subscriptions_fair` two calls and one sweep can wait for each other in a
  ring.
- *Usage*: two threads, four requests and a limit of two take a counter past it; periods
  of three days in a horizon of four let two periods of a subscription overlap and end at
  different times.
- *Keys*: five calls of three threads and two changes of plan reach the highest excess
  (one key, then three at once above a limit of two; without a limit, a fifth), rotate a
  key twice and rotate above the limit.
- *Sessions*: three tokens are a login with two refreshes, one after the other or at once,
  or two logins of which one refreshes; a token lives a day in two. Every user starts on
  Free; one change is a plan gained or lost, or an account verified or switched off.
- *Accounts*: one verified account and a free address; four calls are two racing
  registrations with a resend and a verification, or a request for a reset with two
  confirmations and a change of password; an account added by hand draws an id as a call
  does. Two faults, of SMTP, processes and TTLs, are one more than the retries.
- *Rollup*: a log row per user, or two of one, in two days, one inserted after midnight;
  two overlapping rollups of a day. Day 0 is the last day of each month of 2024 in turn,
  so that today is the first or the last of each month, on the calendar from January 2023
  to February 2025.
- *Pipeline*: seven kinds of request cover each view with the credentials and cookies that
  change its outcome (`pipeline_throttle` adds a call with a token alone); with rates of one
  and two, windows of two instants and three instants, three requests fill a bucket, race in
  it, see an entry leave it, and lie in two windows that overlap.

Threads of one kind are interchangeable; `SYMMETRY` is used in runs without liveness.

`FairSpec` of `Subscriptions` assumes that a thread inside a call is scheduled (weak
fairness of `Proceed`), that beat keeps starting sweeps, and that time passes. The two
statements that wait for locks get strong fairness: PostgreSQL queues the waiters of a
row or of an index entry and wakes them when its holder ends, even if a sweep that keeps
failing takes the lock again. Nothing is assumed of users, of the admin or of crashes;
`DueSwept` is conditional on Free staying configured from some point on.

`FairSpec` of `Accounts` assumes the same of threads, and that a worker process that is up
takes tasks and carries them out (weak fairness of `TakeTask` or `SendMail`). It assumes
nothing of the mail server: `MailArrives` allows a mail to be missing after more failures
than there are retries, and after the death of a process.

## 6. What is proved

For any users, plans, rows, limits, terms and any number of processes:

- `SubscriptionsProofs`: `Invariance` (`[]IInv`), and from it `TypeCorrect`,
  `OneActivePerUser`, `NeverWithoutPlan`, `TerminalStatusFinal`, `NoUnreasonedEnd`,
  `NoUnaskedPlan`, `NoDeadlock`, and `Refinement` (`Spec` implements
  `SubscriptionLedger!Spec`).
- `UsageQuotasProofs`: `Invariance`, `TypeCorrect`, `BoundedOvershoot`,
  `BoundedRotations`, `ChargedRight`, `Monotone`, `NothingLost`.
- `ApiKeysProofs`: `Invariance`, `TypeCorrect`, `BoundedKeys`, `OneReplacement`,
  `RevokedForGood`, `NoUnreasonedRevocation`, and `Refinement` (`Spec` implements
  `KeyRing!Spec`).
- `SessionsProofs`: `Invariance`, `TypeCorrect`, `BoundedSuccessors`, `ListedDevices`,
  `SpentTokens`, `CurrentClaims`, `ExactRevocation`.
- `AccountsProofs`: `Invariance`, `TypeCorrect`, `UniqueEmails`, `MailedAreStored`,
  `VerifiedByToken`, `BoundedResets`, `OldPasswordGone`.
- `RollupProofs`: `Invariance`, `TypeCorrect`, `NoDoubleCount`, `ExactOnceSettled`,
  `MonthsCovered`.
- `RequestPipelineProofs`: `Invariance`, `TypeCorrect`, `KeptRate`, `EarnedRefusals`,
  `RightLog`, `GrantedAccess`.

*Subscriptions.* `AtMostOneActive` and `PlanKept` are not inductive: a commit writes rows
chosen many steps earlier. `IInv` adds what a transaction may rely on: the rows it read
exist and are its user's, the sweep's are past their term and stay so (`expires` is never
rewritten), and once it has inserted, the row it ends is the only active one the user has
(`CallOK`); and no two transactions hold the same row or a pending active row of the same
user (`Compatible`). The lock makes the first half of `Compatible` hold, the unique index
the second. `ClosedStaysClosed` follows: a blind update of a row that has been ended is
always in a transaction whose INSERT the index refuses. `WaitsEnd` follows too: nobody
waits for one who waits for an UPDATE, since that one holds no row and has inserted none;
who waits for an INSERT waits for one who ends the user's active row or has inserted its
successor. If that one waits as well, it is at its own INSERT and holds the active row;
`AtMostOneActive` and `Compatible` then leave nobody who could make it wait.

*Usage.* The bound on a counter is inductive only with the increments on their way counted
as made (`CountersOK`): a call joins `Pending` when the counter is below the limit, so
afterwards counter plus pending is below limit plus threads, and `Count` moves one unit
from one to the other. `PeriodsOK` does the same for rotations: a call joins `Rotating`
only while there is no current period. `RowsOK`, `CallsOK` and `ChargedToSubscription` say
that the row a `CHOOSE` picks belonged to nobody before. The cardinality steps rest on the
library's facts about finite sets. `NoLostIncrements` is inductive beside them: a
period's counter and the calls pending on it make up what it is owed, and a rotation opens
a period to which nothing is owed yet.

*Keys.* `KeysBounded` is inductive with the creations that have passed the check counted
as made (`CountersOK`), and with the fact that a rotation, from its SELECT FOR UPDATE to
its commit, has a key that is still active and that no other rotation has (`CallOK`,
`RotationsExclusive`): it then takes one key out for the one it puts in. The same fact
gives `ReplacedOnce`, since a key that already has a replacement is revoked. For
`Refinement` only three actions write keys: the INSERT is an `Issue`, whose bound
`CountersOK` gives, or the `Rotate` of the key that `CallOK` says is still in the ring; a
revocation is a `Revoke` or, of a revoked key, a stutter; marking a key as used stutters.

*Sessions.* `SuccessorsBounded` counts the refreshes on their way with the successors: a
call joins them only while the token is not blacklisted, when there is no successor yet
(`TokensOK`: only blacklisted tokens have one), and `Rotate` turns one into the other.
`CallOK` keeps what a call has read as far as it still holds, such as that a token at
"rotate" is blacklisted by now, which is what makes `SpentForSuccessor` survive a death of
another refresh of the same token. `IssuedOnce` keeps two logins from using one token, and
`SignedClaimsCurrent` extends the claim to tokens that are not delivered yet.
`RevokedIffAsked` needs that whatever is about to be revoked was asked for
(`RevokesAsked`), and that a token a login has not yet recorded a session for has neither
been logged out nor asked for.

*Accounts.* Everything rests on ids being drawn once: `IdsUnused` and `RowsNew` say
that a call's id names no row, task or password of another call until it has stored its
own. `EmailsClaimed` says which calls may still commit an address, and that is one at most:
the unique index, for rows that are committed and rows that are not. `Deliverable` ties
tasks and mails to tokens that are stored or about to be, so a task that has found its
user has a stored token. `ReadSound` bounds how stale the row is that a confirmation has
read, `TokensOwned` and `ResetsSpent` that a user's reset tokens are all used once the
password has been reset, which leaves only the confirmations on their way. `AddUser` is a step of its own: it
writes one fresh id, at an address that no committed or pending row has.

*Rollup.* A rollup that began when its day had settled (`final`) has counted all there is
(`FinalJobsExact`): being settled is stable, since requests are stamped with today and a
rollup of a settled day is final itself; what is written for the day from then on, by
whichever rollup, equals the log (`DoneDaysExact`). `NeverOvercounts` needs only that
sums selected earlier are below the log (`JobsWithin`), which only grows for users that
are present. `ChartWindow` is arithmetic: by induction over k, k months have between 28k
and 31k days, so the day 31 * (months - 1) before the first of this month lies in the
first of the months asked for or in the one before it; for eleven and twelve months, where
28 days each would leave room for a further one, the length of a year decides.

*Pipeline.* `Known` says, for each place a request can be in, what of its caller the
layers before have established (`Passed`: the checks of its view); `LoggedRight` and
`AccessGranted` are what it says of the last ones. `RateKept` needs that the cache forgets
nothing of the current window of an undisturbed bucket and invents nothing (`HistoryOK`),
and that a request between `cache.get` and `cache.set` of such a bucket is alone there and
knows the whole window (`SeenOK`); what it then lets through is one more than what it has
seen. `RefusalsEarned` is the same set, full.

Assumptions: the `ASSUME` of each module, which says the constants have their types,
`None` is no row, and `Proc`, `Web` and `Id` are finite where something is counted; that
of `Rollup` adds what real calendars satisfy. TLC evaluates them on every run.

Induction over numbers is done on sets of them (`SetLemmas`: `LeastNumber`, `Induction`),
since the prover cannot instantiate the library's theorems, which take a predicate.

Only model-checked is liveness (`CallsReturn`, `DueSwept`, `MailArrives`), which is beyond
the prover, as are the runs that show a disagreement, which are counterexamples.

## 7. Not modelled

- Feature gates and the permission classes no view uses; summaries of the dashboard,
  serializers, pagination, responses, logging, request ids: reads and formatting without
  state of their own.
- The update of names, and the admin's change forms, which save whole rows and may undo a
  change made since the form was opened; in particular the tick at `is_verified` of an
  account that exists (`users/admin.py:19-23`). Deactivated accounts in `Accounts`.
- Edits of a plan's limits by `PlanAdmin`: `Limit` and `MaxKeys` are constants of
  `UsageQuotas` and `ApiKeys`, so the bounds on the excess are about limits that do not change.
- Response times, `last_login_at`, `last_seen_at` and `last_used_at`'s values.
- Prices, features, `auto_renew`: no code acts on them. `rate_limit_per_minute` is never
  read.
- Hashes and prefixes of tokens and keys: a key is identified with its row.
- Two wall-clock readings of one call are taken as one wherever no other action of the
  model could tell them apart.
- Containers, nginx, CI, migrations, static pages.
