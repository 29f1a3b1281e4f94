------------------------------ MODULE RequestPipeline ------------------------------
(***************************************************************************)
(* A request on its way through the middleware of apps/common,             *)
(* apps/subscriptions and apps/analytics and the checks of the REST        *)
(* framework: whose plan it is throttled by, who may see what, what is     *)
(* logged and who is charged.  The throttle reads a bucket from the cache  *)
(* and writes it back, two calls that other threads can come between; the  *)
(* cache may be down.  Plans and roles do not change meanwhile.            *)
(***************************************************************************)
EXTENDS Integers, FiniteSets

CONSTANTS
    User, Plan,
    Staff,        \* the users with the role staff or admin
    PlanOf,       \* [User -> the plan of the active subscription, or None]
    Free,         \* the slug without a subscription
    Anon,         \* the scope of AnonRateThrottle
    Rate,         \* DEFAULT_THROTTLE_RATES: requests of each scope in a window
    Window,       \* duration of the rates (a minute)
    Sent,         \* the requests clients send: view, credential, session cookie
    Bad, None,
    Proc,         \* gunicorn threads
    MaxTime,      \* bound: the last instant
    MaxRequests   \* bound: requests received

Scope == Plan \cup {Anon}
Bucket == Scope \X (User \cup {None})
Time == 0 .. MaxTime

\* An entry of the list that the throttle keeps, the instant at which a request was let
\* through; the number tells apart those of one instant.
Admission == [at : Time, no : Nat]

\* "plans": no authentication classes (as registration); "login": any caller, but with
\* the default authentication; "own": IsAuthenticated; "staff": IsStaffOrAbove;
\* "nowhere": a path under /api/v1/ that no URL matches.
Views == {"plans", "login", "own", "staff", "nowhere"}

ASSUME PipelineAssumption ==
    /\ Staff \subseteq User /\ Free \in Plan /\ Anon \notin Plan
    /\ None \notin User \cup Plan \cup {Bad} /\ Bad \notin User
    /\ PlanOf \in [User -> Plan \cup {None}]
    /\ Rate \in [Scope -> Nat] /\ {Window, MaxTime, MaxRequests} \subseteq Nat
    /\ Sent \subseteq [view : Views, cred : User \cup {Bad, None}, cookie : User \cup {None}]

VARIABLES
    now,        \* timezone.now() and time.time()
    up,         \* the cache answers
    hist,       \* the cache: [Bucket -> the admissions on its list, which is sorted by instant]
    req,        \* [Proc -> the request it works on]
    received,   \* requests so far, at most MaxRequests
    admitted,   \* history: [Bucket -> all its admissions]
    disturbed   \* history: buckets that were not read and written in peace

vars == <<now, up, hist, req, received, admitted, disturbed>>

-------------------------------------------------------------------------------------
(* Requests *)

\* user: request.user, of Django until the REST framework authenticates; seen: the bucket
\* as the throttle read it, at: its clock then; row: what is in analytics_request_log.
NoRow == [user |-> None, status |-> 0]
NoRequest == [pc |-> "idle", view |-> None, cred |-> None, cookie |-> None, slug |-> None,
              user |-> None, seen |-> {}, at |-> 0, status |-> 0, row |-> NoRow, charged |-> None]

Status == {0, 200, 401, 403, 404, 429, 500}

Request ==
    [pc : {"authenticate", "throttle", "write", "handle", "record", "finish"},
     view : Views, cred : User \cup {Bad, None}, cookie : User \cup {None}, slug : Plan,
     user : User \cup {None}, seen : SUBSET Admission, at : Time, status : Status,
     row : [user : User \cup {None}, status : Status], charged : User \cup {None}]

Step(p, pc, r) == req' = [req EXCEPT ![p] = [r EXCEPT !.pc = pc]]
Answer(p, status, r) == Step(p, "record", [r EXCEPT !.status = status])

PlanSlug(u) == IF u = None \/ PlanOf[u] = None THEN Free ELSE PlanOf[u]

Init ==
    /\ now = 0
    /\ up = TRUE
    /\ hist = [b \in Bucket |-> {}]
    /\ req = [p \in Proc |-> NoRequest]
    /\ received = 0
    /\ admitted = [b \in Bucket |-> {}]
    /\ disturbed = {}

-------------------------------------------------------------------------------------
(* Middleware, on the way in *)

\* Wrong on purpose: no slug = "free" before the lookup.
Receive_NoDefault(p, s) ==
    /\ req[p] = NoRequest
    /\ received < MaxRequests
    /\ received' = received + 1
    /\ Step(p, "authenticate",
            [NoRequest EXCEPT !.view = s.view, !.cred = s.cred, !.cookie = s.cookie,
                              !.user = s.cookie,
                              !.slug = IF s.cookie = None THEN None ELSE PlanOf[s.cookie]])
    /\ UNCHANGED <<now, up, hist, admitted, disturbed>>

\* Django's AuthenticationMiddleware knows the session cookie only, and so does
\* SubscriptionContextMiddleware, which looks up the plan.  A view that does not exist
\* is answered by Django.
Receive(p, s) ==
    LET r == [NoRequest EXCEPT !.view = s.view, !.cred = s.cred, !.cookie = s.cookie,
                               !.user = s.cookie, !.slug = PlanSlug(s.cookie)]
    IN
    /\ req[p] = NoRequest
    /\ received < MaxRequests
    /\ received' = received + 1
    /\ \/ s.view # "nowhere" /\ Step(p, "authenticate", r)
       \/ s.view = "nowhere" /\ Answer(p, 404, r)
    /\ UNCHANGED <<now, up, hist, admitted, disturbed>>

-------------------------------------------------------------------------------------
(* APIView.initial *)

\* check_permissions; a refusal is 401 for a request without a user.
Permit(p, r) ==
    \/ r.view \in {"own", "staff"} /\ r.user = None /\ Answer(p, 401, r)
    \/ r.view = "staff" /\ r.user # None /\ r.user \notin Staff /\ Answer(p, 403, r)
    \/ /\ r.view = "own" => r.user # None
       /\ r.view = "staff" => r.user \in Staff
       /\ Step(p, "throttle", r)

\* Wrong on purpose: a refused credential leaves the user of the cookie.
Authenticate_KeepsCookie(p) ==
    LET r == req[p] IN
    /\ r.pc = "authenticate"
    /\ \/ (r.view = "plans" \/ r.cred = None) /\ Permit(p, [r EXCEPT !.user = None])
       \/ r.view # "plans" /\ r.cred = Bad /\ Answer(p, 401, r)
       \/ r.view # "plans" /\ r.cred \in User /\ Permit(p, [r EXCEPT !.user = r.cred])
    /\ UNCHANGED <<now, up, hist, received, admitted, disturbed>>

\* JWTAuthentication, then APIKeyAuthentication; the result replaces Django's user.
\* A credential that is refused, or not looked at, leaves an anonymous request.
Authenticate(p) ==
    LET r == req[p]
        nobody == [r EXCEPT !.user = None]
    IN
    /\ r.pc = "authenticate"
    /\ \/ (r.view = "plans" \/ r.cred = None) /\ Permit(p, nobody)
       \/ r.view # "plans" /\ r.cred = Bad /\ Answer(p, 401, nobody)
       \/ r.view # "plans" /\ r.cred \in User /\ Permit(p, [r EXCEPT !.user = r.cred])
    /\ UNCHANGED <<now, up, hist, received, admitted, disturbed>>

\* PlanScopedUserThrottle of users, AnonRateThrottle of the others.
ScopeOf(r) == IF r.user = None THEN Anon ELSE r.slug

\* get_cache_key; anonymous clients share an address here.
Key(r) == <<ScopeOf(r), r.user>>

\* Wrong on purpose: the rate of the placeholder scope stays in force.
NumRequests_NotParsed(r) == IF r.user = None THEN Rate[Anon] ELSE Rate[Free]

\* get_rate and parse_rate, for the scope of the request.
NumRequests(r) == Rate[ScopeOf(r)]

\* cache.get, which is empty if the cache is down, without what has left the window.
Recent(r) == {a \in IF up THEN hist[Key(r)] ELSE {} : a.at > now - Window}

\* Wrong on purpose: > for >=.
ReadHistory_OffByOne(p) ==
    LET r == req[p]
        recent == Recent(r)
    IN
    /\ r.pc = "throttle"
    /\ IF Cardinality(recent) > NumRequests(r) THEN Answer(p, 429, r)
       ELSE Step(p, "write", [r EXCEPT !.seen = recent, !.at = now])
    /\ disturbed' = disturbed \cup
          IF up /\ \A q \in Proc : req[q].pc = "write" => Key(req[q]) # Key(r) THEN {} ELSE {Key(r)}
    /\ UNCHANGED <<now, up, hist, received, admitted>>

\* SimpleRateThrottle.allow_request.
ReadHistory(p) ==
    LET r == req[p]
        recent == Recent(r)
    IN
    /\ r.pc = "throttle"
    /\ IF Cardinality(recent) >= NumRequests(r) THEN Answer(p, 429, r)
       ELSE Step(p, "write", [r EXCEPT !.seen = recent, !.at = now])
    /\ disturbed' = disturbed \cup
          IF up /\ \A q \in Proc : req[q].pc = "write" => Key(req[q]) # Key(r) THEN {} ELSE {Key(r)}
    /\ UNCHANGED <<now, up, hist, received, admitted>>

\* cache.set, ignored if the cache is down: the request is let through.
WriteHistory(p) ==
    LET r == req[p]
        b == Key(r)
        a == [at |-> r.at, no |-> Cardinality(admitted[b])]
    IN
    /\ r.pc = "write"
    /\ \/ up /\ hist' = [hist EXCEPT ![b] = r.seen \cup {a}] /\ UNCHANGED disturbed
       \/ ~up /\ disturbed' = disturbed \cup {b} /\ UNCHANGED hist
    /\ admitted' = [admitted EXCEPT ![b] = @ \cup {a}]
    /\ Step(p, "handle", [r EXCEPT !.seen = {}, !.at = 0])
    /\ UNCHANGED <<now, up, received>>

\* The view.  custom_exception_handler turns a domain error into its status and any
\* other exception into a 500, which stands for both here.
Handle(p) ==
    /\ req[p].pc = "handle"
    /\ \E status \in {200, 500} : Answer(p, status, req[p])
    /\ UNCHANGED <<now, up, hist, received, admitted, disturbed>>

-------------------------------------------------------------------------------------
(* Middleware, on the way out *)

Logged(r) == [r EXCEPT !.row = [user |-> r.user, status |-> r.status]]

\* RequestAnalyticsMiddleware logs the request of a user, whatever the answer, and
\* calls record_request (UsageQuotas).  If the INSERT fails it gives up; QuotaExceeded
\* and every other failure of record_request leaves the log row and no charge.
Record(p) ==
    LET r == req[p] IN
    /\ r.pc = "record"
    /\ \/ Step(p, "finish", r)
       \/ r.user # None /\ Step(p, "finish", Logged(r))
       \/ r.user # None /\ Step(p, "finish", [Logged(r) EXCEPT !.charged = r.user])
    /\ UNCHANGED <<now, up, hist, received, admitted, disturbed>>

\* RequestLoggingMiddleware and RequestIDMiddleware; the answer is sent.
Finish(p) ==
    /\ req[p].pc = "finish"
    /\ req' = [req EXCEPT ![p] = NoRequest]
    /\ UNCHANGED <<now, up, hist, received, admitted, disturbed>>

\* The thread is killed, and its request with it.
Crash(p) ==
    /\ req[p] # NoRequest
    /\ req' = [req EXCEPT ![p] = NoRequest]
    /\ UNCHANGED <<now, up, hist, received, admitted, disturbed>>

\* The cache goes down, and comes back, with or without what it held.
CacheOutage ==
    /\ up' = ~up
    /\ \/ UNCHANGED <<hist, disturbed>>
       \/ ~up /\ hist' = [b \in Bucket |-> {}] /\ disturbed' = Bucket
    /\ UNCHANGED <<now, req, received, admitted>>

Tick ==
    /\ now < MaxTime
    /\ now' = now + 1
    /\ UNCHANGED <<up, hist, req, received, admitted, disturbed>>

Proceed(p) ==
    \/ Authenticate(p) \/ ReadHistory(p) \/ WriteHistory(p)
    \/ Handle(p) \/ Record(p) \/ Finish(p)

Next ==
    \/ \E p \in Proc, s \in Sent : Receive(p, s)
    \/ \E p \in Proc : Proceed(p) \/ Crash(p)
    \/ CacheOutage
    \/ Tick

Spec == Init /\ [][Next]_vars

-------------------------------------------------------------------------------------
(* Properties *)

TypeOK ==
    /\ now \in Time /\ up \in BOOLEAN /\ received \in 0 .. MaxRequests
    /\ req \in [Proc -> Request \cup {NoRequest}]
    /\ hist \in [Bucket -> SUBSET Admission]
    /\ admitted \in [Bucket -> SUBSET Admission]
    /\ disturbed \subseteq Bucket

\* The admissions of bucket b in the window that ends at t.
InWindow(b, t) == {a \in admitted[b] : t - Window < a.at /\ a.at <= t}

\* "Each plan gets its own bucket" (README:34): a user gets no more than the rate of the
\* scope into any window, as long as the cache is up and no two of the user's requests
\* are between the throttle's get and set at once.
RateKept ==
    \A b \in Bucket \ disturbed, t \in Time : Cardinality(InWindow(b, t)) <= Rate[b[1]]

\* A refusal is earned: it takes as many requests of the same user in the same window as
\* the rate allows.  Neither other users, nor lost updates, nor an outage bring one about.
RefusalsEarned ==
    [][\A p \in Proc : req[p].pc = "throttle" /\ req'[p].status = 429 =>
          LET b == Key(req[p]) IN Cardinality(InWindow(b, now)) >= Rate[b[1]]]_vars

\* "A broken analytics path can never break the API" (analytics/middleware.py:5): the log
\* says what the client was told, and charges the user whom it names.  Where a view
\* answers, that is the owner of an accepted credential that the view looks at, never the
\* user whose cookie came along.  On a path that no URL matches no credential is looked
\* at, and it is the user of the cookie, even if the request came with another's key.
LoggedRight ==
    \A p \in Proc : LET r == req[p] IN
        /\ r.row # NoRow =>
              /\ r.row.status = r.status
              /\ r.view # "nowhere" => r.row.user = r.cred /\ r.cred \in User /\ r.view # "plans"
              /\ r.view = "nowhere" => r.row.user = r.cookie /\ r.cookie # None
        /\ r.charged # None => r.charged = r.row.user

\* The wider scope is for staff (dashboard/views.py:120), the own data for its owner.
AccessGranted ==
    \A p \in Proc : req[p].pc \in {"handle", "record", "finish"} /\ req[p].status \in {0, 200} =>
        /\ req[p].view = "staff" => req[p].cred \in Staff
        /\ req[p].view = "own" => req[p].cred \in User

\* "Each request scopes to the user's current plan slug" (throttling.py:3).
ThrottledByOwnPlan ==
    \A p \in Proc : req[p].pc = "write" /\ req[p].user # None => req[p].slug = PlanSlug(req[p].user)

-------------------------------------------------------------------------------------
(* The inductive invariant *)

\* The request has passed authentication and the permissions of its view.
Passed(r) ==
    \/ r.pc \in {"throttle", "write", "handle"}
    \/ r.pc \in {"record", "finish"} /\ r.status \in {0, 200}

\* Whom request.user is, past authentication.
Caller(r) ==
    IF r.view = "nowhere" THEN r.cookie
    ELSE IF r.view # "plans" /\ r.cred \in User THEN r.cred ELSE None

\* What is known of a request at each layer.
Known(r) ==
    /\ r.pc \in {"authenticate", "throttle", "write", "handle"} => r.view # "nowhere" /\ r.status = 0
    /\ r.pc \in {"throttle", "write", "handle", "record", "finish"} => r.user = Caller(r)
    /\ Passed(r) => /\ r.view = "staff" => r.cred \in Staff
                    /\ r.view = "own" => r.cred \in User
    /\ r.pc # "finish" => r.row = NoRow /\ r.charged = None
    /\ r.row # NoRow => r.row = [user |-> Caller(r), status |-> r.status] /\ Caller(r) # None
    /\ r.charged # None => r.charged = r.row.user

\* What is in the cache was let through, before now; and all that was let through in the
\* current window is in the cache, unless the bucket was disturbed.
HistoryOK(b) ==
    /\ IsFiniteSet(admitted[b])
    /\ \A a \in admitted[b] : a.at <= now /\ a.no < Cardinality(admitted[b])
    /\ hist[b] \subseteq admitted[b]
    /\ b \notin disturbed => {a \in admitted[b] : a.at > now - Window} \subseteq hist[b]

\* Between get and set, a request knows all admissions of its window, none is later, and
\* no other request is between get and set of the bucket, unless it was disturbed.
SeenOK(p) ==
    LET r == req[p]
        b == Key(r)
    IN
    r.pc = "write" =>
       /\ r.at <= now /\ r.seen \subseteq admitted[b]
       /\ b \notin disturbed =>
             /\ Cardinality(r.seen) < Rate[b[1]]
             /\ r.seen = {a \in admitted[b] : a.at > r.at - Window}
             /\ \A a \in admitted[b] : a.at <= r.at
             /\ \A q \in Proc \ {p} : req[q].pc = "write" => Key(req[q]) # b

IInv ==
    /\ TypeOK
    /\ \A p \in Proc : Known(req[p]) /\ SeenOK(p)
    /\ \A b \in Bucket : HistoryOK(b)
    /\ RateKept
====================================================================================
