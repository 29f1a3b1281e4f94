---------------------------------- MODULE Sessions ----------------------------------
(***************************************************************************)
(* Sessions of apps/authentication: login, refresh with rotation and       *)
(* blacklist, logout and the revocation of a session, one action per       *)
(* autocommitted statement.  A token is a signed claim the client keeps;   *)
(* the server keeps the blacklist and one session row per login.           *)
(***************************************************************************)
EXTENDS Naturals, FiniteSets

CONSTANTS
    User, Plan,
    Free,        \* the plan claimed without a subscription
    Proc,        \* gunicorn threads
    Token,       \* the ids (jti) of refresh tokens
    None,
    Lifetime,    \* days a refresh token lives
    MaxTime,     \* bound: the last day
    MaxChanges,  \* bound: changes of plans and accounts
    MaxCrashes   \* bound: threads killed, answers lost

ASSUME SessionAssumption ==
    /\ IsFiniteSet(Proc)
    /\ Free \in Plan /\ None \notin User \cup Plan \cup Token
    /\ {Lifetime, MaxTime, MaxChanges, MaxCrashes} \subseteq Nat

VARIABLES
    now,       \* timezone.now(), in days
    account,   \* [User -> the columns login looks at]
    plan,      \* [User -> the plan of the active subscription, or None]
    token,     \* the refresh tokens signed so far
    black,     \* the blacklist
    session,   \* [Token -> revoked_at of the session row with this refresh_jti]
    held,      \* the tokens that have reached their client
    call,      \* [Proc -> the call it is in]
    changes, crashes,
    outdated,  \* history: tokens whose user has changed plan since their login
    out,       \* history: tokens a logout has blacklisted
    asked,     \* history: sessions their user has asked to revoke by id
    lost       \* history: logins of which a call has died

history == <<outdated, out, asked, lost>>
vars == <<now, account, plan, token, black, session, held, call, changes, crashes, history>>

-------------------------------------------------------------------------------------
(* Tokens, rows and calls *)

\* login: the token the chain of rotations began with; source: the one this token
\* replaces.
NoToken == [user |-> None, login |-> None, source |-> None, exp |-> 0, plan |-> None]
TokenClaims == [user : User, login : Token, source : Token \cup {None}, exp : Nat, plan : Plan]

\* pc names the statement the call executes next; verified is what login read.
NoCall == [pc |-> "idle", user |-> None, token |-> None, verified |-> FALSE]
Call == [pc : {"idle", "issue", "session", "answer", "blacklist", "rotate", "logout", "find", "revoke"},
         user : User \cup {None}, token : Token \cup {None}, verified : BOOLEAN]

Unsigned == {t \in Token : token[t] = NoToken}
NewToken == CHOOSE t \in Unsigned : TRUE

\* The plan claim of get_token.
ClaimedPlan(u) == IF plan[u] = None THEN Free ELSE plan[u]

Goto(p, r) == call' = [call EXCEPT ![p] = r]

\* RefreshToken(...): the signature, exp, and the blacklist.
Valid(t) == t \in held /\ t \notin black /\ now < token[t].exp

Init ==
    /\ now = 0
    /\ account \in [User -> [active : {TRUE}, verified : BOOLEAN]]
    /\ plan = [u \in User |-> Free]
    /\ token = [t \in Token |-> NoToken]
    /\ black = {}
    /\ session = [t \in Token |-> "none"]
    /\ held = {}
    /\ call = [p \in Proc |-> NoCall]
    /\ changes = 0 /\ crashes = 0
    /\ outdated = {} /\ out = {} /\ asked = {} /\ lost = {}

-------------------------------------------------------------------------------------
(* LoginView *)

\* authenticate() SELECTs the user with the right password, if active.
Login(p, u) ==
    /\ call[p] = NoCall
    /\ account[u].active
    /\ Goto(p, [NoCall EXCEPT !.pc = "issue", !.user = u, !.verified = account[u].verified])
    /\ UNCHANGED <<now, account, plan, token, black, session, held, changes, crashes, history>>

\* Wrong on purpose: validate() does not look at is_verified.
IssueToken_Unverified(p) ==
    /\ call[p].pc = "issue"
    /\ Unsigned # {}
    /\ token' = [token EXCEPT ![NewToken] =
                    [user |-> call[p].user, login |-> NewToken, source |-> None,
                     exp |-> now + Lifetime, plan |-> ClaimedPlan(call[p].user)]]
    /\ Goto(p, [call[p] EXCEPT !.pc = "session", !.token = NewToken])
    /\ UNCHANGED <<now, account, plan, black, session, held, changes, crashes, history>>

\* Wrong on purpose: no plan_slug = "free" before the lookup.
IssueToken_NoDefault(p) ==
    /\ call[p].pc = "issue" /\ call[p].verified
    /\ Unsigned # {}
    /\ token' = [token EXCEPT ![NewToken] =
                    [user |-> call[p].user, login |-> NewToken, source |-> None,
                     exp |-> now + Lifetime, plan |-> plan[call[p].user]]]
    /\ Goto(p, [call[p] EXCEPT !.pc = "session", !.token = NewToken])
    /\ UNCHANGED <<now, account, plan, black, session, held, changes, crashes, history>>

\* get_token: INSERT the outstanding token, SELECT the plan it claims.  A user not
\* verified when the row was read is rejected only now: the token is never sent.
IssueToken(p) ==
    /\ call[p].pc = "issue"
    /\ Unsigned # {}
    /\ token' = [token EXCEPT ![NewToken] =
                    [user |-> call[p].user, login |-> NewToken, source |-> None,
                     exp |-> now + Lifetime, plan |-> ClaimedPlan(call[p].user)]]
    /\ \/ call[p].verified /\ Goto(p, [call[p] EXCEPT !.pc = "session", !.token = NewToken])
       \/ ~call[p].verified /\ Goto(p, NoCall)
    /\ UNCHANGED <<now, account, plan, black, session, held, changes, crashes, history>>

\* record_session.
RecordSession(p) ==
    /\ call[p].pc = "session"
    /\ session' = [session EXCEPT ![call[p].token] = "live"]
    /\ Goto(p, [call[p] EXCEPT !.pc = "answer"])
    /\ UNCHANGED <<now, account, plan, token, black, held, changes, crashes, history>>

\* mark_logged_in, and the response.
Answer(p) ==
    /\ call[p].pc = "answer"
    /\ held' = held \cup {call[p].token}
    /\ Goto(p, NoCall)
    /\ UNCHANGED <<now, account, plan, token, black, session, changes, crashes, history>>

(* RefreshView *)

\* Wrong on purpose: the blacklist is not consulted.
Refresh_AnyToken(p, t) ==
    /\ call[p] = NoCall
    /\ t \in held /\ now < token[t].exp
    /\ Goto(p, [NoCall EXCEPT !.pc = "blacklist", !.token = t])
    /\ UNCHANGED <<now, account, plan, token, black, session, held, changes, crashes, history>>

\* TokenRefreshSerializer validates the token, and neither user nor session.
Refresh(p, t) ==
    /\ call[p] = NoCall
    /\ Valid(t)
    /\ Goto(p, [NoCall EXCEPT !.pc = "blacklist", !.token = t])
    /\ UNCHANGED <<now, account, plan, token, black, session, held, changes, crashes, history>>

\* BLACKLIST_AFTER_ROTATION: get_or_create, so a second one finds the row.
BlacklistOld(p) ==
    /\ call[p].pc = "blacklist"
    /\ black' = black \cup {call[p].token}
    /\ Goto(p, [call[p] EXCEPT !.pc = "rotate"])
    /\ UNCHANGED <<now, account, plan, token, session, held, changes, crashes, history>>

\* Wrong on purpose: the claims are set anew, without the lookup of get_token.
Rotate_DefaultClaims(p) ==
    /\ call[p].pc = "rotate"
    /\ Unsigned # {}
    /\ token' = [token EXCEPT ![NewToken] = [token[call[p].token] EXCEPT
                    !.source = call[p].token, !.exp = now + Lifetime, !.plan = Free]]
    /\ held' = held \cup {NewToken}
    /\ Goto(p, NoCall)
    /\ UNCHANGED <<now, account, plan, black, session, changes, crashes, history>>

\* Wrong on purpose: set_jti() comes before blacklist().
Rotate_BlacklistsNew(p) ==
    /\ call[p].pc = "rotate"
    /\ Unsigned # {}
    /\ token' = [token EXCEPT ![NewToken] = [token[call[p].token] EXCEPT
                    !.source = call[p].token, !.exp = now + Lifetime]]
    /\ held' = held \cup {NewToken}
    /\ black' = black \cup {NewToken}
    /\ Goto(p, NoCall)
    /\ UNCHANGED <<now, account, plan, session, changes, crashes, history>>

\* A new jti and exp, the other claims as they were; the response.
Rotate(p) ==
    /\ call[p].pc = "rotate"
    /\ Unsigned # {}
    /\ token' = [token EXCEPT ![NewToken] = [token[call[p].token] EXCEPT
                    !.source = call[p].token, !.exp = now + Lifetime]]
    /\ held' = held \cup {NewToken}
    /\ outdated' = outdated \cup {NewToken : t \in {call[p].token} \cap outdated}
    /\ Goto(p, NoCall)
    /\ UNCHANGED <<now, account, plan, black, session, changes, crashes, out, asked, lost>>

(* LogoutView and SessionRevokeView *)

\* Whoever is signed in, or has an API key, presents any refresh token there is.
Logout(p, t) ==
    /\ call[p] = NoCall
    /\ \E u \in User : account[u].active
    /\ Valid(t)
    /\ Goto(p, [NoCall EXCEPT !.pc = "logout", !.token = t])
    /\ UNCHANGED <<now, account, plan, token, black, session, held, changes, crashes, history>>

\* token.blacklist(), committed by itself.
BlacklistLogout(p) ==
    /\ call[p].pc = "logout"
    /\ black' = black \cup {call[p].token}
    /\ out' = out \cup {call[p].token}
    /\ Goto(p, [call[p] EXCEPT !.pc = "find"])
    /\ UNCHANGED <<now, account, plan, token, session, held, changes, crashes, outdated, asked, lost>>

\* Wrong on purpose: the filter asks for a session that is already revoked.
FindSession_Revoked(p) ==
    /\ call[p].pc = "find"
    /\ IF session[call[p].token] = "revoked"
       THEN Goto(p, [call[p] EXCEPT !.pc = "revoke"])
       ELSE Goto(p, NoCall)
    /\ UNCHANGED <<now, account, plan, token, black, session, held, changes, crashes, history>>

\* SELECT the live session with this refresh_jti: a token that has been rotated
\* since the login has none.
FindSession(p) ==
    /\ call[p].pc = "find"
    /\ IF session[call[p].token] = "live"
       THEN Goto(p, [call[p] EXCEPT !.pc = "revoke"])
       ELSE Goto(p, NoCall)
    /\ UNCHANGED <<now, account, plan, token, black, session, held, changes, crashes, history>>

\* revoke_session: the authenticated user's own session t, found live.  No token is
\* blacklisted.
RevokeById(p, t) ==
    /\ call[p] = NoCall
    /\ session[t] = "live" /\ account[token[t].user].active
    /\ Goto(p, [NoCall EXCEPT !.pc = "revoke", !.token = t])
    /\ asked' = asked \cup {t}
    /\ UNCHANGED <<now, account, plan, token, black, session, held, changes, crashes, outdated, out, lost>>

\* UserSession.revoke: UPDATE by primary key.
RevokeSession(p) ==
    /\ call[p].pc = "revoke"
    /\ session' = [session EXCEPT ![call[p].token] = "revoked"]
    /\ Goto(p, NoCall)
    /\ UNCHANGED <<now, account, plan, token, black, held, changes, crashes, history>>

(* The environment *)

\* verify_email, or an administrator, commits.
EditAccount(u, column, value) ==
    /\ account[u][column] # value
    /\ changes < MaxChanges
    /\ account' = [account EXCEPT ![u][column] = value]
    /\ changes' = changes + 1
    /\ UNCHANGED <<now, plan, token, black, session, held, call, crashes, history>>

\* subscribe, cancel or the sweep commits.
ChangePlan(u, pl) ==
    /\ plan[u] # pl
    /\ changes < MaxChanges
    /\ plan' = [plan EXCEPT ![u] = pl]
    /\ changes' = changes + 1
    /\ outdated' = outdated \cup {t \in Token : token[t].user = u}
    /\ UNCHANGED <<now, account, token, black, session, held, call, crashes, out, asked, lost>>

\* The thread is killed, or its answer lost; what it committed stays.
Crash(p) ==
    /\ call[p] # NoCall
    /\ crashes < MaxCrashes
    /\ crashes' = crashes + 1
    /\ lost' = lost \cup {token[t].login : t \in {call[p].token} \cap Token}
    /\ Goto(p, NoCall)
    /\ UNCHANGED <<now, account, plan, token, black, session, held, changes, outdated, out, asked>>

Tick ==
    /\ now < MaxTime
    /\ now' = now + 1
    /\ UNCHANGED <<account, plan, token, black, session, held, call, changes, crashes, history>>

Proceed(p) ==
    \/ IssueToken(p) \/ RecordSession(p) \/ Answer(p)
    \/ BlacklistOld(p) \/ Rotate(p)
    \/ BlacklistLogout(p) \/ FindSession(p) \/ RevokeSession(p)

Next ==
    \/ \E p \in Proc, u \in User : Login(p, u)
    \/ \E p \in Proc, t \in Token : Refresh(p, t) \/ Logout(p, t) \/ RevokeById(p, t)
    \/ \E p \in Proc : Proceed(p) \/ Crash(p)
    \/ \E u \in User : EditAccount(u, "verified", TRUE) \/ EditAccount(u, "active", FALSE)
    \/ \E u \in User, pl \in Plan \cup {None} : ChangePlan(u, pl)
    \/ Tick

Spec == Init /\ [][Next]_vars

-------------------------------------------------------------------------------------
(* Properties *)

TypeOK ==
    /\ now \in Nat /\ changes \in Nat /\ crashes \in Nat
    /\ account \in [User -> [active : BOOLEAN, verified : BOOLEAN]]
    /\ plan \in [User -> Plan \cup {None}]
    /\ token \in [Token -> TokenClaims \cup {NoToken}]
    /\ session \in [Token -> {"none", "live", "revoked"}]
    /\ call \in [Proc -> Call]
    /\ black \subseteq Token /\ held \subseteq Token /\ outdated \subseteq Token
    /\ out \subseteq Token /\ asked \subseteq Token /\ lost \subseteq Token

Successors(t) == {s \in Token : token[s].source = t}

\* The refresh calls that have found t valid and not answered yet.
Refreshing(t) == {p \in Proc : call[p].pc \in {"blacklist", "rotate"} /\ call[p].token = t}

\* The check of the blacklist and the entry in it are two statements, so a refresh
\* token can be spent twice; but never more often than there are threads, the calls
\* on their way included, however long it is replayed.
SuccessorsBounded ==
    \A t \in Token :
        Cardinality(Successors(t)) + Cardinality(Refreshing(t)) <= Cardinality(Proc)

\* Every device is listed: whoever holds a refresh token belongs to a verified
\* account, and the login the token comes from has a session row.
DevicesListed ==
    \A t \in held : /\ account[token[t].user].verified
                    /\ session[token[t].login] # "none"

\* Rotation does not sign anybody out: a client whose token has been blacklisted
\* holds a successor, or will get one, unless it logged out or a call died.
SpentForSuccessor ==
    \A t \in (held \cap black) \ out : token[t].login \notin lost =>
        held \cap Successors(t) # {} \/ Refreshing(t) # {}

\* "Enriches the access token with role, email, plan" (tokens.py:20): the plan a
\* token claims, through all rotations, differs from its user's only if the user
\* has changed plan since the login.
ClaimsCurrent ==
    \A t \in held \ outdated : token[t].plan = ClaimedPlan(token[t].user)

\* What revokes the session of a login: its user by its id, or a logout with the very
\* token of the login.  Then it is revoked, unless a call has died between the commits.
\* Nothing else does, so "Blacklist a refresh token and revoke its session record"
\* (services.py:156) holds of no token that a refresh has returned: a logout with one
\* leaves the session live for good.
RevokedIffAsked ==
    \A t \in Token :
        /\ session[t] = "revoked" => t \in out \cup asked
        /\ session[t] = "live" /\ t \in out \cup asked => t \in lost \/ \E p \in Proc :
              call[p].pc \in {"find", "revoke"} /\ call[p].token = t

\* "Lets a user see and revoke active devices" (models.py:91): a device that was
\* revoked gets no new tokens.
RevokedSessionDead ==
    [][\A p \in Proc : call[p] = NoCall /\ call'[p].pc = "blacklist" =>
          session[token[call'[p].token].login] # "revoked"]_vars

-------------------------------------------------------------------------------------
(* The inductive invariant *)

Signed(t) == token[t] # NoToken

\* Only tokens that clients hold are blacklisted, only blacklisted ones have successors.
TokensOK ==
    /\ out \subseteq black /\ black \subseteq held
    /\ \A t \in Token : /\ t \in held \/ session[t] # "none" => Signed(t)
                        /\ token[t].source \in black \cup {None}
                        /\ session[t] # "none" => token[t].login = t
                        /\ t \in asked => session[t] # "none"

\* What the call r has read, as far as it still holds.
CallOK(r) ==
    /\ r.pc = "idle" => r = NoCall
    /\ r.pc = "issue" => /\ r.token = None /\ r.user \in User
                         /\ r.verified => account[r.user].verified
    /\ r.pc \in {"session", "answer"} =>
          /\ r.token \in Token \ held /\ Signed(r.token)
          /\ token[r.token].login = r.token /\ account[token[r.token].user].verified
    /\ r.pc = "session" => session[r.token] = "none"
    /\ r.pc = "answer" => session[r.token] # "none"
    /\ r.pc \in {"blacklist", "rotate", "logout", "find"} => r.token \in held
    /\ r.pc = "rotate" => r.token \in black
    /\ r.pc = "find" => r.token \in out
    /\ r.pc = "revoke" => r.token \in Token /\ session[r.token] # "none"

\* No two logins issue the same token.
IssuedOnce ==
    \A p, q \in Proc :
        p # q /\ {call[p].pc, call[q].pc} \subseteq {"session", "answer"} =>
            call[p].token # call[q].token

\* No session is about to be revoked that nobody wanted to end.
RevokesAsked == \A p \in Proc : call[p].pc = "revoke" => call[p].token \in out \cup asked

\* ClaimsCurrent, of the tokens that have not reached their client as well.
SignedClaimsCurrent ==
    \A t \in Token \ outdated : Signed(t) => token[t].plan = ClaimedPlan(token[t].user)

IInv ==
    /\ TypeOK /\ TokensOK /\ IssuedOnce
    /\ \A p \in Proc : CallOK(call[p])
    /\ \A t \in Token : IsFiniteSet(Successors(t))
    /\ SuccessorsBounded /\ DevicesListed /\ SpentForSuccessor
    /\ SignedClaimsCurrent /\ RevokesAsked /\ RevokedIffAsked
=====================================================================================
