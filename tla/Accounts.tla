---------------------------------- MODULE Accounts ----------------------------------
(***************************************************************************)
(* Registration, one-shot tokens and passwords of apps/authentication and  *)
(* apps/users, and the Celery tasks that mail the tokens.  Web calls take  *)
(* one step per transaction or autocommitted statement; account and token  *)
(* hold committed rows, and an uncommitted registration is in its call.    *)
(***************************************************************************)
EXTENDS Naturals, FiniteSets, Functions

CONSTANTS
    Email,
    Web,           \* gunicorn threads
    Worker,        \* celery worker processes
    Id,            \* one per call: the UUIDs, tokens and passwords it makes up
    Earlier,       \* [id -> address] of the accounts registered and verified before
    None,
    MaxRetries,    \* retry_kwargs of the tasks (5)
    MaxFaults      \* bound: SMTP errors, processes killed and tokens expired, together

ASSUME AccountAssumption ==
    /\ IsFiniteSet(Web) /\ IsFiniteSet(Id)
    /\ None \notin Email \cup Id /\ None \notin {"verify", "reset"}
    /\ DOMAIN Earlier \subseteq Id /\ IsInjective(Earlier)
    /\ Range(Earlier) \subseteq Email
    /\ {MaxRetries, MaxFaults} \subseteq Nat

VARIABLES
    account,   \* rows of users_user
    token,     \* rows of the two token tables
    queue,     \* tasks in the broker
    task,      \* [Worker -> the task it executes]
    mailed,    \* tokens that were delivered
    call,      \* [Web -> the call it is in]
    drawn,     \* ids drawn so far
    failures, crashes,
    retired,   \* history: passwords that were replaced
    resets,    \* history: [Id -> passwords reset since a reset token was stored]
    vouched    \* history: accounts that were made as verified ones, without a token

vars == <<account, token, queue, task, mailed, call, drawn, failures, crashes, retired, resets, vouched>>

-------------------------------------------------------------------------------------
(* Rows, tasks and calls *)

NoAccount == [email |-> None, verified |-> FALSE, password |-> None]
AccountRow == [email : Email, verified : BOOLEAN, password : Id]

NoToken == [kind |-> None, user |-> None, used |-> FALSE, expired |-> FALSE]
TokenRow == [kind : {"verify", "reset"}, user : Id, used : BOOLEAN, expired : BOOLEAN]

NoTask == [user |-> None, token |-> None, tries |-> 0]
Task == [user : Id, token : Id, tries : 0 .. MaxRetries]

\* pc names the statement the call executes next; row is the user it has read.
NoCall == [pc |-> "idle", op |-> "none", id |-> None, email |-> None, user |-> None,
           token |-> None, row |-> NoAccount]
Call == [pc : {"idle", "insert", "store", "enqueue", "commit", "consume", "save"},
         op : {"none", "register", "verify", "reset", "password"},
         id : Id \cup {None}, email : Email \cup {None}, user : Id \cup {None},
         token : Id \cup {None}, row : AccountRow \cup {NoAccount}]

\* get_user_by_email; the row an uncommitted registration has inserted.
Registered(e) == \E u \in Id : account[u].email = e
Inserted(p, e) == call[p].op = "register" /\ call[p].pc \in {"enqueue", "commit"} /\ call[p].email = e

\* is_valid, of a token that came with a mail.
IsValid(t) == t \in mailed /\ ~token[t].used /\ ~token[t].expired

\* The bound on what goes wrong.
FaultsLeft == failures + crashes + Cardinality({t \in Id : token[t].expired}) < MaxFaults

NewId == CHOOSE i \in Id : i \notin drawn

Goto(p, r) == call' = [call EXCEPT ![p] = r]

\* A call that arrives at an idle thread.
Start(p, r) ==
    /\ call[p] = NoCall
    /\ drawn # Id
    /\ Goto(p, [r EXCEPT !.id = NewId])
    /\ drawn' = drawn \cup {NewId}
    /\ UNCHANGED <<account, token, queue, task, mailed, failures, crashes, retired, resets, vouched>>

Init ==
    /\ account = [i \in Id |->
          IF i \in DOMAIN Earlier
          THEN [email |-> Earlier[i], verified |-> TRUE, password |-> i] ELSE NoAccount]
    /\ token = [i \in Id |->
          IF i \in DOMAIN Earlier
          THEN [kind |-> "verify", user |-> i, used |-> TRUE, expired |-> FALSE] ELSE NoToken]
    /\ queue = {}
    /\ task = [w \in Worker |-> NoTask]
    /\ mailed = {}
    /\ call = [p \in Web |-> NoCall]
    /\ drawn = DOMAIN Earlier
    /\ failures = 0 /\ crashes = 0
    /\ retired = {}
    /\ resets = [i \in Id |-> 0]
    /\ vouched = {}

-------------------------------------------------------------------------------------
(* register_user, in one transaction *)

\* create_user: SELECT by email; Conflict if there is one.
Register(p, e) ==
    /\ ~Registered(e)
    /\ Start(p, [NoCall EXCEPT !.pc = "insert", !.op = "register", !.email = e])

\* Wrong on purpose: email is not unique.
InsertUser_NotUnique(p) ==
    /\ call[p].pc = "insert"
    /\ Goto(p, [call[p] EXCEPT !.pc = "enqueue", !.user = call[p].id, !.token = call[p].id])
    /\ UNCHANGED <<account, token, queue, task, mailed, drawn, failures, crashes, retired, resets, vouched>>

\* INSERT the user, the Free subscription and the token.  The unique index waits for
\* another uncommitted row with the email, and rolls back if there is a committed one.
InsertUser(p) ==
    LET e == call[p].email IN
    /\ call[p].pc = "insert"
    /\ \A q \in Web \ {p} : ~Inserted(q, e)
    /\ \/ Registered(e) /\ Goto(p, NoCall)
       \/ /\ ~Registered(e)
          /\ Goto(p, [call[p] EXCEPT !.pc = "enqueue", !.user = call[p].id, !.token = call[p].id])
    /\ UNCHANGED <<account, token, queue, task, mailed, drawn, failures, crashes, retired, resets, vouched>>

\* COMMIT, after send_verification_email.delay.
CommitUser(p) ==
    LET i == call[p].id IN
    /\ call[p].pc = "commit"
    /\ account' = [account EXCEPT ![i] = [email |-> call[p].email, verified |-> FALSE, password |-> i]]
    /\ token' = [token EXCEPT ![i] = [kind |-> "verify", user |-> i, used |-> FALSE, expired |-> FALSE]]
    /\ Goto(p, NoCall)
    /\ UNCHANGED <<queue, task, mailed, drawn, failures, crashes, retired, resets, vouched>>

(* resend_verification, request_password_reset *)

\* get_user_by_email; nothing to do for an unknown address or a verified account.
Request(p, u, kind) ==
    /\ account[u] # NoAccount
    /\ kind = "verify" => ~account[u].verified
    /\ Start(p, [NoCall EXCEPT !.pc = "store", !.op = kind, !.user = u])

\* INSERT the hash of a new token, committed by itself.
StoreToken(p) ==
    LET t == call[p].id
        u == call[p].user IN
    /\ call[p].pc = "store"
    /\ token' = [token EXCEPT ![t] = [kind |-> call[p].op, user |-> u, used |-> FALSE, expired |-> FALSE]]
    /\ resets' = IF call[p].op = "reset" THEN [resets EXCEPT ![u] = 0] ELSE resets
    /\ Goto(p, [call[p] EXCEPT !.pc = "enqueue", !.token = t])
    /\ UNCHANGED <<account, queue, task, mailed, drawn, failures, crashes, retired, vouched>>

\* .delay() hands the task to the broker at once, inside a transaction or not.
Enqueue(p) ==
    /\ call[p].pc = "enqueue"
    /\ queue' = queue \cup {[user |-> call[p].user, token |-> call[p].token, tries |-> 0]}
    /\ Goto(p, IF call[p].op = "register" THEN [call[p] EXCEPT !.pc = "commit"] ELSE NoCall)
    /\ UNCHANGED <<account, token, task, mailed, drawn, failures, crashes, retired, resets, vouched>>

(* verify_email, confirm_password_reset *)

\* SELECT the token with its user, and the validity check, without a lock.
Present(p, t) ==
    /\ IsValid(t)
    /\ Start(p, [NoCall EXCEPT !.pc = "consume", !.op = token[t].kind, !.token = t,
                               !.user = token[t].user, !.row = account[token[t].user]])

\* Wrong on purpose: user.save() writes the row as it was read.
VerifyUser_FullSave(p) ==
    LET c == call[p] IN
    /\ c.pc = "consume" /\ c.op = "verify"
    /\ token' = [token EXCEPT ![c.token].used = TRUE]
    /\ account' = [account EXCEPT ![c.user] = [c.row EXCEPT !.verified = TRUE]]
    /\ Goto(p, NoCall)
    /\ UNCHANGED <<queue, task, mailed, drawn, failures, crashes, retired, resets, vouched>>

\* Wrong on purpose: without transaction.atomic the token is used up before the
\* account is verified.
VerifyUser_Autocommit(p) ==
    LET c == call[p] IN
    /\ c.pc = "consume" /\ c.op = "verify"
    /\ \/ /\ ~token[c.token].used
          /\ token' = [token EXCEPT ![c.token].used = TRUE]
          /\ UNCHANGED <<account, call>>
       \/ /\ token[c.token].used
          /\ account' = [account EXCEPT ![c.user].verified = TRUE]
          /\ Goto(p, NoCall)
          /\ UNCHANGED token
    /\ UNCHANGED <<queue, task, mailed, drawn, failures, crashes, retired, resets, vouched>>

\* One transaction: the token is used, the account, if not yet, verified.
VerifyUser(p) ==
    LET c == call[p] IN
    /\ c.pc = "consume" /\ c.op = "verify"
    /\ token' = [token EXCEPT ![c.token].used = TRUE]
    /\ account' = IF c.row.verified THEN account ELSE [account EXCEPT ![c.user].verified = TRUE]
    /\ Goto(p, NoCall)
    /\ UNCHANGED <<queue, task, mailed, drawn, failures, crashes, retired, resets, vouched>>

\* Wrong on purpose: the token is left as it is.
ResetPassword_NotConsumed(p) ==
    LET c == call[p] IN
    /\ c.pc = "consume" /\ c.op = "reset"
    /\ account' = [account EXCEPT ![c.user].password = c.id]
    /\ retired' = retired \cup {account[c.user].password}
    /\ token' = [t \in Id |-> IF token[t].kind = "reset" /\ token[t].user = c.user /\ t # c.token
                              THEN [token[t] EXCEPT !.used = TRUE] ELSE token[t]]
    /\ resets' = [resets EXCEPT ![c.user] = @ + 1]
    /\ Goto(p, NoCall)
    /\ UNCHANGED <<queue, task, mailed, drawn, failures, crashes, vouched>>

\* One transaction, serialized by the UPDATE of the user's row: the password, the
\* token, and all other reset tokens of the user that are not used.
ResetPassword(p) ==
    LET c == call[p] IN
    /\ c.pc = "consume" /\ c.op = "reset"
    /\ account' = [account EXCEPT ![c.user].password = c.id]
    /\ retired' = retired \cup {account[c.user].password}
    /\ token' = [t \in Id |-> IF token[t].kind = "reset" /\ token[t].user = c.user
                              THEN [token[t] EXCEPT !.used = TRUE] ELSE token[t]]
    /\ resets' = [resets EXCEPT ![c.user] = @ + 1]
    /\ Goto(p, NoCall)
    /\ UNCHANGED <<queue, task, mailed, drawn, failures, crashes, vouched>>

(* change_password *)

\* The current password is compared with request.user, the row that was read when
\* the request was authenticated.
ChangePassword(p, u) ==
    /\ account[u].verified
    /\ Start(p, [NoCall EXCEPT !.pc = "save", !.op = "password", !.user = u])

\* UPDATE of the password by primary key, whatever it is by now.
SavePassword(p) ==
    LET c == call[p] IN
    /\ c.pc = "save"
    /\ account' = [account EXCEPT ![c.user].password = c.id]
    /\ retired' = retired \cup {account[c.user].password}
    /\ Goto(p, NoCall)
    /\ UNCHANGED <<token, queue, task, mailed, drawn, failures, crashes, resets, vouched>>

-------------------------------------------------------------------------------------
(* send_verification_email, send_password_reset_email *)

\* Wrong on purpose: the task does not look the user up.
TakeTask_NoLookup(w) ==
    /\ task[w] = NoTask
    /\ \E k \in queue : task' = [task EXCEPT ![w] = k] /\ queue' = queue \ {k}
    /\ UNCHANGED <<account, token, mailed, call, drawn, failures, crashes, retired, resets, vouched>>

\* The worker acknowledges a task and SELECTs the user; without one it is done.
TakeTask(w) ==
    /\ task[w] = NoTask
    /\ \E k \in queue :
          /\ queue' = queue \ {k}
          /\ \/ account[k.user] # NoAccount /\ task' = [task EXCEPT ![w] = k]
             \/ account[k.user] = NoAccount /\ UNCHANGED task
    /\ UNCHANGED <<account, token, mailed, call, drawn, failures, crashes, retired, resets, vouched>>

\* The mail server accepts the message.
SendMail(w) ==
    /\ task[w] # NoTask
    /\ mailed' = mailed \cup {task[w].token}
    /\ task' = [task EXCEPT ![w] = NoTask]
    /\ UNCHANGED <<account, token, queue, call, drawn, failures, crashes, retired, resets, vouched>>

\* Wrong on purpose: max_retries is counted one too far.
SmtpError_OneMore(w) ==
    /\ task[w] # NoTask
    /\ FaultsLeft
    /\ failures' = failures + 1
    /\ queue' = queue \cup {[task[w] EXCEPT !.tries = @ + 1]}
    /\ task' = [task EXCEPT ![w] = NoTask]
    /\ UNCHANGED <<account, token, mailed, call, drawn, crashes, retired, resets, vouched>>

\* Wrong on purpose: fail_silently.
SmtpError_Silent(w) ==
    /\ task[w] # NoTask
    /\ FaultsLeft
    /\ failures' = failures + 1
    /\ task' = [task EXCEPT ![w] = NoTask]
    /\ UNCHANGED <<account, token, queue, mailed, call, drawn, crashes, retired, resets, vouched>>

\* It does not: autoretry_for puts the task back, until the retries are used up.
SmtpError(w) ==
    /\ task[w] # NoTask
    /\ FaultsLeft
    /\ failures' = failures + 1
    /\ \/ /\ task[w].tries < MaxRetries
          /\ queue' = queue \cup {[task[w] EXCEPT !.tries = @ + 1]}
       \/ /\ task[w].tries = MaxRetries
          /\ UNCHANGED queue
    /\ task' = [task EXCEPT ![w] = NoTask]
    /\ UNCHANGED <<account, token, mailed, call, drawn, crashes, retired, resets, vouched>>

(* The environment *)

\* The TTL of a token passes, which is noticed by whoever has it.
Expire(t) ==
    /\ t \in mailed /\ ~token[t].used /\ ~token[t].expired
    /\ FaultsLeft
    /\ token' = [token EXCEPT ![t].expired = TRUE]
    /\ UNCHANGED <<account, queue, task, mailed, call, drawn, failures, crashes, retired, resets, vouched>>

\* A thread is killed, or the broker is down when it calls .delay: a transaction
\* rolls back, what was committed or queued stays.
Crash(p) ==
    /\ call[p] # NoCall
    /\ FaultsLeft
    /\ crashes' = crashes + 1
    /\ Goto(p, NoCall)
    /\ UNCHANGED <<account, token, queue, task, mailed, drawn, failures, retired, resets, vouched>>

\* A worker is killed: its task was acknowledged before, and is lost.
KillWorker(w) ==
    /\ task[w] # NoTask
    /\ FaultsLeft
    /\ crashes' = crashes + 1
    /\ task' = [task EXCEPT ![w] = NoTask]
    /\ UNCHANGED <<account, token, queue, mailed, call, drawn, failures, retired, resets, vouched>>

\* create_superuser, or an administrator's form: the row is INSERTed by itself, with no
\* token and no mail.  It waits for a registration that has inserted the address.
AddUser(e, verified) ==
    /\ drawn # Id
    /\ ~Registered(e) /\ \A q \in Web : ~Inserted(q, e)
    /\ account' = [account EXCEPT ![NewId] = [email |-> e, verified |-> verified, password |-> NewId]]
    /\ vouched' = IF verified THEN vouched \cup {NewId} ELSE vouched
    /\ drawn' = drawn \cup {NewId}
    /\ UNCHANGED <<token, queue, task, mailed, call, failures, crashes, retired, resets>>

Proceed(p) ==
    \/ InsertUser(p) \/ CommitUser(p) \/ StoreToken(p) \/ Enqueue(p)
    \/ VerifyUser(p) \/ ResetPassword(p) \/ SavePassword(p)

Next ==
    \/ \E e \in Email : (\E p \in Web : Register(p, e)) \/ \E v \in BOOLEAN : AddUser(e, v)
    \/ \E p \in Web, u \in Id : \/ \E kind \in {"verify", "reset"} : Request(p, u, kind)
                                \/ ChangePassword(p, u)
    \/ \E p \in Web, t \in Id : Present(p, t)
    \/ \E p \in Web : Proceed(p) \/ Crash(p)
    \/ \E w \in Worker : TakeTask(w) \/ SendMail(w) \/ SmtpError(w) \/ KillWorker(w)
    \/ \E t \in Id : Expire(t)

\* Threads execute the statements of their calls; workers take tasks and carry them out.
Fairness ==
    /\ \A p \in Web : WF_vars(Proceed(p))
    /\ \A w \in Worker : WF_vars(TakeTask(w) \/ SendMail(w))

Spec == Init /\ [][Next]_vars
FairSpec == Spec /\ Fairness

-------------------------------------------------------------------------------------
(* Properties *)

TypeOK ==
    /\ account \in [Id -> AccountRow \cup {NoAccount}]
    /\ token \in [Id -> TokenRow \cup {NoToken}]
    /\ queue \subseteq Task
    /\ task \in [Worker -> Task \cup {NoTask}]
    /\ call \in [Web -> Call]
    /\ mailed \subseteq Id /\ drawn \subseteq Id /\ retired \subseteq Id /\ vouched \subseteq Id
    /\ failures \in Nat /\ crashes \in Nat
    /\ resets \in [Id -> Nat]

\* Two registrations of one address at once both find it free (users/services.py:29);
\* only one of them commits.
OneAccountPerEmail ==
    \A u, v \in Id : account[u] # NoAccount /\ account[u].email = account[v].email => u = v

\* A task is queued before the registration commits (services.py:65), and may
\* outlive a rollback: still, only tokens that are stored are mailed, and to their user.
MailedTokensStored ==
    /\ \A t \in mailed : token[t] # NoToken /\ account[token[t].user] # NoAccount
    /\ \A w \in Worker : task[w] # NoTask => token[task[w].token].user = task[w].user

\* An account is verified if and only if one of its verification tokens has been used, or
\* it was made as a verified one (create_superuser, the admin's add form), whatever was saved
\* to its row in the meantime.  The admin's change form, which can tick and untick
\* is_verified of any account (users/admin.py:19-23), is not modelled.
VerifiedIffUsed ==
    \A u \in Id : account[u].verified <=>
        \/ u \in vouched
        \/ \E t \in Id : token[t].kind = "verify" /\ token[t].user = u /\ token[t].used

\* The confirmations that have found a reset token of u valid.
Confirming(u) == {p \in Web : call[p].pc = "consume" /\ call[p].op = "reset" /\ call[p].user = u}

\* A reset token is not the "One-shot" that models.py:58 calls it: validity is checked
\* without a lock, so calls that have all found a token valid all set a password.  That is
\* the limit: from all the tokens a user has got so far, the other ones that
\* services.py:133 invalidates included, the password is reset at most once per thread.
ResetsBounded == \A u \in Id : resets[u] + Cardinality(Confirming(u)) <= Cardinality(Web)

\* A password that was changed or reset never works again, although every call
\* writes to a row it has read before.
PasswordGone == \A u \in Id : account[u].password \notin retired

\* "retry on transient SMTP errors" (tasks.py:3): the tokens that were asked for, not
\* those of a registration, all get mailed, unless a process dies or the retries are
\* used up.
AskedFor == {t \in Id : token[t] # NoToken /\ token[t].user # t}
MailArrives == []<>(AskedFor \subseteq mailed \/ crashes > 0 \/ failures > MaxRetries)

\* "Create a user and dispatch the verification email" (services.py:42): whoever
\* has registered gets the token that was stored for the account.
RegistrationMailed ==
    \A u \in Id : account[u] # NoAccount /\ token[u] # NoToken ~> \E t \in mailed : token[t].kind = "verify" /\ token[t].user = u

-------------------------------------------------------------------------------------
(* The inductive invariant *)

Busy(p) == call[p].pc # "idle"

\* The operation a call is in and the statement it is at.
CallShape ==
    \A p \in Web :
        /\ ~Busy(p) => call[p] = NoCall
        /\ call[p].pc \in {"insert", "commit"} => call[p].op = "register"
        /\ call[p].pc \in {"store", "consume"} => call[p].op \in {"verify", "reset"}
        /\ call[p].pc \in {"store", "consume", "save"} => account[call[p].user] # NoAccount
        /\ call[p].pc \in {"store", "enqueue", "consume", "save"} => call[p].user \in Id
        /\ call[p].pc \in {"enqueue", "consume"} => call[p].token \in Id

\* An id is drawn once, and is no password until the call that drew it makes it one.
IdsUnused ==
    /\ \A p \in Web : Busy(p) => /\ call[p].id \in drawn \ retired
                                 /\ \A u \in Id : account[u].password # call[p].id
    /\ \A p, q \in Web : Busy(p) /\ Busy(q) /\ call[p].id = call[q].id => p = q
    /\ \A i \in Id \ drawn : /\ account[i] = NoAccount /\ token[i] = NoToken /\ i \notin retired
                             /\ \A u \in Id : account[u].password # i
    /\ \A u, v \in Id : account[u] # NoAccount /\ account[u].password = account[v].password => u = v

\* The rows a call is about to insert are not there yet.
RowsNew ==
    \A p \in Web :
        /\ call[p].op = "register" => account[call[p].id] = NoAccount /\ call[p].email \in Email
        /\ call[p].op = "register" \/ call[p].pc = "store" => token[call[p].id] = NoToken
        /\ call[p].op = "register" /\ call[p].pc # "insert" =>
              call[p].user = call[p].id /\ call[p].token = call[p].id

\* An address whose INSERT waits for its COMMIT is free, and waits once.
EmailsClaimed ==
    \A p \in Web, e \in Email : Inserted(p, e) =>
        ~Registered(e) /\ \A q \in Web \ {p} : ~Inserted(q, e)

\* The token t is stored for u, or will be by the registration that creates u.
Deliverable(u, t) == IF account[u] = NoAccount THEN t = u /\ u \in drawn ELSE token[t] # NoToken /\ token[t].user = u

MailSound ==
    /\ \A p \in Web : call[p].pc = "enqueue" => Deliverable(call[p].user, call[p].token)
    /\ \A k \in queue : Deliverable(k.user, k.token)
    /\ \A w \in Worker : task[w] # NoTask =>
          account[task[w].user] # NoAccount /\ Deliverable(task[w].user, task[w].token)

\* What a call has read of the token and the user it is about to write.
ReadSound ==
    \A p \in Web : call[p].pc = "consume" =>
        /\ token[call[p].token].kind = call[p].op /\ token[call[p].token].user = call[p].user
        /\ call[p].row.verified => account[call[p].user].verified

TokensOwned == \A t \in Id : token[t] # NoToken => account[token[t].user] # NoAccount

\* After a reset, no token of the user is left that was stored before.
ResetsSpent ==
    \A t \in Id : token[t].kind = "reset" /\ ~token[t].used => resets[token[t].user] = 0

IInv ==
    /\ TypeOK /\ CallShape /\ IdsUnused /\ RowsNew /\ EmailsClaimed /\ MailSound /\ ReadSound
    /\ TokensOwned /\ ResetsSpent
    /\ OneAccountPerEmail /\ MailedTokensStored /\ VerifiedIffUsed /\ ResetsBounded /\ PasswordGone
=====================================================================================
