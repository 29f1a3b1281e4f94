---------------------------- MODULE SubscriptionLedger ----------------------------
(***************************************************************************)
(* What the subscriptions component promises its callers, with no          *)
(* transactions, no locks and no processes: every user has at most one     *)
(* open subscription, a user who has one is moved to the next in a single  *)
(* step and is never left without, and a closed subscription stays closed. *)
(***************************************************************************)
CONSTANTS User, SubId, NoSub

VARIABLES
    open,    \* [User -> SubId \cup {NoSub}]: the subscription the user is on
    closed   \* the subscriptions that have ended

vars == <<open, closed>>

Unused(s) == s \notin closed /\ \A u \in User : open[u] # s

Init ==
    /\ open = [u \in User |-> NoSub]
    /\ closed = {}

\* A user without a subscription gets a first one.
Enrol(u, s) ==
    /\ open[u] = NoSub
    /\ Unused(s)
    /\ open' = [open EXCEPT ![u] = s]
    /\ UNCHANGED closed

\* The user's subscription ends and the next one starts, in one step.
Replace(u, s) ==
    /\ open[u] # NoSub
    /\ Unused(s)
    /\ open' = [open EXCEPT ![u] = s]
    /\ closed' = closed \cup {open[u]}

Next == \E u \in User, s \in SubId : Enrol(u, s) \/ Replace(u, s)

Spec == Init /\ [][Next]_vars
===================================================================================
