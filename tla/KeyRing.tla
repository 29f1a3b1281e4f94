---------------------------------- MODULE KeyRing ----------------------------------
(***************************************************************************)
(* What the API key component promises its callers, with no statements, no *)
(* locks and no processes: a user has a bounded ring of working keys, to   *)
(* which keys that were never used are added, and from which they are      *)
(* revoked for good or replaced in a single step.                          *)
(***************************************************************************)
EXTENDS Naturals, FiniteSets

CONSTANTS User, KeyId, Most

VARIABLES
    ring,   \* [User -> SUBSET KeyId]: the user's working keys
    dead,   \* the keys that have been revoked
    heirs   \* pairs of a key and the one that was issued in its place

vars == <<ring, dead, heirs>>

Unused(k) == k \notin dead /\ \A u \in User : k \notin ring[u]

Init ==
    /\ ring = [u \in User |-> {}]
    /\ dead = {}
    /\ heirs = {}

Issue(u, k) ==
    /\ Unused(k)
    /\ Cardinality(ring[u]) < Most
    /\ ring' = [ring EXCEPT ![u] = @ \cup {k}]
    /\ UNCHANGED <<dead, heirs>>

Revoke(u, k) ==
    /\ ring' = [ring EXCEPT ![u] = @ \ {k}]
    /\ dead' = dead \cup {k}
    /\ UNCHANGED heirs

\* The new key works from the instant at which the old one stops; the ring stays as large.
Rotate(u, old, new) ==
    /\ Unused(new)
    /\ ring' = [ring EXCEPT ![u] = (@ \ {old}) \cup {new}]
    /\ dead' = dead \cup {old}
    /\ heirs' = heirs \cup {<<old, new>>}

Next ==
    \E u \in User :
        \/ \E k \in KeyId : Issue(u, k)
        \/ \E k \in ring[u] : Revoke(u, k) \/ \E new \in KeyId : Rotate(u, k, new)

Spec == Init /\ [][Next]_vars
====================================================================================
