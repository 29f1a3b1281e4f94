------------------------------ MODULE MCSubscriptions ------------------------------
(* Subscriptions on small instances for TLC. *)
EXTENDS Subscriptions, TLC

CONSTANTS free, pro   \* model values

\* seed_plans: Free does not expire, Pro lasts a period (here a day).
MCDuration == (free :> 0) @@ (pro :> 1)

\* Processes of a kind, and users, are interchangeable.
MCSymmetry == Permutations(Web) \cup Permutations(Worker)
MCUserSymmetry == MCSymmetry \cup Permutations(User)
====================================================================================
