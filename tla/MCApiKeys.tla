-------------------------------- MODULE MCApiKeys --------------------------------
(* ApiKeys on small instances for TLC. *)
EXTENDS ApiKeys, TLC

CONSTANTS free, pro   \* model values

\* seed_plans: Free allows one key, Pro more (here two).
MCMaxKeys == (free :> 1) @@ (pro :> 2)

\* Threads are interchangeable, if all or none can be killed.
MCSymmetry == Permutations(Proc)
==================================================================================
