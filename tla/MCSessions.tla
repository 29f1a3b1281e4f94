---------------------------------- MODULE MCSessions ----------------------------------
(* Sessions on small instances for TLC. *)
EXTENDS Sessions, TLC

CONSTANTS free, pro   \* model values

\* Threads are interchangeable.
MCSymmetry == Permutations(Proc)
=======================================================================================
