----------------------------------- MODULE MCRollup -----------------------------------
(* Rollup on small instances for TLC. *)
EXTENDS Rollup, TLC

\* The months from January 2023 to February 2025, counted in days.
MCMonthStart ==
    <<0, 31, 59, 90, 120, 151, 181, 212, 243, 273, 304, 334,
      365, 396, 425, 456, 486, 517, 547, 578, 609, 639, 670, 700, 731, 762>>

\* Day 0 is the last of a month, in turn of each of the twelve of 2024.
MCEpochs == {MCMonthStart[k] - 1 : k \in 14 .. 25}

MCSymmetry == Permutations(User) \cup Permutations(Proc) \cup Permutations(Worker)
=======================================================================================
