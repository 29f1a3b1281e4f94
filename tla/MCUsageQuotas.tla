------------------------------- MODULE MCUsageQuotas -------------------------------
(* UsageQuotas on small instances for TLC. *)
EXTENDS UsageQuotas, TLC

CONSTANTS free, pro, enterprise   \* model values

\* Free and Pro are limited, Enterprise is not; only Pro ends.
MCLimit == (free :> 2) @@ (pro :> 1) @@ (enterprise :> 0)
MCDuration == (free :> 0) @@ (pro :> 3) @@ (enterprise :> 1)

MCSymmetry == Permutations(Proc)
====================================================================================
