----------------------------- MODULE MCRequestPipeline -----------------------------
(* RequestPipeline on small instances for TLC. *)
EXTENDS RequestPipeline, TLC

CONSTANTS alice, bob, free, pro, anon   \* model values

\* Alice has Pro; Bob, of the staff, has no subscription.
MCPlanOf == (alice :> pro) @@ (bob :> None)
MCRate == (free :> 1) @@ (pro :> 2) @@ (anon :> 1)

From(view, cred, cookie) == [view |-> view, cred |-> cred, cookie |-> cookie]

\* API calls with a credential; a browser that is signed in to the admin site; refused
\* credentials; anonymous calls.
MCSent ==
    {From("own", alice, alice), From("own", None, alice),
     From("staff", alice, bob), From("staff", bob, None), From("login", Bad, alice),
     From("plans", bob, alice), From("nowhere", bob, alice)}

\* And calls with a token alone.
MCSentToken == MCSent \cup {From("own", alice, None)}

MCSymmetry == Permutations(Proc)
====================================================================================
