---------------------------------- MODULE MCAccounts ----------------------------------
(* Accounts on small instances for TLC. *)
EXTENDS Accounts, TLC

CONSTANTS e1, e2   \* model values

\* One account exists, and an address is free.
MCEarlier == 1 :> e1
MCNobody == <<>>
=======================================================================================
