---------------------------- MODULE MCAccountFeed ----------------------------
(***************************************************************************)
(* A small instance of AccountFeed: one account and two clients.           *)
(***************************************************************************)
EXTENDS AccountFeed
CONSTANTS swapA, here, there

OneAccount == [a \in {swapA} |-> 1]
=============================================================================
