------------------------------ MODULE MCCommits ------------------------------
(***************************************************************************)
(* Small instances of Commits: a path with USDC in the middle and one      *)
(* without USDC.                                                           *)
(***************************************************************************)
EXTENDS Commits, TLC
CONSTANTS usdc, sol, ray, direct, other

TwoCycles == direct :> <<sol, usdc, ray>> @@ other :> <<ray, sol>>
OneCycle == direct :> <<sol, usdc, ray>>
=============================================================================
