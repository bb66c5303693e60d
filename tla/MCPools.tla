------------------------------- MODULE MCPools -------------------------------
(***************************************************************************)
(* A small instance of Pools: each program has a pool that trades, one of  *)
(* another curve or that is paused or has no vault, and accounts that are  *)
(* of another program or of another size.                                  *)
(***************************************************************************)
EXTENDS Pools
Account(owner, curve, tokens, name, sound, paused) ==
  [owner |-> owner, curve |-> curve, tokenA |-> tokens[1], tokenB |-> tokens[2],
   swapA |-> <<name, "A">>, swapB |-> <<name, "B">>, adminA |-> <<name, "adminA">>,
   adminB |-> <<name, "adminB">>, sound |-> sound, paused |-> paused]
SU == <<"SOL", "USDC">>
UM == <<"USDC", "MSOL">>
SomeAccounts ==
  [orca |-> Account("orca", "product", SU, "orca", TRUE, FALSE),
   flat |-> Account("orca", "stable", SU, "flat", TRUE, FALSE),
   par |-> Account("orca", "price", UM, "par", TRUE, FALSE),
   peg |-> Account("tokenswap", "price", SU, "peg", TRUE, FALSE),
   short |-> Account("orca", "product", SU, "short", FALSE, FALSE),
   swap |-> Account("tokenswap", "product", UM, "swap", TRUE, FALSE),
   saber |-> Account("saber", "saber", SU, "saber", TRUE, FALSE),
   msol |-> Account("saber", "saber", UM, "msol", TRUE, FALSE),
   still |-> Account("saber", "saber", SU, "still", TRUE, TRUE),
   gone |-> Account("saber", "saber", SU, "gone", TRUE, FALSE),
   ray |-> Account("raydium", "amm", SU, "ray", TRUE, FALSE)]
Moving == {<<40, 60>>, <<75, 33>>, <<120, 110>>}
SomeReserves ==
  [k \in DOMAIN SomeAccounts |-> IF k \in {"orca", "saber"} THEN Moving
                                 ELSE IF k = "swap" THEN Moving \ {<<120, 110>>} ELSE {<<50, 50>>}]
AtFirst == [k \in DOMAIN SomeAccounts |-> IF k \in {"orca", "saber", "swap"} THEN <<40, 60>> ELSE <<50, 50>>]
SomeUsers == [SOL |-> "uSOL", USDC |-> "uUSDC", MSOL |-> "zero"]
SomeLost == {<<"gone", "B">>}
=============================================================================
