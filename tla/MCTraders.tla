------------------------------ MODULE MCTraders ------------------------------
(***************************************************************************)
(* A small instance of Traders: the flags in the pairs that share a pool   *)
(* and all together, balances with a zero, files with cases that fail in   *)
(* every place.                                                            *)
(***************************************************************************)
EXTENDS Traders
EveryFlag == {"USTUSDC", "USDTUSDC", "SOLMSOL", "SOLSTSOL", "USDTUSDC3POOL", "SOLUSDC", "GSTUSDC",
              "GMTUSDC", "WhirlUSTUSDC", "WhirlSOLUSDC", "SerumWhirl"}
SomeFlags == {EveryFlag, {"GSTUSDC"}, {"GSTUSDC", "GMTUSDC"}, {"SOLMSOL"}, {"USTUSDC", "WhirlUSTUSDC"}}
SomeFiles == {<<>>, <<<<"ok">>, <<"ok", "ok", "ok">>>>, <<<<"ok", "ok">>, <<"ok", "err">>, <<"ok">>>>,
              <<<<"ok", "absent">>>>}
=============================================================================
