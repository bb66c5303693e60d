---------------------------- MODULE MCTradeGate ----------------------------
(***************************************************************************)
(* Small instances of TradeGate: one websocket client as in every shipped  *)
(* config.json (f1, t1), the SPL token updater, in the run on liveness a   *)
(* Serum updater too, one account receiver for each, channels of capacity  *)
(* 1, and one sink at most: the first that is full holds the calculation.  *)
(***************************************************************************)
EXTENDS TradeGate, TLC

CONSTANTS f1, t1, spl, serum, r1, r2, notify

OnePair == t1 :> f1
OneTarget == r1 :> spl
TwoTargets == r1 :> spl @@ r2 :> serum
NoTarget == <<>>
=============================================================================
