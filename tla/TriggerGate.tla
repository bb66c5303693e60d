----------------------------- MODULE TriggerGate -----------------------------
(***************************************************************************)
(* What the gate of arbitrage/app/arbitrage.go promises: triggers are      *)
(* taken one at a time, each one taken leads to exactly one calculation,   *)
(* made for the producer that triggered it, and no trigger is taken before *)
(* the calculation of the one before it has ended.  A trigger that was     *)
(* taken may be abandoned only by the end of the engine.                   *)
(***************************************************************************)
CONSTANTS
  Producers, \* who may trigger
  NoOne      \* not a producer

VARIABLES
  phase, \* "shut", "free", "taken", "running", "closed"
  owner  \* the producer of the trigger that was taken, or NoOne

gate == <<phase, owner>>

Init == phase = "shut" /\ owner = NoOne

Open == phase = "shut" /\ phase' = "free" /\ owner' = NoOne

Trigger(p) == phase = "free" /\ phase' = "taken" /\ owner' = p

Calculate == phase = "taken" /\ phase' = "running" /\ UNCHANGED owner

Finish == phase = "running" /\ phase' = "free" /\ owner' = NoOne

Close == phase \in {"free", "taken"} /\ phase' = "closed" /\ owner' = NoOne

Next == Open \/ (\E p \in Producers : Trigger(p)) \/ Calculate \/ Finish \/ Close

Spec == Init /\ [][Next]_gate
=============================================================================
