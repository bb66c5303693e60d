----------------------------- MODULE MCTpuProxy -----------------------------
(***************************************************************************)
(* A small instance of TpuProxy: one leader, windows of 1 and 4 slots,     *)
(* rounds every other slot.  The proxy of the trader is looked at over     *)
(* four rounds, that of the sender service with four transactions and      *)
(* places for two.                                                         *)
(***************************************************************************)
EXTENDS TpuProxy
CONSTANT ann

Turns == [s \in 0 .. 31 |-> ann]
SlotBound == [Proxy1 |-> 18, Proxy |-> 9]
TimeBound == [Proxy1 |-> 0, Proxy |-> 2]
CommandBound == [Proxy1 |-> 1, Proxy |-> 4]
=============================================================================
