----------------------------- MODULE MCDelivery -----------------------------
(***************************************************************************)
(* A small instance of Delivery: two nodes with two executors, one sender  *)
(* service.  The capacities are 1, so that every channel fills.            *)
(***************************************************************************)
EXTENDS Delivery
=============================================================================
