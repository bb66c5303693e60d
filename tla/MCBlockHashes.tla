---------------------------- MODULE MCBlockHashes ----------------------------
(***************************************************************************)
(* Small instances of BlockHashes.  The reader is Tick, the only goroutine  *)
(* of the engine that commits.                                             *)
(***************************************************************************)
EXTENDS BlockHashes
CONSTANT tick
=============================================================================
