----------------------------- MODULE HashWindow -----------------------------
(***************************************************************************)
(* What backend/blockhash.go promises to those who sign transactions: a    *)
(* window of the last three block hashes, read and shifted in one step,    *)
(* that never holds the same hash twice in a row.  Level 0 is the newest.  *)
(***************************************************************************)
EXTENDS Integers, Sequences

CONSTANTS
  Readers,  \* the goroutines that call GetRecentBlockHash
  Hashes,   \* the block hashes of the chain
  Zero      \* the zero hash, the content of the window at the start

VARIABLES
  hashes,   \* the window, oldest first
  given     \* the hash each reader got last

Init ==
  /\ hashes = <<Zero, Zero, Zero>>
  /\ given = [r \in Readers |-> Zero]

\* A refresh: a hash that differs from the newest replaces the oldest.
Shift ==
  /\ \E h \in Hashes : h # hashes[3] /\ hashes' = Tail(Append(hashes, h))
  /\ UNCHANGED given

Get(r) ==
  /\ \E level \in 0..2 : given' = [given EXCEPT ![r] = hashes[3 - level]]
  /\ UNCHANGED hashes

\* A reader is done with its hash.
Drop(r) ==
  /\ given' = [given EXCEPT ![r] = Zero]
  /\ UNCHANGED hashes

Next == Shift \/ \E r \in Readers : Get(r) \/ Drop(r)

Spec == Init /\ [][Next]_<<hashes, given>>
=============================================================================
