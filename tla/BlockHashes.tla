----------------------------- MODULE BlockHashes -----------------------------
(***************************************************************************)
(* The recent block hashes of backend/blockhash.go.  For every tenth slot  *)
(* CacheRecentBlockHash asks its RPC clients in turn for a finalized block *)
(* hash and shifts it into a window of three; Commit (execute.go) reads    *)
(* the window through GetRecentBlockHash.  Both take the same spin lock.   *)
(*                                                                         *)
(* A block hash is represented by the slot of its block, the zero hash by  *)
(* 0.  The RPC clients are external: a client answers with a slot that is  *)
(* finalized and never goes back, or fails.                                *)
(*                                                                         *)
(* A reader commits the transactions of one opportunity one after another: *)
(* it starts at some level and goes round `size` levels (arbitrage.go,     *)
(* Arbitrage).                                                             *)
(***************************************************************************)
EXTENDS Integers, Sequences

CONSTANTS
  NClients,  \* number of RPC clients, len(backend.blockHash)
  Readers,   \* the goroutines that call Commit
  OldLimit,  \* 90: a hash this many slots behind the request is too old
  Every,     \* 10: one slot out of Every asks for a hash
  SlotWord,  \* 2^64: slots are uint64
  Lag,       \* finalized slots are at least Lag behind the newest
  QueueCap,  \* capacity of updateBlockHash (1024)
  MaxSlot    \* bound: the chain stops there

ASSUME HashAssumption ==
  /\ NClients \in Nat \ {0}
  /\ OldLimit \in Nat /\ Every \in Nat \ {0} /\ Lag \in Nat
  /\ QueueCap \in Nat \ {0}
  /\ MaxSlot \in Nat /\ MaxSlot > Lag
  /\ SlotWord \in Nat /\ SlotWord > MaxSlot + OldLimit

Clients == 0 .. NClients - 1
Slots == 1 .. MaxSlot
Zero == 0

VARIABLES
  tip,       \* the newest slot of the chain
  final,     \* per client: the last finalized slot it answered
  queue,     \* updateBlockHash
  pc,        \* where CacheRecentBlockHash is
  index,     \* the client it asks next
  slot,      \* the slot of the request it works on
  answer,    \* the slot of getRecentBlockHashResult
  tries,     \* i of the loop: the tries that failed or gave a hash that is too old
  asked,     \* history: the clients asked for this request
  window,    \* backend.cachedBlockHash
  lock,      \* backend.lock
  reader     \* per reader: where it is, its levels, what it got

hashVars == <<tip, final, queue, pc, index, slot, answer, tries,
              asked, window, lock, reader>>
worldVars == <<tip, queue>>
loopVars == <<final, index, slot, answer, tries, asked>>
locals == <<slot, answer, tries, asked>>

Refreshing == {"select", "fetch", "check", "lock", "append", "trim", "unlock", "done"}
Places == {"idle", "lock", "read", "unlock"}

\* The comparison of line 47, on unsigned numbers.
TooOld(s, h) == (s - h) % SlotWord > OldLimit

\* `hash` is what the last read of the opportunity returned, at level `used`.
\* `moved` is a history variable: how often the window moved since, up to 2; it is
\* 2 before the first read.
Fresh(at, size, level, left) ==
  [at |-> at, size |-> size, level |-> level, left |-> left,
   used |-> 0, hash |-> Zero, moved |-> 2]
Idle == Fresh("idle", 1, 0, 0)

\* A reader after one of its transactions: done, or at the next level.
NextCommit(x) ==
  IF x.left = 1 THEN Idle
  ELSE [x EXCEPT !.at = "lock", !.left = x.left - 1, !.level = (x.level + 1) % x.size]

HashInit ==
  /\ tip = Lag + 1
  /\ final = [c \in Clients |-> 1]
  /\ queue = <<>>
  /\ pc = "select"
  /\ index = 0
  /\ slot = 0
  /\ answer = Zero
  /\ tries = 0 /\ asked = {}
  /\ window = <<Zero, Zero, Zero>>
  /\ lock = 0
  /\ reader = [r \in Readers |-> Idle]

\* The next request: the variables of this one are gone.
Continue ==
  pc' = "select" /\ slot' = Zero /\ answer' = Zero /\ tries' = 0 /\ asked' = {}

-----------------------------------------------------------------------------
(* Faulty variants of some of the actions below, which show that the       *)
(* properties tell them from the code.  No specification uses them.        *)

\* An error ends the request.
FetchFailsEnds ==
  /\ pc = "fetch"
  /\ index' = (index + 1) % NClients /\ Continue
  /\ UNCHANGED <<worldVars, final, window, lock, reader>>

\* The clients are tried for ever.
FetchFailsRetries ==
  /\ pc = "fetch"
  /\ index' = (index + 1) % NClients
  /\ UNCHANGED <<worldVars, final, pc, locals, window, lock, reader>>

\* The answer is compared with the oldest hash.
CheckOldest ==
  /\ pc = "check"
  /\ IF window[1] = answer THEN Continue ELSE pc' = "lock" /\ UNCHANGED locals
  /\ UNCHANGED <<worldVars, final, index, window, lock, reader>>

\* [:3] instead of [1:].
TrimNewest ==
  /\ pc = "trim"
  /\ window' = SubSeq(window, 1, 3)
  /\ pc' = "unlock"
  /\ UNCHANGED <<worldVars, loopVars, lock, reader>>

\* A plain store instead of the compare-and-swap.
LockWindowStores(r) ==
  /\ reader[r].at = "lock"
  /\ lock' = 1
  /\ reader' = [reader EXCEPT ![r].at = "read"]
  /\ UNCHANGED <<worldVars, pc, loopVars, window>>

\* cachedBlockHash[level] instead of cachedBlockHash[2-level].
ReadOldestFirst(r) ==
  /\ reader[r].at = "read"
  /\ reader' = [reader EXCEPT ![r].at = "unlock",
                              ![r].used = reader[r].level,
                              ![r].hash = window[1 + reader[r].level],
                              ![r].moved = 0]
  /\ UNCHANGED <<worldVars, pc, loopVars, window, lock>>

-----------------------------------------------------------------------------
(* The chain and the slot feeds.                                           *)

NewSlot ==
  /\ tip < MaxSlot
  /\ tip' = tip + 1
  /\ UNCHANGED <<queue, pc, loopVars, window, lock, reader>>

\* RecvSlot: the websocket clients are not at the same slot, so that a slot
\* may come twice or after a later one.
AskBlockHash ==
  /\ Len(queue) < QueueCap
  /\ \E s \in Slots :
       /\ s <= tip /\ s % Every = 0
       /\ queue' = Append(queue, s)
  /\ UNCHANGED <<tip, pc, loopVars, window, lock, reader>>

-----------------------------------------------------------------------------
(* CacheRecentBlockHash.                                                   *)

Select ==
  /\ pc = "select"
  /\ queue # <<>>
  /\ slot' = Head(queue)
  /\ queue' = Tail(queue)
  /\ answer' = Zero
  /\ tries' = 0 /\ asked' = {}
  /\ pc' = "fetch"
  /\ UNCHANGED <<tip, final, index, window, lock, reader>>

\* The client at `index` is asked, and is not the one of the next call when it
\* failed or its hash is too old.
Ask == asked' = asked \cup {index}
Rotate == index' = (index + 1) % NClients
LastTry == tries + 1 = NClients

\* err != nil.  Only the error of the last client ends the request.
FetchFails ==
  /\ pc = "fetch"
  /\ Rotate
  /\ IF LastTry THEN Continue ELSE Ask /\ tries' = tries + 1 /\ UNCHANGED <<pc, slot, answer>>
  /\ UNCHANGED <<worldVars, final, window, lock, reader>>

\* The client answers with h.
Answered(h) ==
  /\ pc = "fetch"
  /\ h >= final[index] /\ h <= tip - Lag
  /\ final' = [final EXCEPT ![index] = h]
  /\ answer' = h
  /\ Ask
  /\ UNCHANGED <<worldVars, slot, window, lock, reader>>

FetchOld ==
  \E h \in Slots :
    /\ Answered(h)
    /\ TooOld(slot, h)
    /\ Rotate /\ tries' = tries + 1
    /\ pc' = IF LastTry THEN "check" ELSE "fetch"

FetchFresh ==
  \E h \in Slots :
    /\ Answered(h)
    /\ ~TooOld(slot, h)
    /\ pc' = "check"
    /\ UNCHANGED <<index, tries>>

Check ==
  /\ pc = "check"
  /\ IF window[3] = answer THEN Continue ELSE pc' = "lock" /\ UNCHANGED locals
  /\ UNCHANGED <<worldVars, final, index, window, lock, reader>>

Lock ==
  /\ pc = "lock"
  /\ lock = 0
  /\ lock' = 1
  /\ pc' = "append"
  /\ UNCHANGED <<worldVars, loopVars, window, reader>>

\* (The readers only count the move.)
AppendHash ==
  /\ pc = "append"
  /\ window' = Append(window, answer)
  /\ reader' = [r \in Readers |->
                  [reader[r] EXCEPT !.moved = IF @ = 0 THEN 1 ELSE 2]]
  /\ pc' = "trim"
  /\ UNCHANGED <<worldVars, loopVars, lock>>

Trim ==
  /\ pc = "trim"
  /\ window' = Tail(window)
  /\ pc' = "unlock"
  /\ UNCHANGED <<worldVars, loopVars, lock, reader>>

Unlock ==
  /\ pc = "unlock"
  /\ lock' = 0
  /\ Continue
  /\ UNCHANGED <<worldVars, final, index, window, reader>>

-----------------------------------------------------------------------------
(* GetRecentBlockHash, as Commit calls it.                                 *)

\* An opportunity with `left` transactions, the first one at `level`.
Opportunity(r) ==
  /\ reader[r].at = "idle"
  /\ \E size \in 1..3, left \in 1..3 : \E level \in 0 .. size - 1 :
       reader' = [reader EXCEPT ![r] = Fresh("lock", size, level, left)]
  /\ UNCHANGED <<worldVars, pc, loopVars, window, lock>>

LockWindow(r) ==
  /\ reader[r].at = "lock"
  /\ lock = 0
  /\ lock' = 1
  /\ reader' = [reader EXCEPT ![r].at = "read"]
  /\ UNCHANGED <<worldVars, pc, loopVars, window>>

Read(r) ==
  /\ reader[r].at = "read"
  /\ reader' = [reader EXCEPT ![r].at = "unlock",
                              ![r].used = reader[r].level,
                              ![r].hash = window[3 - reader[r].level],
                              ![r].moved = 0]
  /\ UNCHANGED <<worldVars, pc, loopVars, window, lock>>

\* The deferred store, and the level of the next Commit.
UnlockWindow(r) ==
  /\ reader[r].at = "unlock"
  /\ lock' = 0
  /\ reader' = [reader EXCEPT ![r] = NextCommit(reader[r])]
  /\ UNCHANGED <<worldVars, pc, loopVars, window>>

-----------------------------------------------------------------------------
World == NewSlot \/ AskBlockHash
Fetch == FetchFails \/ FetchOld \/ FetchFresh
CacheRecentBlockHash ==
  Select \/ Fetch \/ Check \/ Lock \/ AppendHash \/ Trim \/ Unlock
GetRecentBlockHash(r) == LockWindow(r) \/ Read(r) \/ UnlockWindow(r)

HashNext ==
  \/ World
  \/ CacheRecentBlockHash
  \/ \E r \in Readers : Opportunity(r) \/ GetRecentBlockHash(r)

SafeSpec == HashInit /\ [][HashNext]_hashVars

(***************************************************************************)
(* Fairness.  The goroutines run and every RPC call ends, with an answer   *)
(* or with an error.  The loops around the compare-and-swap poll without   *)
(* pause while the lock is held for a few instructions: strong fairness.   *)
(***************************************************************************)
Fairness ==
  /\ WF_hashVars(CacheRecentBlockHash)
  /\ SF_hashVars(Lock)
  /\ \A r \in Readers : WF_hashVars(Read(r) \/ UnlockWindow(r)) /\ SF_hashVars(LockWindow(r))

HashSpec == SafeSpec /\ Fairness

-----------------------------------------------------------------------------
(* Properties.                                                             *)

ReaderType ==
  [at : Places, size : 1..3, level : 0..2, left : 0..3,
   used : 0..2, hash : {Zero} \cup Slots, moved : 0..2]

HashTypeOK ==
  /\ tip \in Slots
  /\ final \in [Clients -> Slots]
  /\ queue \in Seq(Slots) /\ Len(queue) <= QueueCap
  /\ pc \in Refreshing
  /\ index \in Clients
  /\ slot \in {Zero} \cup Slots
  /\ answer \in {Zero} \cup Slots
  /\ tries \in 0 .. NClients /\ (pc = "fetch" => tries < NClients)
  /\ asked \subseteq Clients
  /\ window \in Seq({Zero} \cup Slots)
  /\ lock \in {0, 1}
  /\ reader \in [Readers -> ReaderType]

Writing == pc \in {"append", "trim", "unlock"}
Holding == {r \in Readers : reader[r].at \in {"read", "unlock"}}

\* The compare-and-swap loops make lock a mutual exclusion between
\* CacheRecentBlockHash and the goroutines in GetRecentBlockHash, and nobody
\* indexes the window while it is one hash too long between append and [1:].
Exclusive ==
  /\ \A r, q \in Holding : r = q
  /\ Holding # {} => ~Writing
  /\ lock = 1 <=> Holding # {} \/ Writing
  /\ Len(window) = IF pc = "trim" THEN 4 ELSE 3

\* Neighbours in the window differ, but for the zero hashes of the start: the
\* comparison of line 61, made before the lock is taken, still holds when the
\* hash is appended.
NeighboursDiffer ==
  \A i \in 1 .. Len(window) - 1 : window[i] = window[i + 1] => window[i] = Zero

\* What the comparison is for: the transactions of one opportunity are told
\* apart by the hashes of neighbouring levels.  They are unless the window moves
\* between two of them: then the next level holds the hash already used.
Repeats ==
  [][\A r \in Readers : Read(r) =>
       LET old == reader[r]
           new == reader'[r]
       IN /\ old.moved = 0 /\ new.used \in {old.used - 1, old.used + 1}
                => new.hash # old.hash \/ old.hash = Zero
          /\ old.moved = 1 /\ new.used = old.used + 1 => new.hash = old.hash]_hashVars

\* CacheRecentBlockHash gives up a request, or uses a hash that is too old, only
\* after it has asked every client.
AsksAll ==
  [][pc = "fetch" /\ pc' # "fetch"
       => asked \cup {index} = Clients \/ (pc' = "check" /\ ~TooOld(slot, answer'))]_hashVars

\* The window under its lock is the atomic window of HashWindow.
Seen == IF pc = "trim" THEN Tail(window) ELSE window
Given == [r \in Readers |-> reader[r].hash]
Atomic == INSTANCE HashWindow WITH Hashes <- Slots, hashes <- Seen, given <- Given
WindowAtomic == Atomic!Spec

\* Commit gets its hash: the loop of GetRecentBlockHash ends.
ReaderServed ==
  \A r \in Readers : reader[r].at = "lock" ~> reader[r].at = "unlock"

\* A request ends, whatever the clients answer, and the next one can begin.
RefreshEnds == pc = "fetch" ~> pc = "select"

\* Both loops that spin for the lock come to their ends, and a request for a hash with
\* them: neither a reader nor CacheRecentBlockHash is left outside.
SpinsEnd == ReaderServed /\ RefreshEnds
=============================================================================
