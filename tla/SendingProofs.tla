---------------------------- MODULE SendingProofs ----------------------------
(*****************************************************************************)
(* Theorems about what a commit sends: the window of block hashes its        *)
(* transactions take their hashes from (BlockHashes) and the decision what   *)
(* to send (Commits).                                                        *)
(*                                                                           *)
(* BlockHashes, for any number of RPC clients and readers: the types, the    *)
(* spin lock, what the window holds, what two transactions of one opportunity *)
(* read from it, that the clients are asked in turn, and that the window     *)
(* implements HashWindow.                                                    *)
(*                                                                           *)
(* Commits, for every set of paths, amounts and yields and every             *)
(* configuration.  The block hash levels, the steps and the amount of what is *)
(* sent are fixed by the call that sends, so that these invariants are       *)
(* inductive as they stand.  How often an opportunity that looks the same is *)
(* taken follows from what the cache still has of the opportunities accepted *)
(* (CacheLimits).                                                            *)
(*****************************************************************************)
EXTENDS BlockHashes, Commits, FiniteSetTheorems, SequenceTheorems,
        WellFoundedInduction, TLAPS

-----------------------------------------------------------------------------
(*****************************************************************************)
(* The block hashes.                                                         *)
(*****************************************************************************)

(***************************************************************************)
(* The inductive invariant: the properties, and what they need.            *)
(***************************************************************************)

\* The result of the clients is a block once the loop has ended with one.
AnswerKnown == pc \in Refreshing \ {"select", "fetch"} => answer \in Slots

\* The comparison of line 61 still holds before the append.
AnswerNew == pc \in {"lock", "append"} => answer # window[3]

\* A reader at work has a transaction left.
WorkLeft == \A r \in Readers : reader[r].at # "idle" => reader[r].left \in 1..3

\* Where the hash read last is now.
Remembered ==
  \A r \in Readers :
    /\ reader[r].moved = 0 => reader[r].hash = Seen[3 - reader[r].used]
    /\ reader[r].moved = 1 /\ reader[r].used \in 0..1
         => reader[r].hash = Seen[2 - reader[r].used]

IInv ==
  /\ HashTypeOK
  /\ Exclusive
  /\ AnswerKnown
  /\ AnswerNew
  /\ WorkLeft
  /\ NeighboursDiffer
  /\ Remembered

-----------------------------------------------------------------------------
\* The next level is a level.
LEMMA NextLevel ==
  ASSUME NEW level \in 0..2, NEW size \in 1..3
  PROVE  (level + 1) % size \in 0..2
<1>1. CASE size = 1  BY <1>1, SMT
<1>2. CASE size = 2  BY <1>2, SMT
<1>3. CASE size = 3  BY <1>3, SMT
<1> QED  BY <1>1, <1>2, <1>3

\* What append does, and what [1:] does.
LEMMA Longer ==
  ASSUME NEW S, NEW w \in Seq(S), NEW h \in S
  PROVE  /\ Append(w, h) \in Seq(S)
         /\ Len(Append(w, h)) = Len(w)+1
         /\ \A i \in 1.. Len(w) : Append(w, h)[i] = w[i]
         /\ Append(w, h)[Len(w)+1] = h
<1>1. Append(w, h) \in Seq(S)
  BY SMTT(30)
<1>2. Len(Append(w, h)) = Len(w)+1
  BY SMTT(30)
<1>3. \A i \in 1.. Len(w) : Append(w, h)[i] = w[i]
  BY SMTT(30)
<1>4. Append(w, h)[Len(w)+1] = h
  BY SMTT(30)
<1> QED BY <1>1, <1>2, <1>3, <1>4, Zenon

\* What is left of the window when its oldest hash is cut off.
LEMMA Shorter ==
  ASSUME NEW S, NEW w \in Seq(S), w # <<>>
  PROVE  /\ Tail(w) \in Seq(S)
         /\ Len(Tail(w)) = Len(w)-1
         /\ \A i \in 1.. Len(w)-1 : Tail(w)[i] = w[i+1]
<1>1. Tail(w) \in Seq(S)
  BY SMTT(30)
<1>2. Len(Tail(w)) = Len(w)-1
  BY SMTT(30)
<1>3. \A i \in 1.. Len(w)-1 : Tail(w)[i] = w[i+1]
  BY SMTT(30)
<1> QED BY <1>1, <1>2, <1>3, Zenon

\* The three places of a full window are filled.
LEMMA Elements ==
  ASSUME NEW S, NEW w \in Seq(S), Len(w) = 3
  PROVE  \A i \in 1..3 : w[i] \in S
<1>1. w \in [1 .. Len(w) -> S]
  OBVIOUS
<1> QED  BY <1>1

\* append and [1:] on a window of three.
LEMMA ShiftedWindow ==
  ASSUME NEW S, NEW w \in Seq(S), Len(w) = 3, NEW h \in S
  PROVE  /\ Append(w, h) \in Seq(S) /\ Len(Append(w, h)) = 4
         /\ \A i \in 1..3 : Append(w, h)[i] = w[i]
         /\ Append(w, h)[4] = h
         /\ Tail(Append(w, h)) \in Seq(S) /\ Len(Tail(Append(w, h))) = 3
         /\ \A i \in 1..2 : Tail(Append(w, h))[i] = w[i + 1]
         /\ Tail(Append(w, h))[3] = h
<1> DEFINE l == Append(w, h)
<1>1. /\ l \in Seq(S) /\ Len(l) = Len(w) + 1 
      /\ \A i \in 1..Len(w) : l[i] = w[i]
      /\ l[Len(w)+1] = h
  <2>1. l \in Seq(S)  BY Longer
  <2>2. Len(l) = Len(w) + 1  BY Longer, SMTT(30)
  <2>3. \A i \in 1..Len(w) : l[i] = w[i]
    <3> TAKE i \in 1..Len(w)
    <3> QED BY SMTT(30)
  <2>4. l[Len(w)+1] = h  BY Longer
  <2> QED BY <2>1, <2>2, <2>3, <2>4
<1> HIDE DEF l
<1>2. /\ l \in Seq(S) /\ Len(l) = 4 
      /\ \A i \in 1..3 : l[i] = w[i]
      /\ l[4] = h
  BY <1>1
<1>3. l # <<>>
  <2> SUFFICES ASSUME l = <<>> PROVE FALSE OBVIOUS
  <2> QED BY <1>2
<1> DEFINE t == Tail(l)
<1>4. /\ t \in Seq(S) /\ Len(t) = Len(l) - 1
      /\ \A i \in 1..Len(l) - 1 : t[i] = l[i + 1]
  BY Shorter, <1>2, <1>3, Zenon
<1> HIDE DEF t
<1>5. /\ t \in Seq(S) /\ Len(t) = 3
      /\ \A i \in 1..2 : t[i] = w[i + 1]
      /\ t[3] = h
  BY <1>2, <1>4
<1> USE DEF t, l
<1> QED BY <1>2, <1>5, Zenon

\* [1:] on a window that is one hash too long.
LEMMA TrimmedWindow ==
  ASSUME NEW S, NEW w \in Seq(S), Len(w) = 4
  PROVE  /\ w # <<>> /\ Tail(w) \in Seq(S) /\ Len(Tail(w)) = 3
         /\ \A i \in 1..3 : Tail(w)[i] = w[i + 1]
<1>1. w # <<>>
  <2> SUFFICES ASSUME w = <<>> PROVE FALSE
    OBVIOUS
  <2> QED  OBVIOUS
<1>2. Tail(w) \in Seq(S) /\ Len(Tail(w)) = Len(w) - 1
  BY <1>1, Shorter
<1>3. ASSUME NEW i \in 1..3  PROVE Tail(w)[i] = w[i + 1]
  <2>1. i \in 1 .. Len(w) - 1
    OBVIOUS
  <2> QED  BY <1>1, <2>1, Shorter
<1> QED  BY <1>1, <1>2, <1>3, SMTT(30)

-----------------------------------------------------------------------------
\* The initial state.
LEMMA InvInit == ASSUME HashAssumption, HashInit PROVE IInv
<1> USE DEF HashInit, Idle, Fresh, Zero
<1>1. HashTypeOK
  BY DEF HashAssumption, HashTypeOK, ReaderType, Slots, Clients, Refreshing, Places
<1>2. Exclusive
  BY DEF Exclusive, Holding, Writing
<1>3. AnswerKnown /\ AnswerNew /\ WorkLeft
  BY DEF AnswerKnown, AnswerNew, WorkLeft, Refreshing
<1>4. NeighboursDiffer /\ Remembered
  BY DEF NeighboursDiffer, Remembered
<1> QED  BY <1>1, <1>2, <1>3, <1>4 DEF IInv

\* The records of the readers keep their type in the four places that change them.
LEMMA ReaderTyped ==
  ASSUME NEW x \in ReaderType
  PROVE  /\ [x EXCEPT !.moved = IF @ = 0 THEN 1 ELSE 2] \in ReaderType
         /\ \A size \in 1..3, left \in 1..3 : \A level \in 0 .. size - 1 :
              Fresh("lock", size, level, left) \in ReaderType
         /\ [x EXCEPT !.at = "read"] \in ReaderType
         /\ \A hash \in {Zero} \cup Slots :
              [x EXCEPT !.at = "unlock", !.used = x.level, !.hash = hash, !.moved = 0]
                \in ReaderType
         /\ x.left \in 1..3 => NextCommit(x) \in ReaderType
<1> USE DEF ReaderType, Places
<1>1. [x EXCEPT !.moved = IF @ = 0 THEN 1 ELSE 2] \in ReaderType
  OBVIOUS
<1>2. ASSUME NEW size \in 1..3, NEW left \in 1..3, NEW level \in 0 .. size - 1
      PROVE  Fresh("lock", size, level, left) \in ReaderType
  <2>1. level \in 0..2
    OBVIOUS
  <2> QED  BY <2>1 DEF Fresh
<1>3. [x EXCEPT !.at = "read"] \in ReaderType
  OBVIOUS
<1>4. ASSUME NEW hash \in {Zero} \cup Slots
      PROVE  [x EXCEPT !.at = "unlock", !.used = x.level, !.hash = hash, !.moved = 0]
               \in ReaderType
  <2>1. x.level \in 0..2 /\ 0 \in 0..2
    OBVIOUS
  <2> HIDE DEF Places
  <2>2. "unlock" \in Places
    BY DEF Places
  <2> QED  BY <2>1, <2>2
<1>5. ASSUME x.left \in 1..3  PROVE NextCommit(x) \in ReaderType
  <2>1. (x.level + 1) % x.size \in 0..2
    BY NextLevel
  <2>2. x.left - 1 \in 0..3
    BY <1>5
  <2>3. Idle \in ReaderType
    BY DEF Idle, Fresh
  <2>4. [x EXCEPT !.at = "lock", !.left = x.left - 1, !.level = (x.level + 1) % x.size]
          \in ReaderType
    BY <2>1, <2>2
  <2> QED  BY <2>3, <2>4 DEF NextCommit
<1> QED  BY <1>1, <1>2, <1>3, <1>4, <1>5

\* The types.
LEMMA TypeStep == ASSUME HashAssumption, IInv, [HashNext]_hashVars PROVE HashTypeOK'
<1> USE DEF HashTypeOK, worldVars, loopVars, locals, Refreshing, Places, Zero
<1> USE DEF IInv
<1>0. CASE UNCHANGED hashVars
  BY <1>0 DEF hashVars
<1>1. CASE NewSlot
  BY <1>1 DEF NewSlot, Slots
<1>2. CASE AskBlockHash
  BY <1>2 DEF AskBlockHash
<1>3. CASE Select
  BY <1>3 DEF Select
<1>4. CASE FetchFails
  <2>1. index' \in Clients
    BY <1>4, HashAssumption DEF FetchFails, Rotate, Clients
  <2>2. tries' \in 0 .. NClients /\ (pc' = "fetch" => tries' < NClients)
    <3>1. tries \in 0 .. NClients /\ tries < NClients /\ NClients \in Nat \ {0}
      BY <1>4 DEF FetchFails, HashAssumption
    <3>2. CASE LastTry
      BY <1>4, <3>1, <3>2 DEF FetchFails, Continue
    <3>3. CASE ~LastTry
      BY <1>4, <3>1, <3>3 DEF FetchFails, LastTry
    <3> QED  BY <3>2, <3>3
  <2> QED  BY <1>4, <2>1, <2>2 DEF FetchFails, Continue, Ask
<1>5. CASE FetchOld \/ FetchFresh
  <2>1. PICK h \in Slots : Answered(h)
    BY <1>5 DEF FetchOld, FetchFresh
  <2>2. index' \in Clients /\ pc' \in Refreshing
    BY <1>5, HashAssumption DEF FetchOld, FetchFresh, Rotate, Clients
  <2>3. final' \in [Clients -> Slots]
    BY <2>1 DEF Answered
  <2>4. tries' \in 0 .. NClients /\ (pc' = "fetch" => tries' < NClients)
    <3>1. tries \in 0 .. NClients /\ tries < NClients /\ NClients \in Nat \ {0}
      BY <2>1 DEF Answered, HashAssumption
    <3>2. CASE FetchOld
      BY <3>1, <3>2 DEF FetchOld, LastTry
    <3>3. CASE FetchFresh
      BY <3>1, <3>3 DEF FetchFresh
    <3> QED  BY <1>5, <3>2, <3>3
  <2> QED  BY <2>1, <2>2, <2>3, <2>4 DEF Answered, Ask
<1>6. CASE Check
  BY <1>6 DEF Check, Continue
<1>7. CASE Lock
  BY <1>7 DEF Lock
<1>8. CASE AppendHash
  <2>1. window' \in Seq({Zero} \cup Slots)
    <3>1. answer \in {Zero} \cup Slots  OBVIOUS
    <3> QED  BY <1>8, <3>1, Longer DEF AppendHash
  <2>2. reader' \in [Readers -> ReaderType]
    <3> \A r \in Readers :
          [reader[r] EXCEPT !.moved = IF @ = 0 THEN 1 ELSE 2] \in ReaderType
      BY ReaderTyped
    <3> QED  BY <1>8 DEF AppendHash
  <2> QED  BY <1>8, <2>1, <2>2 DEF AppendHash
<1>9. CASE Trim
  <2>1. window' \in Seq({Zero} \cup Slots)
    BY <1>9, TrimmedWindow DEF Trim, Exclusive
  <2> QED  BY <1>9, <2>1 DEF Trim
<1>10. CASE Unlock
  BY <1>10 DEF Unlock, Continue
<1>11. ASSUME NEW r \in Readers, Opportunity(r)  PROVE HashTypeOK'
  <2>1. PICK size \in 1..3, left \in 1..3 : \E level \in 0 .. size - 1 :
          reader' = [reader EXCEPT ![r] = Fresh("lock", size, level, left)]
    BY <1>11 DEF Opportunity
  <2>2. PICK level \in 0 .. size - 1 :
          reader' = [reader EXCEPT ![r] = Fresh("lock", size, level, left)]
    BY <2>1
  <2>3. Fresh("lock", size, level, left) \in ReaderType
    BY ReaderTyped
  <2> QED  BY <1>11, <2>2, <2>3 DEF Opportunity
<1>12. ASSUME NEW r \in Readers, LockWindow(r)  PROVE HashTypeOK'
  BY <1>12, ReaderTyped DEF LockWindow
<1>13. ASSUME NEW r \in Readers, Read(r)  PROVE HashTypeOK'
  <2>1. pc # "trim" /\ Len(window) = 3
    BY <1>13 DEF Read, Exclusive, Holding, Writing
  <2>2. window[3 - reader[r].level] \in {Zero} \cup Slots
    <3>1. reader[r].level \in 0..2
      BY DEF ReaderType
    <3>2. \A i \in 1..3 : window[i] \in {Zero} \cup Slots
      BY <2>1, Elements
    <3> HIDE DEF HashTypeOK, IInv
    <3> QED  BY <3>1, <3>2
  <2>3. reader' \in [Readers -> ReaderType]
    <3> DEFINE new == [reader[r] EXCEPT !.at = "unlock", !.used = reader[r].level,
                                        !.hash = window[3 - reader[r].level], !.moved = 0]
    <3>1. new \in ReaderType
      BY <2>2, ReaderTyped
    <3>2. reader' = [reader EXCEPT ![r] = new]
      BY <1>13 DEF Read
    <3> HIDE DEF new
    <3> QED  BY <3>1, <3>2
  <2> QED  BY <1>13, <2>3 DEF Read
<1>14. ASSUME NEW r \in Readers, UnlockWindow(r)  PROVE HashTypeOK'
  <2>1. reader[r].left \in 1..3
    BY <1>14 DEF UnlockWindow, WorkLeft
  <2>2. NextCommit(reader[r]) \in ReaderType
    BY <2>1, ReaderTyped
  <2>3. reader' \in [Readers -> ReaderType]
    BY <1>14, <2>2 DEF UnlockWindow
  <2> QED  BY <1>14, <2>3 DEF UnlockWindow
<1> QED
  BY <1>0, <1>1, <1>2, <1>3, <1>4, <1>5, <1>6, <1>7, <1>8, <1>9, <1>10, <1>11, <1>12, <1>13,
     <1>14 DEF HashNext, World, CacheRecentBlockHash, Fetch, GetRecentBlockHash

-----------------------------------------------------------------------------
(***************************************************************************)
(* The lock.  Most steps touch neither it nor the window nor a reader.     *)
(***************************************************************************)
Aside ==
  /\ UNCHANGED <<window, lock, reader>>
  /\ \/ /\ pc \in {"select", "fetch", "check"}
        /\ pc' \in {"select", "fetch", "check", "lock"}
     \/ pc' = pc /\ answer' = answer

\* The steps of the world and of the loop before the lock leave window, lock and readers alone.
LEMMA AsideSteps ==
  ASSUME HashTypeOK, UNCHANGED hashVars \/ World \/ Select \/ Fetch \/ Check
  PROVE  Aside
<1> USE DEF Aside, worldVars, loopVars, locals
<1>1. CASE UNCHANGED hashVars
  BY <1>1 DEF hashVars
<1>2. CASE World
  BY <1>2 DEF World, NewSlot, AskBlockHash
<1>3. CASE Select
  BY <1>3 DEF Select
<1>4. CASE Fetch
  BY <1>4 DEF Fetch, FetchFails, FetchOld, FetchFresh, Answered, Continue
<1>5. CASE Check
  BY <1>5 DEF Check, Continue
<1> QED  BY <1>1, <1>2, <1>3, <1>4, <1>5

\* The compare-and-swap on the lock lets in one at a time, reader or writer.
LEMMA LockStep == ASSUME HashAssumption, IInv, [HashNext]_hashVars PROVE Exclusive'
<1>0. HashTypeOK /\ Exclusive
  BY DEF IInv
<1>1. CASE UNCHANGED hashVars \/ World \/ Select \/ Fetch \/ Check
  BY <1>0, <1>1, AsideSteps DEF Aside, Exclusive, Holding, Writing
<1>2. CASE Lock
  BY <1>0, <1>2 DEF Lock, Exclusive, Holding, Writing
<1>3. CASE AppendHash
  <2>1. answer \in {Zero} \cup Slots /\ window \in Seq({Zero} \cup Slots) /\ Len(window) = 3
    BY <1>0, <1>3 DEF HashTypeOK, Exclusive, AppendHash
  <2>2. Len(window') = 4 /\ pc' = "trim" /\ lock' = lock
    BY <1>3, <2>1, ShiftedWindow DEF AppendHash
  <2>3. Holding' = Holding
    BY <1>0, <1>3 DEF AppendHash, Holding, HashTypeOK, ReaderType
  <2> QED  BY <1>0, <1>3, <2>2, <2>3 DEF AppendHash, Exclusive, Writing
<1>4. CASE Trim
  <2>1. window \in Seq({Zero} \cup Slots) /\ Len(window) = 4
    BY <1>0, <1>4 DEF HashTypeOK, Exclusive, Trim
  <2>2. Len(window') = 3
    BY <1>4, <2>1, TrimmedWindow DEF Trim
  <2> QED  BY <1>0, <1>4, <2>2 DEF Trim, Exclusive, Holding, Writing, loopVars
<1>5. CASE Unlock
  BY <1>0, <1>5 DEF Unlock, Continue, Exclusive, Holding, Writing
<1>6. ASSUME NEW r \in Readers, Opportunity(r)  PROVE Exclusive'
  <2>1. PICK size \in 1..3, left \in 1..3 : \E level \in 0 .. size - 1 :
          reader' = [reader EXCEPT ![r] = Fresh("lock", size, level, left)]
    BY <1>6 DEF Opportunity
  <2>2. \A q \in Readers : reader'[q].at = IF q = r THEN "lock" ELSE reader[q].at
    BY <1>0, <2>1 DEF HashTypeOK, Fresh
  <2>3. Holding' = Holding
    BY <1>6, <2>2 DEF Holding, Opportunity
  <2> QED  BY <1>0, <1>6, <2>3 DEF Opportunity, Exclusive, Writing, worldVars, loopVars
<1>7. ASSUME NEW r \in Readers, LockWindow(r)  PROVE Exclusive'
  <2>1. \A q \in Readers : reader'[q].at = IF q = r THEN "read" ELSE reader[q].at
    BY <1>0, <1>7 DEF HashTypeOK, ReaderType, LockWindow
  <2>2. Holding = {} /\ Holding' = {r}
    BY <1>0, <1>7, <2>1 DEF Holding, LockWindow, Exclusive
  <2> QED  BY <1>0, <1>7, <2>2 DEF LockWindow, Exclusive, Writing
<1>8. ASSUME NEW r \in Readers, Read(r)  PROVE Exclusive'
  <2>1. \A q \in Readers : reader'[q].at = IF q = r THEN "unlock" ELSE reader[q].at
    BY <1>0, <1>8 DEF HashTypeOK, ReaderType, Read
  <2>2. Holding' = Holding
    BY <1>8, <2>1 DEF Holding, Read
  <2> QED  BY <1>0, <1>8, <2>2 DEF Read, Exclusive, Writing
<1>9. ASSUME NEW r \in Readers, UnlockWindow(r)  PROVE Exclusive'
  <2>1. NextCommit(reader[r]).at \in {"idle", "lock"}
    BY <1>0 DEF NextCommit, Idle, Fresh, HashTypeOK, ReaderType
  <2>2. \A q \in Readers : q # r => reader'[q] = reader[q]
    BY <1>0, <1>9 DEF HashTypeOK, UnlockWindow
  <2>3. reader'[r].at \in {"idle", "lock"}
    BY <1>0, <1>9, <2>1 DEF HashTypeOK, UnlockWindow
  <2>4. Holding = {r} /\ Holding' = {}
    BY <1>0, <1>9, <2>2, <2>3 DEF Holding, UnlockWindow, Exclusive
  <2> QED  BY <1>0, <1>9, <2>4 DEF UnlockWindow, Exclusive, Writing
<1> QED
  BY <1>1, <1>2, <1>3, <1>4, <1>5, <1>6, <1>7, <1>8, <1>9
  DEF HashNext, CacheRecentBlockHash, GetRecentBlockHash

-----------------------------------------------------------------------------
(* The answer, the window and what the readers remember.                   *)

\* The window seen by the readers shifts when the hash is appended; no other
\* step of any goroutine changes it.
LEMMA SeenSteps ==
  ASSUME HashAssumption, IInv, [HashNext]_hashVars
  PROVE  /\ ~AppendHash => Seen' = Seen
         /\ AppendHash =>
              /\ answer \in Slots /\ answer # Seen[3] /\ Seen = window
              /\ Seen' = Tail(Append(Seen, answer))
              /\ Seen'[1] = Seen[2] /\ Seen'[2] = Seen[3] /\ Seen'[3] = answer
<1>0. HashTypeOK /\ Exclusive
  BY DEF IInv
<1>1. CASE UNCHANGED hashVars \/ World \/ Select \/ Fetch \/ Check
  <2>1. Aside
    BY <1>0, <1>1, AsideSteps
  <2>2. ~AppendHash
    BY <1>0, <2>1 DEF Aside, AppendHash
  <2> QED  BY <2>1, <2>2 DEF Aside, Seen
<1>2. CASE Lock \/ Unlock
  BY <1>2 DEF Lock, Unlock, Continue, Seen, AppendHash
<1>3. CASE AppendHash
  <2>1. /\ answer \in Slots /\ answer # window[3] /\ Seen = window
        /\ window \in Seq({Zero} \cup Slots) /\ Len(window) = 3
    BY <1>0, <1>3
    DEF IInv, AnswerKnown, AnswerNew, Refreshing, AppendHash, Exclusive, Seen, HashTypeOK
  <2>2. Seen' = Tail(Append(window, answer))
    BY <1>3 DEF AppendHash, Seen
  <2>3. /\ Seen'[1] = window[2] /\ Seen'[2] = window[3] /\ Seen'[3] = answer
    BY <2>1, <2>2, ShiftedWindow
  <2> QED  BY <1>3, <2>1, <2>2, <2>3
<1>4. CASE Trim
  BY <1>4 DEF Trim, Seen, AppendHash
<1>5. CASE \E r \in Readers : Opportunity(r) \/ GetRecentBlockHash(r)
  <2>1. UNCHANGED <<pc, window>>
    BY <1>5 DEF Opportunity, GetRecentBlockHash, LockWindow, Read, UnlockWindow
  <2>2. ~AppendHash
    BY <2>1 DEF AppendHash
  <2> QED  BY <2>1, <2>2 DEF Seen
<1> QED
  BY <1>1, <1>2, <1>3, <1>4, <1>5 DEF HashNext, CacheRecentBlockHash

\* The hash the loop carries is one of the chain and, up to the append, differs from the newest
\* of the window.
LEMMA AnswerStep == ASSUME HashAssumption, IInv, [HashNext]_hashVars PROVE AnswerKnown' /\ AnswerNew'
<1>0. HashTypeOK /\ Exclusive /\ AnswerKnown /\ AnswerNew
  BY DEF IInv
<1> USE DEF AnswerKnown, AnswerNew, Refreshing, worldVars, loopVars, locals
<1>1. CASE UNCHANGED hashVars \/ World
  BY <1>0, <1>1 DEF hashVars, World, NewSlot, AskBlockHash
<1>2. CASE Select
  BY <1>0, <1>2 DEF Select
<1>3. CASE FetchFails
  BY <1>0, <1>3 DEF FetchFails, Continue
<1>4. CASE FetchOld \/ FetchFresh
  BY <1>0, <1>4 DEF FetchOld, FetchFresh, Answered
<1>5. CASE Check
  BY <1>0, <1>5 DEF Check, Continue
<1>6. CASE Lock
  BY <1>0, <1>6 DEF Lock
<1>7. CASE AppendHash \/ Trim
  BY <1>0, <1>7 DEF AppendHash, Trim
<1>8. CASE Unlock
  BY <1>0, <1>8 DEF Unlock, Continue
<1>9. CASE \E r \in Readers : Opportunity(r) \/ GetRecentBlockHash(r)
  BY <1>0, <1>9 DEF Opportunity, GetRecentBlockHash, LockWindow, Read, UnlockWindow
<1> QED
  BY <1>1, <1>2, <1>3, <1>4, <1>5, <1>6, <1>7, <1>8, <1>9
  DEF HashNext, CacheRecentBlockHash, Fetch

\* Only the append can make neighbours, and it is reached with a new hash.
LEMMA NeighboursStep ==
  ASSUME HashAssumption, IInv, [HashNext]_hashVars PROVE NeighboursDiffer'
<1>0. HashTypeOK /\ Exclusive /\ NeighboursDiffer
  BY DEF IInv
<1>1. CASE AppendHash
  <2>1. /\ answer # window[3]
        /\ window \in Seq({Zero} \cup Slots) /\ Len(window) = 3
        /\ answer \in {Zero} \cup Slots
    BY <1>0, <1>1 DEF IInv, AnswerNew, AppendHash, Exclusive, HashTypeOK
  <2>2. /\ Len(window') = 4 /\ window'[4] = answer
        /\ \A i \in 1..3 : window'[i] = window[i]
    BY <1>1, <2>1, ShiftedWindow DEF AppendHash
  <2>3. \A i \in 1..2 : window[i] = window[i + 1] => window[i] = Zero
    BY <1>0, <2>1 DEF NeighboursDiffer
  <2> SUFFICES ASSUME NEW i \in 1..3, window'[i] = window'[i + 1] PROVE window'[i] = Zero
    BY <2>2 DEF NeighboursDiffer, Zero
  <2>4. CASE i = 3
    BY <2>1, <2>2, <2>4
  <2>5. CASE i \in 1..2
    BY <2>2, <2>3, <2>5
  <2> QED  BY <2>4, <2>5
<1>2. CASE Trim
  <2>1. window \in Seq({Zero} \cup Slots) /\ Len(window) = 4 /\ window' = Tail(window)
    BY <1>0, <1>2 DEF HashTypeOK, Exclusive, Trim
  <2>2. Len(window') = 3 /\ \A i \in 1..3 : window'[i] = window[i + 1]
    BY <2>1, TrimmedWindow
  <2>3. \A i \in 1..3 : window[i] = window[i + 1] => window[i] = Zero
    BY <1>0, <2>1 DEF NeighboursDiffer
  <2> QED  BY <2>2, <2>3 DEF NeighboursDiffer, Zero
<1>3. CASE UNCHANGED window
  BY <1>0, <1>3 DEF NeighboursDiffer, Zero
<1> QED
  BY <1>1, <1>2, <1>3
  DEF HashNext, World, NewSlot, AskBlockHash, CacheRecentBlockHash, Select, Fetch, FetchFails, FetchOld,
      FetchFresh, Answered, Check, Lock, Unlock, GetRecentBlockHash, Opportunity, LockWindow,
      Read, UnlockWindow, hashVars

\* What a step does to a reader: nothing that WorkLeft and Remembered speak of,
\* or a reset, or a count of the move, or a read.
LEMMA ReaderSteps ==
  ASSUME HashAssumption, IInv, [HashNext]_hashVars, NEW r \in Readers
  PROVE  LET x == reader[r]
             y == reader'[r]
         IN /\ y.at # "idle" => y.left \in 1..3
            /\ \/ y.moved = 2
               \/ ~AppendHash /\ y.moved = x.moved /\ y.hash = x.hash /\ y.used = x.used
               \/ AppendHash /\ x.moved = 0 /\ y.moved = 1 /\ y.hash = x.hash /\ y.used = x.used
               \/ ~AppendHash /\ y.moved = 0 /\ y.used \in 0..2 /\ y.hash = Seen[3 - y.used]
<1> DEFINE Kept == reader'[r] = reader[r]
<1>0. HashTypeOK /\ Exclusive /\ reader[r] \in ReaderType
      /\ (reader[r].at # "idle" => reader[r].left \in 1..3)
  BY DEF IInv, HashTypeOK, WorkLeft
<1>1. CASE UNCHANGED hashVars \/ World \/ Select \/ Fetch \/ Check
  <2>1. ~AppendHash /\ Kept
    BY <1>0, <1>1, AsideSteps DEF Aside, AppendHash
  <2> QED  BY <1>0, <2>1
<1>2. CASE Lock \/ Trim \/ Unlock
  <2>1. ~AppendHash /\ Kept
    BY <1>2 DEF Lock, Trim, Unlock, Continue, AppendHash
  <2> QED  BY <1>0, <2>1
<1>3. CASE AppendHash
  <2>1. reader'[r] = [reader[r] EXCEPT !.moved = IF reader[r].moved = 0 THEN 1 ELSE 2]
    BY <1>3 DEF AppendHash
  <2> QED  BY <1>0, <1>3, <2>1 DEF ReaderType
<1>4. ASSUME NEW q \in Readers, q # r, Opportunity(q) \/ GetRecentBlockHash(q)
      PROVE  ~AppendHash /\ Kept
  BY <1>0, <1>4
  DEF HashTypeOK, Opportunity, GetRecentBlockHash, LockWindow, Read, UnlockWindow, AppendHash
<1>5. CASE Opportunity(r)
  <2>1. PICK size \in 1..3, left \in 1..3 : \E level \in 0 .. size - 1 :
          reader' = [reader EXCEPT ![r] = Fresh("lock", size, level, left)]
    BY <1>5 DEF Opportunity
  <2>2. reader'[r].left = left /\ reader'[r].moved = 2
    BY <1>0, <2>1 DEF HashTypeOK, Fresh
  <2> QED  BY <2>2
<1>6. CASE LockWindow(r)
  <2>1. reader'[r] = [reader[r] EXCEPT !.at = "read"] /\ ~AppendHash
    BY <1>0, <1>6 DEF HashTypeOK, LockWindow, AppendHash
  <2>2. reader[r].at # "idle"
    BY <1>6 DEF LockWindow
  <2> QED  BY <1>0, <2>1, <2>2 DEF ReaderType
<1>7. CASE Read(r)
  <2>1. /\ reader'[r] = [reader[r] EXCEPT !.at = "unlock", !.used = reader[r].level,
                                           !.hash = window[3 - reader[r].level], !.moved = 0]
        /\ ~AppendHash /\ reader[r].at # "idle"
    BY <1>0, <1>7 DEF HashTypeOK, Read, AppendHash
  <2>2. Seen = window
    BY <1>0, <1>7 DEF Read, Exclusive, Holding, Writing, Seen
  <2> QED  BY <1>0, <2>1, <2>2 DEF ReaderType
<1>8. CASE UnlockWindow(r)
  <2>1. reader'[r] = NextCommit(reader[r]) /\ ~AppendHash /\ reader[r].at # "idle"
    BY <1>0, <1>8 DEF HashTypeOK, UnlockWindow, AppendHash
  <2>2. CASE reader[r].left = 1
    BY <2>1, <2>2 DEF NextCommit, Idle, Fresh
  <2>3. CASE reader[r].left # 1
    <3>1. reader'[r] = [reader[r] EXCEPT !.at = "lock", !.left = reader[r].left - 1,
                                         !.level = (reader[r].level + 1) % reader[r].size]
      BY <2>1, <2>3 DEF NextCommit
    <3>2. reader[r].left - 1 \in 1..3
      BY <1>0, <2>1, <2>3
    <3> QED  BY <1>0, <2>1, <3>1, <3>2 DEF ReaderType
  <2> QED  BY <2>2, <2>3
<1>9. CASE \E q \in Readers : Opportunity(q) \/ GetRecentBlockHash(q)
  BY <1>0, <1>4, <1>5, <1>6, <1>7, <1>8, <1>9 DEF GetRecentBlockHash
<1> QED
  BY <1>1, <1>2, <1>3, <1>9 DEF HashNext, CacheRecentBlockHash

\* A reader remembers what its opportunity read, and what the window was then.
LEMMA MemoryStep ==
  ASSUME HashAssumption, IInv, [HashNext]_hashVars PROVE WorkLeft' /\ Remembered'
<1>1. WorkLeft'
  BY ReaderSteps DEF WorkLeft
<1>2. ASSUME NEW r \in Readers
      PROVE  /\ reader'[r].moved = 0 => reader'[r].hash = Seen'[3 - reader'[r].used]
             /\ reader'[r].moved = 1 /\ reader'[r].used \in 0..1
                  => reader'[r].hash = Seen'[2 - reader'[r].used]
  <2>1. /\ reader[r].used \in 0..2
        /\ reader[r].moved = 0 => reader[r].hash = Seen[3 - reader[r].used]
        /\ reader[r].moved = 1 /\ reader[r].used \in 0..1
             => reader[r].hash = Seen[2 - reader[r].used]
    BY DEF IInv, Remembered, HashTypeOK, ReaderType
  <2>2. CASE AppendHash
    <3>1. Seen'[1] = Seen[2] /\ Seen'[2] = Seen[3]
      BY <2>2, SeenSteps
    <3>2. \/ reader'[r].moved = 2
          \/ /\ reader[r].moved = 0 /\ reader'[r].moved = 1
             /\ reader'[r].hash = reader[r].hash /\ reader'[r].used = reader[r].used
      BY <2>2, ReaderSteps
    <3> QED  BY <2>1, <3>1, <3>2
  <2>3. CASE ~AppendHash
    <3>1. Seen' = Seen
      BY <2>3, SeenSteps
    <3>2. \/ reader'[r].moved = 2
          \/ /\ reader'[r].moved = reader[r].moved
             /\ reader'[r].hash = reader[r].hash /\ reader'[r].used = reader[r].used
          \/ reader'[r].moved = 0 /\ reader'[r].hash = Seen[3 - reader'[r].used]
      BY <2>3, ReaderSteps
    <3> QED  BY <2>1, <3>1, <3>2
  <2> QED  BY <2>2, <2>3
<1> QED  BY <1>1, <1>2 DEF Remembered

-----------------------------------------------------------------------------
(***************************************************************************)
(* The turns of the clients.  The loop only counts its tries; that         *)
(* these are different ones, and all of them at the last try, is because   *)
(* `index` goes round and the asked ones are those it has just passed.     *)
(***************************************************************************)

\* How many turns ago it was client c's turn.
Ago(c) == IF c <= index THEN index - c ELSE index + NClients - c

\* The clients that were asked for this request are the last in turn.
InTurn ==
  pc = "fetch" =>
    /\ tries \in 0 .. NClients - 1
    /\ asked = {c \in Clients : Ago(c) \in 1 .. tries}

\* The next client in turn.
LEMMA NextInTurn ==
  ASSUME HashAssumption, NEW i \in Clients
  PROVE  (i + 1) % NClients = IF i = NClients - 1 THEN 0 ELSE i + 1
<1>1. NClients \in Nat \ {0} /\ i \in Nat /\ i < NClients
  BY DEF HashAssumption, Clients
<1>2. \A m \in Nat \ {0} : \A k \in Nat : k < m => k % m = k
  OBVIOUS
<1>3. CASE i = NClients - 1
  BY <1>1, <1>3
<1>4. CASE i # NClients - 1
  <2>1. i + 1 \in Nat /\ i + 1 < NClients
    BY <1>1, <1>4
  <2> QED  BY <1>1, <1>2, <1>4, <2>1
<1> QED  BY <1>3, <1>4

\* At the last try, the client in turn is the only one that was not asked.
LEMMA LastIsAll ==
  ASSUME HashAssumption, HashTypeOK, InTurn, pc = "fetch", LastTry
  PROVE  asked \cup {index} = Clients
<1>1. NClients \in Nat \ {0} /\ index \in Clients /\ asked \subseteq Clients
  BY DEF HashAssumption, HashTypeOK
<1>2. tries = NClients - 1
  BY <1>1 DEF InTurn, LastTry
<1>3. asked = {c \in Clients : Ago(c) \in 1 .. NClients - 1}
  BY <1>2 DEF InTurn
<1>4. ASSUME NEW c \in Clients, c # index PROVE Ago(c) \in 1 .. NClients - 1
  BY <1>1, <1>4 DEF Ago, Clients
<1> QED  BY <1>1, <1>3, <1>4

\* A turn: the asked clients are still the last in turn.
LEMMA TurnStep ==
  ASSUME HashAssumption, HashTypeOK, InTurn, pc = "fetch", ~LastTry, Ask, Rotate,
         tries' = tries + 1
  PROVE  InTurn'
<1> DEFINE n == tries
<1>1. NClients \in Nat \ {0} /\ index \in Clients /\ asked \subseteq Clients
  BY DEF HashAssumption, HashTypeOK
<1>2. n \in 0 .. NClients - 1 /\ n + 1 # NClients /\ asked = {c \in Clients : Ago(c) \in 1 .. n}
  BY DEF InTurn, LastTry
<1>3. tries' = n + 1
  OBVIOUS
<1>4. index' = IF index = NClients - 1 THEN 0 ELSE index + 1
  BY <1>1, NextInTurn DEF Rotate
<1> DEFINE AgoNow(c) == IF c <= index' THEN index' - c ELSE index' + NClients - c
<1>5. ASSUME NEW c \in Clients
      PROVE  (c \in asked \/ c = index) <=> AgoNow(c) \in 1 .. n + 1
  <2> HIDE DEF n
  <2>1. c \in asked <=> Ago(c) \in 1 .. n
    BY <1>2
  <2>2. c \in 0 .. NClients - 1 /\ index \in 0 .. NClients - 1
    BY <1>1 DEF Clients
  <2>3. CASE index = NClients - 1
    <3>1. index' = 0
      BY <1>4, <2>3
    <3> QED  BY <1>1, <1>2, <2>1, <2>2, <2>3, <3>1 DEF Ago
  <2>4. CASE index # NClients - 1
    <3>1. index' = index + 1
      BY <1>4, <2>4
    <3> QED  BY <1>1, <1>2, <2>1, <2>2, <2>4, <3>1 DEF Ago
  <2> QED  BY <2>3, <2>4
<1>6. asked' = {c \in Clients : AgoNow(c) \in 1 .. n + 1}
  BY <1>1, <1>5 DEF Ask
<1>7. n + 1 \in 0 .. NClients - 1
  BY <1>1, <1>2
<1> QED  BY <1>3, <1>6, <1>7 DEF InTurn, Ago

\* Every step leaves the asked clients in turn.
LEMMA InTurnStep == ASSUME HashAssumption, HashTypeOK, InTurn, [HashNext]_hashVars PROVE InTurn'
<1>1. CASE FetchFails
  <2>1. CASE LastTry
    BY <1>1, <2>1 DEF FetchFails, Continue, InTurn
  <2>2. CASE ~LastTry
    BY <1>1, <2>2, TurnStep DEF FetchFails
  <2> QED  BY <2>1, <2>2
<1>2. CASE FetchOld
  <2>1. PICK h \in Slots : /\ Answered(h) /\ Rotate /\ tries' = tries + 1
                           /\ pc' = IF LastTry THEN "check" ELSE "fetch"
    BY <1>2 DEF FetchOld
  <2>2. CASE LastTry
    BY <2>1, <2>2 DEF InTurn
  <2>3. CASE ~LastTry
    BY <2>1, <2>3, TurnStep DEF Answered
  <2> QED  BY <2>2, <2>3
<1>3. CASE FetchFresh
  BY <1>3 DEF FetchFresh, InTurn
<1>4. CASE Select
  <2>1. asked' = {} /\ tries' = 0
    BY <1>4 DEF Select
  <2>2. 0 \in 0 .. NClients - 1
    BY DEF HashAssumption
  <2> QED  BY <2>1, <2>2 DEF InTurn
<1>5. CASE pc' # "fetch"
  BY <1>5 DEF InTurn
<1>6. CASE UNCHANGED <<pc, index, tries, asked>>
  BY <1>6 DEF InTurn, Ago
<1>7. CASE UNCHANGED hashVars \/ World
  BY <1>6, <1>7 DEF hashVars, World, NewSlot, AskBlockHash, loopVars
<1>8. CASE Check \/ Lock \/ AppendHash \/ Trim \/ Unlock
  BY <1>5, <1>8 DEF Check, Lock, AppendHash, Trim, Unlock, Continue
<1>9. CASE \E r \in Readers : Opportunity(r) \/ GetRecentBlockHash(r)
  BY <1>6, <1>9 DEF Opportunity, GetRecentBlockHash, LockWindow, Read, UnlockWindow, loopVars
<1> QED
  BY <1>1, <1>2, <1>3, <1>4, <1>7, <1>8, <1>9 DEF HashNext, CacheRecentBlockHash, Fetch

-----------------------------------------------------------------------------
(***************************************************************************)
(* The theorems.                                                           *)
(***************************************************************************)

\* The invariant holds in every state of CacheRecentBlockHash and its readers.
THEOREM Invariant == SafeSpec => []IInv
<1>1. HashInit => IInv
  BY InvInit, HashAssumption
<1>2. IInv /\ [HashNext]_hashVars => IInv'
  BY HashAssumption, TypeStep, LockStep, AnswerStep, NeighboursStep, MemoryStep DEF IInv
<1> QED  BY <1>1, <1>2, PTL DEF SafeSpec

\* Every variable keeps its type, the window between three hashes and four.
THEOREM HashTypeCorrect == SafeSpec => []HashTypeOK
<1>1. IInv => HashTypeOK
  BY DEF IInv
<1> QED  BY <1>1, Invariant, PTL

\* The spin lock of blockhash.go excludes, and no reader sees the long window.
THEOREM LockExcludes == SafeSpec => []Exclusive
<1>1. IInv => Exclusive
  BY DEF IInv
<1> QED  BY <1>1, Invariant, PTL

\* No hash is twice in a row in the window, though CacheRecentBlockHash compares
\* before it takes the lock.
THEOREM WindowVaries == SafeSpec => []NeighboursDiffer
<1>1. IInv => NeighboursDiffer
  BY DEF IInv
<1> QED  BY <1>1, Invariant, PTL

\* Two consecutive transactions of one opportunity differ unless the window moved
\* between them, and then the next level repeats the hash (GetRecentBlockHash).
THEOREM RepeatsOnlyAfterMove == SafeSpec => Repeats
<1>1. ASSUME HashAssumption, IInv, NEW r \in Readers, Read(r)
      PROVE  LET old == reader[r]
                 new == reader'[r]
             IN /\ old.moved = 0 /\ new.used \in {old.used - 1, old.used + 1}
                      => new.hash # old.hash \/ old.hash = Zero
                /\ old.moved = 1 /\ new.used = old.used + 1 => new.hash = old.hash
  <2>1. /\ HashTypeOK /\ Exclusive /\ NeighboursDiffer
        /\ reader[r].used \in 0..2 /\ reader[r].level \in 0..2
        /\ reader[r].moved = 0 => reader[r].hash = Seen[3 - reader[r].used]
        /\ reader[r].moved = 1 /\ reader[r].used \in 0..1
             => reader[r].hash = Seen[2 - reader[r].used]
    BY <1>1 DEF IInv, Remembered, HashTypeOK, ReaderType
  <2>2. reader'[r].used = reader[r].level /\ reader'[r].hash = window[3 - reader[r].level]
    BY <1>1, <2>1 DEF Read, HashTypeOK, ReaderType
  <2>3. Seen = window /\ Len(window) = 3
    BY <1>1, <2>1 DEF Read, Exclusive, Holding, Writing, Seen
  <2>4. /\ window[1] = window[2] => window[1] = Zero
        /\ window[2] = window[3] => window[2] = Zero
    BY <2>1, <2>3 DEF NeighboursDiffer
  <2> QED  BY <2>1, <2>2, <2>3, <2>4
<1>2. IInv /\ [HashNext]_hashVars => [\A r \in Readers : Read(r) =>
       LET old == reader[r]
           new == reader'[r]
       IN /\ old.moved = 0 /\ new.used \in {old.used - 1, old.used + 1}
                => new.hash # old.hash \/ old.hash = Zero
          /\ old.moved = 1 /\ new.used = old.used + 1 => new.hash = old.hash]_hashVars
  BY <1>1, HashAssumption
<1> QED  BY <1>2, Invariant, PTL DEF SafeSpec, Repeats

\* CacheRecentBlockHash gives up a request, or goes on with a hash that is too old, only after
\* it has asked every one of its clients, although it only counts its tries.
THEOREM EveryClientAsked == SafeSpec => AsksAll
<1>1. HashInit => InTurn
  BY DEF HashInit, InTurn
<1>2. HashTypeOK /\ InTurn /\ [HashNext]_hashVars => InTurn'
  BY HashAssumption, InTurnStep
<1>3. ASSUME HashTypeOK, InTurn, [HashNext]_hashVars, pc = "fetch", pc' # "fetch"
      PROVE  asked \cup {index} = Clients \/ (pc' = "check" /\ ~TooOld(slot, answer'))
  <2>1. CASE FetchFails
    <3>1. LastTry
      BY <1>3, <2>1 DEF FetchFails
    <3> QED  BY <1>3, <3>1, LastIsAll, HashAssumption
  <2>2. CASE FetchOld
    <3>1. LastTry
      BY <1>3, <2>2 DEF FetchOld
    <3> QED  BY <1>3, <3>1, LastIsAll, HashAssumption
  <2>3. CASE FetchFresh
    BY <2>3 DEF FetchFresh, Answered
  <2>4. CASE UNCHANGED pc \/ pc # "fetch"
    BY <1>3, <2>4
  <2>5. CASE UNCHANGED hashVars \/ World \/ \E r \in Readers : Opportunity(r) \/ GetRecentBlockHash(r)
    BY <2>4, <2>5
    DEF hashVars, World, NewSlot, AskBlockHash, Opportunity, GetRecentBlockHash, LockWindow, Read,
        UnlockWindow
  <2>6. CASE Select \/ Check \/ Lock \/ AppendHash \/ Trim \/ Unlock
    BY <2>4, <2>6 DEF Select, Check, Lock, AppendHash, Trim, Unlock
  <2> QED
    BY <1>3, <2>1, <2>2, <2>3, <2>5, <2>6 DEF HashNext, CacheRecentBlockHash, Fetch
<1>4. HashTypeOK /\ InTurn /\ [HashNext]_hashVars
        => [pc = "fetch" /\ pc' # "fetch"
              => asked \cup {index} = Clients \/ (pc' = "check" /\ ~TooOld(slot, answer'))]_hashVars
  BY <1>3
<1> QED  BY <1>1, <1>2, <1>4, HashTypeCorrect, PTL DEF SafeSpec, AsksAll

\* The window under its lock is the atomic window of HashWindow.
THEOREM WindowImplemented == SafeSpec => WindowAtomic
<1> USE DEF Atomic!Init, Atomic!Next, Atomic!Shift, Atomic!Get, Atomic!Drop
<1>1. HashInit => Atomic!Init
  BY DEF HashInit, Seen, Given, Idle, Fresh
<1>2. ASSUME HashAssumption, IInv, IInv', [HashNext]_hashVars
      PROVE  [Atomic!Next]_<<Seen, Given>>
  <2>0. HashTypeOK /\ HashTypeOK' /\ Exclusive
    BY <1>2 DEF IInv
  <2>1. CASE AppendHash
    <3>1. answer \in Slots /\ answer # Seen[3] /\ Seen' = Tail(Append(Seen, answer))
      BY <1>2, <2>1, SeenSteps
    <3>2. Given' = Given
      BY <2>0, <2>1 DEF AppendHash, Given, HashTypeOK, ReaderType
    <3> QED  BY <3>1, <3>2
  <2>2. CASE ~AppendHash
    <3>1. Seen' = Seen
      BY <1>2, <2>2, SeenSteps
    <3>2. CASE \E r \in Readers : Read(r) \/ UnlockWindow(r) \/ Opportunity(r)
      <4>1. PICK r \in Readers : Read(r) \/ UnlockWindow(r) \/ Opportunity(r)
        BY <3>2
      <4>2. \/ reader'[r].hash = reader[r].hash
            \/ reader'[r].hash = Zero
            \/ \E level \in 0..2 : reader'[r].hash = Seen[3 - level]
        <5>1. CASE Read(r)
          <6>1. reader[r].level \in 0..2
                /\ reader'[r].hash = window[3 - reader[r].level]
            BY <2>0, <5>1 DEF Read, HashTypeOK, ReaderType
          <6>2. Seen = window
            BY <2>0, <5>1 DEF Read, Exclusive, Holding, Writing, Seen
          <6> QED  BY <6>1, <6>2
        <5>2. CASE UnlockWindow(r)
          <6>1. reader'[r] = NextCommit(reader[r]) /\ reader[r] \in ReaderType
            BY <2>0, <5>2 DEF UnlockWindow, HashTypeOK
          <6> QED  BY <6>1 DEF NextCommit, Idle, Fresh, ReaderType
        <5>3. CASE Opportunity(r)
          BY <2>0, <5>3 DEF Opportunity, Fresh, HashTypeOK
        <5> QED  BY <4>1, <5>1, <5>2, <5>3
      <4>3. \A q \in Readers : q # r => reader'[q] = reader[q]
        BY <2>0, <4>1 DEF Read, UnlockWindow, Opportunity, HashTypeOK
      <4>4. Given' = [Given EXCEPT ![r] = reader'[r].hash]
        BY <2>0, <4>3 DEF Given, HashTypeOK
      <4>5. CASE reader'[r].hash = reader[r].hash
        BY <3>1, <4>3, <4>5 DEF Given
      <4>6. CASE reader'[r].hash = Zero
        BY <3>1, <4>4, <4>6
      <4>7. CASE \E level \in 0..2 : reader'[r].hash = Seen[3 - level]
        BY <3>1, <4>4, <4>7
      <4> QED  BY <4>2, <4>5, <4>6, <4>7
    <3>3. CASE ~ \E r \in Readers : Read(r) \/ UnlockWindow(r) \/ Opportunity(r)
      <4>1. Given' = Given
        <5>1. CASE World \/ Select \/ Check \/ Lock \/ Trim \/ Unlock \/ UNCHANGED hashVars
          BY <5>1 DEF Given, World, NewSlot, AskBlockHash, Select, Check, Lock, Trim, Unlock, hashVars
        <5>2. CASE Fetch
          BY <5>2 DEF Given, Fetch, FetchFails, FetchOld, FetchFresh, Answered
        <5>3. CASE \E r \in Readers : LockWindow(r)
          BY <2>0, <5>3 DEF Given, HashTypeOK, ReaderType, LockWindow
        <5> QED
          BY <1>2, <2>2, <3>3, <5>1, <5>2, <5>3 DEF HashNext, CacheRecentBlockHash, GetRecentBlockHash
      <4> QED  BY <3>1, <4>1
    <3> QED  BY <3>2, <3>3
  <2> QED  BY <2>1, <2>2
<1>3. HashInit /\ []IInv /\ [][HashNext]_hashVars => Atomic!Spec
  BY <1>1, <1>2, HashAssumption, PTL DEF Atomic!Spec
<1> QED  BY <1>3, Invariant, PTL DEF SafeSpec, WindowAtomic

-----------------------------------------------------------------------------
(*****************************************************************************)
(* The decision what to send.                                                *)
(*****************************************************************************)

\* How many of two tiers a yield exceeds.
LEMMA TwoTiers ==
  ASSUME NEW a \in Int, NEW b \in Int, a < b, NEW y \in Int
  PROVE  Cardinality({t \in {a, b} : y > t}) = IF y > b THEN 2 ELSE IF y > a THEN 1 ELSE 0
<1>1. CASE y > b
  <2>1. {t \in {a, b} : y > t} = {a} \cup {b}  BY <1>1
  <2>2. IsFiniteSet({a}) /\ Cardinality({a}) = 1  BY FS_Singleton
  <2>3. Cardinality({a} \cup {b}) = 2  BY <2>2, FS_AddElement
  <2> QED  BY <1>1, <2>1, <2>3
<1>2. CASE y > a /\ ~(y > b)
  <2>1. {t \in {a, b} : y > t} = {a}  BY <1>2
  <2> QED  BY <1>2, <2>1, FS_Singleton
<1>3. CASE ~(y > a)
  <2>1. {t \in {a, b} : y > t} = {}  BY <1>3
  <2> QED  BY <1>3, <2>1, FS_EmptySet
<1> QED  BY <1>1, <1>2, <1>3

\* The tiers, one line per case.
LEMMA TiersAre ==
  ASSUME NEW usdc \in Nat
  PROVE  /\ usdc < 15000 => Tiers(usdc) = {200, 400}
         /\ 15000 <= usdc /\ usdc < 30000 => Tiers(usdc) = {150, 350}
         /\ usdc > 30000 => Tiers(usdc) = {150, 300}
         /\ usdc = 30000 => Tiers(usdc) = {}
BY SMT DEF Tiers

\* The cache of a path holds one to three entries.
LEMMA SizeRange ==
  ASSUME NEW usdc \in Nat, NEW yield \in Int
  PROVE  CacheSize(usdc, yield) \in 1..3
<1>1. CASE usdc < 15000
  <2>1. Tiers(usdc) = {200, 400}  BY <1>1, TiersAre
  <2> QED  BY <2>1, TwoTiers DEF CacheSize
<1>2. CASE 15000 <= usdc /\ usdc < 30000
  <2>1. Tiers(usdc) = {150, 350}  BY <1>2, TiersAre
  <2> QED  BY <2>1, TwoTiers DEF CacheSize
<1>3. CASE usdc > 30000
  <2>1. Tiers(usdc) = {150, 300}  BY <1>3, TiersAre
  <2> QED  BY <2>1, TwoTiers DEF CacheSize
<1>4. CASE usdc = 30000
  <2>1. Tiers(usdc) = {}  BY <1>4, TiersAre
  <2>2. {t \in {} : yield > t} = {}  OBVIOUS
  <2> QED  BY <2>1, <2>2, FS_EmptySet DEF CacheSize
<1> QED  BY <1>1, <1>2, <1>3, <1>4

\* One to three transactions are sent.
LEMMA CountRange ==
  ASSUME NEW yield \in Int
  PROVE  Count(yield) \in 1..3
BY TwoTiers DEF Count

\* Unless the local yield is higher, or the amount in no tier, there are no more
\* transactions than the cache has places: the tiers of the outer yield are
\* nowhere above those of the local one.
LEMMA CountFits ==
  ASSUME NEW usdc \in Nat, usdc # 30000,
         NEW outer \in Int, NEW local \in Int, local <= outer
  PROVE  Count(local) <= CacheSize(usdc, outer)
<1> DEFINE Exceeds(y, a, b) == IF y > b THEN 2 ELSE IF y > a THEN 1 ELSE 0
<1>1. Count(local) = 1 + Exceeds(local, 200, 400)
  BY TwoTiers DEF Count
<1>2. CASE usdc < 15000
  <2>1. Tiers(usdc) = {200, 400}  BY <1>2, TiersAre
  <2>2. CacheSize(usdc, outer) = 1 + Exceeds(outer, 200, 400)
    BY <2>1, TwoTiers DEF CacheSize
  <2> QED  BY <1>1, <2>2
<1>3. CASE 15000 <= usdc /\ usdc < 30000
  <2>1. Tiers(usdc) = {150, 350}  BY <1>3, TiersAre
  <2>2. CacheSize(usdc, outer) = 1 + Exceeds(outer, 150, 350)
    BY <2>1, TwoTiers DEF CacheSize
  <2> QED  BY <1>1, <2>2
<1>4. CASE usdc > 30000
  <2>1. Tiers(usdc) = {150, 300}  BY <1>4, TiersAre
  <2>2. CacheSize(usdc, outer) = 1 + Exceeds(outer, 150, 300)
    BY <2>1, TwoTiers DEF CacheSize
  <2> QED  BY <1>1, <2>2
<1> QED  BY <1>2, <1>3, <1>4

\* The levels of the transactions, by the size and the number of entries.
LEMMA LevelsAre ==
  ASSUME NEW len \in Nat, len >= 1, NEW size \in 1..3, NEW yield \in Int
  PROVE  LET levels == Levels(len, size, yield)
         IN /\ DOMAIN levels = 1 .. Count(yield)
            /\ \A k \in DOMAIN levels : levels[k] \in 0..2
            /\ Count(yield) <= size
                 => \A j, k \in DOMAIN levels : levels[j] = levels[k] => j = k
<1> DEFINE levels == Levels(len, size, yield)
           n == len - 1 + NodeId - 1
<1>0. NodeId \in Nat /\ Count(yield) \in 1..3
  BY CommitAssumption, CountRange
<1>1. levels = [k \in 1 .. Count(yield) |-> (len - 1 + NodeId + k - 1) % size]
  BY DEF Levels
<1>2. DOMAIN levels = 1 .. Count(yield)
  BY <1>1
<1>3. ASSUME NEW k \in 1 .. Count(yield)  PROVE levels[k] \in 0..2
  <2>1. levels[k] = (len - 1 + NodeId + k - 1) % size  BY <1>1
  <2>2. (len - 1 + NodeId + k - 1) \in Nat  BY <1>0
  <2>3. CASE size = 1  BY <2>1, <2>2, <2>3
  <2>4. CASE size = 2  BY <2>1, <2>2, <2>4
  <2>5. CASE size = 3  BY <2>1, <2>2, <2>5
  <2> QED  BY <2>3, <2>4, <2>5
<1>4. ASSUME Count(yield) <= size,
             NEW j \in 1 .. Count(yield), NEW k \in 1 .. Count(yield), levels[j] = levels[k]
      PROVE  j = k
  <2> DEFINE m == len - 1 + NodeId
  <2>1. m \in Nat /\ j \in 1..size /\ k \in 1..size  BY <1>0, <1>4
  <2>2. (m + j - 1) % size = (m + k - 1) % size  BY <1>1, <1>4
  <2>3. CASE size = 1  BY <2>1, <2>3
  <2>4. CASE size = 2  BY <2>1, <2>2, <2>4, SMT
  <2>5. CASE size = 3  BY <2>1, <2>2, <2>5, SMT
  <2> QED  BY <2>3, <2>4, <2>5
<1> QED  BY <1>2, <1>3, <1>4

-----------------------------------------------------------------------------
(***************************************************************************)
(* The entries of the cache.                                               *)
(***************************************************************************)

\* A set of numbers has a least one: induction, where it is needed, goes over the
\* least counterexample.
LEMMA LeastNumber ==
  ASSUME NEW T, T \subseteq Nat, T # {}
  PROVE  \E x \in T : \A y \in T : x <= y
<1>1. PICK x \in T : \A y \in T : <<y, x>> \notin OpToRel(<, Nat)
  BY NatLessThanWellFounded, WFMin
<1>2. ASSUME NEW y \in T  PROVE x <= y
  <2>1. <<y, x>> \notin {ss \in Nat \X Nat : ss[1] < ss[2]}  BY <1>1 DEF OpToRel
  <2> QED  BY <2>1
<1> QED  BY <1>2

\* What kept[i] is: the entries that count among the first i.
Selects(S, entries, id, kept) ==
  /\ kept \in [0 .. Len(entries) -> Seq(S)]
  /\ kept[0] = <<>>
  /\ \A i \in 1 .. Len(entries) :
       kept[i] = IF Counts(entries[i], id) THEN Append(kept[i-1], entries[i]) ELSE kept[i-1]
  /\ Recent(entries, id) = kept[Len(entries)]

\* The recursion that selects: its function exists, and its values are sequences.
LEMMA RecentRecursion ==
  ASSUME NEW S, NEW entries \in Seq(S), NEW id
  PROVE  \E kept : Selects(S, entries, id, kept)
<1> DEFINE n == Len(entries)
           Body(f, i) == IF i = 0 THEN <<>>
                         ELSE IF Counts(entries[i], id) THEN Append(f[i-1], entries[i])
                         ELSE f[i-1]
           Good(g, m) == \A i \in 0 .. m : g[i] = Body(g, i)
           None == {m \in 0 .. n : ~ \E g \in [0 .. m -> Seq(S)] : Good(g, m)}
<1>0. n \in Nat  OBVIOUS
<1>1. None = {}
  <2> SUFFICES ASSUME None # {}  PROVE FALSE
    OBVIOUS
  <2>0. None \subseteq Nat
    <3>1. None \subseteq 0 .. n  BY Zenon
    <3> QED  BY <1>0, <3>1
  <2>1. PICK m \in None : \A k \in None : m <= k
    <3> HIDE DEF None
    <3> QED  BY <2>0, LeastNumber
  <2>2. CASE m = 0
    <3> DEFINE g == [i \in 0 .. 0 |-> <<>>]
    <3>1. g \in [0 .. 0 -> Seq(S)]  OBVIOUS
    <3>2. Good(g, 0)  OBVIOUS
    <3> HIDE DEF g
    <3> QED  BY <2>1, <2>2, <3>1, <3>2
  <2>3. CASE m # 0
    <3>0. m \in 1 .. n /\ m - 1 \in 0 .. n /\ m - 1 \notin None
      <4>1. m \in 0 .. n  BY <2>1, Zenon
      <4>2. m \in 1 .. n /\ m - 1 \in 0 .. n /\ m - 1 \in Nat /\ ~(m <= m - 1)
        BY <1>0, <2>3, <4>1
      <4> HIDE DEF None
      <4> QED  BY <2>1, <4>2
    <3>1. PICK g \in [0 .. m - 1 -> Seq(S)] : Good(g, m - 1)
      BY <3>0, Zenon
    <3> DEFINE h == [i \in 0 .. m |-> IF i = m THEN Body(g, m) ELSE g[i]]
    <3>2. g[m - 1] \in Seq(S) /\ entries[m] \in S
      BY <3>0
    <3>3. Body(g, m) \in Seq(S)
      BY <3>0, <3>2
    <3>4. h \in [0 .. m -> Seq(S)]
      BY <3>0, <3>3
    <3>5. ASSUME NEW i \in 0 .. m  PROVE h[i] = Body(h, i)
      <4>1. CASE i = m
        <5>1. h[m - 1] = g[m - 1]  BY <3>0
        <5>2. h[m] = Body(g, m)  BY <3>0
        <5> QED  BY <3>0, <4>1, <5>1, <5>2
      <4>2. CASE i # m
        <5>1. i \in 0 .. m - 1 /\ h[i] = g[i]  BY <3>0, <4>2
        <5>2. i # 0 => h[i - 1] = g[i - 1]  BY <3>0, <4>2
        <5> QED  BY <3>1, <5>1, <5>2
      <4> QED  BY <4>1, <4>2
    <3> QED  BY <2>1, <3>4, <3>5
  <2> QED  BY <2>2, <2>3
<1>2. PICK g \in [0 .. n -> Seq(S)] : Good(g, n)
  <2>1. n \in 0 .. n  BY <1>0
  <2> QED  BY <1>1, <2>1, Zenon
<1>3. g = [i \in 0 .. n |-> Body(g, i)]
  BY <1>2
<1> DEFINE kept == CHOOSE f : f = [i \in 0 .. n |-> Body(f, i)]
<1>4. kept = [i \in 0 .. n |-> Body(kept, i)]
  BY <1>3
<1>5. Recent(entries, id) = kept[n]
  BY DEF Recent
<1> HIDE DEF kept
<1> DEFINE Bad == {i \in 0 .. n : kept[i] \notin Seq(S)}
<1>6. Bad = {}
  <2> SUFFICES ASSUME Bad # {}  PROVE FALSE
    OBVIOUS
  <2>0. Bad \subseteq 0 .. n /\ Bad \subseteq Nat
    BY <1>0
  <2>1. PICK m \in Bad : \A k \in Bad : m <= k
    <3> HIDE DEF Bad
    <3> QED  BY <2>0, LeastNumber
  <2>2. kept[m] = Body(kept, m)
    BY <1>4
  <2>3. CASE m = 0
    <3>1. kept[m] = <<>>  BY <2>2, <2>3
    <3>2. kept[m] \notin Seq(S)  BY <2>1
    <3> QED  BY <3>1, <3>2
  <2>4. CASE m # 0
    <3>1. m - 1 \in 0 .. n /\ m - 1 \notin Bad /\ m \in 1 .. n
      BY <1>0, <2>1, <2>4
    <3>2. kept[m - 1] \in Seq(S) /\ entries[m] \in S
      BY <3>1
    <3>3. Body(kept, m) \in Seq(S)
      BY <3>1, <3>2
    <3> QED  BY <2>1, <2>2, <3>3
  <2> QED  BY <2>3, <2>4
<1>7. kept \in [0 .. n -> Seq(S)]
  <2>1. DOMAIN kept = 0 .. n  BY <1>4
  <2>2. kept = [i \in 0 .. n |-> kept[i]]  BY <1>4
  <2>3. \A i \in 0 .. n : kept[i] \in Seq(S)  BY <1>6
  <2> HIDE DEF Body
  <2> QED  BY <2>2, <2>3
<1>8. kept[0] = <<>> /\ \A i \in 1 .. n : kept[i] = Body(kept, i)
  <2>1. \A i \in 0 .. n : kept[i] = Body(kept, i)  BY <1>4
  <2> QED  BY <1>0, <2>1
<1> QED  BY <1>0, <1>5, <1>7, <1>8 DEF Selects

\* The entries that count are a sequence of entries.
LEMMA RecentTyped ==
  ASSUME NEW S, NEW entries \in Seq(S), NEW id
  PROVE  Recent(entries, id) \in Seq(S)
<1>1. PICK kept : Selects(S, entries, id, kept)  BY RecentRecursion
<1>2. Len(entries) \in 0 .. Len(entries)  OBVIOUS
<1> QED  BY <1>1, <1>2 DEF Selects

\* A sequence with one more entry: the cache after an opportunity is accepted.
LEMMA Appended ==
  ASSUME NEW S, NEW s \in Seq(S), NEW e \in S
  PROVE  Append(s, e) \in Seq(S) /\ Len(Append(s, e)) = Len(s) + 1
BY AppendProperties

\* The cut cache is a sequence of the same entries, no longer than its size.
LEMMA TrimmedTyped ==
  ASSUME NEW S, NEW s \in Seq(S), NEW size \in Nat
  PROVE  /\ Trimmed(s, size) \in Seq(S)
         /\ Len(Trimmed(s, size)) = IF Len(s) > size THEN size ELSE Len(s)
<1>1. CASE Len(s) > size
  <2> DEFINE m == Len(s) - size + 1
  <2>1. Trimmed(s, size) = SubSeq(s, m, Len(s))  BY <1>1 DEF Trimmed
  <2>2. m \in Int /\ Len(s) \in Int /\ \A i \in m .. Len(s) : s[i] \in S  BY <1>1
  <2>3. /\ SubSeq(s, m, Len(s)) \in Seq(S)
        /\ Len(SubSeq(s, m, Len(s))) = IF m <= Len(s) THEN Len(s) - m + 1 ELSE 0
    <3> HIDE DEF m
    <3> QED  BY <2>2, SubSeqProperties
  <2> QED  BY <1>1, <2>1, <2>3
<1>2. CASE ~(Len(s) > size)
  BY <1>2 DEF Trimmed
<1> QED  BY <1>1, <1>2

\* What the cache of a path becomes.
LEMMA CachedTyped ==
  ASSUME TypeOK, NEW p \in Paths, NEW id \in Ids, NEW usdc \in Amounts,
         NEW yield \in Yields, NEW local \in Yields
  PROVE  /\ Cached(p, id, usdc, yield, local) \in Seq(Entry)
         /\ Len(Cached(p, id, usdc, yield, local)) \in 1..3
<1> DEFINE e == [id |-> id, usdc |-> usdc, yield |-> local]
           s == Append(Recent(cache[p], id), e)
<1>1. cache[p] \in Seq(Entry)  BY DEF TypeOK
<1>2. Recent(cache[p], id) \in Seq(Entry)  BY <1>1, RecentTyped
<1>3. e \in Entry  BY DEF Entry
<1>4. s \in Seq(Entry) /\ Len(s) >= 1
  <2> HIDE DEF e
  <2>1. /\ s \in Seq(Entry) /\ Len(s) = Len(Recent(cache[p], id)) + 1
        /\ Len(Recent(cache[p], id)) \in Nat
    BY <1>2, <1>3, Appended
  <2> QED  BY <2>1
<1>5. CacheSize(usdc, yield) \in 1..3  BY SizeRange, CommitAssumption
<1>6. Cached(p, id, usdc, yield, local) = Trimmed(s, CacheSize(usdc, yield))
  BY DEF Cached
<1> DEFINE size == CacheSize(usdc, yield)
<1> HIDE DEF s, size
<1>7. size \in Nat /\ size \in 1..3  BY <1>5 DEF size
<1>8. /\ Trimmed(s, size) \in Seq(Entry)
      /\ Len(Trimmed(s, size)) = IF Len(s) > size THEN size ELSE Len(s)
  BY <1>4, <1>7, TrimmedTyped
<1>9. Len(s) \in Nat  BY <1>4
<1>10. Len(Trimmed(s, size)) \in 1..3
  <2>1. CASE Len(s) > size  BY <1>7, <1>8, <2>1
  <2>2. CASE ~(Len(s) > size)
    <3>1. Len(s) <= size /\ Len(s) >= 1  BY <1>4, <1>7, <1>9, <2>2
    <3>2. Len(Trimmed(s, size)) = Len(s)  BY <1>8, <2>2
    <3> QED  BY <1>7, <1>9, <3>1, <3>2
  <2> QED  BY <2>1, <2>2
<1> QED  BY <1>6, <1>8, <1>10 DEF size

\* What the history becomes.
LEMMA LogTyped ==
  ASSUME TypeOK, NEW p \in Paths, NEW id \in Ids, NEW usdc \in Amounts,
         NEW yield \in Yields, NEW local \in Yields,
         Log(p, id, usdc, yield, local)
  PROVE  log' \in [Paths -> Seq(Accepted)] /\ \A q \in Paths : Len(log'[q]) <= KeepLog
<1> DEFINE e == [id |-> id, usdc |-> usdc, outer |-> yield, yield |-> local,
                 size |-> CacheSize(usdc, yield)]
           s == Append(log[p], e)
<1>1. e \in Accepted
  <2>1. CacheSize(usdc, yield) \in 1..3  BY SizeRange, CommitAssumption
  <2> QED  BY <2>1 DEF Accepted
<1>2. log[p] \in Seq(Accepted)  BY DEF TypeOK
<1>3. s \in Seq(Accepted)
  <2> HIDE DEF e
  <2> QED  BY <1>1, <1>2, Appended
<1>4. log' = [log EXCEPT ![p] = Trimmed(s, KeepLog)]  BY DEF Log
<1>5. KeepLog \in Nat  BY CommitAssumption
<1> HIDE DEF s
<1>6. Trimmed(s, KeepLog) \in Seq(Accepted) /\ Len(Trimmed(s, KeepLog)) <= KeepLog
  <2>1. Len(s) \in Nat  BY <1>3
  <2> QED  BY <1>3, <1>5, <2>1, TrimmedTyped
<1> QED  BY <1>4, <1>6 DEF TypeOK

-----------------------------------------------------------------------------
(***************************************************************************)
(* The types.                                                              *)
(***************************************************************************)

\* An id is the time and a salt.
LEMMA IdTyped ==
  ASSUME TypeOK, NEW id \in clock .. clock + MaxSalt
  PROVE  id \in Ids
<1>1. clock \in 0 .. MaxTime /\ MaxTime \in Nat /\ MaxSalt \in Nat
  BY CommitAssumption DEF TypeOK
<1> QED  BY <1>1 DEF Ids

\* The cache holds at most three entries per path, and every call ends in one of
\* the known ways.
THEOREM TypeCorrect == Spec => []TypeOK
<1>1. Init => TypeOK
  <2> SUFFICES ASSUME Init  PROVE TypeOK
    OBVIOUS
  <2>1. MaxTime \in Nat /\ KeepLog \in Nat  BY CommitAssumption
  <2>2. cache \in [Paths -> Seq(Entry)] /\ \A p \in Paths : Len(cache[p]) = 0
    BY DEF Init
  <2>3. log \in [Paths -> Seq(Accepted)] /\ \A p \in Paths : Len(log[p]) = 0
    BY DEF Init
  <2>4. call.verdict \in Verdicts
    BY DEF Init, NoCall, Verdicts
  <2> QED  BY <2>1, <2>2, <2>3, <2>4 DEF Init, TypeOK
<1>2. TypeOK /\ [Next]_vars => TypeOK'
  <2> SUFFICES ASSUME TypeOK, [Next]_vars  PROVE TypeOK'
    OBVIOUS
  <2>1. CASE UNCHANGED vars
    BY <2>1 DEF vars, TypeOK
  <2>2. CASE Pass
    <3>1. clock' \in 0 .. MaxTime  BY <2>2, CommitAssumption DEF Pass, TypeOK
    <3> QED  BY <2>2, <3>1 DEF Pass, TypeOK
  <2>3. ASSUME NEW p \in Paths, NEW verdict \in Verdicts, Returns(p, verdict)
        PROVE  TypeOK'
    <3>1. call'.verdict \in Verdicts  BY <2>3 DEF Returns, Unsent
    <3> QED  BY <2>3, <3>1 DEF Returns, TypeOK
  <2>4. ASSUME NEW p \in Paths, NEW id \in clock .. clock + MaxSalt,
               NEW usdc \in Amounts, NEW yield \in Yields, Reject(p, id, usdc, yield)
        PROVE  TypeOK'
    <3>1. CASE call' = [verdict |-> "so much", path |-> p, id |-> id, levels |-> <<>>]
               /\ UNCHANGED <<clock, cache, log>>
      <4>1. call'.verdict \in Verdicts  BY <3>1 DEF Verdicts
      <4> QED  BY <3>1, <4>1 DEF TypeOK
    <3>2. "low yield" \in Verdicts /\ "small usdc" \in Verdicts  BY DEF Verdicts
    <3> QED  BY <2>3, <2>4, <3>1, <3>2, Zenon DEF Reject
  <2>5. ASSUME NEW p \in Paths, NEW id \in clock .. clock + MaxSalt,
               NEW usdc \in Amounts, NEW yield \in Yields, LocalFails(p, id, usdc, yield)
        PROVE  TypeOK'
    <3>1. "local" \in Verdicts  BY DEF Verdicts
    <3> QED  BY <2>3, <2>5, <3>1 DEF LocalFails
  <2>6. ASSUME NEW p \in Paths, NEW id \in clock .. clock + MaxSalt,
               NEW usdc \in Amounts, NEW yield \in Yields,
               NEW local \in Yields, NEW amount \in Amounts,
               Accept(p, id, usdc, yield, local, amount)
        PROVE  TypeOK'
    <3> DEFINE entries == Cached(p, id, usdc, yield, local)
    <3>1. /\ cache' = [cache EXCEPT ![p] = entries]
          /\ clock' = clock
          /\ Log(p, id, usdc, yield, local)
      BY <2>6, Zenon DEF Accept
    <3>2. call'.verdict \in Verdicts
      <4>1. \/ \E verdict \in Verdicts : call' = Unsent(p, verdict)
            \/ \E levels : call' = Transactions(p, usdc, yield, local, amount, levels)
        <5>1. "no usdc" \in Verdicts /\ "small amount" \in Verdicts /\ "step" \in Verdicts
          BY DEF Verdicts
        <5> QED  BY <2>6, <5>1, Zenon DEF Accept
      <4>2. ASSUME NEW verdict \in Verdicts, call' = Unsent(p, verdict)
            PROVE  call'.verdict \in Verdicts
        BY <4>2 DEF Unsent
      <4>3. ASSUME NEW levels, call' = Transactions(p, usdc, yield, local, amount, levels)
            PROVE  call'.verdict \in Verdicts
        <5>1. call'.verdict = "sent"  BY <4>3 DEF Transactions
        <5> QED  BY <5>1 DEF Verdicts
      <4> QED  BY <4>1, <4>2, <4>3
    <3>3. id \in Ids  BY IdTyped
    <3>4. entries \in Seq(Entry) /\ Len(entries) <= 3
      <4>1. entries \in Seq(Entry) /\ Len(entries) \in 1..3  BY <3>3, CachedTyped
      <4>2. \A n \in 1..3 : n <= 3  OBVIOUS
      <4> HIDE DEF entries
      <4> QED  BY <4>1, <4>2, Zenon
    <3>5. log' \in [Paths -> Seq(Accepted)] /\ \A q \in Paths : Len(log'[q]) <= KeepLog
      BY <3>1, <3>3, LogTyped
    <3> HIDE DEF entries
    <3>6. cache' \in [Paths -> Seq(Entry)] /\ \A q \in Paths : Len(cache'[q]) <= 3
      BY <3>1, <3>4 DEF TypeOK
    <3> QED  BY <3>1, <3>2, <3>5, <3>6 DEF TypeOK
  <2> QED  BY <2>1, <2>2, <2>4, <2>5, <2>6 DEF Next, Arbitrage
<1> QED  BY <1>1, <1>2, PTL DEF Spec

-----------------------------------------------------------------------------
(***************************************************************************)
(* What is sent.                                                           *)
(***************************************************************************)

\* A step that sends is an Accept that passed its checks.
LEMMA SendStep ==
  ASSUME TypeOK, [Next]_vars, Sent'
  PROVE  \/ call' = call
         \/ \E p \in Paths, usdc \in Amounts, outer \in Yields, local \in Yields,
               sought \in Amounts, len \in 1..3 :
              /\ HasUsdc(Cycle[p]) /\ ~TooSmall(sought, local)
              /\ call' = Transactions(p, usdc, outer, local, sought,
                                      Levels(len, CacheSize(usdc, outer), local))
<1>1. CASE UNCHANGED vars
  BY <1>1 DEF vars
<1>2. CASE Pass
  BY <1>2 DEF Pass
<1>3. CASE Arbitrage
  <2>1. PICK p \in Paths, id \in clock .. clock + MaxSalt, usdc \in Amounts, yield \in Yields :
          \/ Reject(p, id, usdc, yield)
          \/ LocalFails(p, id, usdc, yield)
          \/ \E local \in Yields, amount \in Amounts : Accept(p, id, usdc, yield, local, amount)
    BY <1>3, Zenon DEF Arbitrage
  <2>2. ~Reject(p, id, usdc, yield)
    <3>1. ASSUME NEW verdict, verdict # "sent"  PROVE ~Returns(p, verdict)
      BY <3>1 DEF Returns, Unsent, Sent
    <3>2. call' # [verdict |-> "so much", path |-> p, id |-> id, levels |-> <<>>]
      <4> SUFFICES ASSUME call' = [verdict |-> "so much", path |-> p, id |-> id, levels |-> <<>>]
                   PROVE  FALSE
        OBVIOUS
      <4>1. call'.verdict = "so much"  OBVIOUS
      <4> QED  BY <4>1 DEF Sent
    <3>3. "low yield" # "sent" /\ "small usdc" # "sent"  OBVIOUS
    <3> QED  BY <3>1, <3>2, <3>3, Zenon DEF Reject
  <2>3. ~LocalFails(p, id, usdc, yield)
    BY DEF LocalFails, Returns, Unsent, Sent
  <2>4. PICK local \in Yields, amount \in Amounts : Accept(p, id, usdc, yield, local, amount)
    BY <2>1, <2>2, <2>3
  <2>5. ASSUME NEW verdict, verdict # "sent"  PROVE call' # Unsent(p, verdict)
    BY <2>5 DEF Unsent, Sent
  <2>6. "no usdc" # "sent" /\ "small amount" # "sent" /\ "step" # "sent"
    OBVIOUS
  <2> DEFINE len == Len(Cached(p, id, usdc, yield, local))
  <2>7. /\ HasUsdc(Cycle[p]) /\ ~TooSmall(amount, local)
        /\ call' = Transactions(p, usdc, yield, local, amount,
                                Levels(len, CacheSize(usdc, yield), local))
    BY <2>4, <2>5, <2>6, Zenon DEF Accept
  <2>8. len \in 1..3
    BY IdTyped, CachedTyped
  <2> QED  BY <2>7, <2>8
<1> QED  BY <1>1, <1>2, <1>3 DEF Next

\* The amount is cut to hundreds, and the checks before leave enough of it.
LEMMA SpentBounds ==
  ASSUME NEW sought \in Nat, NEW local \in Int, ~TooSmall(sought, local)
  PROVE  /\ Spent(sought) <= UsdcAmount /\ Spent(sought) <= sought
         /\ Spent(sought) >= 600 \/ local >= 200 \/ UsdcAmount < 600
BY CommitAssumption DEF Spent, TooSmall

\* No transaction of any opportunity spends more than config.USDC_AMOUNT or than
\* the recomputation priced (lines 649 to 656 of arbitrage.go).
THEOREM SpendsBounded == Spec => []SpendsWithin
<1>1. Init => SpendsWithin
  BY DEF Init, NoCall, Sent, SpendsWithin
<1>2. TypeOK /\ SpendsWithin /\ [Next]_vars => SpendsWithin'
  <2> SUFFICES ASSUME TypeOK, SpendsWithin, [Next]_vars, Sent'  PROVE SpendsWithin'
    BY DEF SpendsWithin
  <2>1. CASE call' = call
    BY <2>1 DEF SpendsWithin, Sent
  <2>2. ASSUME NEW p \in Paths, NEW usdc, NEW outer, NEW local \in Yields,
               NEW sought \in Amounts, NEW levels, ~TooSmall(sought, local),
               call' = Transactions(p, usdc, outer, local, sought, levels)
        PROVE  SpendsWithin'
    <3>1. sought \in Nat /\ local \in Int  BY CommitAssumption
    <3>2. call'.yield = local /\ call'.asked = sought /\ call'.amount = Spent(sought)
      BY <2>2 DEF Transactions
    <3> QED  BY <2>2, <3>1, <3>2, SpentBounds DEF SpendsWithin
  <2> QED  BY <2>1, <2>2, SendStep
<1> QED  BY <1>1, <1>2, TypeCorrect, PTL DEF Spec

\* The transactions of one opportunity read hashes of the window, each another
\* one, whatever config.NodeId is and however the pools moved, as long as they did
\* not raise the yield (lines 682 to 691 of arbitrage.go).
THEOREM LevelsDiffer == Spec => []LevelsApart
<1>1. Init => LevelsApart
  BY DEF Init, NoCall, Sent, LevelsApart
<1>2. TypeOK /\ LevelsApart /\ [Next]_vars => LevelsApart'
  <2> SUFFICES ASSUME TypeOK, LevelsApart, [Next]_vars, Sent'  PROVE LevelsApart'
    BY DEF LevelsApart
  <2>1. CASE call' = call
    BY <2>1 DEF LevelsApart, Sent
  <2>2. ASSUME NEW p \in Paths, NEW usdc \in Amounts, NEW outer \in Yields,
               NEW local \in Yields, NEW sought, NEW len \in 1..3,
               call' = Transactions(p, usdc, outer, local, sought,
                                    Levels(len, CacheSize(usdc, outer), local))
        PROVE  LevelsApart'
    <3> DEFINE size == CacheSize(usdc, outer)
               levels == Levels(len, size, local)
    <3>1. usdc \in Nat /\ outer \in Int /\ local \in Int  BY CommitAssumption
    <3>2. size \in 1..3  BY <3>1, SizeRange
    <3>3. /\ call'.levels = levels /\ call'.yield = local
          /\ call'.outer = outer /\ call'.usdc = usdc
      BY <2>2 DEF Transactions
    <3> HIDE DEF size
    <3>4. /\ \A k \in DOMAIN levels : levels[k] \in 0..2
          /\ Count(local) <= size
               => \A j, k \in DOMAIN levels : levels[j] = levels[k] => j = k
      BY <3>1, <3>2, LevelsAre
    <3>5. local <= outer /\ usdc # 30000 => Count(local) <= size
      BY <3>1, CountFits DEF size
    <3> HIDE DEF levels
    <3> QED  BY <3>3, <3>4, <3>5 DEF LevelsApart
  <2> QED  BY <2>1, <2>2, SendStep
<1> QED  BY <1>1, <1>2, TypeCorrect, PTL DEF Spec

-----------------------------------------------------------------------------
(***************************************************************************)
(* The rotation of the path.                                               *)
(***************************************************************************)

\* There is a first step that pays USDC.
LEMMA FirstFound ==
  ASSUME NEW tokens \in Seq(Tokens), HasUsdc(tokens)
  PROVE  FirstUsdc(tokens) \in 1 .. Len(tokens) /\ tokens[FirstUsdc(tokens)] = USDC
<1> DEFINE T == {i \in DOMAIN tokens : tokens[i] = USDC}
<1>1. T \subseteq Nat /\ T # {}  BY DEF HasUsdc
<1>2. PICK i \in T : \A j \in T : i <= j  BY <1>1, LeastNumber
<1>3. \E k \in DOMAIN tokens : tokens[k] = USDC /\ \A j \in 1 .. k - 1 : tokens[j] # USDC
  <2>1. ASSUME NEW j \in 1 .. i - 1  PROVE tokens[j] # USDC
    BY <1>1, <1>2
  <2> QED  BY <1>2, <2>1
<1> QED  BY <1>3 DEF FirstUsdc

\* The rotation, element by element.
LEMMA RotatedElements ==
  ASSUME NEW tokens \in Seq(Tokens), NEW f \in 1 .. Len(tokens), f = FirstUsdc(tokens)
  PROVE  /\ Len(Rotated(tokens)) = Len(tokens)
         /\ DOMAIN Rotated(tokens) = 1 .. Len(tokens)
         /\ \A k \in 1 .. Len(tokens) :
              Rotated(tokens)[k] = IF k <= Len(tokens) - f + 1 THEN tokens[k + f - 1]
                                   ELSE tokens[k - (Len(tokens) - f + 1)]
<1> DEFINE n == Len(tokens)
           u == SubSeq(tokens, f, n)
           v == SubSeq(tokens, 1, f - 1)
<1>1. \A i \in 1 .. n : tokens[i] \in Tokens  OBVIOUS
<1>2. /\ u \in Seq(Tokens) /\ Len(u) = n - f + 1
      /\ \A k \in 1 .. n - f + 1 : u[k] = tokens[k + f - 1]
  BY <1>1, SubSeqProperties
<1>3. /\ v \in Seq(Tokens) /\ Len(v) = f - 1
      /\ \A k \in 1 .. f - 1 : v[k] = tokens[k]
  BY <1>1, SubSeqProperties
<1>4. /\ u \o v \in Seq(Tokens) /\ Len(u \o v) = n
      /\ \A k \in 1 .. n : (u \o v)[k] = IF k <= n - f + 1 THEN u[k] ELSE v[k - (n - f + 1)]
  <2> HIDE DEF u, v
  <2> QED  BY <1>2, <1>3, ConcatProperties
<1>5. Rotated(tokens) = u \o v  BY DEF Rotated
<1> HIDE DEF u, v
<1>6. ASSUME NEW k \in 1 .. n
      PROVE  (u \o v)[k] = IF k <= n - f + 1 THEN tokens[k + f - 1]
                           ELSE tokens[k - (n - f + 1)]
  <2>1. CASE k <= n - f + 1  BY <1>2, <1>4, <2>1
  <2>2. CASE ~(k <= n - f + 1)
    <3>1. k - (n - f + 1) \in 1 .. f - 1  BY <2>2
    <3> QED  BY <1>3, <1>4, <2>2, <3>1
  <2> QED  BY <2>1, <2>2
<1> QED  BY <1>4, <1>5, <1>6

\* The step that step k of a cycle of n pays into, and where step k of the cycle
\* that starts at f was.
After(n, k) == IF k = n THEN 1 ELSE k + 1
Was(n, f, k) == IF k <= n - f + 1 THEN k + f - 1 ELSE k - (n - f + 1)

\* The step after the last of a circular path is its first.
LEMMA Wraps ==
  ASSUME NEW n \in Nat, NEW k \in 1 .. n
  PROVE  (k % n) + 1 = After(n, k)
BY DEF After

\* Was is a bijection that commutes with After.
LEMMA WasAfter ==
  ASSUME NEW n \in Nat, NEW f \in 1 .. n, NEW k \in 1 .. n
  PROVE  /\ Was(n, f, k) \in 1 .. n /\ After(n, k) \in 1 .. n
         /\ Was(n, f, After(n, k)) = After(n, Was(n, f, k))
<1>1. CASE k = n
  BY <1>1 DEF Was, After
<1>2. CASE k < n
  BY <1>2 DEF Was, After
<1> QED  BY <1>1, <1>2

\* The rotation leaves out no step of the path.
LEMMA WasOnto ==
  ASSUME NEW n \in Nat, NEW f \in 1 .. n, NEW j \in 1 .. n
  PROVE  \E k \in 1 .. n : Was(n, f, k) = j
<1>1. CASE j >= f
  <2>1. j - f + 1 \in 1 .. n /\ Was(n, f, j - f + 1) = j  BY <1>1 DEF Was
  <2> QED  BY <2>1
<1>2. CASE j < f
  <2>1. j + n - f + 1 \in 1 .. n /\ Was(n, f, j + n - f + 1) = j  BY <1>2 DEF Was
  <2> QED  BY <2>1
<1> QED  BY <1>1, <1>2

\* The pairs of a cycle.
LEMMA PassedAre ==
  ASSUME NEW t, NEW n \in Nat, DOMAIN t = 1 .. n, Len(t) = n
  PROVE  Passed(t) = {<<t[k], t[After(n, k)]>> : k \in 1 .. n}
<1> DEFINE wrapped(k) == <<t[k], t[(k % n) + 1]>>
           pair(k) == <<t[k], t[After(n, k)]>>
<1>1. ASSUME NEW k \in 1 .. n  PROVE wrapped(k) = pair(k)
  BY Wraps
<1>2. Passed(t) = {wrapped(k) : k \in 1 .. n}
  BY Zenon DEF Passed
<1> HIDE DEF wrapped, pair
<1>3. {wrapped(k) : k \in 1 .. n} = {pair(k) : k \in 1 .. n}
  BY <1>1
<1> QED  BY <1>2, <1>3 DEF pair

\* Who passes to whom does not depend on where the cycle starts.
LEMMA RotationPasses ==
  ASSUME NEW tokens \in Seq(Tokens), HasUsdc(tokens)
  PROVE  Rotated(tokens)[1] = USDC /\ Passed(Rotated(tokens)) = Passed(tokens)
<1> DEFINE n == Len(tokens)
           f == FirstUsdc(tokens)
           r == Rotated(tokens)
<1>1. f \in 1 .. n /\ tokens[f] = USDC  BY FirstFound
<1>2. DOMAIN tokens = 1 .. n /\ n \in Nat  OBVIOUS
<1>3. Len(r) = n /\ DOMAIN r = 1 .. n /\ \A k \in 1 .. n : r[k] = tokens[Was(n, f, k)]
  BY <1>1, RotatedElements DEF Was
<1>4. Passed(tokens) = {<<tokens[k], tokens[After(n, k)]>> : k \in 1 .. n}
  BY <1>2, PassedAre
<1> HIDE DEF n, f, r
<1>5. Passed(r) = {<<r[k], r[After(n, k)]>> : k \in 1 .. n}
  BY <1>2, <1>3, PassedAre
<1>6. ASSUME NEW k \in 1 .. n
      PROVE  /\ Was(n, f, k) \in 1 .. n
             /\ <<r[k], r[After(n, k)]>>
                  = <<tokens[Was(n, f, k)], tokens[After(n, Was(n, f, k))]>>
  BY <1>1, <1>2, <1>3, WasAfter, ZenonT(30)
<1>7. Passed(r) \subseteq Passed(tokens)
  BY <1>4, <1>5, <1>6
<1>8. Passed(tokens) \subseteq Passed(r)
  <2>1. ASSUME NEW j \in 1 .. n
        PROVE  \E k \in 1 .. n :
                 <<tokens[j], tokens[After(n, j)]>> = <<r[k], r[After(n, k)]>>
    <3>1. PICK k \in 1 .. n : Was(n, f, k) = j  BY <1>1, <1>2, WasOnto
    <3> QED  BY <1>6, <3>1
  <2> QED  BY <1>4, <1>5, <2>1
<1>9. r[1] = USDC
  <2>1. 1 \in 1 .. n /\ Was(n, f, 1) = f  BY <1>1, <1>2 DEF Was
  <2> QED  BY <1>1, <1>3, <2>1
<1> QED  BY <1>7, <1>8, <1>9 DEF r

\* Every transaction starts with the step that pays USDC, ends with the one that
\* returns it, and passes on the tokens that the path passes on, for paths of any
\* length (lines 631 to 648 of arbitrage.go).
THEOREM StepsAreRotated == Spec => []StepsChain
<1>1. Init => StepsChain
  BY DEF Init, NoCall, Sent, StepsChain
<1>2. TypeOK /\ StepsChain /\ [Next]_vars => StepsChain'
  <2> SUFFICES ASSUME TypeOK, StepsChain, [Next]_vars, Sent'  PROVE StepsChain'
    BY DEF StepsChain
  <2>1. CASE call' = call
    BY <2>1 DEF StepsChain, Sent
  <2>2. ASSUME NEW p \in Paths, NEW usdc, NEW outer, NEW local, NEW sought, NEW levels,
               HasUsdc(Cycle[p]),
               call' = Transactions(p, usdc, outer, local, sought, levels)
        PROVE  StepsChain'
    <3>1. Cycle[p] \in Seq(Tokens)  BY CommitAssumption
    <3>2. /\ Rotated(Cycle[p])[1] = USDC
          /\ Passed(Rotated(Cycle[p])) = Passed(Cycle[p])
      BY <2>2, <3>1, RotationPasses
    <3>3. call'.path = p /\ call'.steps = Rotated(Cycle[p])
      BY <2>2 DEF Transactions
    <3> QED  BY <3>2, <3>3 DEF StepsChain
  <2> QED  BY <2>1, <2>2, SendStep
<1> QED  BY <1>1, <1>2, TypeCorrect, PTL DEF Spec

-----------------------------------------------------------------------------
(***************************************************************************)
(* How often the same opportunity is taken.  Both the cache and the log    *)
(* are counted from their ends, which is where they grow.                  *)
(***************************************************************************)

Back(s, i) == s[Len(s) - i]
Depths(s) == 0 .. Len(s) - 1

\* An entry in the order of acceptance: none is newer than those after it, or than
\* the time.
Ordered(s, time) ==
  /\ \A i \in Depths(s) : Back(s, i).id <= time
  /\ \A i, j \in Depths(s) : i <= j => Back(s, j).id <= Back(s, i).id

\* The cache and the log end with the same opportunities.
Aligned(entries, accepted) ==
  \A i \in Depths(entries) \cap Depths(accepted) :
    /\ Back(entries, i).id = Back(accepted, i).id
    /\ Back(entries, i).usdc = Back(accepted, i).usdc
    /\ Back(entries, i).yield = Back(accepted, i).yield

\* The cache is not longer than the last opportunity let it be.
Fits(entries, accepted) ==
  accepted # <<>> => 1 <= Len(entries) /\ Len(entries) <= Back(accepted, 0).size

\* What was accepted within the window of the last, and what looks the same since.
Late(accepted, i) ==
  i \in Depths(accepted) /\ Back(accepted, 0).id - Back(accepted, i).id < Window
Same(accepted, i) ==
  /\ Late(accepted, i)
  /\ \A a, b \in 0 .. i :
       a < b => Similar(Back(accepted, a).usdc, Back(accepted, a).outer, Back(accepted, b))

\* The sizes since, against a bound, and among each other.
AtMost(accepted, i, n) == \A a \in 0 .. i : Back(accepted, a).size <= n
AtLeast(accepted, i, n) == \A a \in 0 .. i : n <= Back(accepted, a).size
Falling(accepted, i) ==
  \A a, b \in 0 .. i : a < b => Back(accepted, a).size <= Back(accepted, b).size

\* What is late is in the cache, or the cache has as many as each size since let it.
Keeps(entries, accepted) ==
  \A i \in Nat, n \in 1 .. 3 :
    Late(accepted, i) /\ AtLeast(accepted, i, n) => i + 1 <= Len(entries) \/ n <= Len(entries)

\* The cache loses less than one size of what looks the same.
Loses(entries, accepted) ==
  \A i \in Nat, n \in 1 .. 3 :
    Same(accepted, i) /\ AtMost(accepted, i, n) => i + 1 <= Len(entries) + n - 1

\* No more than one size is taken while the sizes do not grow.
Limits(accepted) ==
  \A i \in Nat, n \in 1 .. 3 :
    Same(accepted, i) /\ AtMost(accepted, i, n) /\ Falling(accepted, i) => i + 1 <= n

Limited(entries, accepted, time) ==
  /\ Ordered(entries, time) /\ Ordered(accepted, time)
  /\ Aligned(entries, accepted) /\ Fits(entries, accepted)
  /\ Keeps(entries, accepted) /\ Loses(entries, accepted) /\ Limits(accepted)

\* Sequence t is s with e after it, and its front cut off.
Shifted(s, e, t) ==
  /\ Len(t) <= Len(s) + 1
  /\ t # <<>> => Back(t, 0) = e
  /\ \A i \in Depths(t) : i > 0 => i - 1 \in Depths(s) /\ Back(t, i) = Back(s, i - 1)

\* An opportunity f is accepted at its time, with r entries that count.
Accepts(entries, accepted, r, e, f, newer, longer) ==
  /\ f.id = e.id /\ f.usdc = e.usdc /\ f.yield = e.yield
  /\ Shifted(entries, e, newer) /\ Shifted(accepted, f, longer)
  /\ r \in 0 .. Len(entries)
  /\ \A i \in Depths(entries) : i < r <=> f.id - Back(entries, i).id < Window
  /\ Len(newer) = IF r + 1 > f.size THEN f.size ELSE r + 1
  /\ r >= f.size => ~Similar(f.usdc, f.outer, Back(entries, r - 1))

\* The entries at depths are elements.
LEMMA BackIn ==
  ASSUME NEW S, NEW s \in Seq(S), NEW i \in Depths(s)
  PROVE  Back(s, i) \in S /\ i \in Nat /\ Len(s) - i \in 1 .. Len(s)
<1>1. Len(s) - i \in 1 .. Len(s) /\ i \in Nat
  BY DEF Depths
<1> QED  BY <1>1 DEF Back

\* A sequence with one more, cut: what was accepted last is at its end.
LEMMA ShiftedIs ==
  ASSUME NEW S, NEW s \in Seq(S), NEW e \in S, NEW size \in Nat
  PROVE  LET t == Trimmed(Append(s, e), size)
         IN /\ t \in Seq(S) /\ Shifted(s, e, t)
            /\ Len(t) = IF Len(s) + 1 > size THEN size ELSE Len(s) + 1
<1> DEFINE u == Append(s, e)
           t == Trimmed(u, size)
<1>1. u \in Seq(S) /\ Len(u) = Len(s) + 1 /\ Len(s) \in Nat
  BY Appended
<1>2. \A k \in 1 .. Len(u) : u[k] = IF k = Len(u) THEN e ELSE s[k]
  BY <1>1, AppendProperties
<1>3. t \in Seq(S) /\ Len(t) = IF Len(u) > size THEN size ELSE Len(u)
  BY <1>1, TrimmedTyped
<1>4. \A i \in Depths(t) : Back(t, i) = Back(u, i)
  <2>1. CASE Len(u) > size
    <3> DEFINE m == Len(u) - size + 1
    <3>1. t = SubSeq(u, m, Len(u))  BY <2>1 DEF Trimmed
    <3>2. m \in 1 .. Len(u) + 1 /\ Len(u) \in Int  BY <1>1, <2>1
    <3>3. \A k \in 1 .. size : SubSeq(u, m, Len(u))[k] = u[m + k - 1]
      <4>1. \A k \in m .. Len(u) : u[k] \in S  BY <1>1, <3>2
      <4>2. Len(u) - m + 1 = size  BY <1>1
      <4> HIDE DEF u
      <4> QED  BY <3>2, <4>1, <4>2, <2>1, SubSeqProperties
    <3>4. Len(t) = size  BY <1>3, <2>1
    <3> HIDE DEF u, t
    <3>5. ASSUME NEW i \in Depths(t)  PROVE Back(t, i) = Back(u, i)
      <4>1. size - i \in 1 .. size /\ i \in Nat  BY <3>4, <3>5 DEF Depths
      <4>2. t[size - i] = u[m + (size - i) - 1]  BY <3>1, <3>3, <4>1
      <4>3. m + (size - i) - 1 = Len(u) - i  BY <1>1, <4>1
      <4> HIDE DEF m
      <4> QED  BY <3>4, <4>2, <4>3 DEF Back
    <3> QED  BY <3>5
  <2>2. CASE ~(Len(u) > size)
    BY <2>2 DEF Trimmed
  <2> QED  BY <2>1, <2>2
<1> HIDE DEF u, t
<1>5. t # <<>> => Back(t, 0) = e
  <2> SUFFICES ASSUME t # <<>>  PROVE Back(t, 0) = e
    OBVIOUS
  <2>1. 0 \in Depths(t)  BY <1>3 DEF Depths
  <2>2. Back(u, 0) = e  BY <1>1, <1>2 DEF Back
  <2> QED  BY <1>4, <2>1, <2>2
<1>6. ASSUME NEW i \in Depths(t), i > 0
      PROVE  i - 1 \in Depths(s) /\ Back(t, i) = Back(s, i - 1)
  <2>1. i \in Nat /\ i < Len(t) /\ Len(t) <= Len(s) + 1
    BY <1>1, <1>3, <1>6 DEF Depths
  <2>2. i - 1 \in Depths(s)  BY <1>1, <1>6, <2>1 DEF Depths
  <2>3. Len(u) - i \in 1 .. Len(u) /\ Len(u) - i # Len(u) /\ Len(u) - i = Len(s) - (i - 1)
    BY <1>1, <1>6, <2>1
  <2>4. u[Len(u) - i] = s[Len(s) - (i - 1)]
    BY <1>2, <2>3
  <2> QED  BY <1>4, <2>2, <2>4 DEF Back
<1>7. Len(t) <= Len(s) + 1  BY <1>1, <1>3
<1> QED  BY <1>1, <1>3, <1>5, <1>6, <1>7 DEF Shifted, u, t

\* Where the ids are in order, the entries that count are the last ones.
LEMMA RecentIsLast ==
  ASSUME NEW S, NEW entries \in Seq(S), NEW id,
         \A i, j \in 1 .. Len(entries) :
           i <= j /\ Counts(entries[i], id) => Counts(entries[j], id)
  PROVE  LET recent == Recent(entries, id)
         IN /\ recent \in Seq(S) /\ Len(recent) <= Len(entries)
            /\ \A i \in Depths(recent) : Back(recent, i) = Back(entries, i)
            /\ \A i \in Depths(entries) : i < Len(recent) <=> Counts(Back(entries, i), id)
<1> DEFINE n == Len(entries)
<1>0. n \in Nat  OBVIOUS
<1>1. \E d \in 0 .. n : \A i \in 1 .. n : Counts(entries[i], id) <=> i > d
  <2> DEFINE T == {i \in 1 .. n : Counts(entries[i], id)}
  <2>1. CASE T = {}
    <3>1. n \in 0 .. n /\ \A i \in 1 .. n : ~(i > n)  BY <1>0
    <3> QED  BY <2>1, <3>1
  <2>2. CASE T # {}
    <3>1. T \subseteq 1 .. n /\ T \subseteq Nat  BY <1>0
    <3>2. PICK m \in T : \A k \in T : m <= k
      <4> HIDE DEF T
      <4> QED  BY <2>2, <3>1, LeastNumber
    <3>3. m \in 1 .. n /\ Counts(entries[m], id)  BY <3>2
    <3>4. ASSUME NEW i \in 1 .. n  PROVE Counts(entries[i], id) <=> i > m - 1
      <4>1. CASE i \in T  BY <1>0, <3>2, <3>3, <4>1
      <4>2. CASE i \notin T
        <5>1. ~(m <= i)  BY <3>3, <4>2
        <5> QED  BY <1>0, <3>3, <4>2, <5>1
      <4> QED  BY <4>1, <4>2
    <3>5. m - 1 \in 0 .. n  BY <1>0, <3>3
    <3> QED  BY <3>4, <3>5
  <2> QED  BY <2>1, <2>2
<1>2. PICK d \in 0 .. n : \A i \in 1 .. n : Counts(entries[i], id) <=> i > d
  BY <1>1
<1>3. PICK kept : Selects(S, entries, id, kept)  BY RecentRecursion
<1> DEFINE Holds(i) == /\ Len(kept[i]) = IF i > d THEN i - d ELSE 0
                      /\ \A k \in 1 .. i - d : kept[i][k] = entries[d + k]
           Bad == {i \in 0 .. n : ~Holds(i)}
<1>4. Bad = {}
  <2> SUFFICES ASSUME Bad # {}  PROVE FALSE
    OBVIOUS
  <2>0. Bad \subseteq 0 .. n /\ Bad \subseteq Nat
    <3>1. Bad \subseteq 0 .. n  BY Zenon
    <3> QED  BY <1>0, <3>1
  <2>1. PICK m \in Bad : \A k \in Bad : m <= k
    <3> HIDE DEF Bad
    <3> QED  BY <2>0, LeastNumber
  <2>1a. m \in 0 .. n /\ ~Holds(m)  BY <2>1, Zenon
  <2>2. CASE m = 0
    <3>1. kept[0] = <<>> /\ d \in Nat  BY <1>0, <1>2, <1>3 DEF Selects
    <3>2. Len(kept[0]) = 0  BY <3>1
    <3>3. Holds(0)  BY <3>1, <3>2
    <3> QED  BY <2>1a, <2>2, <3>3, Zenon
  <2>3. CASE m # 0
    <3>1. m \in 1 .. n /\ m - 1 \in 0 .. n /\ m \in Nat /\ d \in Nat
      BY <1>0, <1>2, <2>1a, <2>3
    <3>2. Holds(m - 1)
      <4>1. m - 1 \notin Bad
        <5>1. ~(m <= m - 1)  BY <3>1
        <5> HIDE DEF Bad
        <5> QED  BY <2>1, <5>1
      <4> QED  BY <3>1, <4>1, Zenon
    <3>3. kept[m] = IF Counts(entries[m], id) THEN Append(kept[m-1], entries[m]) ELSE kept[m-1]
      BY <1>3, <3>1 DEF Selects
    <3>4. kept[m-1] \in Seq(S) /\ entries[m] \in S
      <4>1. kept \in [0 .. n -> Seq(S)]  BY <1>3 DEF Selects
      <4> HIDE DEF Holds, Bad
      <4> QED  BY <3>1, <4>1
    <3>5. CASE m > d
      <4>1. kept[m] = Append(kept[m-1], entries[m])  BY <1>2, <3>1, <3>3, <3>5
      <4>2. Len(kept[m-1]) = m - 1 - d  BY <3>1, <3>2, <3>5
      <4>3. Len(kept[m]) = m - d  BY <3>1, <3>4, <4>1, <4>2, AppendProperties
      <4>4. ASSUME NEW k \in 1 .. m - d  PROVE kept[m][k] = entries[d + k]
        <5>1. CASE k = m - d
          <6>1. k = Len(kept[m-1]) + 1 /\ d + k = m  BY <3>1, <4>2, <5>1, SMTT(30)
          <6> QED  BY <3>4, <4>1, <6>1, AppendProperties
        <5>2. CASE k # m - d
          <6>1. k \in 1 .. (m - 1) - d /\ k \in 1 .. Len(kept[m-1])  BY <3>1, <4>2, <5>2
          <6>2. kept[m][k] = kept[m-1][k]  BY <3>4, <4>1, <6>1, AppendProperties
          <6> QED  BY <3>2, <6>1, <6>2
        <5> QED  BY <5>1, <5>2
      <4>5. Holds(m)  BY <3>5, <4>3, <4>4
      <4> QED  BY <2>1a, <4>5, Zenon
    <3>6. CASE ~(m > d)
      <4>1. kept[m] = kept[m-1]  BY <1>2, <3>1, <3>3, <3>6
      <4>2. ~(m - 1 > d) /\ 1 .. m - d = {}  BY <3>1, <3>6
      <4>3. Holds(m)  BY <3>2, <3>6, <4>1, <4>2
      <4> QED  BY <2>1a, <4>3, Zenon
    <3> QED  BY <3>5, <3>6
  <2> QED  BY <2>2, <2>3
<1> DEFINE recent == Recent(entries, id)
<1>5. recent = kept[n] /\ recent \in Seq(S)
  BY <1>0, <1>3 DEF Selects
<1>6. Len(recent) = n - d /\ \A k \in 1 .. n - d : recent[k] = entries[d + k]
  <2>1. n \in 0 .. n  BY <1>0
  <2>2. Holds(n)  BY <1>4, <2>1, Zenon
  <2> QED  BY <1>0, <1>2, <1>5, <2>2
<1> HIDE DEF recent
<1>7. ASSUME NEW i \in Depths(recent)  PROVE Back(recent, i) = Back(entries, i)
  <2>1. (n - d) - i \in 1 .. n - d /\ d + ((n - d) - i) = n - i
    BY <1>0, <1>2, <1>6, <1>7 DEF Depths
  <2>2. recent[(n - d) - i] = entries[d + ((n - d) - i)]  BY <1>6, <2>1
  <2> QED  BY <1>6, <2>1, <2>2 DEF Back
<1>8. ASSUME NEW i \in Depths(entries)
      PROVE  i < Len(recent) <=> Counts(Back(entries, i), id)
  <2>1. n - i \in 1 .. n /\ (n - i > d <=> i < n - d)
    BY <1>0, <1>2, <1>8 DEF Depths
  <2> QED  BY <1>2, <1>6, <2>1 DEF Back
<1>9. Len(recent) <= n  BY <1>0, <1>2, <1>6
<1> QED  BY <1>5, <1>7, <1>8, <1>9 DEF recent

\* What holds when an opportunity is accepted.
Grows(entries, accepted, time, r, e, f, newer, longer) ==
  /\ entries \in Seq(Entry) /\ newer \in Seq(Entry) /\ e \in Entry
  /\ accepted \in Seq(Accepted) /\ longer \in Seq(Accepted) /\ f \in Accepted
  /\ time \in Nat /\ time <= f.id
  /\ Limited(entries, accepted, time)
  /\ Accepts(entries, accepted, r, e, f, newer, longer)

\* The fields of an entry are numbers.
LEMMA EntryIs ==
  ASSUME NEW e \in Entry
  PROVE  e.id \in Nat /\ e.usdc \in Nat /\ e.yield \in Int
<1>1. Ids \subseteq Nat /\ Amounts \subseteq Nat /\ Yields \subseteq Int
  BY CommitAssumption DEF Ids
<1>2. e.id \in Ids /\ e.usdc \in Amounts /\ e.yield \in Yields
  BY DEF Entry
<1> QED  BY <1>1, <1>2

\* The same for a line of the log.
LEMMA AcceptedIs ==
  ASSUME NEW f \in Accepted
  PROVE  /\ f.id \in Nat /\ f.usdc \in Nat /\ f.yield \in Int /\ f.outer \in Int
         /\ f.size \in Nat /\ 1 <= f.size /\ f.size <= 3
<1>1. Ids \subseteq Nat /\ Amounts \subseteq Nat /\ Yields \subseteq Int
  BY CommitAssumption DEF Ids
<1>2. /\ f.id \in Ids /\ f.usdc \in Amounts /\ f.yield \in Yields /\ f.outer \in Yields
      /\ f.size \in 1 .. 3
  BY DEF Accepted
<1>3. f.size \in Nat /\ 1 <= f.size /\ f.size <= 3  BY <1>2
<1>4. f.id \in Nat /\ f.usdc \in Nat /\ f.yield \in Int /\ f.outer \in Int  BY <1>1, <1>2
<1> QED  BY <1>3, <1>4

\* The new end of a sequence is the newest.
LEMMA OrderedStep ==
  ASSUME NEW S, \A x \in S : x.id \in Nat, NEW s \in Seq(S), NEW t \in Seq(S), NEW e \in S,
         NEW time \in Nat, time <= e.id, Ordered(s, time), Shifted(s, e, t)
  PROVE  Ordered(t, e.id)
<1>1. \A i \in Depths(t) : Back(t, i) \in S /\ i \in Nat
  BY BackIn
<1>2. 0 \in Depths(t) => Back(t, 0) = e
  <2>1. 0 \in Depths(t) => t # <<>>  BY DEF Depths
  <2> QED  BY <2>1 DEF Shifted
<1>3. \A i \in Depths(t) : i > 0 => i - 1 \in Depths(s) /\ Back(t, i) = Back(s, i - 1)
  BY DEF Shifted
<1>4. ASSUME NEW i \in Depths(t)  PROVE Back(t, i).id <= e.id
  <2>1. CASE i = 0
    <3>1. Back(t, i) = e  BY <1>2, <1>4, <2>1
    <3> QED  BY <3>1
  <2>2. CASE i # 0
    <3>1. i > 0  BY <1>1, <1>4, <2>2
    <3>2. i - 1 \in Depths(s) /\ Back(t, i) = Back(s, i - 1)  BY <1>3, <1>4, <3>1
    <3>3. Back(s, i - 1).id <= time  BY <3>2 DEF Ordered
    <3>4. Back(t, i).id \in Nat /\ e.id \in Nat  BY <1>1, <1>4
    <3> QED  BY <3>2, <3>3, <3>4
  <2> QED  BY <2>1, <2>2
<1>5. ASSUME NEW i \in Depths(t), NEW j \in Depths(t), i <= j
      PROVE  Back(t, j).id <= Back(t, i).id
  <2>0. i \in Nat /\ j \in Nat /\ Back(t, i).id \in Nat /\ Back(t, j).id \in Nat
    BY <1>1
  <2>1. CASE i = 0
    <3>1. Back(t, i) = e  BY <1>2, <2>1
    <3> QED  BY <1>4, <3>1
  <2>2. CASE i # 0
    <3>1. i > 0 /\ j > 0 /\ i - 1 <= j - 1  BY <1>5, <2>0, <2>2
    <3>2. /\ i - 1 \in Depths(s) /\ Back(t, i) = Back(s, i - 1)
          /\ j - 1 \in Depths(s) /\ Back(t, j) = Back(s, j - 1)
      BY <1>3, <3>1
    <3> QED  BY <3>1, <3>2 DEF Ordered
  <2> QED  BY <2>1, <2>2
<1> QED  BY <1>4, <1>5 DEF Ordered

\* The parts of Grows, for the proofs below.
LEMMA GrowsHas ==
  ASSUME NEW entries, NEW accepted, NEW time, NEW r, NEW e, NEW f, NEW newer, NEW longer,
         Grows(entries, accepted, time, r, e, f, newer, longer)
  PROVE  /\ entries \in Seq(Entry) /\ newer \in Seq(Entry)
         /\ accepted \in Seq(Accepted) /\ longer \in Seq(Accepted)
         /\ r \in Nat /\ r <= Len(entries) /\ Len(entries) \in Nat
         /\ f.size \in Nat /\ 1 <= f.size /\ f.size <= 3
         /\ Len(newer) = (IF r + 1 > f.size THEN f.size ELSE r + 1)
         /\ 1 <= Len(newer) /\ Len(newer) <= f.size /\ Len(newer) \in Nat
<1>1. r \in 0 .. Len(entries) /\ f \in Accepted
      /\ Len(newer) = (IF r + 1 > f.size THEN f.size ELSE r + 1)
  BY DEF Grows, Accepts
<1>2. entries \in Seq(Entry) /\ newer \in Seq(Entry)
      /\ accepted \in Seq(Accepted) /\ longer \in Seq(Accepted)
  BY DEF Grows
<1>3. Len(entries) \in Nat  BY <1>2
<1>4. f.size \in Nat /\ 1 <= f.size /\ f.size <= 3  BY <1>1, AcceptedIs
<1> HIDE DEF Grows
<1> QED  BY <1>1, <1>2, <1>3, <1>4

\* The ends of cache and log are of the same opportunities.
LEMMA AlignedStep ==
  ASSUME NEW entries, NEW accepted, NEW time, NEW r, NEW e, NEW f, NEW newer, NEW longer,
         Grows(entries, accepted, time, r, e, f, newer, longer)
  PROVE  Aligned(newer, longer)
<1>1. /\ f.id = e.id /\ f.usdc = e.usdc /\ f.yield = e.yield
      /\ Shifted(entries, e, newer) /\ Shifted(accepted, f, longer)
      /\ Aligned(entries, accepted)
  BY DEF Grows, Accepts, Limited
<1>2. SUFFICES ASSUME NEW i \in Depths(newer), i \in Depths(longer)
      PROVE  /\ Back(newer, i).id = Back(longer, i).id
             /\ Back(newer, i).usdc = Back(longer, i).usdc
             /\ Back(newer, i).yield = Back(longer, i).yield
  BY DEF Aligned
<1>3. i \in Nat /\ newer # <<>> /\ longer # <<>>
  <2>1. newer \in Seq(Entry) /\ longer \in Seq(Accepted)  BY GrowsHas
  <2> QED  BY <1>2, <2>1 DEF Depths
<1>4. CASE i = 0
  BY <1>1, <1>3, <1>4 DEF Shifted
<1>5. CASE i # 0
  <2>1. i > 0  BY <1>3, <1>5
  <2>2. /\ i - 1 \in Depths(entries) /\ Back(newer, i) = Back(entries, i - 1)
        /\ i - 1 \in Depths(accepted) /\ Back(longer, i) = Back(accepted, i - 1)
    BY <1>1, <1>2, <2>1 DEF Shifted
  <2> QED  BY <1>1, <2>2 DEF Aligned
<1> QED  BY <1>4, <1>5

\* The cache is cut to the size of the newest.
LEMMA FitsStep ==
  ASSUME NEW entries, NEW accepted, NEW time, NEW r, NEW e, NEW f, NEW newer, NEW longer,
         Grows(entries, accepted, time, r, e, f, newer, longer)
  PROVE  Fits(newer, longer)
<1>1. longer # <<>> => Back(longer, 0) = f
  BY DEF Grows, Accepts, Shifted
<1>2. 1 <= Len(newer) /\ Len(newer) <= f.size  BY GrowsHas
<1> QED  BY <1>1, <1>2 DEF Fits

\* What is late, and looks the same, after a call did so before it.
Before(accepted, longer, f, i) ==
  /\ Late(accepted, i - 1) /\ i - 1 \in Nat /\ f.id - Back(accepted, i - 1).id < Window
  /\ Same(longer, i) => /\ Same(accepted, i - 1)
                        /\ \A b \in 0 .. i - 1 : Similar(f.usdc, f.outer, Back(accepted, b))
  /\ \A n \in 1 .. 3 : AtMost(longer, i, n) => AtMost(accepted, i - 1, n) /\ f.size <= n
  /\ \A n \in 1 .. 3 : AtLeast(longer, i, n) => AtLeast(accepted, i - 1, n) /\ n <= f.size
  /\ Falling(longer, i) => /\ Falling(accepted, i - 1)
                           /\ f.size <= Back(accepted, 0).size

\* What was accepted before the newest looked the same, and had the sizes, before it.
LEMMA WasBefore ==
  ASSUME NEW entries, NEW accepted, NEW time, NEW r, NEW e, NEW f, NEW newer, NEW longer,
         Grows(entries, accepted, time, r, e, f, newer, longer),
         NEW i \in Nat, i > 0, Late(longer, i)
  PROVE  Before(accepted, longer, f, i)
<1>1. Shifted(accepted, f, longer) /\ Ordered(accepted, time) /\ time \in Nat /\ time <= f.id
      /\ f \in Accepted /\ longer \in Seq(Accepted) /\ accepted \in Seq(Accepted)
  BY DEF Grows, Accepts, Limited
<1>2. i \in Depths(longer) /\ Back(longer, 0).id - Back(longer, i).id < Window
  BY DEF Late
<1>3. Back(longer, 0) = f
  <2>1. longer # <<>>  BY <1>1, <1>2 DEF Depths
  <2> QED  BY <1>1, <2>1 DEF Shifted
<1>4. \A b \in 1 .. i : b - 1 \in Depths(accepted) /\ Back(longer, b) = Back(accepted, b - 1)
  <2>1. ASSUME NEW b \in 1 .. i  PROVE b \in Depths(longer) /\ b > 0
    BY <1>1, <1>2, <2>1 DEF Depths
  <2> QED  BY <1>1, <2>1 DEF Shifted
<1>4a. \A b \in 0 .. i - 1 : b \in Depths(accepted) /\ Back(longer, b + 1) = Back(accepted, b)
  <2>1. ASSUME NEW b \in 0 .. i - 1  PROVE b + 1 \in 1 .. i /\ (b + 1) - 1 = b
    BY <2>1
  <2>2. ASSUME NEW b \in 0 .. i - 1
        PROVE  b \in Depths(accepted) /\ Back(longer, b + 1) = Back(accepted, b)
    BY <1>4, <2>1, <2>2
  <2> QED  BY <2>2
<1>5. 0 \in 0 .. i - 1 /\ i - 1 \in 0 .. i - 1 /\ i - 1 \in Nat /\ 0 \in 0 .. i
      /\ i \in 1 .. i /\ \A b \in 0 .. i - 1 : b + 1 \in 0 .. i /\ 0 < b + 1
  OBVIOUS
<1>6. Late(accepted, i - 1) /\ f.id - Back(accepted, i - 1).id < Window
  <2>1. i - 1 \in Depths(accepted) /\ 0 \in Depths(accepted) /\ Back(longer, i) = Back(accepted, i - 1)
    BY <1>4, <1>4a, <1>5
  <2>2. Back(accepted, 0).id <= time  BY <1>1, <2>1 DEF Ordered
  <2>3. /\ Back(accepted, 0).id \in Nat /\ Back(accepted, i - 1).id \in Nat /\ f.id \in Nat
    <3>1. Back(accepted, 0) \in Accepted /\ Back(accepted, i - 1) \in Accepted
      BY <1>1, <2>1, BackIn
    <3> QED  BY <1>1, <3>1, AcceptedIs
  <2>4. f.id - Back(accepted, i - 1).id < Window  BY <1>2, <1>3, <2>1
  <2>5. Back(accepted, 0).id - Back(accepted, i - 1).id < Window
    <3>1. Window \in Nat  BY CommitAssumption
    <3> QED  BY <1>1, <2>2, <2>3, <2>4, <3>1
  <2> QED  BY <2>1, <2>4, <2>5 DEF Late
<1>7. ASSUME Same(longer, i)
      PROVE  /\ Same(accepted, i - 1)
             /\ \A b \in 0 .. i - 1 : Similar(f.usdc, f.outer, Back(accepted, b))
  <2>1. ASSUME NEW a \in 0 .. i, NEW b \in 0 .. i, a < b
        PROVE  Similar(Back(longer, a).usdc, Back(longer, a).outer, Back(longer, b))
    BY <1>7, <2>1 DEF Same
  <2>2. ASSUME NEW b \in 0 .. i - 1  PROVE Similar(f.usdc, f.outer, Back(accepted, b))
    <3>1. b + 1 \in 0 .. i /\ 0 < b + 1  BY <1>5, <2>2
    <3>2. Similar(Back(longer, 0).usdc, Back(longer, 0).outer, Back(longer, b + 1))
      BY <1>5, <2>1, <3>1
    <3> QED  BY <1>3, <1>4a, <2>2, <3>2
  <2>3. ASSUME NEW a \in 0 .. i - 1, NEW b \in 0 .. i - 1, a < b
        PROVE  Similar(Back(accepted, a).usdc, Back(accepted, a).outer, Back(accepted, b))
    <3>1. a + 1 \in 0 .. i /\ b + 1 \in 0 .. i /\ a + 1 < b + 1  BY <2>3
    <3>2. Similar(Back(longer, a + 1).usdc, Back(longer, a + 1).outer, Back(longer, b + 1))
      BY <2>1, <3>1
    <3> QED  BY <1>4a, <2>3, <3>2
  <2> QED  BY <1>6, <2>2, <2>3 DEF Same
<1>8. ASSUME NEW n \in 1 .. 3, AtMost(longer, i, n)
      PROVE  AtMost(accepted, i - 1, n) /\ f.size <= n
  BY <1>3, <1>4a, <1>5, <1>8 DEF AtMost
<1>9. ASSUME NEW n \in 1 .. 3, AtLeast(longer, i, n)
      PROVE  AtLeast(accepted, i - 1, n) /\ n <= f.size
  BY <1>3, <1>4a, <1>5, <1>9 DEF AtLeast
<1>10. ASSUME Falling(longer, i)
       PROVE  Falling(accepted, i - 1) /\ f.size <= Back(accepted, 0).size
  <2>1. ASSUME NEW a \in 0 .. i - 1, NEW b \in 0 .. i - 1, a < b
        PROVE  Back(accepted, a).size <= Back(accepted, b).size
    <3>1. a + 1 \in 0 .. i /\ b + 1 \in 0 .. i /\ a + 1 < b + 1  BY <2>1
    <3>2. Back(longer, a + 1).size <= Back(longer, b + 1).size
      BY <1>10, <3>1 DEF Falling
    <3> QED  BY <1>4a, <2>1, <3>2
  <2>2. f.size <= Back(accepted, 0).size
    <3>1. 1 \in 0 .. i /\ 0 < 1  BY <1>5
    <3>2. Back(longer, 0).size <= Back(longer, 1).size
      BY <1>5, <1>10, <3>1 DEF Falling
    <3>3. Back(longer, 1) = Back(accepted, 0)
      <4>1. 1 \in 1 .. i /\ 1 - 1 = 0  BY <3>1
      <4> QED  BY <1>4, <4>1
    <3> QED  BY <1>3, <3>2, <3>3
  <2> QED  BY <2>1, <2>2 DEF Falling
<1> QED  BY <1>5, <1>6, <1>7, <1>8, <1>9, <1>10 DEF Before

\* What looks the same is in the cache, and counts, or all of the cache counts.
LEMMA LateCounts ==
  ASSUME NEW entries, NEW accepted, NEW time, NEW r, NEW e, NEW f, NEW newer, NEW longer,
         Grows(entries, accepted, time, r, e, f, newer, longer),
         NEW i \in Nat, i > 0, Late(longer, i)
  PROVE  i <= r \/ r = Len(entries)
<1>1. Late(accepted, i - 1) /\ f.id - Back(accepted, i - 1).id < Window
  BY WasBefore DEF Before
<1>2. /\ Ordered(accepted, time) /\ Aligned(entries, accepted)
      /\ entries \in Seq(Entry) /\ accepted \in Seq(Accepted) /\ f \in Accepted
      /\ \A a \in Depths(entries) : a < r <=> f.id - Back(entries, a).id < Window
  BY DEF Grows, Accepts, Limited
<1>3. r \in Nat /\ r <= Len(entries) /\ Len(entries) \in Nat
  BY GrowsHas
<1>4. ASSUME NEW a \in Depths(entries), a <= i - 1  PROVE a < r
  <2>1. a \in Nat /\ i - 1 \in Depths(accepted) /\ a \in Depths(accepted)
    <3>1. i - 1 \in Depths(accepted) /\ a \in Nat  BY <1>1, <1>3, <1>4 DEF Late, Depths
    <3>2. Len(accepted) \in Nat  BY <1>2
    <3> QED  BY <1>4, <3>1, <3>2 DEF Depths
  <2>2. Back(accepted, i - 1).id <= Back(accepted, a).id  BY <1>2, <1>4, <2>1 DEF Ordered
  <2>3. Back(entries, a).id = Back(accepted, a).id  BY <1>2, <2>1 DEF Aligned
  <2>4. Back(accepted, i - 1).id \in Nat /\ Back(accepted, a).id \in Nat /\ f.id \in Nat
    <3>1. Back(accepted, i - 1) \in Accepted /\ Back(accepted, a) \in Accepted
      BY <1>2, <2>1, BackIn
    <3> QED  BY <1>2, <3>1, AcceptedIs
  <2>5. Window \in Nat  BY CommitAssumption
  <2>6. f.id - Back(entries, a).id < Window
    BY <1>1, <2>2, <2>3, <2>4, <2>5
  <2> QED  BY <1>2, <1>4, <2>6
<1>5. CASE i <= Len(entries)
  <2>1. i - 1 \in Depths(entries) /\ i - 1 <= i - 1  BY <1>3, <1>5 DEF Depths
  <2>2. i - 1 < r  BY <1>4, <2>1
  <2> QED  BY <1>3, <2>2
<1>6. CASE ~(i <= Len(entries))
  <2>1. CASE Len(entries) = 0  BY <1>3, <2>1
  <2>2. CASE Len(entries) # 0
    <3>1. Len(entries) - 1 \in Depths(entries) /\ Len(entries) - 1 <= i - 1
      BY <1>3, <1>6, <2>2 DEF Depths
    <3>2. Len(entries) - 1 < r  BY <1>4, <3>1
    <3> QED  BY <1>3, <3>2
  <2> QED  BY <2>1, <2>2
<1> QED  BY <1>5, <1>6

\* If the oldest entry that counts is among those that look the same, the cache is
\* not full.
LEMMA HeadLike ==
  ASSUME NEW entries, NEW accepted, NEW time, NEW r, NEW e, NEW f, NEW newer, NEW longer,
         Grows(entries, accepted, time, r, e, f, newer, longer),
         NEW i \in Nat, i > 0, Same(longer, i), r <= i
  PROVE  r < f.size
<1> SUFFICES ASSUME ~(r < f.size)  PROVE FALSE
  OBVIOUS
<1>1. /\ r \in Nat /\ r <= Len(entries) /\ Len(entries) \in Nat
      /\ f.size \in Nat /\ 1 <= f.size
  BY GrowsHas
<1>2. r >= f.size /\ r - 1 \in 0 .. i - 1 /\ r - 1 \in Depths(entries)
  BY <1>1 DEF Depths
<1>3. ~Similar(f.usdc, f.outer, Back(entries, r - 1)) /\ Aligned(entries, accepted)
      /\ accepted \in Seq(Accepted)
  BY <1>2 DEF Grows, Accepts, Limited
<1>4. Before(accepted, longer, f, i)
  BY WasBefore DEF Same
<1>5. Similar(f.usdc, f.outer, Back(accepted, r - 1)) /\ i - 1 \in Depths(accepted)
  BY <1>2, <1>4 DEF Before, Late
<1>6. r - 1 \in Depths(accepted)
  <2>1. Len(accepted) \in Nat  BY <1>3
  <2> QED  BY <1>2, <1>5, <2>1 DEF Depths
<1>7. Similar(f.usdc, f.outer, Back(entries, r - 1))
  BY <1>2, <1>3, <1>5, <1>6 DEF Aligned, Similar
<1> QED  BY <1>3, <1>7

\* What is late stays in the cache, or the cache is full.
LEMMA KeepsStep ==
  ASSUME NEW entries, NEW accepted, NEW time, NEW r, NEW e, NEW f, NEW newer, NEW longer,
         Grows(entries, accepted, time, r, e, f, newer, longer)
  PROVE  Keeps(newer, longer)
<1>1. /\ r \in Nat /\ r <= Len(entries) /\ Len(entries) \in Nat
      /\ f.size \in Nat /\ 1 <= f.size
      /\ Len(newer) = (IF r + 1 > f.size THEN f.size ELSE r + 1)
  BY GrowsHas
<1>2. SUFFICES ASSUME NEW i \in Nat, NEW n \in 1 .. 3, Late(longer, i), AtLeast(longer, i, n)
      PROVE  i + 1 <= Len(newer) \/ n <= Len(newer)
  BY DEF Keeps
<1>3. CASE i = 0
  BY <1>1, <1>3
<1>4. CASE i # 0
  <2>1. Before(accepted, longer, f, i)  BY <1>2, <1>4, WasBefore
  <2>2. Late(accepted, i - 1) /\ i - 1 \in Nat /\ AtLeast(accepted, i - 1, n) /\ n <= f.size
    BY <1>2, <2>1 DEF Before
  <2>3. Keeps(entries, accepted)  BY DEF Grows, Limited
  <2>4. (i - 1) + 1 <= Len(entries) \/ n <= Len(entries)  BY <2>2, <2>3 DEF Keeps
  <2>5. i <= r \/ r = Len(entries)  BY <1>2, <1>4, LateCounts
  <2>6. n \in Nat  OBVIOUS
  <2> QED  BY ONLY <1>1, <2>2, <2>4, <2>5, <2>6, i \in Nat
<1> QED  BY <1>3, <1>4

\* Nothing is lost while the cache is not full; when it is, its oldest entry looks different,
\* and at most what is older than one size is lost.
LEMMA LosesStep ==
  ASSUME NEW entries, NEW accepted, NEW time, NEW r, NEW e, NEW f, NEW newer, NEW longer,
         Grows(entries, accepted, time, r, e, f, newer, longer)
  PROVE  Loses(newer, longer)
<1>1. /\ r \in Nat /\ r <= Len(entries) /\ Len(entries) \in Nat
      /\ f.size \in Nat /\ 1 <= f.size /\ 1 <= Len(newer) /\ Len(newer) \in Nat
      /\ Len(newer) = (IF r + 1 > f.size THEN f.size ELSE r + 1)
  BY GrowsHas
<1>2. SUFFICES ASSUME NEW i \in Nat, NEW n \in 1 .. 3, Same(longer, i), AtMost(longer, i, n)
      PROVE  i + 1 <= Len(newer) + n - 1
  BY DEF Loses
<1>2a. n \in Nat /\ 1 <= n  BY <1>2
<1>3. CASE i = 0
  BY <1>1, <1>2a, <1>3
<1>4. CASE i # 0
  <2>0. Late(longer, i)  BY <1>2 DEF Same
  <2>1. Before(accepted, longer, f, i)  BY <1>4, <2>0, WasBefore
  <2>2. Same(accepted, i - 1) /\ i - 1 \in Nat /\ AtMost(accepted, i - 1, n) /\ f.size <= n
    BY <1>2, <2>1 DEF Before
  <2>3. CASE r < f.size
    <3>1. Loses(entries, accepted)  BY DEF Grows, Limited
    <3>2. (i - 1) + 1 <= Len(entries) + n - 1  BY <2>2, <3>1 DEF Loses
    <3>3. i <= r \/ r = Len(entries)  BY <1>4, <2>0, LateCounts
    <3> QED  BY ONLY <1>1, <1>2a, <2>3, <3>2, <3>3, i \in Nat
  <2>4. CASE ~(r < f.size)
    <3>1. ~(r <= i)  BY <1>2, <1>4, <2>4, HeadLike
    <3>2. Fits(entries, accepted) /\ accepted \in Seq(Accepted)  BY DEF Grows, Limited
    <3>3. accepted # <<>>  BY <2>2, <3>2 DEF Same, Late, Depths
    <3>4. Len(entries) <= Back(accepted, 0).size  BY <3>2, <3>3 DEF Fits
    <3>5. Back(accepted, 0).size <= n  BY <2>2 DEF AtMost
    <3>6. Back(accepted, 0).size \in Nat
      <4>1. 0 \in Depths(accepted)  BY <3>2, <3>3 DEF Depths
      <4> QED  BY <3>2, <4>1, BackIn, AcceptedIs
    <3> QED  BY ONLY <1>1, <1>2a, <3>1, <3>4, <3>5, <3>6, i \in Nat
  <2> QED  BY <2>3, <2>4
<1> QED  BY <1>3, <1>4

\* When as many as the size are taken, the cache has all of them, and the next is refused.
LEMMA LimitsStep ==
  ASSUME NEW entries, NEW accepted, NEW time, NEW r, NEW e, NEW f, NEW newer, NEW longer,
         Grows(entries, accepted, time, r, e, f, newer, longer)
  PROVE  Limits(longer)
<1>1. /\ r \in Nat /\ r <= Len(entries) /\ Len(entries) \in Nat
      /\ f.size \in Nat /\ 1 <= f.size
  BY GrowsHas
<1>2. SUFFICES ASSUME NEW i \in Nat, NEW n \in 1 .. 3, Same(longer, i), AtMost(longer, i, n),
                      Falling(longer, i), ~(i + 1 <= n)
      PROVE  FALSE
  BY DEF Limits
<1>2a. n \in Nat /\ 1 <= n  BY <1>2
<1>3. i > 0  BY <1>2, <1>2a
<1>4. Late(longer, i)  BY <1>2 DEF Same
<1>5. Before(accepted, longer, f, i)  BY <1>3, <1>4, WasBefore
<1>6. /\ Same(accepted, i - 1) /\ Late(accepted, i - 1) /\ i - 1 \in Nat
      /\ AtMost(accepted, i - 1, n) /\ Falling(accepted, i - 1)
      /\ f.size <= Back(accepted, 0).size
  BY <1>2, <1>5 DEF Before
<1>7. /\ Keeps(entries, accepted) /\ Limits(accepted) /\ Fits(entries, accepted)
      /\ accepted \in Seq(Accepted)
  BY DEF Grows, Limited
<1>8. (i - 1) + 1 <= n  BY <1>6, <1>7 DEF Limits
<1>9. i = n  BY <1>2, <1>2a, <1>8
<1> DEFINE size == Back(accepted, 0).size
<1>10. accepted # <<>> /\ 0 \in Depths(accepted)
  BY <1>6, <1>7 DEF Late, Depths
<1>11. Len(entries) <= size  BY <1>7, <1>10 DEF Fits
<1>12. size \in Nat /\ 1 <= size /\ size <= 3 /\ size <= n
  <2>1. size \in Nat /\ 1 <= size /\ size <= 3  BY <1>7, <1>10, BackIn, AcceptedIs
  <2>2. 0 \in 0 .. i - 1  BY <1>6
  <2> QED  BY <1>6, <2>1, <2>2 DEF AtMost
<1>13. AtLeast(accepted, i - 1, size)
  <2>1. ASSUME NEW a \in 0 .. i - 1  PROVE size <= Back(accepted, a).size
    <3>1. CASE a = 0  BY <1>12, <3>1
    <3>2. CASE a # 0
      <4>1. 0 \in 0 .. i - 1 /\ 0 < a  BY <1>6, <3>2
      <4> QED  BY <1>6, <4>1 DEF Falling
    <3> QED  BY <3>1, <3>2
  <2> QED  BY <2>1 DEF AtLeast
<1>14. (i - 1) + 1 <= Len(entries) \/ size <= Len(entries)
  <2>1. size \in 1 .. 3  BY <1>12
  <2> HIDE DEF size
  <2> QED  BY <1>6, <1>7, <1>13, <2>1 DEF Keeps
<1>15. i <= r \/ r = Len(entries)  BY <1>3, <1>4, LateCounts
<1> HIDE DEF size
<1>16. r = size /\ r <= i
  BY ONLY <1>1, <1>2a, <1>9, <1>11, <1>12, <1>14, <1>15, i \in Nat
<1>17. r < f.size  BY <1>2, <1>3, <1>16, HeadLike
<1> QED  BY <1>1, <1>6, <1>16, <1>17 DEF size

\* What is accepted leaves cache and log as they have to be.
LEMMA GrowsLimited ==
  ASSUME NEW entries, NEW accepted, NEW time, NEW r, NEW e, NEW f, NEW newer, NEW longer,
         Grows(entries, accepted, time, r, e, f, newer, longer)
  PROVE  Limited(newer, longer, f.id)
<1>1. /\ entries \in Seq(Entry) /\ newer \in Seq(Entry) /\ e \in Entry
      /\ accepted \in Seq(Accepted) /\ longer \in Seq(Accepted) /\ f \in Accepted
      /\ time \in Nat /\ time <= f.id /\ f.id = e.id
      /\ Ordered(entries, time) /\ Ordered(accepted, time)
      /\ Shifted(entries, e, newer) /\ Shifted(accepted, f, longer)
  BY DEF Grows, Limited, Accepts
<1>2. \A x \in Entry : x.id \in Nat  BY EntryIs
<1>3. \A x \in Accepted : x.id \in Nat  BY AcceptedIs
<1>4. Ordered(newer, f.id)  BY <1>1, <1>2, OrderedStep
<1>5. Ordered(longer, f.id)  BY <1>1, <1>3, OrderedStep
<1>6. Aligned(newer, longer) /\ Fits(newer, longer) /\ Keeps(newer, longer)
  BY AlignedStep, FitsStep, KeepsStep
<1>7. Loses(newer, longer) /\ Limits(longer)
  BY LosesStep, LimitsStep
<1> QED  BY <1>4, <1>5, <1>6, <1>7 DEF Limited

\* Time does them no harm.
LEMMA LimitedLater ==
  ASSUME NEW entries \in Seq(Entry), NEW accepted \in Seq(Accepted),
         NEW time \in Nat, NEW later \in Nat, time <= later, Limited(entries, accepted, time)
  PROVE  Limited(entries, accepted, later)
<1>1. ASSUME NEW i \in Depths(entries)  PROVE Back(entries, i).id <= later
  <2>1. Back(entries, i).id \in Nat  BY BackIn, EntryIs
  <2>2. Back(entries, i).id <= time  BY DEF Limited, Ordered
  <2> QED  BY <2>1, <2>2
<1>2. ASSUME NEW i \in Depths(accepted)  PROVE Back(accepted, i).id <= later
  <2>1. Back(accepted, i).id \in Nat  BY BackIn, AcceptedIs
  <2>2. Back(accepted, i).id <= time  BY DEF Limited, Ordered
  <2> QED  BY <2>1, <2>2
<1> QED  BY <1>1, <1>2 DEF Limited, Ordered

\* An opportunity that passes the limits is accepted as Grows says, if ids are times.
LEMMA AcceptGrows ==
  ASSUME TypeOK, MaxSalt = 0, NEW p \in Paths, Limited(cache[p], log[p], clock),
         NEW id \in clock .. clock + MaxSalt, NEW usdc \in Amounts, NEW yield \in Yields,
         NEW local \in Yields, NEW amount \in Amounts, Accept(p, id, usdc, yield, local, amount)
  PROVE  Limited(cache'[p], log'[p], clock')
<1> DEFINE size == CacheSize(usdc, yield)
           e == [id |-> id, usdc |-> usdc, yield |-> local]
           f == [id |-> id, usdc |-> usdc, outer |-> yield, yield |-> local, size |-> size]
           recent == Recent(cache[p], id)
           r == Len(recent)
           newer == Trimmed(Append(recent, e), size)
           longer == Trimmed(Append(log[p], f), KeepLog)
<1>1. cache[p] \in Seq(Entry) /\ log[p] \in Seq(Accepted) /\ clock \in Nat
  BY CommitAssumption DEF TypeOK
<1>2. id = clock /\ id \in Ids
  <2>1. id = clock  BY <1>1
  <2> QED  BY <2>1, IdTyped
<1>3. size \in 1 .. 3 /\ size \in Nat /\ KeepLog \in Nat
  <2>1. size \in 1 .. 3  BY SizeRange, CommitAssumption
  <2> QED  BY <2>1, CommitAssumption
<1>4. e \in Entry /\ f \in Accepted
  <2> HIDE DEF size
  <2> QED  BY <1>2, <1>3 DEF Entry, Accepted
<1>5. /\ cache' = [cache EXCEPT ![p] = Cached(p, id, usdc, yield, local)]
      /\ Log(p, id, usdc, yield, local) /\ clock' = clock
      /\ ~SoMuch(recent, usdc, yield)
  BY Zenon DEF Accept, Passes
<1>6. cache'[p] = newer /\ log'[p] = longer
  BY <1>5 DEF Cached, Log, TypeOK
<1>7. Ordered(cache[p], clock)  BY DEF Limited
<1>8. \A i \in Depths(cache[p]) :
        Counts(Back(cache[p], i), id) <=> id - Back(cache[p], i).id < Window
  <2>1. SUFFICES ASSUME NEW i \in Depths(cache[p])
        PROVE Counts(Back(cache[p], i), id) <=> id - Back(cache[p], i).id < Window
    OBVIOUS
  <2> DEFINE past == id - Back(cache[p], i).id
  <2>2. Back(cache[p], i).id \in Nat /\ Back(cache[p], i).id <= id
    BY <1>1, <1>2, <1>7, BackIn, EntryIs DEF Ordered
  <2>3. past \in Nat /\ past <= id /\ id <= MaxTime + MaxSalt /\ MaxTime \in Nat /\ MaxSalt \in Nat
    BY <1>1, <1>2, <2>2, CommitAssumption DEF Ids
  <2>4. Word \in Nat \ {0} /\ past < Word
    <3> HIDE DEF past
    <3> QED  BY <2>3, CommitAssumption
  <2>5. \A m \in Nat \ {0} : \A k \in Nat : k < m => k % m = k
    OBVIOUS
  <2>6. past % Word = past
    <3> HIDE DEF past
    <3> QED  BY <2>3, <2>4, <2>5
  <2> QED  BY <2>6 DEF Counts
<1>9. \A i, j \in 1 .. Len(cache[p]) :
        i <= j /\ Counts(cache[p][i], id) => Counts(cache[p][j], id)
  <2>1. SUFFICES ASSUME NEW i \in 1 .. Len(cache[p]), NEW j \in 1 .. Len(cache[p]), i <= j,
                        Counts(cache[p][i], id)
        PROVE  Counts(cache[p][j], id)
    OBVIOUS
  <2> DEFINE n == Len(cache[p])
  <2>2. /\ n - i \in Depths(cache[p]) /\ n - j \in Depths(cache[p]) /\ n - j <= n - i
        /\ n - (n - i) = i /\ n - (n - j) = j
    BY <1>1, <2>1 DEF Depths
  <2>3. Back(cache[p], n - i) = cache[p][i] /\ Back(cache[p], n - j) = cache[p][j]
    BY <2>2 DEF Back
  <2>4. cache[p][i].id <= cache[p][j].id
    <3>1. Back(cache[p], n - i).id <= Back(cache[p], n - j).id  BY <1>7, <2>2 DEF Ordered
    <3> QED  BY <2>3, <3>1
  <2>5. cache[p][i].id \in Nat /\ cache[p][j].id \in Nat /\ Window \in Nat /\ id \in Nat
    BY <1>1, <1>2, <2>1, EntryIs, CommitAssumption
  <2>6. id - cache[p][i].id < Window  BY <1>8, <2>1, <2>2, <2>3
  <2>7. id - cache[p][j].id < Window  BY <2>4, <2>5, <2>6
  <2> QED  BY <1>8, <2>2, <2>3, <2>7
<1>10. /\ recent \in Seq(Entry) /\ r <= Len(cache[p]) /\ r \in Nat
       /\ \A i \in Depths(recent) : Back(recent, i) = Back(cache[p], i)
       /\ \A i \in Depths(cache[p]) : i < r <=> Counts(Back(cache[p], i), id)
  <2>1. /\ recent \in Seq(Entry) /\ r <= Len(cache[p])
        /\ \A i \in Depths(recent) : Back(recent, i) = Back(cache[p], i)
        /\ \A i \in Depths(cache[p]) : i < r <=> Counts(Back(cache[p], i), id)
    BY <1>1, <1>9, RecentIsLast
  <2> QED  BY <2>1
<1> HIDE DEF size, e, f, recent
<1>11. newer \in Seq(Entry) /\ Shifted(recent, e, newer)
       /\ Len(newer) = IF r + 1 > size THEN size ELSE r + 1
  BY <1>3, <1>4, <1>10, ShiftedIs, ZenonT(30)
<1>12. longer \in Seq(Accepted) /\ Shifted(log[p], f, longer)
  BY <1>1, <1>3, <1>4, ShiftedIs
<1>13. Shifted(cache[p], e, newer)
  <2> HIDE DEF newer
  <2>1. ASSUME NEW i \in Depths(newer), i > 0
        PROVE  i - 1 \in Depths(cache[p]) /\ Back(newer, i) = Back(cache[p], i - 1)
    <3>1. i - 1 \in Depths(recent) /\ Back(newer, i) = Back(recent, i - 1)
      BY <1>11, <2>1 DEF Shifted
    <3>2. i - 1 \in Depths(cache[p])  BY <1>1, <1>10, <3>1 DEF Depths
    <3> QED  BY <1>10, <3>1, <3>2
  <2>2. Len(newer) <= Len(cache[p]) + 1
    <3>1. Len(newer) \in Nat /\ Len(cache[p]) \in Nat /\ Len(newer) <= r + 1
      BY <1>1, <1>11 DEF Shifted
    <3> QED  BY <1>10, <3>1
  <2> QED  BY <1>11, <2>1, <2>2 DEF Shifted
<1>14. /\ f.id = id /\ f.usdc = usdc /\ f.outer = yield /\ f.yield = local /\ f.size = size
       /\ e.id = id /\ e.usdc = usdc /\ e.yield = local
  BY DEF e, f
<1>15. r >= size => ~Similar(usdc, yield, Back(cache[p], r - 1))
  <2>1. SUFFICES ASSUME r >= size  PROVE ~Similar(usdc, yield, Back(cache[p], r - 1))
    OBVIOUS
  <2>2. r - 1 \in Depths(recent) /\ r - (r - 1) = 1  BY <1>3, <1>10, <2>1 DEF Depths
  <2>3. recent[1] = Back(cache[p], r - 1)  BY <1>10, <2>2 DEF Back
  <2>4. ~Similar(usdc, yield, recent[1])  BY <1>5, <2>1 DEF SoMuch, size
  <2> QED  BY <2>3, <2>4
<1> HIDE DEF newer, longer
<1>16. Accepts(cache[p], log[p], r, e, f, newer, longer)
  <2>1. r \in 0 .. Len(cache[p])  BY <1>1, <1>10
  <2>2. \A i \in Depths(cache[p]) : i < r <=> f.id - Back(cache[p], i).id < Window
    BY <1>8, <1>10, <1>14
  <2> HIDE DEF r
  <2> QED  BY <1>11, <1>12, <1>13, <1>14, <1>15, <2>1, <2>2 DEF Accepts
<1>17. clock <= f.id  BY <1>1, <1>2, <1>14
<1> HIDE DEF r
<1>18. Grows(cache[p], log[p], clock, r, e, f, newer, longer)
  BY <1>1, <1>4, <1>11, <1>12, <1>16, <1>17 DEF Grows
<1>19. Limited(newer, longer, f.id)  BY <1>18, GrowsLimited
<1> QED  BY <1>2, <1>5, <1>6, <1>14, <1>19

\* The cache and the log of every path, while ids are times.
CacheLimits == MaxSalt = 0 => \A p \in Paths : Limited(cache[p], log[p], clock)

\* Only an opportunity that is accepted changes cache and log.
LEMMA CacheLimitsStep == TypeOK /\ TypeOK' /\ CacheLimits /\ [Next]_vars => CacheLimits'
<1> SUFFICES ASSUME TypeOK, TypeOK', CacheLimits, [Next]_vars, MaxSalt = 0, NEW p \in Paths
    PROVE  Limited(cache'[p], log'[p], clock')
  BY DEF CacheLimits
<1>1. Limited(cache[p], log[p], clock)  BY DEF CacheLimits
<1>2. cache[p] \in Seq(Entry) /\ log[p] \in Seq(Accepted) /\ clock \in Nat /\ clock' \in Nat
  BY CommitAssumption DEF TypeOK
<1>3. ASSUME UNCHANGED <<cache, log>>, clock <= clock'
      PROVE  Limited(cache'[p], log'[p], clock')
  BY <1>1, <1>2, <1>3, LimitedLater
<1>4. CASE UNCHANGED vars
  BY <1>2, <1>3, <1>4 DEF vars
<1>5. CASE Pass
  BY <1>2, <1>3, <1>5 DEF Pass
<1>6. ASSUME NEW q \in Paths, NEW id \in clock .. clock + MaxSalt,
             NEW usdc \in Amounts, NEW yield \in Yields,
             Reject(q, id, usdc, yield) \/ LocalFails(q, id, usdc, yield)
      PROVE  Limited(cache'[p], log'[p], clock')
  <2>1. UNCHANGED <<clock, cache, log>>
    BY <1>6, Zenon DEF Reject, LocalFails, Returns
  <2> QED  BY <1>2, <1>3, <2>1
<1>7. ASSUME NEW q \in Paths, NEW id \in clock .. clock + MaxSalt,
             NEW usdc \in Amounts, NEW yield \in Yields, NEW local \in Yields,
             NEW amount \in Amounts, Accept(q, id, usdc, yield, local, amount)
      PROVE  Limited(cache'[p], log'[p], clock')
  <2>1. CASE p = q  BY <1>1, <1>7, <2>1, AcceptGrows
  <2>2. CASE p # q
    <3>1. /\ cache' = [cache EXCEPT ![q] = Cached(q, id, usdc, yield, local)]
          /\ Log(q, id, usdc, yield, local) /\ clock' = clock
      BY <1>7, Zenon DEF Accept
    <3>2. cache'[p] = cache[p] /\ log'[p] = log[p]
      BY <2>2, <3>1 DEF Log, TypeOK
    <3> QED  BY <1>1, <3>1, <3>2
  <2> QED  BY <2>1, <2>2
<1> QED  BY <1>4, <1>5, <1>6, <1>7 DEF Next, Arbitrage

\* A burst is the end of the log from its first opportunity on.
LEMMA BurstIs ==
  ASSUME NEW p \in Paths, log[p] \in Seq(Accepted), NEW time, Ordered(log[p], time),
         Burst(p) # {}
  PROVE  \E d \in Depths(log[p]) : /\ Burst(p) = Len(log[p]) - d .. Len(log[p])
                                   /\ Cardinality(Burst(p)) = d + 1
                                   /\ Late(log[p], d)
<1> DEFINE l == log[p]
           n == Len(l)
<1>0. n \in Nat /\ DOMAIN l = 1 .. n  OBVIOUS
<1>1. Burst(p) \subseteq 1 .. n /\ Burst(p) \subseteq Nat  BY <1>0 DEF Burst
<1>2. PICK m \in Burst(p) : \A k \in Burst(p) : m <= k  BY <1>1, LeastNumber
<1>3. m \in 1 .. n /\ l[n].id - l[m].id < Window  BY <1>0, <1>2 DEF Burst
<1> DEFINE d == n - m
<1>4. d \in Depths(l) /\ n - d = m /\ 0 \in Depths(l) /\ n - 0 = n  BY <1>0, <1>3 DEF Depths
<1>5. Late(l, d)  BY <1>3, <1>4 DEF Late, Back
<1>6. ASSUME NEW k \in m .. n  PROVE k \in Burst(p)
  <2>1. k \in 1 .. n /\ n - k \in Depths(l) /\ n - k <= d /\ n - (n - k) = k
    BY <1>0, <1>3, <1>6 DEF Depths
  <2>2. Back(l, d).id <= Back(l, n - k).id  BY <1>4, <2>1 DEF Ordered
  <2>3. l[m].id <= l[k].id  BY <1>4, <2>1, <2>2 DEF Back
  <2>4. l[m].id \in Nat /\ l[k].id \in Nat /\ l[n].id \in Nat /\ Window \in Nat
    <3>1. l[m] \in Accepted /\ l[k] \in Accepted /\ l[n] \in Accepted  BY <1>0, <1>3, <2>1
    <3> QED  BY <3>1, AcceptedIs, CommitAssumption
  <2>5. l[n].id - l[k].id < Window  BY <1>3, <2>3, <2>4, SMTT(30)
  <2> QED  BY <1>0, <2>1, <2>5 DEF Burst
<1>7. Burst(p) = m .. n
  <2>1. \A k \in Burst(p) : k \in m .. n  BY <1>1, <1>2, <1>3
  <2> QED  BY <1>6, <2>1
<1>8. Cardinality(m .. n) = n - m + 1
  <2>1. m \in Int /\ n \in Int /\ ~(m > n)  BY <1>0, <1>3
  <2> HIDE DEF n
  <2> QED  BY <2>1, FS_Interval
<1> QED  BY <1>4, <1>5, <1>7, <1>8

\* An opportunity that looks the same is taken as often as its yield allows while that
\* does not grow, and less than twice as often in any case.
THEOREM SameLimited == Spec => []SameIsLimited
<1>1. Init => CacheLimits
  <2> SUFFICES ASSUME Init, NEW p \in Paths  PROVE Limited(cache[p], log[p], clock)
    BY DEF CacheLimits
  <2>1. cache[p] = <<>> /\ log[p] = <<>>  BY DEF Init
  <2>2. Depths(<<>>) = {}  BY DEF Depths
  <2> QED  BY <2>1, <2>2 DEF Limited, Ordered, Aligned, Fits, Keeps, Loses, Limits, Same, Late
<1>2. TypeOK /\ CacheLimits => SameIsLimited
  <2> SUFFICES ASSUME TypeOK, CacheLimits, MaxSalt = 0, NEW p \in Paths, NEW n \in 1 .. 3,
                      Alike(p), \A k \in Burst(p) : log[p][k].size <= n
      PROVE  /\ Cardinality(Burst(p)) <= 2 * n - 1
             /\ (\A j, k \in Burst(p) : j < k => log[p][k].size <= log[p][j].size)
                  => Cardinality(Burst(p)) <= n
    BY Zenon DEF SameIsLimited
  <2> DEFINE l == log[p]
  <2>0. n \in Nat /\ 1 <= n  OBVIOUS
  <2>1. cache[p] \in Seq(Entry) /\ l \in Seq(Accepted)  BY DEF TypeOK
  <2>2. Limited(cache[p], l, clock)  BY DEF CacheLimits
  <2>3. CASE Burst(p) = {}
    <3>1. Cardinality(Burst(p)) = 0  BY <2>3, FS_EmptySet
    <3> QED  BY <2>0, <3>1
  <2>4. CASE Burst(p) # {}
    <3>1. Ordered(l, clock)  BY <2>2 DEF Limited
    <3>2. PICK d \in Depths(l) : /\ Burst(p) = Len(l) - d .. Len(l)
                                 /\ Cardinality(Burst(p)) = d + 1 /\ Late(l, d)
      BY <2>1, <2>4, <3>1, BurstIs
    <3>3. Len(l) \in Nat /\ d \in Nat /\ d < Len(l)  BY <2>1, <3>2 DEF Depths
    <3>4. ASSUME NEW a \in 0 .. d
          PROVE  Len(l) - a \in Burst(p) /\ Back(l, a) = l[Len(l) - a]
      BY <3>2, <3>3, <3>4 DEF Back
    <3>5. Same(l, d)
      <4>1. ASSUME NEW a \in 0 .. d, NEW b \in 0 .. d, a < b
            PROVE  Similar(Back(l, a).usdc, Back(l, a).outer, Back(l, b))
        <5>1. Len(l) - b < Len(l) - a  BY <3>3, <4>1
        <5>2. Similar(l[Len(l) - a].usdc, l[Len(l) - a].outer, l[Len(l) - b])
          BY <3>4, <5>1 DEF Alike
        <5> QED  BY <3>4, <5>2
      <4> QED  BY <3>2, <4>1 DEF Same
    <3>6. AtMost(l, d, n)  BY <3>4 DEF AtMost
    <3>7. d + 1 <= Len(cache[p]) + n - 1
      BY <2>2, <3>3, <3>5, <3>6 DEF Limited, Loses
    <3>8. Len(cache[p]) <= n
      <4>1. l # <<>> /\ 0 \in Depths(l) /\ 0 \in 0 .. d  BY <2>1, <3>3 DEF Depths
      <4>2. Len(cache[p]) <= Back(l, 0).size  BY <2>2, <4>1 DEF Limited, Fits
      <4>3. Back(l, 0).size <= n  BY <3>6, <4>1 DEF AtMost
      <4>4. Back(l, 0).size \in Nat /\ Len(cache[p]) \in Nat
        <5>1. Back(l, 0) \in Accepted  BY <2>1, <4>1, BackIn
        <5> QED  BY <2>1, <5>1, AcceptedIs
      <4> QED  BY <2>0, <4>2, <4>3, <4>4
    <3>9. Cardinality(Burst(p)) <= 2 * n - 1
      <4>1. Len(cache[p]) \in Nat  BY <2>1
      <4> QED  BY <2>0, <3>2, <3>3, <3>7, <3>8, <4>1
    <3>10. ASSUME \A j, k \in Burst(p) : j < k => log[p][k].size <= log[p][j].size
           PROVE  Cardinality(Burst(p)) <= n
      <4>1. ASSUME NEW a \in 0 .. d, NEW b \in 0 .. d, a < b
            PROVE  Back(l, a).size <= Back(l, b).size
        <5>1. Len(l) - b < Len(l) - a  BY <3>3, <4>1
        <5> QED  BY <3>4, <3>10, <5>1
      <4>2. Falling(l, d)  BY <4>1 DEF Falling
      <4>3. d + 1 <= n  BY <2>2, <3>3, <3>5, <3>6, <4>2 DEF Limited, Limits
      <4> QED  BY <3>2, <4>3
    <3> QED  BY <3>9, <3>10
  <2> QED  BY <2>3, <2>4
<1> QED  BY <1>1, <1>2, CacheLimitsStep, TypeCorrect, PTL DEF Spec

==============================================================================
