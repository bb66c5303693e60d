---------------------------- MODULE EngineProofs -----------------------------
(*****************************************************************************)
(* Theorems about the engine: the gate that triggers it (TradeGate) and the  *)
(* search that it triggers (PathSearch).                                     *)
(*                                                                           *)
(* TradeGate, for any number of clients, updaters and receivers and any      *)
(* channel capacities: its types, the exclusion of the gate, and that the    *)
(* engine implements TriggerGate.                                            *)
(*                                                                           *)
(* PathSearch, for any tokens, pools, tables and depths: the matrix holds    *)
(* every pool where the search looks for it; what the search returns can be  *)
(* carried out and is priced as it will be; and no route pays more, if every *)
(* pool gives more for more.  Its definitions are recursive functions.  That *)
(* they exist and what they compute is proved by induction, stated with a    *)
(* set in place of a predicate (Upward).                                     *)
(*****************************************************************************)
EXTENDS TradeGate, PathSearch, SequenceTheorems, WellFoundedInduction, TLAPS

-----------------------------------------------------------------------------
(*****************************************************************************)
(* The trigger gate.                                                         *)
(*****************************************************************************)

Starting == {"boot", "flash", "listen", "subscribe", "open"}

\* Until Start() opens the gate nothing else writes status, so that its plain
\* store overwrites no owner; afterwards nothing stores EngineInit.
ShutUntilOpen == main \in Starting <=> status = "Init"

\* Only the end of Service() stores Stopped.
StoppedAtEnd == Alive => status # "Stopped"

\* GateExclusive is not inductive: that the store of Start() is safe needs
\* ShutUntilOpen, that the one of Tick() is needs StoppedAtEnd.
EngineInv == EngineTypeOK /\ GateExclusive /\ ShutUntilOpen /\ StoppedAtEnd

\* EngineTypeOK holds at the start of Service() ...
LEMMA TypeInit == EngineInit => EngineTypeOK
<1> SUFFICES ASSUME EngineInit PROVE EngineTypeOK
  OBVIOUS
<1>1. /\ pc \in [Producers -> PCs]
      /\ acct \in [Receivers -> {"off", "recv", "push", "done"}]
      /\ quiet \in [Feeds -> BOOLEAN]
  BY DEF EngineInit, PCs
<1>2. queue \in [Updaters -> 0..AcctCap] /\ hashq \in 0..HashCap
  BY ConstAssumption DEF EngineInit
<1> QED
  BY <1>1, <1>2 DEF EngineTypeOK, EngineInit, Statuses, Mains

\* ... and EngineTypeOK is inductive.
LEMMA TypeStep == EngineTypeOK /\ [EngineNext]_engineVars => EngineTypeOK'
<1> SUFFICES ASSUME EngineTypeOK, [EngineNext]_engineVars PROVE EngineTypeOK'
  OBVIOUS
<1> USE DEF EngineTypeOK, gateVars, mainVars, dataVars, Goto, Statuses, Mains, PCs
<1>1. CASE StartUp
  <2>1. CASE SetPinger
    BY <2>1 DEF SetPinger
  <2>2. CASE Boot
    BY <2>2 DEF Boot
  <2>3. CASE Flash
    BY <2>3 DEF Flash
  <2>4. CASE Listen
    BY <2>4 DEF Listen
  <2>5. CASE SubscribeSlot
    <3>1. pc' \in [Producers -> PCs]
      BY <2>5 DEF SubscribeSlot
    <3> QED
      BY <2>5, <3>1 DEF SubscribeSlot
  <2>6. CASE OpenGate
    BY <2>6 DEF OpenGate
  <2> QED
    BY <1>1, <2>1, <2>2, <2>3, <2>4, <2>5, <2>6 DEF StartUp
<1>2. CASE Stop
  <2>1. CASE Interrupt
    BY <2>1 DEF Interrupt
  <2>2. CASE BeginStop
    BY <2>2 DEF BeginStop
  <2>3. CASE StopDetector
    BY <2>3 DEF StopDetector
  <2>4. CASE Unsubscribe
    BY <2>4 DEF Unsubscribe
  <2>5. CASE WaitBackend
    BY <2>5 DEF WaitBackend
  <2>6. CASE WaitTick
    BY <2>6 DEF WaitTick
  <2> QED
    BY <1>2, <2>1, <2>2, <2>3, <2>4, <2>5, <2>6 DEF Stop
<1>3. CASE Serve
  <2>1. ASSUME NEW p \in Producers, Take(p) PROVE EngineTypeOK'
    <3>1. pc' \in [Producers -> PCs]
      BY <2>1 DEF Take
    <3> QED
      BY <2>1, <3>1 DEF Take
  <2>2. CASE Release
    BY <2>2 DEF Release
  <2>3. CASE TickExits
    BY <2>3 DEF TickExits
  <2>4. CASE Post
    BY <2>4 DEF Post
  <2> QED
    BY <1>3, <2>1, <2>2, <2>3, <2>4 DEF Serve
<1>4. CASE Refresher
  <2>1. CASE RefreshBlockHash
    <3>1. hashq' \in 0..HashCap
      BY <2>1, ConstAssumption DEF RefreshBlockHash
    <3> QED
      BY <2>1, <3>1 DEF RefreshBlockHash
  <2>2. CASE RefresherExits
    BY <2>2 DEF RefresherExits
  <2> QED
    BY <1>4, <2>1, <2>2 DEF Refresher
<1>5. ASSUME NEW f \in Feeds, Feed(f) PROVE EngineTypeOK'
  <2>1. CASE RecvSlot(f)
    <3>1. pc' \in [Producers -> PCs]
      BY <2>1 DEF RecvSlot
    <3>2. quiet' \in [Feeds -> BOOLEAN]
      BY <2>1 DEF RecvSlot
    <3> QED
      BY <2>1, <3>1, <3>2 DEF RecvSlot
  <2>2. CASE AskBlockHash(f)
    <3>1. hashq' \in 0..HashCap
      BY <2>2, ConstAssumption DEF AskBlockHash
    <3>2. pc' \in [Producers -> PCs]
      BY <2>2 DEF AskBlockHash
    <3> QED
      BY <2>2, <3>1, <3>2 DEF AskBlockHash
  <2>3. CASE Elapse(f)
    BY <2>3 DEF Elapse
  <2>4. CASE FeedFails(f)
    <3>1. pc' \in [Producers -> PCs]
      BY <2>4 DEF FeedFails
    <3> QED
      BY <2>4, <3>1 DEF FeedFails
  <2>5. CASE FeedExits(f)
    <3>1. pc' \in [Producers -> PCs]
      BY <2>5 DEF FeedExits
    <3> QED
      BY <2>5, <3>1 DEF FeedExits
  <2> QED
    BY <1>5, <2>1, <2>2, <2>3, <2>4, <2>5 DEF Feed
<1>6. ASSUME NEW p \in Producers, ProducerExits(p) PROVE EngineTypeOK'
  <2>1. pc' \in [Producers -> PCs]
    BY <1>6 DEF ProducerExits
  <2> QED
    BY <1>6, <2>1 DEF ProducerExits
<1>7. ASSUME NEW t \in Tickers, AdditionalSlot(t) PROVE EngineTypeOK'
  <2>1. pc' \in [Producers -> PCs]
    BY <1>7 DEF AdditionalSlot
  <2>2. quiet' \in [Feeds -> BOOLEAN]
    BY <1>7 DEF AdditionalSlot
  <2> QED
    BY <1>7, <2>1, <2>2 DEF AdditionalSlot
<1>8. ASSUME NEW p \in SlotSources, OnSlotUpdate(p) PROVE EngineTypeOK'
  <2>1. pc' \in [Producers -> PCs]
    BY <1>8 DEF OnSlotUpdate
  <2> QED
    BY <1>8, <2>1 DEF OnSlotUpdate
<1>9. ASSUME NEW r \in Receivers, Receiver(r) PROVE EngineTypeOK'
  <2>1. CASE RecvAccount(r)
    BY <2>1 DEF RecvAccount
  <2>2. CASE OnAccountUpdate(r)
    <3>1. queue' \in [Updaters -> 0..AcctCap]
      <4> DEFINE u == Target[r]
      <4>1. u \in Updaters /\ queue[u] < AcctCap /\ queue' = [queue EXCEPT ![u] = @ + 1]
        BY <2>2, ConstAssumption DEF OnAccountUpdate
      <4>2. queue[u] + 1 \in 0..AcctCap
        BY <4>1, ConstAssumption
      <4> QED
        BY <4>1, <4>2
    <3>2. acct' \in [Receivers -> {"off", "recv", "push", "done"}]
      BY <2>2 DEF OnAccountUpdate
    <3> QED
      BY <2>2, <3>1, <3>2 DEF OnAccountUpdate
  <2>3. CASE ReceiverExits(r)
    BY <2>3 DEF ReceiverExits
  <2> QED
    BY <1>9, <2>1, <2>2, <2>3 DEF Receiver
<1>10. ASSUME NEW u \in Updaters, Update(u) PROVE EngineTypeOK'
  <2>1. CASE UpdateAccount(u)
    <3>1. queue' \in [Updaters -> 0..AcctCap]
      <4>1. queue[u] > 0 /\ queue' = [queue EXCEPT ![u] = @ - 1]
        BY <2>1 DEF UpdateAccount
      <4>2. queue[u] \in 0..AcctCap
        OBVIOUS
      <4>3. queue[u] - 1 \in 0..AcctCap
        BY <4>1, <4>2, ConstAssumption
      <4> QED
        BY <4>1, <4>3
    <3>2. pc' \in [Producers -> PCs]
      BY <2>1 DEF UpdateAccount
    <3> QED
      BY <2>1, <3>1, <3>2 DEF UpdateAccount
  <2>2. CASE OnBalanceUpdate(u)
    <3>1. pc' \in [Producers -> PCs]
      BY <2>2 DEF OnBalanceUpdate
    <3> QED
      BY <2>2, <3>1 DEF OnBalanceUpdate
  <2> QED
    BY <1>6, <1>10, <2>1, <2>2 DEF Update, Producers
<1>11. CASE UNCHANGED engineVars
  BY <1>11 DEF engineVars
<1>12. ASSUME NEW k \in Sinks, Clog(k) PROVE EngineTypeOK'
  BY <1>12 DEF Clog
<1> QED
  BY <1>1, <1>2, <1>3, <1>4, <1>5, <1>6, <1>7, <1>8, <1>9, <1>10, <1>11, <1>12
     DEF EngineNext, Producers, SlotSources

\* Every variable keeps its type.
THEOREM TypeCorrect == SafeSpec => []EngineTypeOK
BY TypeInit, TypeStep, PTL DEF SafeSpec

-----------------------------------------------------------------------------
(* The gate is exclusive.                                                  *)

\* The goroutine p wins the compare-and-swap.
CompareAndSwap(p) ==
  /\ status = "Started"
  /\ status' = "Pause"
  /\ Goto(p, "cas", "send") \/ Goto(p, "spin", "send")
  /\ UNCHANGED <<tick, cause, main>>

\* A step that leaves the gate alone.
Aside ==
  /\ UNCHANGED <<status, cause>>
  /\ Owners' = Owners
  /\ Calculating' <=> Calculating
  /\ main' \in Starting <=> main \in Starting

\* What a move from one place to another does to the owners.
LEMMA OwnersMoved ==
  ASSUME pc \in [Producers -> PCs], NEW p \in Producers, NEW from, NEW to,
         Goto(p, from, to)
  PROVE  /\ to = "send" => Owners' = Owners \cup {p}
         /\ to # "send" => Owners' = Owners \ {p}
         /\ from = "send" <=> p \in Owners
BY DEF Owners, Goto

\* Every step is aside or one of the five that work the gate.
LEMMA StepKinds ==
  ASSUME EngineInv, EngineNext
  PROVE  /\ Alive
         /\ \/ Aside
            \/ OpenGate
            \/ WaitTick
            \/ \E p \in Producers : CompareAndSwap(p)
            \/ \E p \in Producers : Take(p)
            \/ Release
<1> DEFINE Kinds == \/ Aside
                    \/ OpenGate
                    \/ WaitTick
                    \/ \E p \in Producers : CompareAndSwap(p)
                    \/ \E p \in Producers : Take(p)
                    \/ Release
<1> pc \in [Producers -> PCs]
  BY DEF EngineInv, EngineTypeOK
<1> Alive
  BY DEF EngineNext
<1> USE DEF gateVars, mainVars, dataVars, Calculating
<1>1. ASSUME NEW p \in Producers, NEW from \in PCs, NEW to \in PCs, Goto(p, from, to),
             from # "send", to # "send", UNCHANGED <<status, tick, cause, main>>
      PROVE  Aside
  <2>1. Owners' = Owners \ {p} /\ p \notin Owners
    BY <1>1, OwnersMoved
  <2> QED
    BY <1>1, <2>1 DEF Aside
<1>2. ASSUME UNCHANGED <<status, tick, cause, pc>>, main' \in Starting <=> main \in Starting
      PROVE  Aside
  BY <1>2 DEF Aside, Owners
<1>3. ASSUME StartUp PROVE Kinds
  <2>1. main \in Starting => Owners = {}
    BY DEF EngineInv, GateExclusive, ShutUntilOpen
  <2>2. CASE SetPinger
    BY <1>2, <2>2 DEF SetPinger
  <2>3. CASE Boot
    <3>1. Owners' = {}
      BY <2>1, <2>3 DEF Boot, Owners, Starting
    <3> QED
      BY <2>1, <2>3, <3>1 DEF Boot, Aside, Starting
  <2>4. CASE Flash
    <3>1. Owners' = {}
      BY <2>1, <2>4 DEF Flash, Owners, Starting
    <3> QED
      BY <2>1, <2>4, <3>1 DEF Flash, Aside, Starting
  <2>5. CASE Listen
    <3>1. ~Calculating
      BY <2>5 DEF Listen, EngineInv, GateExclusive, ShutUntilOpen, Starting
    <3> QED
      BY <2>5, <3>1 DEF Listen, Aside, Owners, Starting
  <2>6. CASE SubscribeSlot
    <3>1. Owners' = {}
      BY <2>1, <2>6 DEF SubscribeSlot, Owners, Starting
    <3> QED
      BY <2>1, <2>6, <3>1 DEF SubscribeSlot, Aside, Starting
  <2> QED
    BY <1>3, <2>2, <2>3, <2>4, <2>5, <2>6 DEF StartUp
<1>4. ASSUME Stop PROVE Kinds
  BY <1>2, <1>4 DEF Stop, Interrupt, BeginStop, StopDetector, Unsubscribe, WaitBackend,
                    Starting
<1>5. ASSUME Serve PROVE Kinds
  BY <1>5 DEF Serve, Post, TickExits, Aside, Owners
<1>6. ASSUME NEW p \in SlotSources, OnSlotUpdate(p) PROVE Kinds
  <2>1. CASE status = "Started"
    BY <1>6, <2>1 DEF OnSlotUpdate, CompareAndSwap, Producers
  <2>2. CASE status # "Started"
    BY <1>1, <1>6, <2>2 DEF OnSlotUpdate, Producers, PCs
  <2> QED
    BY <2>1, <2>2
<1>7. ASSUME NEW p \in Producers, ProducerExits(p) PROVE Aside
  BY <1>1, <1>7 DEF ProducerExits, PCs
<1>8. ASSUME NEW f \in Feeds, Feed(f) PROVE Aside
  <2> f \in Producers
    BY DEF Producers, SlotSources
  <2>1. CASE RecvSlot(f)
    BY <1>1, <2>1 DEF RecvSlot, PCs
  <2>2. CASE AskBlockHash(f)
    BY <1>1, <2>2 DEF AskBlockHash, PCs
  <2>3. CASE Elapse(f)
    BY <1>2, <2>3 DEF Elapse
  <2>4. CASE FeedFails(f)
    BY <1>1, <2>4 DEF FeedFails, PCs
  <2>5. CASE FeedExits(f)
    BY <1>1, <2>5 DEF FeedExits, PCs
  <2> QED
    BY <1>8, <2>1, <2>2, <2>3, <2>4, <2>5 DEF Feed
<1>9. ASSUME NEW t \in Tickers, AdditionalSlot(t) PROVE Aside
  <2>1. PICK to \in {"cas", "recv"} : Goto(t, "recv", to)
    BY <1>9 DEF AdditionalSlot
  <2> QED
    BY <1>1, <1>9, <2>1 DEF AdditionalSlot, PCs, Producers, SlotSources
<1>10. ASSUME NEW r \in Receivers, Receiver(r) PROVE Aside
  BY <1>2, <1>10 DEF Receiver, RecvAccount, OnAccountUpdate, ReceiverExits
<1>11. ASSUME NEW u \in Updaters, Update(u) PROVE Kinds
  <2> u \in Producers
    BY DEF Producers
  <2>1. CASE UpdateAccount(u)
    <3>1. PICK to \in {"spin", "recv"} : Goto(u, "recv", to)
      BY <2>1 DEF UpdateAccount
    <3> QED
      BY <1>1, <2>1, <3>1 DEF UpdateAccount, PCs
  <2>2. CASE OnBalanceUpdate(u)
    BY <2>2 DEF OnBalanceUpdate, CompareAndSwap
  <2> QED
    BY <1>7, <1>11, <2>1, <2>2 DEF Update
<1>12. ASSUME Refresher PROVE Aside
  BY <1>2, <1>12 DEF Refresher, RefreshBlockHash, RefresherExits
<1>13. ASSUME NEW k \in Sinks, Clog(k) PROVE Aside
  BY <1>2, <1>13 DEF Clog
<1> QED
  BY <1>3, <1>4, <1>5, <1>6, <1>7, <1>8, <1>9, <1>10, <1>11, <1>12, <1>13
     DEF EngineNext, Producers, SlotSources

\* The three parts of EngineInv that say what status means, after each kind of step.
LEMMA GateKept ==
  ASSUME EngineInv, EngineNext
  PROVE  (GateExclusive /\ ShutUntilOpen /\ StoppedAtEnd)'
<1> USE DEF EngineInv, GateExclusive, ShutUntilOpen, StoppedAtEnd, Calculating
<1> pc \in [Producers -> PCs]
  BY DEF EngineTypeOK
<1>1. Alive
  BY StepKinds
<1>2. CASE Aside
  BY <1>1, <1>2 DEF Aside
<1>3. CASE OpenGate
  <2>1. Owners = {} /\ Owners' = Owners /\ ~Calculating'
    BY <1>3 DEF OpenGate, Owners, Starting
  <2> QED
    BY <1>3, <2>1 DEF OpenGate, Starting
<1>4. CASE WaitTick
  <2>1. Owners' = Owners /\ ~Calculating'
    BY <1>4 DEF WaitTick, Owners
  <2>2. Owners # {} => status = "Pause"
    BY <1>1
  <2> QED
    BY <1>4, <2>1, <2>2 DEF WaitTick, Starting, Alive
<1>5. ASSUME NEW p \in Producers, CompareAndSwap(p) PROVE Owners' = {p} /\ ~Calculating'
  BY <1>5, OwnersMoved DEF CompareAndSwap
<1>6. ASSUME NEW p \in Producers, Take(p) PROVE Owners' = {} /\ status = "Pause"
  <2>1. Owners' = Owners \ {p} /\ p \in Owners
    BY <1>6, OwnersMoved DEF Take
  <2> QED
    BY <1>1, <2>1
<1>7. CASE Release
  <2>1. Owners = {} /\ Owners' = Owners /\ status = "Pause"
    BY <1>1, <1>7 DEF Release, Owners
  <2> QED
    BY <1>7, <2>1 DEF Release, mainVars
<1> QED
  BY <1>1, <1>2, <1>3, <1>4, <1>5, <1>6, <1>7, StepKinds
     DEF CompareAndSwap, Take, mainVars, Starting, Alive

\* Every state of the engine satisfies EngineInv.
THEOREM EngineInvariant == SafeSpec => []EngineInv
<1>1. EngineInit => EngineInv
  BY TypeInit DEF EngineInit, EngineInv, Owners, Calculating, GateExclusive, ShutUntilOpen, StoppedAtEnd, Starting,
                  Producers, Alive
<1>2. EngineInv /\ [EngineNext]_engineVars => EngineInv'
  <2>1. CASE UNCHANGED engineVars
    BY <2>1 DEF engineVars, EngineInv, EngineTypeOK, GateExclusive, Owners, Calculating, ShutUntilOpen, StoppedAtEnd, Alive
  <2> QED
    BY <2>1, TypeStep, GateKept DEF EngineInv
<1> QED
  BY <1>1, <1>2, PTL DEF SafeSpec

\* The gate has at most one owner, none while a calculation runs, and status
\* tells both: no plain store of status reopens a gate that is owned.
THEOREM GateIsExclusive == SafeSpec => []GateExclusive
<1>1. EngineInv => GateExclusive
  BY DEF EngineInv
<1> QED
  BY <1>1, EngineInvariant, PTL

-----------------------------------------------------------------------------
(* The engine implements TriggerGate.                                      *)

\* The only member of a singleton.
LEMMA SoleOfOne == ASSUME NEW p PROVE Sole({p}) = p
BY DEF Sole

\* A step of the engine is a step of the gate or leaves the gate alone.
LEMMA GateStep == ASSUME EngineInv, EngineNext PROVE [Gate!Next]_(Gate!gate)
<1> USE DEF EngineInv, GateExclusive, StoppedAtEnd, Gate!gate, Calculating
<1> pc \in [Producers -> PCs]
  BY DEF EngineTypeOK
<1>1. Alive /\ status # "Stopped"
  BY StepKinds
<1>2. CASE Aside
  <2>1. Phase' = Phase
    BY <1>2 DEF Aside, Phase
  <2>2. Owner' = Owner
    BY <1>2, <2>1 DEF Aside, Owner
  <2> QED
    BY <2>1, <2>2
<1>3. CASE OpenGate
  <2>1. status = "Init" /\ status' = "Started"
    BY <1>3 DEF OpenGate, ShutUntilOpen, Starting
  <2> QED
    BY <2>1 DEF Phase, Owner, Gate!Next, Gate!Open
<1>4. CASE WaitTick
  <2>1. status \in {"Started", "Pause"} /\ status' = "Stopped" /\ ~Calculating
    BY <1>1, <1>4 DEF WaitTick, ShutUntilOpen, Starting, EngineTypeOK, Statuses
  <2> QED
    BY <2>1 DEF Phase, Owner, Gate!Next, Gate!Close
<1>5. ASSUME NEW p \in Producers, CompareAndSwap(p) PROVE Gate!Next
  <2>1. Owners' = {p} /\ ~Calculating' /\ status = "Started" /\ status' = "Pause"
    BY <1>5, OwnersMoved DEF CompareAndSwap
  <2>2. Phase = "free" /\ Phase' = "taken"
    BY <2>1 DEF Phase
  <2>3. Owner' = p
    BY <2>1, <2>2, SoleOfOne DEF Owner
  <2> QED
    BY <2>2, <2>3 DEF Gate!Next, Gate!Trigger
<1>6. ASSUME NEW p \in Producers, Take(p) PROVE Gate!Next
  <2>1. Owners = {p}
    BY <1>6, OwnersMoved DEF Take
  <2>2. status = "Pause" /\ status' = "Pause" /\ ~Calculating /\ Calculating' /\ cause' = p
    BY <1>1, <1>6, <2>1 DEF Take
  <2>3. Phase = "taken" /\ Phase' = "running"
    BY <2>2 DEF Phase
  <2>4. Owner = p
    BY <2>1, <2>3, SoleOfOne DEF Owner
  <2>5. Owner' = p
    BY <2>2, <2>3 DEF Owner
  <2> QED
    BY <2>3, <2>4, <2>5 DEF Gate!Next, Gate!Calculate
<1>7. CASE Release
  <2>1. status = "Pause" /\ Calculating /\ status' = "Started"
    BY <1>1, <1>7 DEF Release
  <2> QED
    BY <2>1 DEF Phase, Owner, Gate!Next, Gate!Finish
<1> QED
  BY <1>2, <1>3, <1>4, <1>5, <1>6, <1>7, StepKinds

\* The engine takes one trigger at a time and makes one calculation for it.
THEOREM GateImplemented == SafeSpec => GateSpec
<1>1. EngineInit => Gate!Init
  BY DEF EngineInit, Gate!Init, Phase, Owner
<1>2. EngineInv /\ [EngineNext]_engineVars => [Gate!Next]_(Gate!gate)
  <2>1. CASE UNCHANGED engineVars
    <3>1. Phase' = Phase /\ Owners' = Owners
      BY <2>1 DEF engineVars, Phase, Owners, Calculating
    <3>2. Owner' = Owner
      BY <2>1, <3>1 DEF engineVars, Owner
    <3> QED
      BY <3>1, <3>2 DEF Gate!gate
  <2> QED
    BY <2>1, GateStep
<1> QED
  BY <1>1, <1>2, EngineInvariant, PTL DEF SafeSpec, GateSpec, Gate!Spec

-----------------------------------------------------------------------------
(*****************************************************************************)
(* The search for paths.                                                     *)
(*****************************************************************************)

-----------------------------------------------------------------------------
(* Induction and recursion.                                                *)

\* Every nonempty set of naturals has a least member.
LEMMA LeastNumber ==
  ASSUME NEW T, T \subseteq Nat, T # {}
  PROVE  \E x \in T : \A y \in T : x <= y
<1>1. PICK x \in T : \A y \in T : <<y, x>> \notin OpToRel(<, Nat)
  BY NatLessThanWellFounded, WFMin
<1>2. ASSUME NEW y \in T PROVE x <= y
  <2>1. <<y, x>> \notin OpToRel(<, Nat)
    BY <1>1
  <2>2. x \in Nat /\ y \in Nat
    OBVIOUS
  <2>3. ~(y < x)
    BY <2>1, <2>2, Zenon DEF OpToRel
  <2> QED  BY <2>2, <2>3
<1> QED  BY <1>2

\* A set that has 0 and with every number the next one has all numbers up to n.
LEMMA Upward ==
  ASSUME NEW n \in Nat, NEW T, 0 \in T, \A k \in 1 .. n : k - 1 \in T => k \in T
  PROVE  \A k \in 0 .. n : k \in T
<1> DEFINE Rest == {k \in 0 .. n : k \notin T}
<1>1. Rest = {}
  <2> SUFFICES ASSUME Rest # {} PROVE FALSE
    OBVIOUS
  <2>1. Rest \subseteq Nat
    OBVIOUS
  <2>2. PICK m \in Rest : \A y \in Rest : m <= y
    <3> HIDE DEF Rest
    <3> QED  BY <2>1, LeastNumber
  <2>3. m \in 1 .. n /\ m - 1 \in 0 .. n /\ ~(m <= m - 1)
    OBVIOUS
  <2>4. m - 1 \in T
    BY <2>2, <2>3
  <2> QED  BY <2>3, <2>4
<1> QED  BY <1>1

\* A recursion over 0 .. n, from z by the given steps.
HasFunction(S, n, z, step) ==
  \E f \in [0 .. n -> S] : f[0] = z /\ \A k \in 1 .. n : f[k] = step[k][f[k - 1]]

\* It has a function.
LEMMA Recursion ==
  ASSUME NEW S, NEW n \in Nat, NEW z \in S, NEW step \in [1 .. n -> [S -> S]]
  PROVE  HasFunction(S, n, z, step)
<1> DEFINE Up(f, m) == f[0] = z /\ \A k \in 1 .. m : f[k] = step[k][f[k - 1]]
           T == {m \in 0 .. n : \E f \in [0 .. m -> S] : Up(f, m)}
<1>1. 0 \in T
  <2> DEFINE f == [k \in 0 .. 0 |-> z]
  <2>1. f \in [0 .. 0 -> S] /\ Up(f, 0)
    OBVIOUS
  <2>2. \E h \in [0 .. 0 -> S] : Up(h, 0)
    BY <2>1
  <2>3. 0 \in 0 .. n
    OBVIOUS
  <2> HIDE DEF Up
  <2> QED  BY <2>2, <2>3
<1>2. ASSUME NEW m \in 1 .. n, m - 1 \in T PROVE m \in T
  <2>1. PICK f \in [0 .. m - 1 -> S] : Up(f, m - 1)
    BY <1>2, Zenon
  <2> DEFINE g == [k \in 0 .. m |-> IF k = m THEN step[m][f[m - 1]] ELSE f[k]]
  <2>2. m - 1 \in 0 .. m - 1 /\ m \in Nat /\ 0 \in 0 .. m - 1
    OBVIOUS
  <2>3. step[m][f[m - 1]] \in S
    BY <2>2
  <2>4. g \in [0 .. m -> S]
    BY <2>2, <2>3
  <2>5. g[0] = z
    BY <2>1, <2>2
  <2>6. ASSUME NEW k \in 1 .. m PROVE g[k] = step[k][g[k - 1]]
    <3>1. g[k - 1] = f[k - 1]
      OBVIOUS
    <3>2. CASE k = m
      BY <3>1, <3>2
    <3>3. CASE k # m
      <4>1. k \in 1 .. m - 1 /\ g[k] = f[k]
        BY <3>3
      <4> QED  BY <2>1, <3>1, <4>1
    <3> QED  BY <3>2, <3>3
  <2> HIDE DEF g
  <2>7. \E h \in [0 .. m -> S] : Up(h, m)
    BY <2>4, <2>5, <2>6
  <2>8. m \in 0 .. n
    OBVIOUS
  <2> HIDE DEF Up
  <2> QED  BY <2>7, <2>8
<1>3. n \in T
  <2> HIDE DEF T
  <2>1. \A k \in 0 .. n : k \in T
    BY <1>1, <1>2, Upward
  <2> QED  BY <2>1
<1> QED  BY <1>3 DEF HasFunction

\* A bounded set of naturals has a greatest member.
LEMMA GreatestNumber ==
  ASSUME NEW T, T \subseteq Nat, T # {}, NEW m \in Nat, \A t \in T : t <= m
  PROVE  \E x \in T : \A y \in T : y <= x
<1> DEFINE gaps == {m - t : t \in T}
<1>a. \A t \in T : m - t \in Nat
  OBVIOUS
<1>1. gaps \subseteq Nat /\ gaps # {}
  BY <1>a
<1>2. PICK g \in gaps : \A h \in gaps : g <= h
  <2> HIDE DEF gaps
  <2> QED  BY <1>1, LeastNumber
<1>3. PICK x \in T : g = m - x
  OBVIOUS
<1>4. ASSUME NEW y \in T PROVE y <= x
  <2>1. m - y \in gaps
    OBVIOUS
  <2>2. m - x <= m - y
    BY <1>2, <1>3, <2>1
  <2> QED  BY <2>2
<1> QED  BY <1>4

-----------------------------------------------------------------------------
(* The models between two tokens.                                          *)

\* A sequence with one more element.
LEMMA Appended ==
  ASSUME NEW S, NEW q \in Seq(S), NEW e \in S
  PROVE  /\ Append(q, e) \in Seq(S) /\ Len(Append(q, e)) = Len(q) + 1
         /\ \A i \in DOMAIN q : i \in DOMAIN Append(q, e) /\ Append(q, e)[i] = q[i]
         /\ Append(q, e)[Len(q) + 1] = e /\ DOMAIN Append(q, e) = 1 .. Len(q) + 1
         /\ DOMAIN q = 1 .. Len(q) /\ Len(q) \in Nat
BY AppendProperties, LenProperties

Trades(m, a, b) == {a, b} = {Pair[m][1], Pair[m][2]}

\* f goes through the models as Trading does.
Selects(f, models, a, b) ==
  /\ f \in [0 .. Len(models) -> Seq(Models)]
  /\ f[0] = <<>>
  /\ \A k \in 1 .. Len(models) :
       f[k] = IF Trades(models[k], a, b) THEN Append(f[k - 1], models[k]) ELSE f[k - 1]
  /\ Trading(models, a, b) = f[Len(models)]

\* The recursion of Trading has a function.
LEMMA TradingRecursion ==
  ASSUME NEW models \in Seq(Models), NEW a, NEW b
  PROVE  \E f : Selects(f, models, a, b)
<1> DEFINE n == Len(models)
           Body(f, k) == IF k = 0 THEN <<>>
                         ELSE IF Trades(models[k], a, b) THEN Append(f[k-1], models[k]) ELSE f[k-1]
           step == [k \in 1 .. n |-> [s \in Seq(Models) |->
                      IF Trades(models[k], a, b) THEN Append(s, models[k]) ELSE s]]
           first == CHOOSE f : f = [k \in 0 .. n |-> Body(f, k)]
<1>1. n \in Nat /\ \A k \in 1 .. n : models[k] \in Models
  OBVIOUS
<1>2. step \in [1 .. n -> [Seq(Models) -> Seq(Models)]]
  BY <1>1
<1>3. PICK f \in [0 .. n -> Seq(Models)] : f[0] = <<>> /\ \A k \in 1 .. n : f[k] = step[k][f[k - 1]]
  <2>1. <<>> \in Seq(Models)
    OBVIOUS
  <2>2. HasFunction(Seq(Models), n, <<>>, step)
    <3> HIDE DEF step, n
    <3> QED  BY <1>1, <1>2, <2>1, Recursion, Zenon
  <2> HIDE DEF step, n
  <2> QED  BY <2>2, Zenon DEF HasFunction
<1>4. ASSUME NEW k \in 0 .. n PROVE f[k] = Body(f, k)
  <2>1. CASE k = 0
    BY <1>3, <2>1
  <2>2. CASE k # 0
    <3>1. k \in 1 .. n /\ k - 1 \in 0 .. n
      BY <2>2, <1>1
    <3>2. f[k - 1] \in Seq(Models) /\ f[k] = step[k][f[k - 1]]
      BY <3>1, <1>3
    <3> QED  BY <2>2, <3>1, <3>2
  <2> QED  BY <2>1, <2>2
<1>5. f = [k \in 0 .. n |-> Body(f, k)]
  <2> HIDE DEF Body
  <2> QED  BY <1>4
<1>6. first = [k \in 0 .. n |-> Body(first, k)]
  <2> HIDE DEF Body, n
  <2> QED  BY <1>5
<1>7. Trading(models, a, b) = first[n]
  BY Zenon DEF Trading, Trades
<1> HIDE DEF first
<1>8. ASSUME NEW k \in 0 .. n PROVE first[k] = Body(first, k)
  <2> HIDE DEF Body, n
  <2> QED  BY <1>6
<1>9. \A k \in 0 .. n : k \in {i \in 0 .. n : first[i] = f[i]}
  <2> DEFINE T == {k \in 0 .. n : first[k] = f[k]}
  <2>1. 0 \in T
    BY <1>1, <1>4, <1>8
  <2>2. ASSUME NEW k \in 1 .. n, k - 1 \in T PROVE k \in T
    <3>1. k \in 0 .. n /\ k # 0 /\ first[k - 1] = f[k - 1]
      BY <2>2
    <3> QED  BY <1>4, <1>8, <3>1
  <2> HIDE DEF T
  <2> QED  BY <1>1, <2>1, <2>2, Upward DEF T
<1>10. first \in [0 .. n -> Seq(Models)]
  <2>1. \A k \in 0 .. n : first[k] \in Seq(Models)
    BY <1>9
  <2> HIDE DEF Body, n
  <2> QED  BY <1>6, <2>1
<1>11. first[0] = <<>>
  BY <1>1, <1>8
<1>12. ASSUME NEW k \in 1 .. n
       PROVE  first[k] = IF Trades(models[k], a, b) THEN Append(first[k-1], models[k]) ELSE first[k-1]
  <2>1. k \in 0 .. n /\ k # 0
    OBVIOUS
  <2> QED  BY <1>8, <2>1
<1> QED  BY <1>7, <1>10, <1>11, <1>12 DEF Selects

\* A model added last is last between its tokens, and not between others.
LEMMA TradingAppend ==
  ASSUME NEW models \in Seq(Models), NEW m \in Models, NEW a, NEW b
  PROVE  Trading(Append(models, m), a, b) =
           IF Trades(m, a, b) THEN Append(Trading(models, a, b), m) ELSE Trading(models, a, b)
<1> DEFINE n == Len(models)
           more == Append(models, m)
<1>1. /\ more \in Seq(Models) /\ Len(more) = n + 1 /\ n \in Nat /\ more[n + 1] = m
      /\ \A i \in 1 .. n : more[i] = models[i]
  BY Appended
<1>2. PICK f : Selects(f, models, a, b)
  BY TradingRecursion, Zenon
<1>3. PICK g : Selects(g, more, a, b)
  <2> HIDE DEF more
  <2> QED  BY <1>1, TradingRecursion, Zenon
<1> HIDE DEF more, n
<1> DEFINE T == {k \in 0 .. n : f[k] = g[k]}
<1>4. 0 \in T
  BY <1>1, <1>2, <1>3 DEF Selects
<1>5. ASSUME NEW k \in 1 .. n, k - 1 \in T PROVE k \in T
  <2>1. k \in 0 .. n /\ f[k - 1] = g[k - 1] /\ k \in 1 .. Len(more) /\ more[k] = models[k]
    BY <1>1, <1>5
  <2>2. f[k] = g[k]
    BY <1>2, <1>3, <2>1 DEF Selects, n
  <2> QED  BY <2>1, <2>2
<1>6. n \in T
  <2> HIDE DEF T
  <2>1. \A k \in 0 .. n : k \in T
    BY <1>1, <1>4, <1>5, Upward
  <2> QED  BY <1>1, <2>1
<1>7. g[n] = Trading(models, a, b)
  BY <1>2, <1>6 DEF Selects, n
<1>8. n + 1 \in 1 .. Len(more) /\ (n + 1) - 1 = n
  BY <1>1
<1>9. g[n + 1] = IF Trades(m, a, b) THEN Append(g[n], m) ELSE g[n]
  BY <1>1, <1>3, <1>8 DEF Selects
<1> QED  BY <1>1, <1>3, <1>7, <1>9 DEF more, Selects

\* The models between two tokens are those that were added and trade them.
LEMMA TradingIs ==
  ASSUME NEW models \in Seq(Models), NEW a, NEW b
  PROVE  /\ Trading(models, a, b) \in Seq(Models)
         /\ \A x : (\E i \in DOMAIN Trading(models, a, b) : Trading(models, a, b)[i] = x)
                     <=> \E j \in DOMAIN models : models[j] = x /\ Trades(x, a, b)
<1> DEFINE n == Len(models)
           In(s, x) == \E i \in DOMAIN s : s[i] = x
           Met(k, x) == \E j \in 1 .. k : models[j] = x /\ Trades(x, a, b)
<1>0. PICK f : Selects(f, models, a, b)
  BY TradingRecursion, Zenon
<1>1. /\ f \in [0 .. n -> Seq(Models)] /\ f[0] = <<>>
      /\ \A k \in 1 .. n :
           f[k] = IF Trades(models[k], a, b) THEN Append(f[k - 1], models[k]) ELSE f[k - 1]
      /\ Trading(models, a, b) = f[n]
  BY <1>0, Zenon DEF Selects
<1>2. n \in Nat /\ DOMAIN models = 1 .. n /\ \A k \in 1 .. n : models[k] \in Models
  OBVIOUS
<1> HIDE DEF n
<1> DEFINE T == {k \in 0 .. n : \A x : In(f[k], x) <=> Met(k, x)}
<1>3. 0 \in T
  <2>1. \A x : ~In(f[0], x) /\ ~Met(0, x)
    BY <1>1
  <2>2. 0 \in 0 .. n
    BY <1>2
  <2> HIDE DEF In, Met
  <2> QED  BY <2>1, <2>2
<1>4. ASSUME NEW k \in 1 .. n, k - 1 \in T PROVE k \in T
  <2>1. k \in 0 .. n /\ k - 1 \in 0 .. n /\ models[k] \in Models /\ f[k - 1] \in Seq(Models) /\ k \in Nat
    BY <1>1, <1>2
  <2>2. \A x : In(f[k - 1], x) <=> Met(k - 1, x)
    BY <1>4
  <2>3. \A x : Met(k, x) <=> Met(k - 1, x) \/ (models[k] = x /\ Trades(x, a, b))
    <3>1. 1 .. k = 1 .. (k - 1) \cup {k}
      BY <2>1
    <3> QED  BY <3>1
  <2>4. \A x : In(f[k], x) <=> In(f[k - 1], x) \/ (models[k] = x /\ Trades(models[k], a, b))
    <3>1. CASE Trades(models[k], a, b)
      <4>1. f[k] = Append(f[k - 1], models[k])
        BY <1>1, <3>1
      <4> DEFINE s == f[k - 1]
                 e == models[k]
      <4>2. s \in Seq(Models) /\ e \in Models
        BY <2>1
      <4> HIDE DEF s, e
      <4>3. DOMAIN Append(s, e) = (DOMAIN s) \cup {Len(s) + 1}
        <5>1. /\ DOMAIN Append(s, e) = 1 .. Len(s) + 1 /\ Len(s) \in Nat
              /\ DOMAIN s = 1 .. Len(s)
          BY <4>2, Appended
        <5> QED  BY ONLY <5>1
      <4>4. \A x : In(Append(s, e), x) <=> In(s, x) \/ e = x
        BY <4>2, <4>3, Appended
      <4> QED  BY <3>1, <4>1, <4>4 DEF s, e
    <3>2. CASE ~Trades(models[k], a, b)
      BY <1>1, <3>2
    <3> QED  BY <3>1, <3>2
  <2>5. \A x : In(f[k], x) <=> Met(k, x)
    <3> HIDE DEF In, Met
    <3> QED  BY <2>2, <2>3, <2>4
  <2> QED  BY <2>1, <2>5
<1>5. n \in T
  <2> HIDE DEF T
  <2>1. \A k \in 0 .. n : k \in T
    BY <1>2, <1>3, <1>4, Upward
  <2> QED  BY <1>2, <2>1
<1>6. \A x : In(f[n], x) <=> Met(n, x)
  BY <1>5, Zenon
<1>7. f[n] \in Seq(Models)
  BY <1>1, <1>2
<1>8. \A x : In(Trading(models, a, b), x) <=> Met(n, x)
  <2> HIDE DEF In, Met
  <2> QED  BY <1>1, <1>6
<1> QED  BY <1>1, <1>2, <1>7, <1>8, Zenon

\* Nothing is between tokens none was added for.
LEMMA TradingNone ==
  ASSUME NEW models \in Seq(Models), NEW a, NEW b,
         \A j \in DOMAIN models : ~Trades(models[j], a, b)
  PROVE  Trading(models, a, b) = <<>>
<1> DEFINE s == Trading(models, a, b)
<1>1. s \in Seq(Models) /\ \A x : ~\E i \in DOMAIN s : s[i] = x
  BY TradingIs, SMTT(30)
<1> HIDE DEF s
<1>2. DOMAIN s = {} /\ DOMAIN s = 1 .. Len(s) /\ Len(s) \in Nat
  <2>1. DOMAIN s = {}
    BY <1>1, Zenon
  <2> QED  BY <1>1, <2>1
<1>3. Len(s) = 0
  BY <1>2
<1> QED  BY <1>1, <1>3 DEF s

-----------------------------------------------------------------------------
(* What is chosen: the best model of an edge, the best node that arrived.  *)

USE PathAssumption

\* A pool gives an amount, and nothing for nothing.
LEMMA SwapTyped ==
  ASSUME quote \in [Models -> Quotes], NEW m \in Models, NEW token, NEW x \in Amounts
  PROVE  Swap(m, token, x) \in Amounts /\ Swap(m, token, 0) = 0
<1>1. quote[m] \in Quotes
  OBVIOUS
<1>2. quote[m] \in [1 .. 2 -> [Amounts -> Amounts]] /\ quote[m][1][0] = 0 /\ quote[m][2][0] = 0
  BY <1>1
<1>3. quote[m][1] \in [Amounts -> Amounts] /\ quote[m][2] \in [Amounts -> Amounts]
  BY <1>2
<1> QED  BY <1>2, <1>3 DEF Swap

\* b is one of the items and what it gives.
IsOf(b, items, token, x) ==
  \E k \in DOMAIN items : b.model = items[k] /\ b.amount = Swap(items[k], token, x)

\* Best chooses a model that gives as much as any, unless none gives anything.
LEMMA BestIs ==
  ASSUME quote \in [Models -> Quotes], NEW items \in Seq(Models), NEW token, NEW x \in Amounts
  PROVE  /\ Best(items, token, x).amount \in Amounts
         /\ \A k \in DOMAIN items : Swap(items[k], token, x) <= Best(items, token, x).amount
         /\ Best(items, token, x).amount > 0 => IsOf(Best(items, token, x), items, token, x)
<1> DEFINE out(k) == Swap(items[k], token, x)
           giving == {k \in DOMAIN items : out(k) > 0}
           First(k) == \A l \in giving : out(l) < out(k) \/ (out(l) = out(k) /\ k <= l)
           chosen == CHOOSE k \in giving : First(k)
<1>1. \A k \in DOMAIN items : out(k) \in Amounts /\ out(k) \in Nat /\ out(k) <= MaxAmount /\ k \in Nat
  <2>1. \A k \in DOMAIN items : items[k] \in Models /\ k \in Nat
    OBVIOUS
  <2>2. \A k \in DOMAIN items : out(k) \in Amounts
    BY <2>1, SwapTyped
  <2> QED  BY <2>1, <2>2 DEF Amounts
<1>2. CASE giving = {}
  <2>1. Best(items, token, x) = [amount |-> 0, model |-> "nil"]
    BY <1>2 DEF Best
  <2>2. \A k \in DOMAIN items : out(k) <= 0
    BY <1>1, <1>2
  <2>3. 0 \in Amounts /\ ~(0 > 0)
    BY DEF Amounts
  <2> QED  BY <2>1, <2>2, <2>3
<1>3. CASE giving # {}
  <2> DEFINE worths == {out(k) : k \in giving}
  <2>1. \E w \in worths : \A v \in worths : v <= w
    <3>1. worths \subseteq Nat /\ worths # {} /\ MaxAmount \in Nat /\ \A v \in worths : v <= MaxAmount
      BY <1>1, <1>3
    <3> HIDE DEF worths
    <3> QED  BY <3>1, GreatestNumber
  <2>2. PICK b \in giving : \A l \in giving : out(l) <= out(b)
    BY <2>1
  <2> DEFINE bests == {k \in giving : out(k) = out(b)}
  <2>3. \E k \in bests : \A l \in bests : k <= l
    <3>1. bests \subseteq Nat /\ bests # {}
      BY <1>1, <2>2
    <3> HIDE DEF bests
    <3> QED  BY <3>1, LeastNumber
  <2>4. PICK k \in bests : \A l \in bests : k <= l
    BY <2>3
  <2>5. ASSUME NEW l \in giving PROVE out(l) < out(k) \/ (out(l) = out(k) /\ k <= l)
    <3>1. out(k) = out(b) /\ out(l) <= out(b) /\ out(l) \in Nat /\ out(b) \in Nat
      BY <1>1, <2>2, <2>4
    <3>2. out(l) = out(b) => k <= l
      BY <2>4
    <3> HIDE DEF out
    <3> QED  BY ONLY <3>1, <3>2
  <2>6. chosen \in giving /\ First(chosen)
    <3>1. \E i \in giving : First(i)
      BY <2>4, <2>5
    <3> HIDE DEF First, giving
    <3> QED  BY <3>1
  <2>7. Best(items, token, x) = [amount |-> out(chosen), model |-> items[chosen]]
    BY <1>3, Zenon DEF Best
  <2> HIDE DEF chosen
  <2>8. ASSUME NEW l \in DOMAIN items PROVE out(l) <= out(chosen)
    <3>1. out(l) \in Nat /\ out(chosen) \in Nat
      BY <1>1, <2>6
    <3>2. l \notin giving => ~(out(l) > 0)
      OBVIOUS
    <3>3. l \in giving => out(l) < out(chosen) \/ out(l) = out(chosen)
      BY <2>6
    <3> HIDE DEF out, giving
    <3> QED  BY ONLY <3>1, <3>2, <3>3
  <2>9. out(chosen) \in Amounts /\ chosen \in DOMAIN items
    BY <1>1, <2>6
  <2> HIDE DEF out
  <2> QED  BY <2>7, <2>8, <2>9 DEF out, IsOf
<1> QED  BY <1>2, <1>3

\* The model it chooses is nil when none gives anything.
LEMMA BestModel ==
  ASSUME quote \in [Models -> Quotes], NEW items \in Seq(Models), NEW token, NEW x \in Amounts
  PROVE  Best(items, token, x).model \in Models \cup {"nil"}
<1> DEFINE best == Best(items, token, x)
           giving == {k \in DOMAIN items : Swap(items[k], token, x) > 0}
<1>1. CASE giving = {}
  <2>1. best = [amount |-> 0, model |-> "nil"]
    BY <1>1 DEF Best
  <2> QED  BY <2>1
<1>2. CASE giving # {}
  <2>1. PICK k \in DOMAIN items : Swap(items[k], token, x) > 0
    BY <1>2
  <2>2. Swap(items[k], token, x) \in Amounts /\ Swap(items[k], token, x) <= best.amount
    BY BestIs, SwapTyped
  <2>3. best.amount \in Amounts
    BY BestIs, Zenon
  <2>4. best.amount > 0
    <3> HIDE DEF best
    <3> QED  BY <2>1, <2>2, <2>3 DEF Amounts
  <2>5. IsOf(best, items, token, x)
    BY <2>4, BestIs, Zenon
  <2> HIDE DEF best
  <2>6. PICK j \in DOMAIN items : best.model = items[j]
    BY <2>5, Zenon DEF IsOf
  <2>7. best.model \in Models
    BY <2>6
  <2> QED  BY <2>7, Zenon DEF best
<1> QED  BY <1>1, <1>2

-----------------------------------------------------------------------------
(* The tree of the search.                                                 *)

\* A model that was added has its tokens in the matrix.
Placed == \A k \in DOMAIN added : /\ Has(indexes, Pair[added[k]][1])
                                  /\ Has(indexes, Pair[added[k]][2])

IInv == TypeOK /\ MatrixHolds /\ Placed

Added == {added[k] : k \in DOMAIN added}
Indexes == DOMAIN indexes
Last(path) == path[Len(path)]

\* The nodes there may be.
Node == [path : {p \in Seq(Indexes) : p # <<>>}, models : Seq(Models \cup {"nil"}),
         amount : Amounts, usdc : Amounts]

\* On the edge between two tokens are the models that were added and trade them.
LEMMA EdgeIs ==
  ASSUME IInv, NEW i \in Indexes, NEW j \in Indexes
  PROVE  /\ matrix[i][j] \in Seq(Models)
         /\ i = j => matrix[i][j] = <<>>
         /\ i # j => \A m : (\E k \in DOMAIN matrix[i][j] : matrix[i][j][k] = m)
                              <=> m \in Added /\ Trades(m, indexes[i], indexes[j])
<1>1. matrix[i][j] \in Seq(Models) /\ added \in Seq(Models)
  BY DEF IInv, TypeOK, Indexes
<1>2. /\ i = j => matrix[i][j] = <<>>
      /\ i # j => matrix[i][j] = Trading(added, indexes[i], indexes[j])
  BY DEF IInv, MatrixHolds, Between, Indexes
<1>3. \A m : (\E k \in DOMAIN Trading(added, indexes[i], indexes[j]) :
                Trading(added, indexes[i], indexes[j])[k] = m)
               <=> \E k \in DOMAIN added : added[k] = m /\ Trades(m, indexes[i], indexes[j])
  BY <1>1, TradingIs, Zenon
<1>4. \A m : (\E k \in DOMAIN added : added[k] = m /\ Trades(m, indexes[i], indexes[j]))
               <=> m \in Added /\ Trades(m, indexes[i], indexes[j])
  BY Zenon DEF Added
<1>5. i # j => \A m : (\E k \in DOMAIN matrix[i][j] : matrix[i][j][k] = m)
                              <=> m \in Added /\ Trades(m, indexes[i], indexes[j])
  BY <1>2, <1>3, <1>4, Zenon
<1> QED  BY <1>1, <1>2, <1>5, Zenon

\* The end of a node's path, and what its children are.
LEMMA ChildIs ==
  ASSUME IInv, NEW x \in Node, NEW i \in Indexes
  PROVE  /\ Child(x, i) \in Node
         /\ Last(x.path) \in Indexes /\ Len(x.path) \in Nat \ {0}
         /\ Child(x, i).path = Append(x.path, i)
         /\ Child(x, i).models = Append(x.models,
              Best(matrix[Last(x.path)][i], indexes[Last(x.path)], x.amount).model)
         /\ Child(x, i).amount = Best(matrix[Last(x.path)][i], indexes[Last(x.path)], x.amount).amount
         /\ Child(x, i).usdc = Priced(x, i, Child(x, i).amount)
<1> DEFINE at == Last(x.path)
           best == Best(matrix[at][i], indexes[at], x.amount)
<1>1. /\ x.path \in Seq(Indexes) /\ x.path # <<>> /\ x.models \in Seq(Models \cup {"nil"})
      /\ x.amount \in Amounts /\ x.usdc \in Amounts
  BY DEF Node
<1>2. at \in Indexes /\ Len(x.path) \in Nat \ {0}
  BY <1>1 DEF Last
<1>3. matrix[at][i] \in Seq(Models) /\ quote \in [Models -> Quotes]
  BY <1>2, EdgeIs DEF IInv, TypeOK
<1>4. best.amount \in Amounts
  BY <1>1, <1>3, BestIs, Zenon
<1>5. best.model \in Models \cup {"nil"}
  BY <1>1, <1>3, BestModel, Zenon
<1> HIDE DEF best
<1>6. Child(x, i) = [path |-> Append(x.path, i), models |-> Append(x.models, best.model),
                     amount |-> best.amount, usdc |-> Priced(x, i, best.amount)]
  BY DEF Child, Last, best
<1>7. Priced(x, i, best.amount) \in Amounts
  BY <1>1, <1>4 DEF Priced
<1>8. Append(x.path, i) \in Seq(Indexes) /\ Append(x.path, i) # <<>>
  <2>1. Append(x.path, i) \in Seq(Indexes) /\ Len(Append(x.path, i)) = Len(x.path) + 1
    BY <1>1, Appended
  <2>2. Len(<<>>) = 0
    OBVIOUS
  <2> QED  BY <1>2, <2>1, <2>2
<1>9. Append(x.models, best.model) \in Seq(Models \cup {"nil"})
  BY <1>1, <1>5, Appended
<1>10. Child(x, i) \in Node
  BY <1>4, <1>6, <1>7, <1>8, <1>9 DEF Node
<1> QED  BY <1>2, <1>6, <1>10 DEF best

\* The nodes below some nodes of a level.
Below(L, first, d) ==
  UNION {Children(x) : x \in {y \in L : first \/ ~Ends(y.path, y.amount, d)}}

\* Children are nodes of an edge that has models.
LEMMA ChildrenAre ==
  ASSUME IInv, NEW x \in Node
  PROVE  \A y : y \in Children(x) <=>
           \E i \in Indexes : i # Last(x.path) /\ matrix[Last(x.path)][i] # <<>> /\ y = Child(x, i)
BY Zenon DEF Children, Last, Indexes

\* The recursion of Level.
LEMMA LevelIs ==
  ASSUME IInv, NEW s \in Indexes, NEW d \in Indexes, NEW a \in Amounts
  PROVE  /\ Level(s, a, d)[1] = {Root(s, a)}
         /\ \A n \in 2 .. Depth : Level(s, a, d)[n] = Below(Level(s, a, d)[n - 1], n = 2, d)
         /\ \A n \in 1 .. Depth : Level(s, a, d)[n] \subseteq Node
<1> DEFINE S == SUBSET Node
           step == [k \in 1 .. Depth - 1 |-> [L \in S |-> Below(L, k = 1, d)]]
           root == {Root(s, a)}
           Body(f, n) == IF n = 1 THEN root ELSE Below(f[n-1], n = 2, d)
           level == CHOOSE f : f = [n \in 1 .. Depth |-> Body(f, n)]
<1>1. Depth \in Nat /\ Depth - 1 \in Nat /\ 1 \in 1 .. Depth
  OBVIOUS
<1>2. root \in S
  <2>1. s \in Nat
    BY DEF IInv, TypeOK, Indexes
  <2>2. <<s>> \in Seq(Indexes) /\ <<s>> # <<>> /\ <<>> \in Seq(Models \cup {"nil"}) /\ 0 \in Amounts
    BY DEF Amounts
  <2> QED  BY <2>2 DEF Root, Node
<1>3. \A L \in S : \A b \in BOOLEAN : Below(L, b, d) \in S
  <2> SUFFICES ASSUME NEW L \in S, NEW x \in L, NEW y \in Children(x) PROVE y \in Node
    BY DEF Below
  <2>1. x \in Node
    OBVIOUS
  <2>2. PICK i \in Indexes : y = Child(x, i)
    BY <2>1, ChildrenAre, Zenon
  <2> QED  BY <2>1, <2>2, ChildIs
<1>4. step \in [1 .. Depth - 1 -> [S -> S]]
  <2>1. \A k \in 1 .. Depth - 1 : (k = 1) \in BOOLEAN
    OBVIOUS
  <2>2. \A k \in 1 .. Depth - 1 : [L \in S |-> Below(L, k = 1, d)] \in [S -> S]
    <3> HIDE DEF S
    <3> QED  BY <1>3, <2>1
  <2> HIDE DEF S
  <2> QED  BY <2>2
<1>5. HasFunction(S, Depth - 1, root, step)
  <2> HIDE DEF S, root, step
  <2> QED  BY <1>1, <1>2, <1>4, Recursion, Zenon
<1>6. PICK f \in [0 .. Depth - 1 -> S] :
        f[0] = root /\ \A k \in 1 .. Depth - 1 : f[k] = step[k][f[k - 1]]
  <2> HIDE DEF S, root, step
  <2> QED  BY <1>5, Zenon DEF HasFunction
<1> DEFINE g == [n \in 1 .. Depth |-> f[n - 1]]
<1>7. ASSUME NEW n \in 1 .. Depth PROVE g[n] = Body(g, n)
  <2>1. CASE n = 1
    BY <1>6, <2>1
  <2>2. CASE n # 1
    <3>1. n - 1 \in 1 .. Depth - 1 /\ n - 1 \in 1 .. Depth /\ (n - 1) - 1 \in 0 .. Depth - 1
      BY <2>2
    <3>2. g[n] = f[n - 1] /\ g[n - 1] = f[(n - 1) - 1]
      BY <3>1
    <3>3. f[(n - 1) - 1] \in S /\ f[n - 1] = step[n - 1][f[(n - 1) - 1]]
      <4> HIDE DEF S, step
      <4> QED  BY <1>6, <3>1
    <3>4. (n - 1 = 1) = (n = 2)
      OBVIOUS
    <3> HIDE DEF S
    <3>5. f[n - 1] = Below(f[(n - 1) - 1], n = 2, d)
      BY <3>1, <3>3, <3>4
    <3> QED  BY <2>2, <3>2, <3>5
  <2> QED  BY <2>1, <2>2
<1>8. g = [n \in 1 .. Depth |-> Body(g, n)]
  <2>1. \A n \in 1 .. Depth : g[n] = Body(g, n)
    BY <1>7
  <2>2. \A n \in 1 .. Depth : g[n] = f[n - 1]
    OBVIOUS
  <2> HIDE DEF Body
  <2> QED  BY <2>1
<1>9. level = [n \in 1 .. Depth |-> Body(level, n)]
  <2> HIDE DEF Body, g
  <2> QED  BY <1>8, Zenon
<1>10. Level(s, a, d) = level
  BY Zenon DEF Level, Below
<1> HIDE DEF level
<1>11. ASSUME NEW n \in 1 .. Depth PROVE level[n] = Body(level, n)
  <2> HIDE DEF Body
  <2> QED  BY <1>9
<1>12. level[1] = root
  BY <1>1, <1>11
<1>13. \A n \in 2 .. Depth : level[n] = Below(level[n - 1], n = 2, d)
  <2>1. \A n \in 2 .. Depth : n \in 1 .. Depth /\ n # 1
    OBVIOUS
  <2> QED  BY <1>11, <2>1
<1> DEFINE T == {k \in 0 .. Depth - 1 : level[k + 1] \in S}
<1>14. 0 \in T
  <2>1. 0 \in 0 .. Depth - 1 /\ 0 + 1 = 1
    BY <1>1
  <2> HIDE DEF S, root
  <2> QED  BY <1>2, <1>12, <2>1
<1>15. ASSUME NEW k \in 1 .. Depth - 1, k - 1 \in T PROVE k \in T
  <2>1. k \in 0 .. Depth - 1 /\ (k - 1) + 1 = k /\ k + 1 \in 2 .. Depth /\ (k + 1) - 1 = k
    OBVIOUS
  <2>2. level[k] \in S
    <3> HIDE DEF S
    <3> QED  BY <1>15, <2>1
  <2>3. level[k + 1] = Below(level[k], k + 1 = 2, d) /\ (k + 1 = 2) \in BOOLEAN
    BY <1>13, <2>1
  <2> HIDE DEF S
  <2> QED  BY <1>3, <2>1, <2>2, <2>3
<1>16. \A k \in 0 .. Depth - 1 : k \in T
  <2> HIDE DEF T
  <2> QED  BY <1>1, <1>14, <1>15, Upward
<1>17. ASSUME NEW n \in 1 .. Depth PROVE level[n] \subseteq Node
  <2>1. n - 1 \in 0 .. Depth - 1 /\ (n - 1) + 1 = n
    OBVIOUS
  <2>2. level[n] \in S
    <3> HIDE DEF S
    <3> QED  BY <1>16, <2>1
  <2> QED  BY <2>2
<1> QED  BY <1>10, <1>12, <1>13, <1>17

-----------------------------------------------------------------------------
(* What a node stands for: a walk over edges, with the amount after every  *)
(* swap.                                                                   *)

Step(x, w, k) ==
  /\ x.models[k] \in Added
  /\ Trades(x.models[k], indexes[x.path[k]], indexes[x.path[k + 1]])
  /\ x.path[k] # x.path[k + 1]
  /\ w[k] = Swap(x.models[k], indexes[x.path[k]], w[k - 1])

\* The amount of USDC is what the last visit had.
UsdcIs(x, w) ==
  LET visits == {k \in DOMAIN x.path : x.path[k] = usdcIndex}
  IN IF visits = {} THEN x.usdc = 0
     ELSE \E k \in visits : (\A l \in visits : l <= k) /\ x.usdc = w[k - 1]

\* Only the last index of the path can be the destination or have been met before.
Straight(path, d) ==
  /\ \A j, k \in 1 .. Len(path) - 1 : path[j] = path[k] => j = k
  /\ \A k \in 2 .. Len(path) - 1 : path[k] # d

Walked(x, w, s, a, d) ==
  /\ x.path[1] = s /\ Len(x.models) = Len(x.path) - 1
  /\ w \in [0 .. Len(x.path) - 1 -> Amounts] /\ w[0] = a /\ w[Len(x.path) - 1] = x.amount
  /\ Straight(x.path, d)
  /\ x.amount > 0 => \A k \in 1 .. Len(x.path) - 1 : Step(x, w, k)
  /\ UsdcIs(x, w)

\* The root is a walk of no step.
LEMMA RootWalked ==
  ASSUME IInv, NEW s \in Indexes, NEW d \in Indexes, NEW a \in Amounts
  PROVE  Walked(Root(s, a), [k \in 0 .. 0 |-> a], s, a, d) /\ Len(Root(s, a).path) = 1
<1> DEFINE x == Root(s, a)
           w == [k \in 0 .. 0 |-> a]
<1>1. /\ x.path = <<s>> /\ x.models = <<>> /\ x.amount = a
      /\ x.usdc = IF s = usdcIndex THEN a ELSE 0
  BY DEF Root
<1>2. Len(x.path) = 1 /\ x.path[1] = s /\ Len(x.models) = 0 /\ DOMAIN x.path = {1}
  BY <1>1
<1>3. w \in [0 .. 0 -> Amounts] /\ w[0] = a
  OBVIOUS
<1> HIDE DEF x, w
<1>4. Straight(x.path, d)
  BY <1>2 DEF Straight
<1>5. UsdcIs(x, w)
  <2>1. CASE s = usdcIndex
    <3>1. {k \in DOMAIN x.path : x.path[k] = usdcIndex} = {1}
      BY <1>2, <2>1
    <3>2. x.usdc = w[1 - 1]
      BY <1>1, <1>3, <2>1
    <3> QED  BY <3>1, <3>2 DEF UsdcIs
  <2>2. CASE s # usdcIndex
    <3>1. {k \in DOMAIN x.path : x.path[k] = usdcIndex} = {}
      BY <1>2, <2>2
    <3> QED  BY <1>1, <2>2, <3>1 DEF UsdcIs
  <2> QED  BY <2>1, <2>2
<1> QED  BY <1>1, <1>2, <1>3, <1>4, <1>5 DEF Walked, x, w

\* A child goes one step further.
LEMMA ChildWalked ==
  ASSUME IInv, NEW s \in Indexes, NEW d \in Indexes, NEW a \in Amounts,
         NEW x \in Node, NEW w, Walked(x, w, s, a, d), x.amount > 0,
         Len(x.path) = 1 \/ ~Ends(x.path, x.amount, d),
         NEW y \in Children(x)
  PROVE  Len(y.path) = Len(x.path) + 1 /\ \E v : Walked(y, v, s, a, d)
<1>1. PICK i \in Indexes : i # Last(x.path) /\ matrix[Last(x.path)][i] # <<>> /\ y = Child(x, i)
  BY ChildrenAre, Zenon
<1> DEFINE n == Len(x.path)
           at == Last(x.path)
           best == Best(matrix[at][i], indexes[at], x.amount)
           v == [k \in 0 .. n |-> IF k = n THEN y.amount ELSE w[k]]
<1>2. /\ x.path \in Seq(Indexes) /\ x.models \in Seq(Models \cup {"nil"}) /\ x.amount \in Amounts
      /\ n \in Nat \ {0} /\ at \in Indexes /\ at = x.path[n]
  BY ChildIs DEF Node, Last
<1>3. /\ y.path = Append(x.path, i) /\ y.models = Append(x.models, best.model)
      /\ y.amount = best.amount /\ y.usdc = Priced(x, i, y.amount) /\ y \in Node
  BY <1>1, ChildIs
<1>4. y.amount \in Amounts /\ y.models \in Seq(Models \cup {"nil"})
  BY <1>3 DEF Node
<1>a. matrix[at][i] \in Seq(Models) /\ quote \in [Models -> Quotes]
  BY <1>2, EdgeIs DEF IInv, TypeOK
<1>b. Best(matrix[at][i], indexes[at], x.amount).model \in Models \cup {"nil"}
  <2> HIDE DEF at, best
  <2> QED  BY <1>2, <1>a, BestModel, Zenon
<1>5. /\ x.path[1] = s /\ Len(x.models) = n - 1
      /\ w \in [0 .. n - 1 -> Amounts] /\ w[0] = a /\ w[n - 1] = x.amount
      /\ Straight(x.path, d) /\ \A k \in 1 .. n - 1 : Step(x, w, k)
      /\ UsdcIs(x, w)
  BY DEF Walked
<1>6. /\ Len(y.path) = n + 1 /\ DOMAIN y.path = 1 .. n + 1 /\ DOMAIN x.path = 1 .. n
      /\ y.path[n + 1] = i /\ \A k \in 1 .. n : y.path[k] = x.path[k]
  BY <1>2, <1>3, Appended
<1>7. /\ Len(y.models) = n
      /\ y.models[n] = best.model /\ \A k \in 1 .. n - 1 : y.models[k] = x.models[k]
  <2>1. best.model \in Models \cup {"nil"}
    BY <1>2, <1>b, Zenon DEF best
  <2> HIDE DEF best
  <2>2. DOMAIN x.models = 1 .. n - 1
    BY <1>2, <1>5
  <2> QED  BY <1>2, <1>3, <1>5, <2>1, <2>2, Appended
<1> HIDE DEF best
<1>8. v \in [0 .. n -> Amounts] /\ v[n] = y.amount /\ \A k \in 0 .. n - 1 : v[k] = w[k]
  BY <1>2, <1>4, <1>5
<1> HIDE DEF v, n
<1>9. Straight(y.path, d)
  <2>1. CASE n = 1
    BY <1>6, <2>1 DEF Straight
  <2>2. CASE n # 1
    <3>1. /\ \A k \in 1 .. n - 1 : x.path[k] # x.path[n]
          /\ x.path[n] # d
      BY <2>2 DEF Ends, n
    <3>2. /\ \A j, k \in 1 .. n - 1 : x.path[j] = x.path[k] => j = k
          /\ \A k \in 2 .. n - 1 : x.path[k] # d
      BY <1>5 DEF Straight, n
    <3>3. ASSUME NEW j \in 1 .. n, NEW k \in 1 .. n, x.path[j] = x.path[k] PROVE j = k
      <4>1. (j \in 1 .. n - 1 \/ j = n) /\ (k \in 1 .. n - 1 \/ k = n)
        BY <1>2
      <4> QED  BY <3>1, <3>2, <3>3, <4>1
    <3>4. ASSUME NEW k \in 2 .. n PROVE x.path[k] # d
      <4>1. k \in 2 .. n - 1 \/ k = n
        BY <1>2
      <4> QED  BY <3>1, <3>2, <4>1
    <3>5. Len(y.path) - 1 = n /\ \A k \in 2 .. n : k \in 1 .. n
      BY <1>2, <1>6
    <3> QED  BY <1>6, <3>3, <3>4, <3>5 DEF Straight
  <2> QED  BY <2>1, <2>2
<1>10. ASSUME y.amount > 0, NEW k \in 1 .. n PROVE Step(y, v, k)
  <2>1. CASE k = n
    <3>1. matrix[at][i] \in Seq(Models) /\ quote \in [Models -> Quotes] /\ at # i
      BY <1>1, <1>2, EdgeIs DEF IInv, TypeOK
    <3>2. IsOf(best, matrix[at][i], indexes[at], x.amount)
      BY <1>2, <1>3, <1>10, <3>1, BestIs, Zenon DEF best
    <3>3. PICK j \in DOMAIN matrix[at][i] :
            best.model = matrix[at][i][j] /\ best.amount = Swap(matrix[at][i][j], indexes[at], x.amount)
      BY <3>2, Zenon DEF IsOf
    <3>4. best.model \in Added /\ Trades(best.model, indexes[at], indexes[i])
      <4>1. (\E l \in DOMAIN matrix[at][i] : matrix[at][i][l] = best.model)
              <=> best.model \in Added /\ Trades(best.model, indexes[at], indexes[i])
        BY <1>2, <3>1, EdgeIs
      <4> QED  BY <3>3, <4>1, Zenon
    <3>5. v[n - 1] = x.amount /\ v[n] = best.amount
      BY <1>2, <1>3, <1>5, <1>8
    <3>6. y.path[n] = at /\ y.path[n + 1] = i /\ y.models[n] = best.model
      BY <1>2, <1>6, <1>7
    <3> QED  BY <2>1, <3>1, <3>3, <3>4, <3>5, <3>6 DEF Step
  <2>2. CASE k # n
    <3>1. /\ k \in 1 .. n - 1 /\ k + 1 \in 1 .. n /\ k \in 1 .. n /\ k - 1 \in 0 .. n - 1
          /\ k \in 0 .. n - 1
      BY <1>2, <2>2
    <3>2. /\ y.path[k] = x.path[k] /\ y.path[k + 1] = x.path[k + 1] /\ y.models[k] = x.models[k]
          /\ v[k] = w[k] /\ v[k - 1] = w[k - 1]
      BY <1>6, <1>7, <1>8, <3>1
    <3>3. Step(x, w, k)
      BY <1>5, <3>1
    <3> QED  BY <3>2, <3>3, Zenon DEF Step
  <2> QED  BY <2>1, <2>2
<1>11. UsdcIs(y, v)
  <2> DEFINE before == {k \in DOMAIN x.path : x.path[k] = usdcIndex}
             visits == {k \in DOMAIN y.path : y.path[k] = usdcIndex}
  <2>1. CASE i = usdcIndex
    <3>1. n + 1 \in visits /\ \A l \in visits : l <= n + 1
      BY <1>2, <1>6, <2>1
    <3>2. y.usdc = v[(n + 1) - 1]
      BY <1>2, <1>3, <1>8, <2>1 DEF Priced
    <3> HIDE DEF visits
    <3>3. \E k \in visits : (\A l \in visits : l <= k) /\ y.usdc = v[k - 1]
      BY <3>1, <3>2
    <3> QED  BY <3>1, <3>3 DEF UsdcIs, visits
  <2>2. CASE i # usdcIndex
    <3>1. visits = before
      <4>1. DOMAIN y.path = DOMAIN x.path \cup {n + 1}
        BY <1>2, <1>6
      <4> QED  BY <1>6, <2>2, <4>1
    <3>2. y.usdc = x.usdc
      BY <1>3, <2>2 DEF Priced
    <3>3. \A k \in before : v[k - 1] = w[k - 1]
      <4>1. \A k \in before : k - 1 \in 0 .. n - 1
        BY <1>2, <1>6
      <4> QED  BY <1>8, <4>1
    <3>4. IF before = {} THEN x.usdc = 0
          ELSE \E k \in before : (\A l \in before : l <= k) /\ x.usdc = w[k - 1]
      BY <1>5, Zenon DEF UsdcIs
    <3> HIDE DEF before, visits
    <3>5. IF visits = {} THEN y.usdc = 0
          ELSE \E k \in visits : (\A l \in visits : l <= k) /\ y.usdc = v[k - 1]
      BY <3>1, <3>2, <3>3, <3>4
    <3> QED  BY <3>5 DEF UsdcIs, visits
  <2> QED  BY <2>1, <2>2
<1>12. y.path[1] = s /\ v[0] = a
  BY <1>2, <1>5, <1>6, <1>8
<1>13. Len(y.path) - 1 = n
  BY <1>2, <1>6
<1>14. Walked(y, v, s, a, d)
  BY <1>7, <1>8, <1>9, <1>10, <1>11, <1>12, <1>13 DEF Walked
<1> QED  BY <1>6, <1>14 DEF n

\* Every node of the tree is a walk.
LEMMA Walks ==
  ASSUME IInv, NEW s \in Indexes, NEW d \in Indexes, NEW a \in Amounts \ {0}
  PROVE  \A n \in 1 .. Depth : \A x \in Level(s, a, d)[n] :
           x \in Node /\ Len(x.path) = n /\ \E w : Walked(x, w, s, a, d)
<1> DEFINE lev == Level(s, a, d)
           Fine(n) == \A x \in lev[n] : Len(x.path) = n /\ \E w : Walked(x, w, s, a, d)
           T == {k \in 0 .. Depth - 1 : Fine(k + 1)}
<1>1. /\ lev[1] = {Root(s, a)}
      /\ \A n \in 2 .. Depth : lev[n] = Below(lev[n - 1], n = 2, d)
      /\ \A n \in 1 .. Depth : lev[n] \subseteq Node
  BY LevelIs
<1>2. Depth \in Nat /\ Depth - 1 \in Nat /\ a \in Amounts /\ a > 0
  BY DEF Amounts
<1> HIDE DEF lev
<1>3. 0 \in T
  <2> DEFINE root == Root(s, a)
             zero == [k \in 0 .. 0 |-> a]
  <2>0. Walked(root, zero, s, a, d) /\ Len(root.path) = 1
    BY <1>2, RootWalked, Zenon
  <2>1. Fine(1)
    <3>1. lev[1] = {root}
      BY <1>1
    <3> HIDE DEF root, zero
    <3> QED  BY <2>0, <3>1
  <2>2. 0 \in 0 .. Depth - 1 /\ 0 + 1 = 1
    BY <1>2
  <2> HIDE DEF Fine
  <2> QED  BY <2>1, <2>2
<1>4. ASSUME NEW k \in 1 .. Depth - 1, k - 1 \in T PROVE k \in T
  <2>1. /\ k \in 0 .. Depth - 1 /\ (k - 1) + 1 = k /\ k + 1 \in 2 .. Depth /\ (k + 1) - 1 = k
        /\ k \in 1 .. Depth /\ ((k + 1 = 2) <=> (k = 1)) /\ k \in Nat
    BY <1>2
  <2>2. Fine(k)
    <3> HIDE DEF Fine
    <3> QED  BY <1>4, <2>1
  <2>3. lev[k + 1] = Below(lev[k], k + 1 = 2, d)
    BY <1>1, <2>1
  <2>4. ASSUME NEW x \in lev[k + 1] PROVE Len(x.path) = k + 1 /\ \E w : Walked(x, w, s, a, d)
    <3>1. PICK p \in lev[k] : (k + 1 = 2 \/ ~Ends(p.path, p.amount, d)) /\ x \in Children(p)
      BY <2>3, <2>4, Zenon DEF Below
    <3>2. p \in Node /\ p.amount \in Amounts
      BY <1>1, <2>1 DEF Node
    <3>3. Len(p.path) = k
      BY <2>2
    <3>4. PICK w : Walked(p, w, s, a, d)
      BY <2>2
    <3>5. p.amount > 0
      <4>1. CASE k = 1
        <5>1. p.amount = a
          BY <1>1, <4>1 DEF Root
        <5> QED  BY <1>2, <5>1
      <4>2. CASE k # 1
        BY <2>1, <3>1, <3>2, <4>2 DEF Ends, Amounts
      <4> QED  BY <4>1, <4>2
    <3>6. Len(p.path) = 1 \/ ~Ends(p.path, p.amount, d)
      BY <2>1, <3>1, <3>3
    <3>7. Len(x.path) = Len(p.path) + 1 /\ \E v : Walked(x, v, s, a, d)
      BY <1>2, <3>1, <3>2, <3>4, <3>5, <3>6, ChildWalked, Zenon
    <3> QED  BY <3>3, <3>7
  <2>5. Fine(k + 1)
    BY <2>4
  <2> HIDE DEF Fine
  <2> QED  BY <2>1, <2>5
<1>5. \A k \in 0 .. Depth - 1 : k \in T
  <2> HIDE DEF T
  <2> QED  BY <1>2, <1>3, <1>4, Upward
<1>6. ASSUME NEW n \in 1 .. Depth PROVE Fine(n)
  <2>1. n - 1 \in 0 .. Depth - 1 /\ (n - 1) + 1 = n
    BY <1>2
  <2>2. Fine((n - 1) + 1)
    <3> HIDE DEF Fine
    <3> QED  BY <1>5, <2>1
  <2> HIDE DEF Fine
  <2> QED  BY <2>1, <2>2
<1> QED  BY <1>1, <1>6 DEF lev

-----------------------------------------------------------------------------
(* The reference: where a sequence of models leads, and what it is worth.  *)

\* What Route computes.
LEMMA RouteIs ==
  ASSUME NEW models \in Seq(Models), NEW src \in Tokens
  PROVE  /\ Route(models, src) \in [0 .. Len(models) -> Tokens \cup {"none"}]
         /\ Route(models, src)[0] = src
         /\ \A k \in 1 .. Len(models) :
              Route(models, src)[k] =
                IF Route(models, src)[k - 1] \in {Pair[models[k]][1], Pair[models[k]][2]}
                THEN Other(models[k], Route(models, src)[k - 1]) ELSE "none"
<1> DEFINE n == Len(models)
           S == Tokens \cup {"none"}
           To(k, t) == IF t \in {Pair[models[k]][1], Pair[models[k]][2]}
                       THEN Other(models[k], t) ELSE "none"
           Body(f, k) == IF k = 0 THEN src ELSE To(k, f[k-1])
           step == [k \in 1 .. n |-> [t \in S |-> To(k, t)]]
           state == CHOOSE f : f = [k \in 0 .. n |-> Body(f, k)]
<1>1. n \in Nat /\ \A k \in 1 .. n : models[k] \in Models
  OBVIOUS
<1>2. \A k \in 1 .. n, t \in S : To(k, t) \in S
  <2>1. \A k \in 1 .. n : Pair[models[k]][1] \in Tokens /\ Pair[models[k]][2] \in Tokens
    BY <1>1
  <2> QED  BY <2>1 DEF Other
<1> HIDE DEF To, S, n
<1>3. step \in [1 .. n -> [S -> S]]
  BY <1>2
<1>4. src \in S
  BY DEF S
<1>5. HasFunction(S, n, src, step)
  <2> HIDE DEF step
  <2> QED  BY <1>1, <1>3, <1>4, Recursion, Zenon
<1>6. PICK f \in [0 .. n -> S] : f[0] = src /\ \A k \in 1 .. n : f[k] = step[k][f[k - 1]]
  <2> HIDE DEF step
  <2> QED  BY <1>5, Zenon DEF HasFunction
<1>7. ASSUME NEW k \in 0 .. n PROVE f[k] = Body(f, k)
  <2>1. CASE k = 0
    BY <1>6, <2>1
  <2>2. CASE k # 0
    <3>1. k \in 1 .. n /\ k - 1 \in 0 .. n
      BY <2>2, <1>1
    <3>2. f[k - 1] \in S /\ f[k] = step[k][f[k - 1]]
      <4> HIDE DEF step
      <4> QED  BY <3>1, <1>6
    <3> QED  BY <2>2, <3>1, <3>2
  <2> QED  BY <2>1, <2>2
<1>8. f = [k \in 0 .. n |-> Body(f, k)]
  <2> HIDE DEF Body
  <2> QED  BY <1>7
<1>9. state = [k \in 0 .. n |-> Body(state, k)]
  <2> HIDE DEF Body
  <2> QED  BY <1>8, Zenon
<1>10. Route(models, src) = state
  BY Zenon DEF Route, To, n
<1> HIDE DEF state
<1>11. ASSUME NEW k \in 0 .. n PROVE state[k] = Body(state, k)
  <2> HIDE DEF Body
  <2> QED  BY <1>9
<1>12. state[0] = src
  BY <1>1, <1>11
<1>13. \A k \in 1 .. n : state[k] = To(k, state[k - 1])
  <2>1. \A k \in 1 .. n : k \in 0 .. n /\ k # 0
    OBVIOUS
  <2> QED  BY <1>11, <2>1
<1> DEFINE T == {k \in 0 .. n : state[k] \in S}
<1>14. \A k \in 0 .. n : k \in T
  <2>1. 0 \in T
    BY <1>1, <1>4, <1>12
  <2>2. ASSUME NEW k \in 1 .. n, k - 1 \in T PROVE k \in T
    <3>1. state[k - 1] \in S /\ k \in 0 .. n
      BY <2>2
    <3> QED  BY <1>2, <1>13, <3>1
  <2> HIDE DEF T
  <2> QED  BY <1>1, <2>1, <2>2, Upward
<1>15. state \in [0 .. n -> S]
  <2>1. \A k \in 0 .. n : state[k] \in S
    BY <1>14
  <2> HIDE DEF Body
  <2> QED  BY <1>9, <2>1
<1>16. \A k \in 1 .. n :
         state[k] = IF state[k - 1] \in {Pair[models[k]][1], Pair[models[k]][2]}
                    THEN Other(models[k], state[k - 1]) ELSE "none"
  BY <1>13 DEF To
<1> QED  BY <1>10, <1>12, <1>15, <1>16 DEF S, n

\* What Worth computes.
LEMMA WorthIs ==
  ASSUME quote \in [Models -> Quotes], NEW models \in Seq(Models), NEW src \in Tokens,
         NEW a \in Amounts
  PROVE  /\ Worth(models, src, a) \in [0 .. Len(models) -> Amounts]
         /\ Worth(models, src, a)[0] = a
         /\ \A k \in 1 .. Len(models) :
              Worth(models, src, a)[k] =
                Swap(models[k], Route(models, src)[k - 1], Worth(models, src, a)[k - 1])
<1> DEFINE n == Len(models)
           S == Amounts
           token == Route(models, src)
           To(k, v) == Swap(models[k], token[k - 1], v)
           Body(f, k) == IF k = 0 THEN a ELSE To(k, f[k-1])
           step == [k \in 1 .. n |-> [v \in S |-> To(k, v)]]
           worth == CHOOSE f : f = [k \in 0 .. n |-> Body(f, k)]
<1>1. n \in Nat /\ \A k \in 1 .. n : models[k] \in Models
  OBVIOUS
<1>2. \A k \in 1 .. n, v \in S : To(k, v) \in S
  BY <1>1, SwapTyped
<1> HIDE DEF To, S, n
<1>3. step \in [1 .. n -> [S -> S]]
  BY <1>2
<1>4. a \in S
  BY DEF S
<1>5. HasFunction(S, n, a, step)
  <2> HIDE DEF step
  <2> QED  BY <1>1, <1>3, <1>4, Recursion, Zenon
<1>6. PICK f \in [0 .. n -> S] : f[0] = a /\ \A k \in 1 .. n : f[k] = step[k][f[k - 1]]
  <2> HIDE DEF step
  <2> QED  BY <1>5, Zenon DEF HasFunction
<1>7. ASSUME NEW k \in 0 .. n PROVE f[k] = Body(f, k)
  <2>1. CASE k = 0
    BY <1>6, <2>1
  <2>2. CASE k # 0
    <3>1. k \in 1 .. n /\ k - 1 \in 0 .. n
      BY <2>2, <1>1
    <3>2. f[k - 1] \in S /\ f[k] = step[k][f[k - 1]]
      <4> HIDE DEF step
      <4> QED  BY <3>1, <1>6
    <3> QED  BY <2>2, <3>1, <3>2
  <2> QED  BY <2>1, <2>2
<1>8. f = [k \in 0 .. n |-> Body(f, k)]
  <2> HIDE DEF Body
  <2> QED  BY <1>7
<1>9. worth = [k \in 0 .. n |-> Body(worth, k)]
  <2> HIDE DEF Body
  <2> QED  BY <1>8, Zenon
<1>10. Worth(models, src, a) = worth
  BY Zenon DEF Worth, To, n
<1> HIDE DEF worth
<1>11. ASSUME NEW k \in 0 .. n PROVE worth[k] = Body(worth, k)
  <2> HIDE DEF Body
  <2> QED  BY <1>9
<1>12. worth[0] = a
  BY <1>1, <1>11
<1>13. \A k \in 1 .. n : worth[k] = To(k, worth[k - 1])
  <2>1. \A k \in 1 .. n : k \in 0 .. n /\ k # 0
    OBVIOUS
  <2> QED  BY <1>11, <2>1
<1> DEFINE T == {k \in 0 .. n : worth[k] \in S}
<1>14. \A k \in 0 .. n : k \in T
  <2>1. 0 \in T
    BY <1>1, <1>4, <1>12
  <2>2. ASSUME NEW k \in 1 .. n, k - 1 \in T PROVE k \in T
    <3>1. worth[k - 1] \in S /\ k \in 0 .. n
      BY <2>2
    <3> QED  BY <1>2, <1>13, <3>1
  <2> HIDE DEF T
  <2> QED  BY <1>1, <2>1, <2>2, Upward
<1>15. worth \in [0 .. n -> S]
  <2>1. \A k \in 0 .. n : worth[k] \in S
    BY <1>14
  <2> HIDE DEF Body
  <2> QED  BY <1>9, <2>1
<1>16. \A k \in 1 .. n : worth[k] = Swap(models[k], Route(models, src)[k - 1], worth[k - 1])
  BY <1>13 DEF To
<1> QED  BY <1>10, <1>12, <1>15, <1>16 DEF S, n

\* Two tokens are different when their indexes are.
LEMMA IndexesDiffer ==
  ASSUME IInv, NEW i \in Indexes, NEW j \in Indexes
  PROVE  indexes[i] \in Tokens /\ (indexes[i] = indexes[j] <=> i = j)
<1>1. indexes \in Seq(Tokens)
  BY DEF IInv, TypeOK
<1>2. i \in DOMAIN indexes /\ j \in DOMAIN indexes
  BY DEF Indexes
<1>3. indexes[i] = indexes[j] => i = j
  BY <1>2, Zenon DEF IInv, MatrixHolds
<1> QED  BY ONLY <1>1, <1>2, <1>3

\* A model that trades two tokens turns the one into the other.
LEMMA TradesTurns ==
  ASSUME NEW m \in Models, NEW t, NEW u, t # u, Trades(m, t, u)
  PROVE  t \in {Pair[m][1], Pair[m][2]} /\ Other(m, t) = u /\ Other(m, u) = t
BY DEF Trades, Other

\* x is a route from src to dst, priced as it will be.
Carries(x, src, dst, a) ==
  /\ x.models \in Routes(src, dst)
  /\ \A k \in DOMAIN x.path : indexes[x.path[k]] = Route(x.models, src)[k-1]
  /\ Worth(x.models, src, a)[Len(x.models)] = x.amount
  /\ Has(indexes, USDC) =>
       LET token == Route(x.models, src)
           worth == Worth(x.models, src, a)
           visits == {k \in DOMAIN token : token[k] = USDC}
       IN IF visits = {} THEN x.usdc = 0
          ELSE \E k \in visits : (\A l \in visits : l <= k) /\ x.usdc = worth[k]

\* A walk that arrived and is worth something can be carried out.
LEMMA WalkCarries ==
  ASSUME IInv, NEW s \in Indexes, NEW d \in Indexes, NEW a \in Amounts,
         NEW x \in Node, NEW w, Walked(x, w, s, a, d), x.amount > 0,
         Last(x.path) = d, Len(x.path) \in 2 .. Depth
  PROVE  Carries(x, indexes[s], indexes[d], a)
<1> DEFINE n == Len(x.models)
           src == indexes[s]
           dst == indexes[d]
           token == Route(x.models, src)
           worth == Worth(x.models, src, a)
<1>1. /\ x.path \in Seq(Indexes) /\ DOMAIN x.path = 1 .. n + 1 /\ Len(x.path) = n + 1
      /\ n \in 1 .. Depth - 1 /\ n \in Nat
      /\ x.path[1] = s /\ x.path[n + 1] = d
      /\ w \in [0 .. n -> Amounts] /\ w[0] = a /\ w[n] = x.amount
  BY DEF Node, Walked, Last
<1>2. /\ \A j, k \in 1 .. n : x.path[j] = x.path[k] => j = k
      /\ \A k \in 2 .. n : x.path[k] # d
  BY <1>1 DEF Walked, Straight
<1>3. \A k \in 1 .. n : Step(x, w, k)
  BY <1>1 DEF Walked
<1>4. x.models \in Seq(Models) /\ x.models \in [1 .. n -> Added]
  <2>1. Added \subseteq Models
    BY DEF Added, IInv, TypeOK
  <2>2. x.models \in Seq(Models \cup {"nil"})
    BY DEF Node
  <2>3. x.models \in [1 .. n -> Models \cup {"nil"}]
    BY <2>2
  <2>4. \A k \in 1 .. n : x.models[k] \in Added
    BY <1>3 DEF Step
  <2>5. x.models \in [1 .. n -> Models]
    <3>1. \A k \in 1 .. n : x.models[k] \in Models
      BY <2>1, <2>4
    <3> HIDE DEF n
    <3> QED  BY <2>3, <3>1
  <2>6. x.models \in Seq(Models)
    <3>1. n \in Nat
      BY <1>1
    <3> HIDE DEF n
    <3> QED  BY ONLY <2>5, <3>1, SeqDef
  <2>7. x.models \in [1 .. n -> Added]
    <3> HIDE DEF n
    <3> QED  BY <2>3, <2>4
  <2> QED  BY <2>6, <2>7
<1>5. \A k \in 1 .. n + 1 : x.path[k] \in Indexes
  BY <1>1
<1>6. src \in Tokens /\ dst \in Tokens
  BY IndexesDiffer
<1>7. /\ token \in [0 .. n -> Tokens \cup {"none"}] /\ token[0] = src
      /\ \A k \in 1 .. n :
           token[k] = IF token[k - 1] \in {Pair[x.models[k]][1], Pair[x.models[k]][2]}
                      THEN Other(x.models[k], token[k - 1]) ELSE "none"
  <2> HIDE DEF src
  <2> QED  BY <1>4, <1>6, RouteIs
<1>8. /\ worth \in [0 .. n -> Amounts] /\ worth[0] = a
      /\ \A k \in 1 .. n : worth[k] = Swap(x.models[k], token[k - 1], worth[k - 1])
  <2>1. quote \in [Models -> Quotes]
    BY DEF IInv, TypeOK
  <2> HIDE DEF src
  <2> QED  BY <1>4, <1>6, <2>1, WorthIs
<1> HIDE DEF token, worth, n, src, dst
<1> DEFINE T == {k \in 0 .. n : token[k] = indexes[x.path[k + 1]] /\ worth[k] = w[k]}
<1>9. 0 \in T
  BY <1>1, <1>7, <1>8 DEF src
<1>10. ASSUME NEW k \in 1 .. n, k - 1 \in T PROVE k \in T
  <2>1. /\ k \in 0 .. n /\ (k - 1) + 1 = k /\ k \in 1 .. n + 1 /\ k + 1 \in 1 .. n + 1
    BY <1>1
  <2>2. token[k - 1] = indexes[x.path[k]] /\ worth[k - 1] = w[k - 1]
    BY <1>10, <2>1
  <2>3. /\ x.models[k] \in Models
        /\ Trades(x.models[k], indexes[x.path[k]], indexes[x.path[k + 1]])
        /\ x.path[k] # x.path[k + 1]
        /\ w[k] = Swap(x.models[k], indexes[x.path[k]], w[k - 1])
    <3>1. x.models[k] \in Added /\ Step(x, w, k)
      BY <1>3, <1>4
    <3>2. Added \subseteq Models
      BY DEF Added, IInv, TypeOK
    <3> QED  BY <3>1, <3>2 DEF Step
  <2>4. indexes[x.path[k]] # indexes[x.path[k + 1]]
    BY <1>5, <2>1, <2>3, IndexesDiffer
  <2>5. /\ indexes[x.path[k]] \in {Pair[x.models[k]][1], Pair[x.models[k]][2]}
        /\ Other(x.models[k], indexes[x.path[k]]) = indexes[x.path[k + 1]]
    BY <2>3, <2>4, TradesTurns
  <2>6. token[k] = indexes[x.path[k + 1]]
    BY <1>7, <2>2, <2>5
  <2>7. worth[k] = w[k]
    BY <1>8, <2>2, <2>3
  <2> QED  BY <2>1, <2>6, <2>7
<1>11. \A k \in 0 .. n : k \in T
  <2> HIDE DEF T
  <2> QED  BY <1>1, <1>9, <1>10, Upward
<1>12. \A k \in 0 .. n : token[k] = indexes[x.path[k + 1]] /\ worth[k] = w[k]
  BY <1>11
<1>13. \A k \in 0 .. n : k + 1 \in 1 .. n + 1 /\ x.path[k + 1] \in Indexes
  BY <1>1, <1>5
<1>14. x.models \in Routes(src, dst)
  <2>1. token[n] = dst
    BY <1>1, <1>12 DEF dst
  <2>2. ASSUME NEW j \in 1 .. n, NEW k \in 1 .. n, j < k PROVE token[j] # token[k]
    <3>1. j \in 0 .. n /\ k \in 0 .. n /\ j + 1 \in 2 .. n /\ j + 1 \in 1 .. n /\ j + 1 # k + 1
      BY <1>1, <2>2
    <3>2. x.path[j + 1] # x.path[k + 1]
      <4>1. CASE k = n
        BY <1>1, <1>2, <3>1, <4>1
      <4>2. CASE k # n
        <5>1. k + 1 \in 1 .. n
          BY <1>1, <4>2
        <5> QED  BY <1>2, <3>1, <5>1
      <4> QED  BY <4>1, <4>2
    <3> QED  BY <1>12, <1>13, <3>1, <3>2, IndexesDiffer
  <2>3. ASSUME NEW k \in 1 .. n - 1 PROVE token[k] \notin {"none", src, dst}
    <3>1. k \in 0 .. n /\ k + 1 \in 2 .. n /\ k + 1 \in 1 .. n /\ 1 \in 1 .. n /\ k + 1 # 1
      BY <1>1
    <3>2. x.path[k + 1] # s /\ x.path[k + 1] # d
      BY <1>1, <1>2, <3>1
    <3>3. token[k] = indexes[x.path[k + 1]] /\ x.path[k + 1] \in Indexes
      BY <1>12, <1>13, <3>1
    <3> QED  BY <3>2, <3>3, IndexesDiffer DEF src, dst
  <2>4. n \in 1 .. Depth - 1 /\ Len(x.models) = n
    BY <1>1 DEF n
  <2>5. x.models \in UNION {[1..i -> Added] : i \in 1 .. Depth - 1}
    BY <1>4, <2>4
  <2> QED  BY <2>1, <2>2, <2>3, <2>4, <2>5 DEF Routes, Added, token
<1>15. ASSUME NEW k \in DOMAIN x.path PROVE indexes[x.path[k]] = token[k - 1]
  <2>1. k - 1 \in 0 .. n /\ (k - 1) + 1 = k
    BY <1>1
  <2> QED  BY <1>12, <2>1
<1>16. worth[n] = x.amount
  BY <1>1, <1>12
<1>17. ASSUME Has(indexes, USDC)
       PROVE  LET visits == {k \in DOMAIN token : token[k] = USDC}
              IN IF visits = {} THEN x.usdc = 0
                 ELSE \E k \in visits : (\A l \in visits : l <= k) /\ x.usdc = worth[k]
  <2> DEFINE visits == {k \in DOMAIN token : token[k] = USDC}
             met == {k \in DOMAIN x.path : x.path[k] = usdcIndex}
  <2>1. usdcIndex \in Indexes /\ indexes[usdcIndex] = USDC
    <3>1. indexes[usdcIndex] = USDC
      BY <1>17 DEF IInv, MatrixHolds
    <3>2. usdcIndex \in Indexes
      BY <1>17 DEF IInv, MatrixHolds, Indexes
    <3> QED  BY <3>1, <3>2
  <2>2. \A k \in 0 .. n : token[k] = USDC <=> x.path[k + 1] = usdcIndex
    BY <1>12, <1>13, <2>1, IndexesDiffer
  <2>3. DOMAIN token = 0 .. n /\ DOMAIN x.path = 1 .. n + 1
    BY <1>1, <1>7
  <2>4. \A k : k \in visits <=> k \in 0 .. n /\ k + 1 \in met
    BY <1>13, <2>2, <2>3
  <2>5. \A k \in met : k - 1 \in 0 .. n /\ (k - 1) + 1 = k /\ k \in Nat
    BY <1>1, <2>3
  <2>6. IF met = {} THEN x.usdc = 0
        ELSE \E k \in met : (\A l \in met : l <= k) /\ x.usdc = w[k - 1]
    BY Zenon DEF Walked, UsdcIs
  <2> HIDE DEF met, visits
  <2>7. \A k \in met : k - 1 \in visits
    BY <2>4, <2>5
  <2>8. CASE met = {}
    BY <2>4, <2>6, <2>8 DEF visits
  <2>9. CASE met # {}
    <3>1. PICK k \in met : (\A l \in met : l <= k) /\ x.usdc = w[k - 1]
      BY <2>6, <2>9
    <3>2. ASSUME NEW l \in visits PROVE l <= k - 1
      <4>1. l + 1 \in met /\ l \in Nat
        BY <2>4
      <4>2. l + 1 <= k /\ k \in Nat
        BY <2>5, <3>1, <4>1
      <4> QED  BY <4>1, <4>2
    <3>3. x.usdc = worth[k - 1]
      BY <1>12, <2>5, <3>1
    <3>4. k - 1 \in visits
      BY <2>7
    <3> QED  BY <3>2, <3>3, <3>4 DEF visits
  <2> QED  BY <2>8, <2>9
<1> QED  BY <1>14, <1>15, <1>16, <1>17 DEF Carries, token, worth, n, src, dst

-----------------------------------------------------------------------------
(* What Search chooses.                                                    *)

\* Among paths of bounded length there is one that no other is met before.
LEMMA FirstPath ==
  ASSUME NEW P, P # {}, NEW D \in Nat, \A p \in P : p \in Seq(Nat) /\ Len(p) <= D
  PROVE  \E p \in P : \A q \in P : ~Before(q, p)
<1> DEFINE pad(p) == [k \in 1 .. D |-> IF k \in DOMAIN p THEN p[k] ELSE 0]
           R == OpToRel(<, Nat)
           pads == {pad(p) : p \in P}
<1>1. \A p \in P : DOMAIN p = 1 .. Len(p) /\ Len(p) \in 0 .. D /\ \A k \in DOMAIN p : p[k] \in Nat
  <2> SUFFICES ASSUME NEW p \in P
               PROVE  DOMAIN p = 1 .. Len(p) /\ Len(p) \in 0 .. D /\ \A k \in DOMAIN p : p[k] \in Nat
    OBVIOUS
  <2>1. p \in Seq(Nat) /\ Len(p) <= D
    OBVIOUS
  <2> QED  BY <2>1
<1>2. pads \subseteq [1 .. D -> Nat] /\ pads # {}
  <2>1. ASSUME NEW p \in P PROVE pad(p) \in [1 .. D -> Nat]
    <3>1. \A k \in 1 .. D : (IF k \in DOMAIN p THEN p[k] ELSE 0) \in Nat
      <4> HIDE DEF R
      <4> QED  BY <1>1
    <3> HIDE DEF R
    <3> QED  BY <3>1
  <2> HIDE DEF pad, R
  <2> QED  BY <2>1
<1>3. IsWellFoundedOn(LexProductOrdering(R, Nat, D), [1 .. D -> Nat])
  BY NatLessThanWellFounded, WFLexProductOrdering
<1>4. PICK u \in pads : \A v \in pads : <<v, u>> \notin LexProductOrdering(R, Nat, D)
  <2> HIDE DEF pads, R
  <2> QED  BY <1>2, <1>3, WFMin
<1>5. PICK p \in P : u = pad(p)
  OBVIOUS
<1>6. ASSUME NEW q \in P, Before(q, p) PROVE FALSE
  <2>1. PICK k \in DOMAIN q : k \in DOMAIN p /\ q[k] < p[k] /\ \A l \in 1 .. k-1 : q[l] = p[l]
    BY <1>6 DEF Before
  <2>2. /\ k \in 1 .. D /\ k \in Nat /\ q[k] \in Nat /\ p[k] \in Nat
        /\ \A l \in 1 .. k - 1 : l \in DOMAIN q /\ l \in DOMAIN p /\ l \in 1 .. D
    <3>1. /\ DOMAIN q = 1 .. Len(q) /\ Len(q) \in 0 .. D /\ DOMAIN p = 1 .. Len(p)
          /\ \A i \in DOMAIN q : q[i] \in Nat
          /\ \A i \in DOMAIN p : p[i] \in Nat
      BY <1>1
    <3>2. k \in 1 .. Len(q) /\ k \in 1 .. Len(p) /\ Len(q) \in Nat /\ Len(p) \in Nat
      BY <1>1, <2>1, <3>1
    <3> QED  BY <2>1, <3>1, <3>2
  <2>3. pad(q)[k] = q[k] /\ pad(p)[k] = p[k] /\ \A l \in 1 .. k - 1 : pad(q)[l] = pad(p)[l]
    BY <2>1, <2>2
  <2>4. <<pad(q)[k], pad(p)[k]>> \in R
    <3>1. <<q[k], p[k]>> \in R
      BY <2>1, <2>2, Zenon DEF OpToRel
    <3> QED  BY <2>3, <3>1
  <2>5. pad(q) \in pads /\ pad(p) \in pads
    OBVIOUS
  <2>6. pad(q) \in [1 .. D -> Nat] /\ pad(p) \in [1 .. D -> Nat]
    BY <1>2, <2>5
  <2> HIDE DEF pad, R, pads
  <2>7. <<pad(q), pad(p)>> \in LexProductOrdering(R, Nat, D)
    BY <2>2, <2>3, <2>4, <2>6 DEF LexProductOrdering
  <2> QED  BY <1>4, <1>5, <2>5, <2>7
<1> QED  BY <1>6

\* A sequence over a set is one over a larger set.
LEMMA WiderSeq ==
  ASSUME NEW S, NEW T, S \subseteq T, NEW q \in Seq(S)
  PROVE  q \in Seq(T)
<1>1. Len(q) \in Nat /\ q \in [1 .. Len(q) -> S]
  OBVIOUS
<1>2. q \in [1 .. Len(q) -> T]
  BY <1>1
<1> QED  BY ONLY <1>1, <1>2, SeqDef

\* Where a token is.
LEMMA AtIs ==
  ASSUME NEW idx, NEW t, Has(idx, t)
  PROVE  At(idx, t) \in DOMAIN idx /\ idx[At(idx, t)] = t
<1>1. \E i \in DOMAIN idx : idx[i] = t
  BY Zenon DEF Has
<1> DEFINE i == CHOOSE i \in DOMAIN idx : idx[i] = t
<1>2. i \in DOMAIN idx /\ idx[i] = t
  BY <1>1
<1>3. At(idx, t) = i
  BY Zenon DEF At
<1> HIDE DEF i
<1> QED  BY <1>2, <1>3

\* The nodes among which Search chooses.
LEMMA ArrivedAre ==
  ASSUME IInv, NEW s \in Indexes, NEW d \in Indexes, NEW a \in Amounts \ {0},
         NEW x \in Arrived(s, a, d)
  PROVE  /\ x \in Node /\ Len(x.path) \in 2 .. Depth
         /\ Carries(x, indexes[s], indexes[d], a)
<1>1. PICK n \in 2 .. Depth : x \in Level(s, a, d)[n] /\ Last(x.path) = d /\ x.amount > 0
  BY Zenon DEF Arrived, Last
<1>2. n \in 1 .. Depth /\ a \in Amounts
  OBVIOUS
<1>3. x \in Node /\ Len(x.path) = n /\ \E w : Walked(x, w, s, a, d)
  <2>1. \A m \in 1 .. Depth : \A y \in Level(s, a, d)[m] :
          y \in Node /\ Len(y.path) = m /\ \E w : Walked(y, w, s, a, d)
    BY Walks
  <2> QED  BY ONLY <1>1, <1>2, <2>1, Zenon
<1>4. PICK w : Walked(x, w, s, a, d)
  BY <1>3
<1>5. Len(x.path) \in 2 .. Depth
  BY <1>3
<1>6. Carries(x, indexes[s], indexes[d], a)
  BY <1>1, <1>2, <1>3, <1>4, <1>5, WalkCarries, Zenon
<1> QED  BY <1>3, <1>5, <1>6

\* x is one of the nodes that arrived, and none is worth more.
Chosen(x, arrived) == x \in arrived /\ \A y \in arrived : y.amount <= x.amount

\* Search finds a node worth the most, if one arrived.
LEMMA Found ==
  ASSUME IInv, NEW src, NEW dst, Has(indexes, src), Has(indexes, dst), NEW a \in Amounts \ {0}
  PROVE  IF Arrived(At(indexes, src), a, At(indexes, dst)) = {}
         THEN Search(src, a, dst) = NoResult
         ELSE Chosen(Search(src, a, dst), Arrived(At(indexes, src), a, At(indexes, dst)))
<1> DEFINE s == At(indexes, src)
           d == At(indexes, dst)
           arrived == Arrived(s, a, d)
           First(x) == \A y \in arrived : y.amount < x.amount
                         \/ (y.amount = x.amount /\ ~Before(y.path, x.path))
           found == CHOOSE x \in arrived : First(x)
<1>1. s \in Indexes /\ d \in Indexes
  BY AtIs DEF Indexes
<1>2. ASSUME NEW x \in arrived
      PROVE  /\ x.amount \in Nat /\ x.amount <= MaxAmount
             /\ x.path \in Seq(Nat) /\ Len(x.path) <= Depth
  <2>1. x \in Node /\ Len(x.path) \in 2 .. Depth
    <3> HIDE DEF s, d
    <3> QED  BY <1>1, ArrivedAre, Zenon DEF arrived
  <2>2. x.path \in Seq(Indexes) /\ x.amount \in Amounts
    BY <2>1 DEF Node
  <2>3. Indexes \subseteq Nat
    BY DEF Indexes, IInv, TypeOK
  <2>4. x.path \in Seq(Nat)
    BY <2>2, <2>3, WiderSeq
  <2>5. x.amount \in Nat /\ x.amount <= MaxAmount
    BY ONLY <2>2, PathAssumption DEF Amounts
  <2>6. Len(x.path) <= Depth
    BY ONLY <2>1, PathAssumption
  <2> QED  BY <2>4, <2>5, <2>6
<1>3. CASE arrived = {}
  BY <1>3 DEF Search
<1>4. CASE arrived # {}
  <2> DEFINE worths == {x.amount : x \in arrived}
  <2> HIDE DEF arrived
  <2>1. \E w \in worths : \A v \in worths : v <= w
    <3>1. worths \subseteq Nat /\ worths # {} /\ MaxAmount \in Nat /\ \A v \in worths : v <= MaxAmount
      BY <1>2, <1>4
    <3> HIDE DEF worths
    <3> QED  BY <3>1, GreatestNumber
  <2>2. PICK b \in arrived : \A y \in arrived : y.amount <= b.amount
    BY <2>1
  <2> DEFINE bests == {x \in arrived : x.amount = b.amount}
             paths == {x.path : x \in bests}
  <2>3. \E p \in paths : \A q \in paths : ~Before(q, p)
    <3>1. paths # {} /\ Depth \in Nat /\ \A p \in paths : p \in Seq(Nat) /\ Len(p) <= Depth
      BY <1>2, <2>2
    <3> HIDE DEF paths
    <3> QED  BY <3>1, FirstPath
  <2>4. PICK x \in bests : \A y \in bests : ~Before(y.path, x.path)
    BY <2>3
  <2>5. ASSUME NEW y \in arrived
        PROVE  y.amount < x.amount \/ (y.amount = x.amount /\ ~Before(y.path, x.path))
    <3>1. x.amount = b.amount /\ y.amount <= b.amount /\ y.amount \in Nat /\ b.amount \in Nat
      BY <1>2, <2>2, <2>4
    <3>2. y.amount = b.amount => ~Before(y.path, x.path)
      BY <2>4
    <3> QED  BY <3>1, <3>2
  <2>6. found \in arrived /\ First(found)
    <3>1. \E z \in arrived : First(z)
      BY <2>4, <2>5
    <3> HIDE DEF First
    <3> QED  BY <3>1
  <2>7. Search(src, a, dst) = found
    BY <1>4, Zenon DEF Search, arrived
  <2> HIDE DEF found
  <2>8. \A y \in arrived : y.amount <= found.amount
    BY <1>2, <2>6
  <2> QED  BY <1>4, <2>6, <2>7, <2>8 DEF Chosen, arrived
<1> QED  BY <1>3, <1>4

-----------------------------------------------------------------------------
(* What the search promises.                                               *)

\* NoResult is not a node.
LEMMA FoundCarries ==
  ASSUME IInv, NEW src \in Tokens, NEW dst \in Tokens, NEW a \in Amounts \ {0},
         Searched(src, dst), Search(src, a, dst) # NoResult
  PROVE  Search(src, a, dst) \in Node /\ Carries(Search(src, a, dst), src, dst, a)
<1> DEFINE s == At(indexes, src)
           d == At(indexes, dst)
           x == Search(src, a, dst)
<1>1. Has(indexes, src) /\ Has(indexes, dst)
  BY DEF Searched
<1>2. s \in Indexes /\ d \in Indexes /\ indexes[s] = src /\ indexes[d] = dst
  BY <1>1, AtIs DEF Indexes
<1>3. x \in Arrived(s, a, d)
  <2>1. IF Arrived(s, a, d) = {} THEN x = NoResult ELSE Chosen(x, Arrived(s, a, d))
    BY <1>1, Found, Zenon
  <2> HIDE DEF x, s, d
  <2> QED  BY <2>1 DEF Chosen, x
<1> HIDE DEF x, s, d
<1>4. x \in Node /\ Carries(x, indexes[s], indexes[d], a)
  BY <1>2, <1>3, ArrivedAre, Zenon
<1> QED  BY <1>2, <1>4 DEF x

\* The invariant gives what PathSound says.
LEMMA InvariantCarries ==
  ASSUME IInv
  PROVE  PathSound
<1>1. ASSUME NEW src \in Tokens, NEW dst \in Tokens, NEW amount \in Amounts \ {0},
             Searched(src, dst), Search(src, amount, dst) # NoResult
      PROVE  Carries(Search(src, amount, dst), src, dst, amount)
  BY <1>1, FoundCarries, Zenon
<1>2. CarriedOut
  <2> SUFFICES ASSUME NEW src \in Tokens, NEW dst \in Tokens, NEW amount \in Amounts \ {0},
                      Searched(src, dst), Search(src, amount, dst) # NoResult
               PROVE  LET found == Search(src, amount, dst)
                      IN /\ found.models \in Routes(src, dst)
                         /\ \A k \in DOMAIN found.path :
                              indexes[found.path[k]] = Route(found.models, src)[k-1]
                         /\ Worth(found.models, src, amount)[Len(found.models)] = found.amount
    BY Zenon DEF CarriedOut
  <2> QED  BY <1>1, ZenonT(30) DEF Carries
<1>3. UsdcOnPath
  <2> SUFFICES ASSUME Has(indexes, USDC),
                      NEW src \in Tokens, NEW dst \in Tokens, NEW amount \in Amounts \ {0},
                      Searched(src, dst), Search(src, amount, dst) # NoResult
               PROVE  LET found == Search(src, amount, dst)
                          token == Route(found.models, src)
                          worth == Worth(found.models, src, amount)
                          visits == {k \in DOMAIN token : token[k] = USDC}
                      IN IF visits = {} THEN found.usdc = 0
                         ELSE \E k \in visits : (\A l \in visits : l <= k) /\ found.usdc = worth[k]
    BY Zenon DEF UsdcOnPath
  <2> QED  BY <1>1, Zenon DEF Carries
<1> QED  BY <1>2, <1>3 DEF PathSound

-----------------------------------------------------------------------------
(* AddItem keeps the invariant.                                            *)

Distinct(idx) == \A i, j \in DOMAIN idx : idx[i] = idx[j] => i = j

\* new has what old has where old has it.
Extends(new, old) == \A i \in DOMAIN old : i \in DOMAIN new /\ new[i] = old[i]

\* A token is entered once, behind those that are there.
LEMMA WithTokenIs ==
  ASSUME NEW idx \in Seq(Tokens), NEW t \in Tokens, Distinct(idx)
  PROVE  /\ WithToken(idx, t) \in Seq(Tokens) /\ Distinct(WithToken(idx, t))
         /\ Extends(WithToken(idx, t), idx) /\ Has(WithToken(idx, t), t)
<1>1. CASE Has(idx, t)
  <2>1. WithToken(idx, t) = idx
    BY <1>1 DEF WithToken
  <2> QED  BY <1>1, <2>1 DEF Extends
<1>2. CASE ~Has(idx, t)
  <2> DEFINE new == Append(idx, t)
             n == Len(idx)
  <2>1. WithToken(idx, t) = new
    BY <1>2 DEF WithToken
  <2>2. /\ new \in Seq(Tokens) /\ DOMAIN new = 1 .. n + 1 /\ DOMAIN idx = 1 .. n /\ n \in Nat
        /\ new[n + 1] = t /\ \A i \in 1 .. n : new[i] = idx[i]
    BY Appended
  <2> HIDE DEF new, n
  <2>3. Extends(new, idx)
    BY <2>2 DEF Extends
  <2>4. Has(new, t)
    <3>1. n + 1 \in DOMAIN new
      BY <2>2
    <3> QED  BY <2>2, <3>1 DEF Has
  <2>5. Distinct(new)
    <3> SUFFICES ASSUME NEW i \in DOMAIN new, NEW j \in DOMAIN new, new[i] = new[j] PROVE i = j
      BY DEF Distinct
    <3>1. (i \in 1 .. n \/ i = n + 1) /\ (j \in 1 .. n \/ j = n + 1)
      BY <2>2
    <3>2. \A k \in 1 .. n : idx[k] # t
      BY <1>2, <2>2 DEF Has
    <3>3. \A k, l \in 1 .. n : idx[k] = idx[l] => k = l
      BY <2>2 DEF Distinct
    <3> QED  BY <2>2, <3>1, <3>2, <3>3
  <2> QED  BY <2>1, <2>2, <2>3, <2>4, <2>5
<1> QED  BY <1>1, <1>2

\* The tokens of a model after it was added.
LEMMA TokensEntered ==
  ASSUME IInv, NEW m \in Models, AddItem(m)
  PROVE  /\ indexes' \in Seq(Tokens) /\ Distinct(indexes') /\ Extends(indexes', indexes)
         /\ Has(indexes', Pair[m][1]) /\ Has(indexes', Pair[m][2])
         /\ indexes' = WithToken(WithToken(indexes, Pair[m][1]), Pair[m][2])
<1> DEFINE mid == WithToken(indexes, Pair[m][1])
           new == WithToken(mid, Pair[m][2])
<1>1. Pair[m][1] \in Tokens /\ Pair[m][2] \in Tokens
  OBVIOUS
<1>2. indexes \in Seq(Tokens) /\ Distinct(indexes)
  BY DEF IInv, TypeOK, MatrixHolds, Distinct
<1>3. mid \in Seq(Tokens) /\ Distinct(mid) /\ Extends(mid, indexes) /\ Has(mid, Pair[m][1])
  BY <1>1, <1>2, WithTokenIs, Zenon
<1> HIDE DEF mid
<1>4. new \in Seq(Tokens) /\ Distinct(new) /\ Extends(new, mid) /\ Has(new, Pair[m][2])
  BY <1>1, <1>3, WithTokenIs, Zenon
<1>5. indexes' = new
  BY Zenon DEF AddItem, new, mid
<1> HIDE DEF new
<1>6. Extends(new, indexes) /\ Has(new, Pair[m][1])
  BY <1>3, <1>4 DEF Extends, Has
<1> QED  BY <1>4, <1>5, <1>6 DEF new, mid

\* h is mx with e for an entry.
Replaced(h, mx, I, S, i, j, e) ==
  /\ h \in [I -> [I -> S]]
  /\ \A k, l \in I : h[k][l] = IF k = i /\ l = j THEN e ELSE mx[k][l]

\* One entry of a matrix is replaced.
LEMMA ReplacedIs ==
  ASSUME NEW I, NEW S, NEW mx \in [I -> [I -> S]], NEW i \in I, NEW j \in I, NEW e \in S
  PROVE  Replaced([mx EXCEPT ![i][j] = e], mx, I, S, i, j, e)
BY DEF Replaced

\* h is mx with m between two tokens.
EnteredIs(h, mx, I, i, j, m) ==
  /\ h \in [I -> [I -> Seq(Models)]]
  /\ \A k, l \in I : h[k][l] = IF {k, l} = {i, j} THEN Append(mx[k][l], m) ELSE mx[k][l]

\* A model between two tokens, and nothing between other ones, is what AddItem adds.
LEMMA EnteredTyped ==
  ASSUME NEW I, NEW mx \in [I -> [I -> Seq(Models)]], NEW i \in I, NEW j \in I, i # j,
         NEW m \in Models
  PROVE  EnteredIs(Entered(mx, i, j, m), mx, I, i, j, m)
<1> DEFINE S == Seq(Models)
           e == Append(mx[i][j], m)
           one == [mx EXCEPT ![i][j] = e]
           h == Append(mx[j][i], m)
           two == [one EXCEPT ![j][i] = h]
<1>1. e \in S /\ h \in S
  <2>1. mx[i][j] \in S /\ mx[j][i] \in S
    OBVIOUS
  <2> QED  BY <2>1, Appended
<1>2. /\ one \in [I -> [I -> S]]
      /\ \A k, l \in I : one[k][l] = IF k = i /\ l = j THEN e ELSE mx[k][l]
  <2>1. mx \in [I -> [I -> S]]
    OBVIOUS
  <2>2. Replaced(one, mx, I, S, i, j, e)
    <3> HIDE DEF e, S
    <3> QED  BY <1>1, <2>1, ReplacedIs
  <2> HIDE DEF one, e, S
  <2> QED  BY <2>2, Zenon DEF Replaced
<1>3. one[j][i] = mx[j][i]
  BY <1>2
<1>4. Entered(mx, i, j, m) = two
  BY <1>3 DEF Entered
<1> HIDE DEF one, e, h, S
<1>5. /\ two \in [I -> [I -> S]]
      /\ \A k, l \in I : two[k][l] = IF k = j /\ l = i THEN h ELSE one[k][l]
  <2>1. Replaced(two, one, I, S, j, i, h)
    BY <1>1, <1>2, ReplacedIs
  <2> HIDE DEF two
  <2> QED  BY <2>1, Zenon DEF Replaced
<1> HIDE DEF two
<1>6. ASSUME NEW k \in I, NEW l \in I
      PROVE  two[k][l] = IF {k, l} = {i, j} THEN Append(mx[k][l], m) ELSE mx[k][l]
  <2>1. CASE k = j /\ l = i
    <3>1. {k, l} = {i, j} /\ two[k][l] = h
      BY <1>5, <2>1
    <3> QED  BY <2>1, <3>1 DEF h
  <2>2. CASE k = i /\ l = j
    <3>1. {k, l} = {i, j} /\ two[k][l] = e
      BY <1>2, <1>5, <2>2
    <3> QED  BY <2>2, <3>1 DEF e
  <2>3. CASE ~(k = j /\ l = i) /\ ~(k = i /\ l = j)
    <3>1. {k, l} # {i, j}
      <4>1. SUFFICES ASSUME {k, l} = {i, j} PROVE FALSE
        OBVIOUS
      <4>2. k \in {i, j} /\ l \in {i, j} /\ i \in {k, l} /\ j \in {k, l}
        BY <4>1
      <4> QED  BY <2>3, <4>2
    <3>2. two[k][l] = mx[k][l]
      BY <1>2, <1>5, <2>3, SMTT(30)
    <3> QED  BY <3>1, <3>2
  <2> QED  BY <2>1, <2>2, <2>3
<1>7. two \in [I -> [I -> Seq(Models)]]
  BY <1>5 DEF S
<1> QED  BY <1>4, <1>6, <1>7, Zenon DEF EnteredIs

\* The grown matrix holds what the old one held, for the tokens that were added.
LEMMA GrownHolds ==
  ASSUME IInv, NEW new \in Seq(Tokens), Distinct(new), Extends(new, indexes)
  PROVE  /\ Grown(matrix, new) \in [DOMAIN new -> [DOMAIN new -> Seq(Models)]]
         /\ \A i, j \in DOMAIN new :
              Grown(matrix, new)[i][j] = IF i = j THEN <<>> ELSE Trading(added, new[i], new[j])
<1> DEFINE I == DOMAIN new
           O == DOMAIN indexes
           at(i, j) == IF i \in O /\ j \in O THEN matrix[i][j] ELSE <<>>
<1>1. /\ indexes \in Seq(Tokens) /\ added \in Seq(Models)
      /\ matrix \in [O -> [O -> Seq(Models)]]
  BY DEF IInv, TypeOK
<1>2. \A i, j \in I : at(i, j) \in Seq(Models)
  BY <1>1
<1>3. Grown(matrix, new) = [i \in I |-> [j \in I |-> at(i, j)]]
  <2>1. DOMAIN matrix = O
    BY <1>1
  <2> QED  BY <2>1 DEF Grown
<1>4. ASSUME NEW i \in I, NEW j \in I
      PROVE  at(i, j) = IF i = j THEN <<>> ELSE Trading(added, new[i], new[j])
  <2>1. CASE i \in O /\ j \in O
    <3>1. /\ i # j => matrix[i][j] = Trading(added, indexes[i], indexes[j])
          /\ i = j => matrix[i][j] = <<>>
      BY <2>1 DEF IInv, MatrixHolds, Between
    <3>2. indexes[i] = new[i] /\ indexes[j] = new[j]
      BY <2>1 DEF Extends
    <3> QED  BY <2>1, <3>1, <3>2
  <2>2. CASE ~(i \in O /\ j \in O)
    <3>1. ASSUME NEW k \in DOMAIN added PROVE ~Trades(added[k], new[i], new[j])
      <4>1. Has(indexes, Pair[added[k]][1]) /\ Has(indexes, Pair[added[k]][2])
        BY DEF IInv, Placed
      <4>2. PICK p \in O, q \in O : indexes[p] = Pair[added[k]][1] /\ indexes[q] = Pair[added[k]][2]
        BY <4>1, Zenon DEF Has
      <4>3. /\ p \in I /\ q \in I
            /\ new[p] = Pair[added[k]][1] /\ new[q] = Pair[added[k]][2]
        BY <4>2 DEF Extends
      <4>4. SUFFICES ASSUME Trades(added[k], new[i], new[j]) PROVE FALSE
        OBVIOUS
      <4>5. new[i] \in {new[p], new[q]} /\ new[j] \in {new[p], new[q]}
        BY <4>3, <4>4 DEF Trades
      <4>6. i \in {p, q} /\ j \in {p, q}
        BY <4>3, <4>5 DEF Distinct
      <4> QED  BY <2>2, <4>6
    <3>2. Trading(added, new[i], new[j]) = <<>>
      BY <1>1, <3>1, TradingNone
    <3> QED  BY <2>2, <3>2
  <2> QED  BY <2>1, <2>2
<1> HIDE DEF at, I
<1>5. Grown(matrix, new) \in [I -> [I -> Seq(Models)]]
  BY <1>2, <1>3
<1>6. \A i, j \in I : Grown(matrix, new)[i][j] = at(i, j)
  BY <1>3
<1>7. \A i, j \in I :
         Grown(matrix, new)[i][j] = IF i = j THEN <<>> ELSE Trading(added, new[i], new[j])
  <2> SUFFICES ASSUME NEW i \in I, NEW j \in I
               PROVE  Grown(matrix, new)[i][j] = IF i = j THEN <<>> ELSE Trading(added, new[i], new[j])
    OBVIOUS
  <2>1. Grown(matrix, new)[i][j] = at(i, j)
    BY <1>6
  <2>2. at(i, j) = IF i = j THEN <<>> ELSE Trading(added, new[i], new[j])
    BY <1>4
  <2> QED  BY ONLY <2>1, <2>2, Zenon
<1> QED  BY <1>5, <1>7, Zenon DEF I

\* AddItem keeps the invariant.
LEMMA AddItemKeeps ==
  ASSUME IInv, NEW m \in Models, AddItem(m)
  PROVE  IInv'
<1> DEFINE new == indexes'
           I == DOMAIN new
           old == Grown(matrix, new)
           i1 == At(new, Pair[m][1])
           i2 == At(new, Pair[m][2])
<1>1. /\ new \in Seq(Tokens) /\ Distinct(new) /\ Extends(new, indexes)
      /\ Has(new, Pair[m][1]) /\ Has(new, Pair[m][2])
      /\ new = WithToken(WithToken(indexes, Pair[m][1]), Pair[m][2])
  BY TokensEntered
<1>2. /\ usdcIndex' = IF Has(new, USDC) THEN At(new, USDC) ELSE usdcIndex
      /\ matrix' = Entered(old, i1, i2, m)
      /\ added' = Append(added, m) /\ quote' = quote
  BY <1>1, Zenon DEF AddItem
<1>3. /\ i1 \in I /\ new[i1] = Pair[m][1] /\ i2 \in I /\ new[i2] = Pair[m][2]
  BY <1>1, AtIs
<1>4. i1 # i2
  BY <1>3
<1>5. /\ old \in [I -> [I -> Seq(Models)]]
      /\ \A i, j \in I : old[i][j] = IF i = j THEN <<>> ELSE Trading(added, new[i], new[j])
  BY <1>1, GrownHolds, Zenon
<1> HIDE DEF i1, i2, old
<1>6. /\ matrix' \in [I -> [I -> Seq(Models)]]
      /\ \A k, l \in I :
           matrix'[k][l] = IF {k, l} = {i1, i2} THEN Append(old[k][l], m) ELSE old[k][l]
  <2> HIDE DEF I
  <2>1. /\ Entered(old, i1, i2, m) \in [I -> [I -> Seq(Models)]]
        /\ \A k, l \in I : Entered(old, i1, i2, m)[k][l] =
             IF {k, l} = {i1, i2} THEN Append(old[k][l], m) ELSE old[k][l]
    <3>1. old \in [I -> [I -> Seq(Models)]] /\ i1 \in I /\ i2 \in I /\ m \in Models
      BY <1>3, <1>5
    <3>2. EnteredIs(Entered(old, i1, i2, m), old, I, i1, i2, m)
      BY ONLY <1>4, <3>1, EnteredTyped, Zenon
    <3> QED  BY <3>2, Zenon DEF EnteredIs
  <2> QED  BY <1>2, <2>1, Zenon
<1>7. added \in Seq(Models) /\ added' \in Seq(Models)
  <2>1. added \in Seq(Models)
    BY DEF IInv, TypeOK
  <2> QED  BY <1>2, <2>1, Appended
<1>8. TypeOK'
  <2>1. usdcIndex' \in Nat \ {0}
    <3>1. usdcIndex \in Nat \ {0}
      BY DEF IInv, TypeOK
    <3>2. Has(new, USDC) => At(new, USDC) \in I
      BY AtIs
    <3>3. I \subseteq Nat \ {0}
      BY <1>1
    <3> QED  BY <1>2, <3>1, <3>2, <3>3
  <2>2. quote' \in [Models -> Quotes]
    BY <1>2 DEF IInv, TypeOK
  <2> QED  BY <1>1, <1>6, <1>7, <2>1, <2>2 DEF TypeOK
<1>9. ASSUME NEW i \in I, NEW j \in I
      PROVE  /\ new[i] = new[j] => i = j
             /\ i # j => matrix'[i][j] = Trading(added', new[i], new[j])
             /\ i = j => matrix'[i][j] = <<>>
  <2>1. new[i] = new[j] => i = j
    BY <1>1 DEF Distinct
  <2>2. ASSUME i # j PROVE matrix'[i][j] = Trading(added', new[i], new[j])
    <3>1. Trading(added', new[i], new[j]) =
            IF Trades(m, new[i], new[j]) THEN Append(Trading(added, new[i], new[j]), m)
            ELSE Trading(added, new[i], new[j])
      BY <1>2, <1>7, TradingAppend
    <3>2. Trades(m, new[i], new[j]) <=> {i, j} = {i1, i2}
      <4>1. Trades(m, new[i], new[j]) <=> {new[i], new[j]} = {new[i1], new[i2]}
        BY <1>3 DEF Trades
      <4>2. \A k, l \in I : new[k] = new[l] => k = l
        BY <1>1 DEF Distinct
      <4> HIDE DEF new, I
      <4> QED  BY ONLY <4>1, <4>2, <1>3
    <3>3. old[i][j] = Trading(added, new[i], new[j])
      BY <1>5, <2>2
    <3>4. matrix'[i][j] = IF {i, j} = {i1, i2} THEN Append(old[i][j], m) ELSE old[i][j]
      BY <1>6, Zenon
    <3>5. CASE {i, j} = {i1, i2}
      BY <3>1, <3>2, <3>3, <3>4, <3>5, Zenon
    <3>6. CASE {i, j} # {i1, i2}
      BY <3>1, <3>2, <3>3, <3>4, <3>6, Zenon
    <3> QED  BY <3>5, <3>6
  <2>3. ASSUME i = j PROVE matrix'[i][j] = <<>>
    <3>1. {i, j} # {i1, i2}
      BY <1>4, <2>3
    <3>2. old[i][j] = <<>>
      BY <1>5, <2>3
    <3> QED  BY <1>6, <3>1, <3>2
  <2> QED  BY <2>1, <2>2, <2>3
<1>10. Has(new, USDC) => usdcIndex' \in I /\ new[usdcIndex'] = USDC
  BY <1>2, AtIs
<1>11. MatrixHolds'
  BY <1>9, <1>10 DEF MatrixHolds, Between
<1>12. Placed'
  <2> SUFFICES ASSUME NEW k \in DOMAIN added'
               PROVE  Has(new, Pair[added'[k]][1]) /\ Has(new, Pair[added'[k]][2])
    BY Zenon DEF Placed
  <2>1. CASE k \in DOMAIN added
    <3>1. added'[k] = added[k]
      BY <1>2, <1>7, <2>1, Appended
    <3>2. Has(indexes, Pair[added[k]][1]) /\ Has(indexes, Pair[added[k]][2])
      BY <2>1 DEF IInv, Placed
    <3>3. \A t : Has(indexes, t) => Has(new, t)
      BY <1>1 DEF Has, Extends
    <3> QED  BY <3>1, <3>2, <3>3
  <2>2. CASE k \notin DOMAIN added
    <3>1. /\ DOMAIN added' = 1 .. Len(added) + 1 /\ DOMAIN added = 1 .. Len(added)
          /\ Len(added) \in Nat /\ added'[Len(added) + 1] = m
      BY <1>2, <1>7, Appended
    <3>2. k = Len(added) + 1
      BY <2>2, <3>1
    <3> QED  BY <1>1, <3>1, <3>2
  <2> QED  BY <2>1, <2>2
<1> QED  BY <1>8, <1>11, <1>12 DEF IInv

\* Nothing is in the matrix at the start.
LEMMA InitInvariant == Init => IInv
<1> SUFFICES ASSUME Init PROVE IInv
  OBVIOUS
<1>1. /\ indexes = <<>> /\ usdcIndex = 1 /\ matrix = <<>> /\ added = <<>>
      /\ quote \in [Models -> Quotes]
  BY DEF Init
<1>2. DOMAIN indexes = {} /\ DOMAIN added = {} /\ DOMAIN matrix = {}
  BY <1>1
<1>3. TypeOK
  <2>1. matrix \in [{} -> [{} -> Seq(Models)]]
    BY <1>1
  <2> QED  BY <1>1, <1>2, <2>1 DEF TypeOK
<1>4. MatrixHolds /\ Placed
  BY <1>2, Zenon DEF MatrixHolds, Placed, Has
<1> QED  BY <1>3, <1>4 DEF IInv

\* Every step keeps the invariant.
LEMMA StepKeeps == IInv /\ [Next]_vars => IInv'
<1> SUFFICES ASSUME IInv, [Next]_vars PROVE IInv'
  OBVIOUS
<1>1. ASSUME NEW m \in Models, AddItem(m) PROVE IInv'
  BY <1>1, AddItemKeeps
<1>2. CASE UNCHANGED vars
  BY <1>2 DEF vars, IInv, TypeOK, MatrixHolds, Placed, Between
<1>3. CASE Done
  BY <1>2, <1>3 DEF Done
<1> QED  BY <1>1, <1>2, <1>3 DEF Next

\* The matrix is sound and holds every model under its tokens.
LEMMA Invariant == Spec => []IInv
BY InitInvariant, StepKeeps, PTL DEF Spec

\* MatrixSound: whatever the order in which models were added, the matrix holds under two
\* tokens exactly the models that trade them, in that order, and has USDC where it
\* says.
THEOREM MatrixSoundAlways == Spec => []MatrixSound
<1>1. IInv => MatrixSound
  BY DEF IInv, MatrixSound
<1> QED  BY <1>1, Invariant, PTL

\* PathSound: what Search returns is a route whose models, swapped one after the other, give
\* its amount, with the amount of USDC of the last visit.
THEOREM PathSoundAlways == Spec => []PathSound
<1>1. IInv => PathSound
  BY InvariantCarries
<1> QED  BY <1>1, Invariant, PTL

-----------------------------------------------------------------------------
(* No route pays more than what Search finds.                              *)

\* What it takes to be a route.
IsRoute(r, src, dst) ==
  /\ r \in Seq(Models) /\ Len(r) \in 1 .. Depth - 1
  /\ \A k \in 1 .. Len(r) : r[k] \in Added
  /\ Route(r, src)[Len(r)] = dst
  /\ \A j, k \in 1 .. Len(r) : j < k => Route(r, src)[j] # Route(r, src)[k]
  /\ \A k \in 1 .. Len(r) - 1 : Route(r, src)[k] \notin {"none", src, dst}

\* Routes has nothing else.
LEMMA RoutesAre ==
  ASSUME IInv, NEW src, NEW dst, NEW r \in Routes(src, dst)
  PROVE  IsRoute(r, src, dst)
<1>1. PICK n \in 1 .. Depth - 1 : r \in [1 .. n -> Added]
  BY DEF Routes, Added
<1>2. n \in Nat
  OBVIOUS
<1>3. Added \subseteq Models
  BY DEF Added, IInv, TypeOK
<1>4. r \in Seq(Added)
  BY ONLY <1>1, <1>2, SeqDef
<1>5. r \in Seq(Models)
  BY <1>3, <1>4, WiderSeq
<1>6. Len(r) = n
  <2>1. DOMAIN r = 1 .. Len(r) /\ Len(r) \in Nat
    BY <1>5
  <2>2. DOMAIN r = 1 .. n
    BY <1>1
  <2>3. n \in 1 .. n
    OBVIOUS
  <2>4. n \in 1 .. Len(r)
    BY <2>1, <2>2, <2>3
  <2>5. Len(r) \in 1 .. Len(r)
    BY <2>1, <2>4
  <2>6. Len(r) \in 1 .. n
    BY <2>1, <2>2, <2>5
  <2>7. Len(r) \in Nat
    BY <2>1
  <2> QED  BY ONLY <1>2, <2>4, <2>6, <2>7
<1>7. \A k \in 1 .. Len(r) : r[k] \in Added
  BY <1>1, <1>6
<1>8. /\ Route(r, src)[Len(r)] = dst
      /\ \A j, k \in 1 .. Len(r) : j < k => Route(r, src)[j] # Route(r, src)[k]
      /\ \A k \in 1 .. Len(r) - 1 : Route(r, src)[k] \notin {"none", src, dst}
  BY Zenon DEF Routes
<1> QED  BY <1>5, <1>6, <1>7, <1>8, Zenon DEF IsRoute

\* The token of a route after k swaps is traded for the one before.
LEMMA RouteTrades ==
  ASSUME IInv, NEW src \in Tokens, NEW dst \in Tokens, NEW r, IsRoute(r, src, dst),
         NEW k \in 1 .. Len(r)
  PROVE  /\ Trades(r[k], Route(r, src)[k - 1], Route(r, src)[k])
         /\ Route(r, src)[k - 1] # Route(r, src)[k] /\ Has(indexes, Route(r, src)[k])
<1> DEFINE token == Route(r, src)
           n == Len(r)
<1>1. /\ r \in Seq(Models) /\ n \in Nat /\ k \in Nat /\ r[k] \in Added
      /\ token[n] = dst /\ \A l \in 1 .. n - 1 : token[l] \notin {"none", src, dst}
  BY DEF IsRoute
<1>2. token[k] # "none"
  <2>1. k \in 1 .. n - 1 \/ k = n
    BY <1>1
  <2>2. dst # "none"
    OBVIOUS
  <2> HIDE DEF token
  <2> QED  BY <1>1, <2>1, <2>2
<1>3. token[k] = IF token[k - 1] \in {Pair[r[k]][1], Pair[r[k]][2]}
                 THEN Other(r[k], token[k - 1]) ELSE "none"
  BY <1>1, RouteIs
<1>4. r[k] \in Models
  BY <1>1
<1> HIDE DEF token, n
<1>5. token[k - 1] \in {Pair[r[k]][1], Pair[r[k]][2]} /\ token[k] = Other(r[k], token[k - 1])
  BY <1>2, <1>3
<1>6. Trades(r[k], token[k - 1], token[k]) /\ token[k - 1] # token[k]
  BY <1>4, <1>5 DEF Trades, Other
<1>7. Has(indexes, Pair[r[k]][1]) /\ Has(indexes, Pair[r[k]][2])
  BY <1>1 DEF Added, IInv, Placed
<1>8. token[k] \in {Pair[r[k]][1], Pair[r[k]][2]}
  BY <1>5 DEF Other
<1>9. Has(indexes, token[k])
  BY <1>7, <1>8
<1> QED  BY <1>6, <1>9 DEF token

\* A route that is worth something is worth something all along.
LEMMA WorthAlong ==
  ASSUME IInv, NEW r \in Seq(Models), NEW src \in Tokens, NEW a \in Amounts,
         Worth(r, src, a)[Len(r)] > 0
  PROVE  \A k \in 0 .. Len(r) : Worth(r, src, a)[k] > 0
<1> DEFINE w == Worth(r, src, a)
           n == Len(r)
           T == {k \in 0 .. n : w[n - k] > 0}
<1>1. /\ w \in [0 .. n -> Amounts] /\ n \in Nat
      /\ \A k \in 1 .. n : r[k] \in Models /\ w[k] = Swap(r[k], Route(r, src)[k - 1], w[k - 1])
  BY WorthIs DEF IInv, TypeOK
<1>2. w[n] > 0
  OBVIOUS
<1> HIDE DEF w, n
<1>3. 0 \in T
  BY <1>1, <1>2
<1>4. ASSUME NEW k \in 1 .. n, k - 1 \in T PROVE k \in T
  <2>1. k \in 0 .. n /\ n - (k - 1) \in 1 .. n /\ (n - (k - 1)) - 1 = n - k /\ n - k \in 0 .. n
    BY <1>1
  <2> DEFINE j == n - (k - 1)
  <2>2. w[j] > 0 /\ w[j] = Swap(r[j], Route(r, src)[j - 1], w[j - 1]) /\ r[j] \in Models
    BY <1>1, <1>4, <2>1
  <2>3. j - 1 \in 0 .. n /\ w[j - 1] \in Amounts
    BY <1>1, <2>1
  <2> HIDE DEF j
  <2>4. w[j - 1] # 0
    <3>1. Swap(r[j], Route(r, src)[j - 1], 0) = 0
      <4>1. quote \in [Models -> Quotes] /\ 0 \in Amounts
        BY DEF IInv, TypeOK, Amounts
      <4> QED  BY <2>2, <4>1, SwapTyped
    <3> QED  BY <2>2, <3>1
  <2>5. w[j - 1] > 0
    BY <2>3, <2>4 DEF Amounts
  <2> QED  BY <2>1, <2>5 DEF j
<1>5. \A k \in 0 .. n : k \in T
  <2> HIDE DEF T
  <2> QED  BY <1>1, <1>3, <1>4, Upward
<1>6. ASSUME NEW k \in 0 .. n PROVE w[k] > 0
  <2>1. n - k \in 0 .. n /\ n - (n - k) = k
    BY <1>1
  <2>2. w[n - (n - k)] > 0
    BY <1>5, <2>1
  <2> QED  BY <2>1, <2>2
<1> QED  BY <1>6 DEF w, n

\* The search goes on below a node that has come along a route.
LEMMA GoesOn ==
  ASSUME IInv, NEW src \in Tokens, NEW dst \in Tokens, NEW r, IsRoute(r, src, dst),
         NEW d \in Indexes, indexes[d] = dst,
         NEW x \in Node, NEW k \in 2 .. Len(r), Len(x.path) = k, x.amount # 0,
         \A j \in 0 .. k - 1 : indexes[x.path[j + 1]] = Route(r, src)[j]
  PROVE  ~Ends(x.path, x.amount, d)
<1> DEFINE token == Route(r, src)
           n == Len(r)
<1>1. /\ n \in 1 .. Depth - 1 /\ n \in Nat /\ k \in Nat
      /\ \A i, j \in 1 .. n : i < j => token[i] # token[j]
      /\ \A l \in 1 .. n - 1 : token[l] \notin {"none", src, dst}
  BY DEF IsRoute
<1>2. token[0] = src
  BY RouteIs DEF IsRoute
<1>3. \A j \in 0 .. k - 1 : indexes[x.path[j + 1]] = token[j]
  OBVIOUS
<1>4. /\ k - 1 \in 0 .. k - 1 /\ k - 1 \in 1 .. n - 1 /\ (k - 1) + 1 = k /\ k # Depth
      /\ k - 1 \in 1 .. n
  BY <1>1
<1> HIDE DEF token, n
<1>5. indexes[x.path[k]] = token[k - 1] /\ token[k - 1] \notin {"none", src, dst}
  BY <1>1, <1>3, <1>4
<1>6. x.path[k] # d
  BY <1>5
<1>7. ASSUME NEW l \in 1 .. k - 1 PROVE x.path[l] # x.path[k]
  <2>1. l - 1 \in 0 .. k - 1 /\ (l - 1) + 1 = l /\ (l = 1 \/ l - 1 \in 1 .. n) /\ l - 1 < k - 1
    <3>1. k \in Nat /\ n \in Nat /\ k \in 2 .. n /\ l \in 1 .. k - 1
      BY <1>1 DEF n
    <3> QED  BY ONLY <3>1
  <2>2. indexes[x.path[l]] = token[l - 1]
    BY <1>3, <2>1
  <2>3. token[l - 1] # token[k - 1]
    <3>1. CASE l = 1
      BY <1>2, <1>5, <3>1
    <3>2. CASE l - 1 \in 1 .. n
      BY <1>1, <1>4, <2>1, <3>2
    <3> QED  BY <2>1, <3>1, <3>2
  <2> QED  BY <1>5, <2>2, <2>3
<1> QED  BY <1>4, <1>6, <1>7 DEF Ends

\* One more swap of a route.
LEMMA RouteChild ==
  ASSUME IInv, Monotone, NEW src \in Tokens, NEW dst \in Tokens, NEW r, IsRoute(r, src, dst),
         NEW a \in Amounts, NEW x \in Node, NEW k \in 1 .. Len(r), Len(x.path) = k,
         indexes[x.path[k]] = Route(r, src)[k - 1], Worth(r, src, a)[k - 1] <= x.amount
  PROVE  \E y \in Children(x) : \E i \in Indexes :
           /\ y.path = Append(x.path, i) /\ indexes[i] = Route(r, src)[k]
           /\ Worth(r, src, a)[k] <= y.amount
<1> DEFINE token == Route(r, src)
           w == Worth(r, src, a)
           at == Last(x.path)
<1>1. at \in Indexes /\ at = x.path[k] /\ indexes[at] = token[k - 1] /\ x.amount \in Amounts
  <2>1. at \in Indexes
    BY ChildIs DEF Last, Node
  <2> QED  BY <2>1 DEF Last, Node
<1>2. Trades(r[k], token[k - 1], token[k]) /\ token[k - 1] # token[k] /\ Has(indexes, token[k])
  BY RouteTrades
<1>3. /\ w \in [0 .. Len(r) -> Amounts] /\ r \in Seq(Models)
      /\ w[k] = Swap(r[k], token[k - 1], w[k - 1])
  BY WorthIs DEF IInv, TypeOK, IsRoute
<1>4. r[k] \in Added /\ r[k] \in Models /\ k - 1 \in 0 .. Len(r) /\ k \in 0 .. Len(r)
  <2>1. Len(r) \in Nat
    BY <1>3
  <2> QED  BY <1>3, <2>1 DEF IsRoute
<1> HIDE DEF token, w, at
<1>5. PICK i \in Indexes : indexes[i] = token[k]
  BY <1>2, Zenon DEF Has, Indexes
<1> DEFINE items == matrix[at][i]
           y == Child(x, i)
<1>6. at # i
  BY <1>1, <1>2, <1>5
<1>7. /\ items \in Seq(Models)
      /\ \A m : (\E l \in DOMAIN items : items[l] = m) <=> m \in Added /\ Trades(m, indexes[at], indexes[i])
  BY <1>1, <1>6, EdgeIs
<1>8. PICK l \in DOMAIN items : items[l] = r[k]
  BY <1>1, <1>2, <1>4, <1>5, <1>7
<1>9. items # <<>>
  BY <1>8
<1>10. y \in Children(x)
  BY <1>6, <1>9, ChildrenAre DEF at
<1>11. y.path = Append(x.path, i) /\ y.amount = Best(items, indexes[at], x.amount).amount
  BY ChildIs DEF at
<1>12. Swap(r[k], token[k - 1], x.amount) <= y.amount
  <2>1. quote \in [Models -> Quotes]
    BY DEF IInv, TypeOK
  <2> HIDE DEF items, y
  <2>2. \A j \in DOMAIN items : Swap(items[j], indexes[at], x.amount) <= Best(items, indexes[at], x.amount).amount
    BY <1>1, <1>7, <2>1, BestIs
  <2> QED  BY <1>1, <1>8, <1>11, <2>2
<1>13. w[k] <= Swap(r[k], token[k - 1], x.amount)
  <2>1. w[k - 1] \in Amounts /\ w[k - 1] <= x.amount
    BY <1>3, <1>4 DEF w
  <2>2. \A m \in Models, e \in 1..2 : \A p, q \in Amounts : p <= q => quote[m][e][p] <= quote[m][e][q]
    BY Zenon DEF Monotone
  <2>3. \A e \in 1 .. 2 : quote[r[k]][e][w[k - 1]] <= quote[r[k]][e][x.amount]
    BY <1>1, <1>4, <2>1, <2>2
  <2>4. 1 \in 1 .. 2 /\ 2 \in 1 .. 2
    OBVIOUS
  <2> QED  BY <1>3, <2>3, <2>4 DEF Swap
<1>14. w[k] <= y.amount
  <2>1. w[k] \in Nat /\ Swap(r[k], token[k - 1], x.amount) \in Nat /\ y.amount \in Nat
    <3>1. quote \in [Models -> Quotes] /\ y \in Node
      BY <1>1, <1>5, ChildIs DEF IInv, TypeOK
    <3>2. Swap(r[k], token[k - 1], x.amount) \in Amounts
      BY <1>1, <1>4, <3>1, SwapTyped
    <3>3. w[k] \in Amounts /\ y.amount \in Amounts
      BY <1>3, <1>4, <3>1 DEF Node
    <3> QED  BY <3>2, <3>3 DEF Amounts
  <2> HIDE DEF y
  <2> QED  BY ONLY <1>12, <1>13, <2>1
<1> QED  BY <1>5, <1>10, <1>11, <1>14 DEF token, w

\* The search comes along every route that is worth something, with as much or more.
LEMMA Reaches ==
  ASSUME IInv, Monotone, NEW src \in Tokens, NEW dst \in Tokens,
         Has(indexes, src), Has(indexes, dst), NEW a \in Amounts \ {0},
         NEW r, IsRoute(r, src, dst), Worth(r, src, a)[Len(r)] > 0
  PROVE  \E x \in Arrived(At(indexes, src), a, At(indexes, dst)) :
           Worth(r, src, a)[Len(r)] <= x.amount
<1> DEFINE s == At(indexes, src)
           d == At(indexes, dst)
           lev == Level(s, a, d)
           token == Route(r, src)
           w == Worth(r, src, a)
           n == Len(r)
           Along(x, k) == /\ \A j \in 0 .. k : indexes[x.path[j + 1]] = token[j]
                          /\ w[k] <= x.amount
           T == {k \in 0 .. n : \E x \in lev[k + 1] : Along(x, k)}
<1>1. s \in Indexes /\ d \in Indexes /\ indexes[s] = src /\ indexes[d] = dst
  BY AtIs DEF Indexes
<1>2. /\ r \in Seq(Models) /\ n \in 1 .. Depth - 1 /\ n \in Nat /\ a \in Amounts /\ Depth \in Nat
      /\ token[n] = dst
  BY DEF IsRoute
<1>3. /\ w \in [0 .. n -> Amounts] /\ w[0] = a /\ token[0] = src
  BY <1>2, WorthIs, RouteIs DEF IInv, TypeOK
<1>4. \A k \in 0 .. n : w[k] > 0
  BY <1>2, WorthAlong
<1> HIDE DEF s, d
<1>5. /\ lev[1] = {Root(s, a)}
      /\ \A k \in 2 .. Depth : lev[k] = Below(lev[k - 1], k = 2, d)
  BY <1>1, <1>2, LevelIs
<1>6. \A k \in 1 .. Depth : \A x \in lev[k] : x \in Node /\ Len(x.path) = k
  <2>1. \A k \in 1 .. Depth : \A x \in lev[k] :
          x \in Node /\ Len(x.path) = k /\ \E v : Walked(x, v, s, a, d)
    BY <1>1, Walks
  <2> QED  BY <2>1
<1> HIDE DEF lev, token, w, n
<1>7. 0 \in T
  <2>1. Root(s, a).path[1] = s /\ Root(s, a).amount = a
    BY DEF Root
  <2>2. Along(Root(s, a), 0)
    <3>1. w[0] <= a
      BY <1>2, <1>3 DEF Amounts
    <3>2. \A j \in 0 .. 0 : j = 0 /\ j + 1 = 1
      OBVIOUS
    <3> QED  BY <1>1, <1>3, <2>1, <3>1, <3>2
  <2>3. 0 \in 0 .. n /\ 0 + 1 = 1
    BY <1>2
  <2> HIDE DEF Along
  <2> QED  BY <1>5, <2>2, <2>3
<1>8. ASSUME NEW k \in 1 .. n, k - 1 \in T PROVE k \in T
  <2>1. /\ k \in 0 .. n /\ k \in Nat /\ (k - 1) + 1 = k /\ k - 1 \in 0 .. k - 1 /\ k - 1 \in 0 .. n
        /\ k \in 1 .. Depth /\ k + 1 \in 2 .. Depth /\ k + 1 \in 1 .. Depth /\ (k + 1) - 1 = k
        /\ (k = 1 => k + 1 = 2) /\ (k # 1 => k \in 2 .. n)
    BY <1>2
  <2>2. PICK x \in lev[k] : Along(x, k - 1)
    <3> HIDE DEF Along
    <3> QED  BY <1>8, <2>1
  <2>3. x \in Node /\ Len(x.path) = k /\ x.amount \in Amounts
    BY <1>6, <2>1 DEF Node
  <2>4. x.amount # 0
    <3>1. w[k - 1] > 0 /\ w[k - 1] <= x.amount /\ w[k - 1] \in Amounts
      BY <1>3, <1>4, <2>1, <2>2
    <3> QED  BY <2>3, <3>1 DEF Amounts
  <2>5. /\ \A j \in 0 .. k - 1 : indexes[x.path[j + 1]] = token[j]
        /\ indexes[x.path[k]] = token[k - 1] /\ w[k - 1] <= x.amount
    BY <2>1, <2>2
  <2>6. k + 1 = 2 \/ ~Ends(x.path, x.amount, d)
    <3>1. CASE k = 1
      BY <2>1, <3>1
    <3>2. CASE k # 1
      <4>1. k \in 2 .. Len(r)
        BY <2>1, <3>2 DEF n
      <4>2. \A j \in 0 .. k - 1 : indexes[x.path[j + 1]] = Route(r, src)[j]
        BY <2>5 DEF token
      <4>3. ~Ends(x.path, x.amount, d)
        BY <1>1, <2>3, <2>4, <4>1, <4>2, GoesOn, SMTT(30)
      <4> QED  BY <4>3
    <3> QED  BY <3>1, <3>2
  <2>7. PICK y \in Children(x) : \E i \in Indexes :
          /\ y.path = Append(x.path, i) /\ indexes[i] = token[k] /\ w[k] <= y.amount
    <3>1. k \in 1 .. Len(r)
      BY DEF n
    <3>2. indexes[x.path[k]] = Route(r, src)[k - 1] /\ Worth(r, src, a)[k - 1] <= x.amount
      BY <2>5 DEF token, w
    <3>3. \E y \in Children(x) : \E i \in Indexes :
            /\ y.path = Append(x.path, i) /\ indexes[i] = Route(r, src)[k]
            /\ Worth(r, src, a)[k] <= y.amount
      BY <1>2, <2>3, <3>1, <3>2, RouteChild
    <3> QED  BY <3>3, Zenon DEF token, w
  <2>8. PICK i \in Indexes :
          y.path = Append(x.path, i) /\ indexes[i] = token[k] /\ w[k] <= y.amount
    BY <2>7
  <2>9. y \in lev[k + 1]
    <3>1. lev[k + 1] = Below(lev[k], k + 1 = 2, d)
      BY <1>5, <2>1
    <3> QED  BY <2>2, <2>6, <3>1, Zenon DEF Below
  <2>10. Along(y, k)
    <3>1. ASSUME NEW j \in 0 .. k PROVE indexes[y.path[j + 1]] = token[j]
      <4>1. /\ y.path[k + 1] = i /\ \A l \in 1 .. k : y.path[l] = x.path[l]
        <5>1. x.path \in Seq(Indexes) /\ DOMAIN x.path = 1 .. k
          BY <2>3 DEF Node
        <5> QED  BY <2>3, <2>8, <5>1, Appended
      <4>2. CASE j = k
        BY <2>8, <4>1, <4>2
      <4>3. CASE j # k
        <5>1. j \in 0 .. k - 1 /\ j + 1 \in 1 .. k
          BY <2>1, <4>3
        <5> QED  BY <2>5, <4>1, <5>1
      <4> QED  BY <4>2, <4>3
    <3> QED  BY <2>8, <3>1
  <2> HIDE DEF Along
  <2> QED  BY <2>1, <2>9, <2>10
<1>9. n \in T
  <2> HIDE DEF T
  <2>1. \A k \in 0 .. n : k \in T
    BY <1>2, <1>7, <1>8, Upward
  <2> QED  BY <1>2, <2>1
<1>10. PICK x \in lev[n + 1] : Along(x, n)
  <2> HIDE DEF Along
  <2> QED  BY <1>9
<1>11. n + 1 \in 2 .. Depth /\ n + 1 \in 1 .. Depth /\ n \in 0 .. n
  BY <1>2
<1>12. x \in Node /\ Len(x.path) = n + 1 /\ x.amount \in Amounts
  BY <1>6, <1>11 DEF Node
<1>13. indexes[x.path[n + 1]] = dst /\ w[n] <= x.amount
  BY <1>2, <1>10, <1>11
<1>14. x.path[n + 1] = d
  <2>1. x.path[n + 1] \in Indexes
    BY <1>11, <1>12 DEF Node
  <2> QED  BY <1>1, <1>13, <2>1, IndexesDiffer
<1>15. x.amount > 0
  <2>1. w[n] \in Amounts /\ w[n] > 0
    BY <1>3, <1>4, <1>11
  <2> QED  BY <1>12, <1>13, <2>1 DEF Amounts
<1>16. x \in Arrived(s, a, d)
  <2>1. x \in lev[n + 1] /\ x.path[Len(x.path)] = d
    BY <1>10, <1>12, <1>14
  <2> QED  BY <1>11, <1>15, <2>1, Zenon DEF Arrived, lev
<1> QED  BY <1>13, <1>16 DEF s, d, w, n

\* The invariant gives what FindsBest says.
LEMMA InvariantFinds ==
  ASSUME IInv
  PROVE  FindsBest
<1> SUFFICES ASSUME Monotone, NEW src \in Tokens, NEW dst \in Tokens, NEW a \in Amounts \ {0},
                    Searched(src, dst)
             PROVE  LET found == Search(src, a, dst)
                        worths == {Worth(r, src, a)[Len(r)] : r \in Routes(src, dst)}
                    IN /\ \A w \in worths : w <= found.amount
                       /\ found.amount > 0 => found.amount \in worths
  BY Zenon DEF FindsBest
<1> DEFINE found == Search(src, a, dst)
           worths == {Worth(r, src, a)[Len(r)] : r \in Routes(src, dst)}
           arrived == Arrived(At(indexes, src), a, At(indexes, dst))
<1>1. Has(indexes, src) /\ Has(indexes, dst)
  BY DEF Searched
<1>2. IF arrived = {} THEN found = NoResult ELSE Chosen(found, arrived)
  BY <1>1, Found, Zenon
<1>3. found # NoResult => found \in Node /\ Carries(found, src, dst, a)
  BY FoundCarries, Zenon
<1> HIDE DEF found, arrived
<1>4. found.amount \in Nat /\ (found.amount > 0 => found # NoResult)
  <2>1. NoResult.amount = 0
    BY DEF NoResult
  <2>2. CASE found = NoResult
    BY <2>1, <2>2
  <2>3. CASE found # NoResult
    BY <1>3, <2>3 DEF Node, Amounts
  <2> QED  BY <2>2, <2>3
<1>5. ASSUME NEW r \in Routes(src, dst) PROVE Worth(r, src, a)[Len(r)] <= found.amount
  <2> DEFINE v == Worth(r, src, a)[Len(r)]
  <2>1. IsRoute(r, src, dst)
    BY RoutesAre
  <2>2. v \in Nat
    <3>1. r \in Seq(Models) /\ Len(r) \in 0 .. Len(r) /\ a \in Amounts /\ quote \in [Models -> Quotes]
      BY <2>1 DEF IsRoute, IInv, TypeOK
    <3>2. Worth(r, src, a) \in [0 .. Len(r) -> Amounts]
      BY <3>1, WorthIs
    <3> QED  BY <3>1, <3>2 DEF Amounts
  <2>3. CASE v > 0
    <3>1. \E x \in arrived : v <= x.amount
      BY <1>1, <2>1, <2>3, Reaches DEF arrived
    <3> HIDE DEF v
    <3>2. PICK x \in arrived : v <= x.amount
      BY <3>1
    <3>3. Chosen(found, arrived)
      BY <1>2, <3>2
    <3>4. x.amount <= found.amount
      BY <3>3 DEF Chosen
    <3>5. x.amount \in Nat
      <4>1. x \in Node
        <5>1. At(indexes, src) \in Indexes /\ At(indexes, dst) \in Indexes
          BY <1>1, AtIs DEF Indexes
        <5> QED  BY <5>1, ArrivedAre, Zenon DEF arrived
      <4> QED  BY <4>1 DEF Node, Amounts
    <3> QED  BY <1>4, <2>2, <3>2, <3>4, <3>5 DEF v
  <2>4. CASE ~(v > 0)
    <3> HIDE DEF v
    <3>1. v <= found.amount
      BY <1>4, <2>2, <2>4
    <3> QED  BY <3>1 DEF v
  <2> QED  BY <2>3, <2>4
<1>6. ASSUME found.amount > 0 PROVE found.amount \in worths
  <2>1. Carries(found, src, dst, a)
    BY <1>3, <1>4, <1>6
  <2>2. found.models \in Routes(src, dst) /\ Worth(found.models, src, a)[Len(found.models)] = found.amount
    BY <2>1, Zenon DEF Carries
  <2> QED  BY <2>2
<1>7. \A v \in worths : v <= found.amount
  BY <1>5
<1> HIDE DEF worths
<1> QED  BY <1>6, <1>7, Zenon DEF found, worths

\* FindsBest: if every pool gives more for more, no route of at most Depth - 1 swaps pays more
\* than what Search returns, and what it returns is what a route pays.
THEOREM FindsBestAlways == Spec => []FindsBest
<1>1. IInv => FindsBest
  BY InvariantFinds
<1> QED  BY <1>1, Invariant, PTL
==============================================================================
