------------------------------ MODULE TradeGate ------------------------------
(***************************************************************************)
(* The engine of arbitrage/app/arbitrage.go: the int32 `status` that gates *)
(* the calculations, the unbuffered channel `trade`, the goroutine Tick    *)
(* that serves it, the goroutines that trigger it, and the start and the   *)
(* stop of all of them by Service().                                       *)
(*                                                                         *)
(* A goroutine triggers a calculation in two steps: a compare-and-swap of  *)
(* status from Started to Pause, then a send on trade.  Slot goroutines    *)
(* drop the trigger when the swap fails, the goroutines that apply account *)
(* changes spin until it succeeds.  Tick receives, calculates and stores   *)
(* Started again.  Whoever made the swap, and then Tick until the store,   *)
(* owns the gate.                                                          *)
(*                                                                         *)
(* A calculation that finds something sends it to the executors of each    *)
(* RPC client (Commit) and to the notifier, on bounded channels whose      *)
(* readers return when ctx is done: the sinks.  How many messages wait in  *)
(* them is left out: a send goes through until the readers are gone and    *)
(* the channel is full.  The senders and the TPU proxy, to which Commit    *)
(* sends as well, read for ever.                                           *)
(*                                                                         *)
(* Not in the model: what a calculation computes and commits, what an      *)
(* account holds, slot numbers, the RPC server, logging.                   *)
(***************************************************************************)
EXTENDS Naturals, FiniteSets

CONSTANTS
  Feeds,      \* the RecvSlot goroutines, one per websocket client
  Tickers,    \* the AdditionalSlot goroutines, one per websocket client
  FeedOf,     \* [Tickers -> Feeds]: the feed that shares its `tt` with a ticker
  Updaters,   \* the update() goroutines of the SPL token and Serum programs
  Early,      \* those Updaters that run before the pools are loaded
  Receivers,  \* the RecvAccount goroutines
  Target,     \* [Receivers -> Updaters]: the updateAccounts a receiver fills
  AcctCap,    \* capacity of an updateAccounts channel (1024 in the code)
  HashCap,    \* capacity of updateBlockHash (1024 in the code)
  Sinks,      \* the readers of commandChans[i], for each i, and of notify.data
  NetStatus,  \* config.NetStatus: is the network detector started?
  Interrupts, \* may the process receive a signal?
  NoOne       \* not a goroutine

ASSUME ConstAssumption ==
  /\ FeedOf \in [Tickers -> Feeds]
  /\ Early \subseteq Updaters
  /\ Target \in [Receivers -> Updaters]
  /\ Feeds \cap Tickers = {} /\ (Feeds \cup Tickers) \cap Updaters = {}
  /\ AcctCap \in Nat \ {0} /\ HashCap \in Nat \ {0}
  /\ NetStatus \in BOOLEAN /\ Interrupts \in BOOLEAN
  /\ NoOne \notin Feeds \cup Tickers \cup Updaters

SlotSources == Feeds \cup Tickers      \* the callers of OnSlotUpdate
Producers == SlotSources \cup Updaters \* the senders on trade

VARIABLES
  status,    \* arb.status
  main,      \* where Service() is
  cancelled, \* ctx is done
  pinger,    \* has nd.ping() set nd.pinger?
  pc,        \* where each producer is
  acct,      \* where each RecvAccount goroutine is
  queue,     \* number of account changes waiting in each updateAccounts
  unseen,    \* updaters whose last change no calculation has started after
  quiet,     \* per feed: is *tt at least 90 ms old?
  hashq,     \* number of slots waiting in updateBlockHash
  hash,      \* where CacheRecentBlockHash is
  clogged,   \* the sinks without readers and without room
  tick,      \* where Tick is
  cause      \* the producer whose trigger Tick is working on

engineVars == <<status, main, cancelled, pinger, pc, acct, queue, unseen, quiet,
                hashq, hash, clogged, tick, cause>>
gateVars == <<status, tick, cause>>
mainVars == <<main, cancelled, pinger>>
dataVars == <<acct, queue, unseen, quiet, hashq, hash, clogged>>

Statuses == {"Init", "Started", "Pause", "Stopped"}
Mains == {"boot", "flash", "listen", "subscribe", "open", "serve",
          "netstop", "unsubscribe", "drain", "join", "stopped", "panicked"}
PCs == {"off",    \* not started yet
        "recv",   \* waiting for a slot, the ticker or an account change
        "hash",   \* RecvSlot: sending on updateBlockHash
        "cas",    \* about to compare-and-swap status, once
        "spin",   \* compare-and-swapping status in a loop
        "send",   \* sending on trade: owns the gate
        "done"}   \* returned

\* arb.try() is under way, or blocked on a channel.
Calculating == tick \in {"try", "post"}

\* The process is gone once Service() has returned or panicked.
Alive == main \notin {"stopped", "panicked"}
\* The subscriptions end when Stop() unsubscribes them.
Unsubscribed == main \in {"drain", "join"}

Goto(p, from, to) == pc[p] = from /\ pc' = [pc EXCEPT ![p] = to]

-----------------------------------------------------------------------------
(* Faulty variants of some of the actions below, which show that the       *)
(* properties tell them from the code.  No specification uses them.        *)

\* The gate is open before Start() is through.
InitOpen ==
  /\ status = "Started" /\ main = "boot" /\ cancelled = FALSE /\ pinger = FALSE
  /\ pc = [p \in Producers |-> "off"] /\ acct = [r \in Receivers |-> "off"]
  /\ queue = [u \in Updaters |-> 0] /\ unseen = {} /\ quiet = [f \in Feeds |-> TRUE]
  /\ hashq = 0 /\ hash = "off" /\ clogged = {} /\ tick = "off" /\ cause = NoOne

\* updateBlockHash overflows.
AskBlockHashUnbounded(f) ==
  /\ Goto(f, "hash", "cas")
  /\ hashq' = hashq + 1
  /\ UNCHANGED <<acct, queue, unseen, quiet, hash, clogged, gateVars, mainVars>>

\* The ticker goroutine returns when the feed was not silent.
AdditionalSlotReturns(t) ==
  /\ Goto(t, "recv", IF quiet[FeedOf[t]] THEN "cas" ELSE "done")
  /\ quiet' = [quiet EXCEPT ![FeedOf[t]] = FALSE]
  /\ UNCHANGED <<acct, queue, unseen, hashq, hash, clogged, gateVars, mainVars>>

\* A swap in the place of the compare-and-swap.
OnSlotUpdateSwaps(p) ==
  /\ status' = "Pause"
  /\ Goto(p, "cas", "send")
  /\ UNCHANGED <<tick, cause, dataVars, mainVars>>

\* AdditionalSlot does not look at ctx.
ProducerExitsNoTicker(p) ==
  /\ cancelled /\ p \in Updaters
  /\ Goto(p, "recv", "done")
  /\ UNCHANGED <<gateVars, dataVars, mainVars>>

\* The callback drops the change when the gate is shut, as OnSlotUpdate does.
OnBalanceUpdateDrops(u) ==
  /\ \/ status = "Started" /\ status' = "Pause" /\ Goto(u, "spin", "send")
     \/ status # "Started" /\ Goto(u, "spin", "recv") /\ UNCHANGED status
  /\ UNCHANGED <<tick, cause, dataVars, mainVars>>

\* Stop() does not wait for Tick.
WaitTickNot ==
  /\ main = "join" /\ main' = "stopped"
  /\ status' = "Stopped"
  /\ UNCHANGED <<cancelled, pinger, pc, tick, cause, dataVars>>

-----------------------------------------------------------------------------
EngineInit ==
  /\ status = "Init"
  /\ main = "boot"
  /\ cancelled = FALSE
  /\ pinger = FALSE
  /\ pc = [p \in Producers |-> "off"]
  /\ acct = [r \in Receivers |-> "off"]
  /\ queue = [u \in Updaters |-> 0]
  /\ unseen = {}
  /\ quiet = [f \in Feeds |-> TRUE]
  /\ hashq = 0
  /\ hash = "off"
  /\ clogged = {}
  /\ tick = "off"
  /\ cause = NoOne

-----------------------------------------------------------------------------
(* Start().                                                                *)

\* nd.ping() resolves the peer; it returns with pinger nil if that fails.
SetPinger ==
  /\ NetStatus
  /\ pinger' = TRUE
  /\ UNCHANGED <<main, cancelled, pc, gateVars, dataVars>>

\* backend.Start, splToken.Start, the programs' and the calculators' Start.
Boot ==
  /\ main = "boot"
  /\ main' = "flash"
  /\ hash' = "recv"
  /\ pc' = [p \in Producers |-> IF p \in Early THEN "recv" ELSE pc[p]]
  /\ UNCHANGED <<cancelled, pinger, acct, queue, unseen, quiet, hashq, clogged, gateVars>>

\* The programs' Flash: the account subscriptions and the Serum updaters.
Flash ==
  /\ main = "flash"
  /\ main' = "listen"
  /\ acct' = [r \in Receivers |-> "recv"]
  /\ pc' = [p \in Producers |-> IF p \in Updaters \ Early THEN "recv" ELSE pc[p]]
  /\ UNCHANGED <<cancelled, pinger, queue, unseen, quiet, hashq, hash, clogged, gateVars>>

\* go arb.Tick()
Listen ==
  /\ main = "listen"
  /\ main' = "subscribe"
  /\ tick' = "select"
  /\ UNCHANGED <<cancelled, pinger, pc, status, cause, dataVars>>

\* SubscribeSlot stops at the first client that fails, and Start() ignores it.
SubscribeSlot ==
  /\ main = "subscribe"
  /\ main' = "open"
  /\ \E subscribed \in SUBSET Feeds :
       pc' = [p \in Producers |->
                IF \/ p \in subscribed
                   \/ p \in Tickers /\ FeedOf[p] \in subscribed
                THEN "recv" ELSE pc[p]]
  /\ UNCHANGED <<cancelled, pinger, gateVars, dataVars>>

\* arb.status = Started, a plain store.
OpenGate ==
  /\ main = "open"
  /\ main' = "serve"
  /\ status' = "Started"
  /\ UNCHANGED <<cancelled, pinger, pc, tick, cause, dataVars>>

-----------------------------------------------------------------------------
(* The producers of slots.                                                 *)

\* RecvSlot: a slot arrives, *tt is set; every tenth slot asks for a hash.
RecvSlot(f) ==
  /\ \E refresh \in BOOLEAN : Goto(f, "recv", IF refresh THEN "hash" ELSE "cas")
  /\ quiet' = [quiet EXCEPT ![f] = FALSE]
  /\ UNCHANGED <<acct, queue, unseen, hashq, hash, clogged, gateVars, mainVars>>

\* RecvSlot: backend.updateBlockHash <- got.Slot
AskBlockHash(f) ==
  /\ hashq < HashCap
  /\ Goto(f, "hash", "cas")
  /\ hashq' = hashq + 1
  /\ UNCHANGED <<acct, queue, unseen, quiet, hash, clogged, gateVars, mainVars>>

\* Time passes without a slot.
Elapse(f) ==
  /\ quiet' = [quiet EXCEPT ![f] = TRUE]
  /\ UNCHANGED <<pc, acct, queue, unseen, hashq, hash, clogged, gateVars, mainVars>>

\* AdditionalSlot: the 100 ms ticker fires and swaps *tt.
AdditionalSlot(t) ==
  /\ Goto(t, "recv", IF quiet[FeedOf[t]] THEN "cas" ELSE "recv")
  /\ quiet' = [quiet EXCEPT ![FeedOf[t]] = FALSE]
  /\ UNCHANGED <<acct, queue, unseen, hashq, hash, clogged, gateVars, mainVars>>

\* OnSlotUpdate: one compare-and-swap; the slot is dropped if it fails.
OnSlotUpdate(p) ==
  /\ \/ /\ status = "Started"
        /\ status' = "Pause"
        /\ Goto(p, "cas", "send")
     \/ /\ status # "Started"
        /\ Goto(p, "cas", "recv")
        /\ UNCHANGED status
  /\ UNCHANGED <<tick, cause, dataVars, mainVars>>

\* sub.Recv() fails: RecvSlot sends SIGABRT to the process and returns.
FeedFails(f) ==
  /\ Interrupts
  /\ Goto(f, "recv", "done")
  /\ cancelled' = TRUE
  /\ UNCHANGED <<main, pinger, gateVars, dataVars>>

\* sub.Recv() returns nil after Unsubscribe.
FeedExits(f) ==
  /\ Unsubscribed
  /\ Goto(f, "recv", "done")
  /\ UNCHANGED <<gateVars, dataVars, mainVars>>

\* AdditionalSlot and the updaters select on ctx.Done().
ProducerExits(p) ==
  /\ cancelled
  /\ Goto(p, "recv", "done")
  /\ UNCHANGED <<gateVars, dataVars, mainVars>>

-----------------------------------------------------------------------------
(* The producers of account changes.                                       *)

\* RecvAccount: an account change arrives.
RecvAccount(r) ==
  /\ acct[r] = "recv"
  /\ acct' = [acct EXCEPT ![r] = "push"]
  /\ UNCHANGED <<pc, queue, unseen, quiet, hashq, hash, clogged, gateVars, mainVars>>

\* OnAccountUpdate: p.updateAccounts <- account
OnAccountUpdate(r) ==
  /\ acct[r] = "push"
  /\ queue[Target[r]] < AcctCap
  /\ acct' = [acct EXCEPT ![r] = "recv"]
  /\ queue' = [queue EXCEPT ![Target[r]] = @ + 1]
  /\ UNCHANGED <<pc, unseen, quiet, hashq, hash, clogged, gateVars, mainVars>>

\* RecvAccount fails (SIGABRT) or ends after Unsubscribe.
ReceiverExits(r) ==
  /\ acct[r] = "recv"
  /\ Interrupts \/ Unsubscribed
  /\ acct' = [acct EXCEPT ![r] = "done"]
  /\ cancelled' = TRUE
  /\ UNCHANGED <<main, pinger, pc, queue, unseen, quiet, hashq, hash, clogged, gateVars>>

\* updateAccount: a change that does not parse is skipped; any other is applied
\* and triggers a calculation, or not: when the old balance was 0, when the book
\* has no market, when the program (Serum v1) never calls back.
UpdateAccount(u) ==
  /\ queue[u] > 0
  /\ queue' = [queue EXCEPT ![u] = @ - 1]
  /\ \/ Goto(u, "recv", "recv") /\ UNCHANGED unseen
     \/ /\ unseen' = unseen \cup {u}
        /\ \E notify \in BOOLEAN : Goto(u, "recv", IF notify THEN "spin" ELSE "recv")
  /\ UNCHANGED <<acct, quiet, hashq, hash, clogged, gateVars, mainVars>>

\* OnBalanceUpdate, OnStateUpdate: the iteration of the loop that succeeds (one
\* that fails changes nothing).
OnBalanceUpdate(u) ==
  /\ status = "Started"
  /\ status' = "Pause"
  /\ Goto(u, "spin", "send")
  /\ UNCHANGED <<tick, cause, dataVars, mainVars>>

-----------------------------------------------------------------------------
(* Tick() and CacheRecentBlockHash().                                      *)

\* info := <-arb.trade: a rendezvous with p; arb.try(info) begins.
Take(p) ==
  /\ tick = "select"
  /\ Goto(p, "send", "recv")
  /\ tick' = "try"
  /\ cause' = p
  /\ unseen' = {}
  /\ UNCHANGED <<status, acct, queue, quiet, hashq, hash, clogged, mainVars>>

\* arb.try(info) has returned, all that it had to send sent; status is stored.
Release ==
  /\ tick = "try"
  /\ tick' = "select"
  /\ cause' = NoOne
  /\ status' = "Started"
  /\ UNCHANGED <<pc, dataVars, mainVars>>

\* arb.try(info) has found something and sends it to the executors (Commit) and to
\* the notifier (Notify.Commit): on a clogged channel it blocks, and for ever.
Post ==
  /\ tick = "try"
  /\ clogged # {}
  /\ tick' = "post"
  /\ UNCHANGED <<status, cause, pc, dataVars, mainVars>>

TickExits ==
  /\ tick = "select"
  /\ cancelled
  /\ tick' = "done"
  /\ UNCHANGED <<status, cause, pc, dataVars, mainVars>>

\* CacheRecentBlockHash takes a slot and refreshes the window of hashes.
RefreshBlockHash ==
  /\ hash = "recv"
  /\ hashq > 0
  /\ hashq' = hashq - 1
  /\ UNCHANGED <<pc, acct, queue, unseen, quiet, hash, clogged, gateVars, mainVars>>

RefresherExits ==
  /\ hash = "recv"
  /\ cancelled
  /\ hash' = "done"
  /\ UNCHANGED <<pc, acct, queue, unseen, quiet, hashq, clogged, gateVars, mainVars>>

\* The executors of a client, or the notifier, have returned on ctx.Done() and the
\* messages that wait fill the channel.
Clog(k) ==
  /\ cancelled
  /\ clogged' = clogged \cup {k}
  /\ UNCHANGED <<pc, acct, queue, unseen, quiet, hashq, hash, gateVars, mainVars>>

-----------------------------------------------------------------------------
(* Cancellation and Stop().                                                *)

\* main.shutdown(): a signal cancels ctx.
Interrupt ==
  /\ Interrupts
  /\ ~cancelled
  /\ cancelled' = TRUE
  /\ UNCHANGED <<main, pinger, pc, gateVars, dataVars>>

\* <-arb.ctx.Done(), arb.StopRPC()
BeginStop ==
  /\ main = "serve"
  /\ cancelled
  /\ main' = "netstop"
  /\ UNCHANGED <<cancelled, pinger, pc, gateVars, dataVars>>

\* nd.Stop() dereferences nd.pinger.
StopDetector ==
  /\ main = "netstop"
  /\ main' = IF pinger THEN "unsubscribe" ELSE "panicked"
  /\ UNCHANGED <<cancelled, pinger, pc, gateVars, dataVars>>

\* backend.Stop(): unsubscribe everything ...
Unsubscribe ==
  /\ main = "unsubscribe"
  /\ main' = "drain"
  /\ UNCHANGED <<cancelled, pinger, pc, gateVars, dataVars>>

\* ... and backend.wg.Wait().
WaitBackend ==
  /\ main = "drain"
  /\ \A p \in SlotSources : pc[p] \in {"off", "done"}
  /\ \A r \in Receivers : acct[r] \in {"off", "done"}
  /\ hash = "done"
  /\ main' = "join"
  /\ UNCHANGED <<cancelled, pinger, pc, gateVars, dataVars>>

\* arb.wg.Wait(), the Stop() of the other parts, arb.status = Stopped.
WaitTick ==
  /\ main = "join"
  /\ tick = "done"
  /\ main' = "stopped"
  /\ status' = "Stopped"
  /\ UNCHANGED <<cancelled, pinger, pc, tick, cause, dataVars>>

-----------------------------------------------------------------------------
StartUp == SetPinger \/ Boot \/ Flash \/ Listen \/ SubscribeSlot \/ OpenGate
Stop == Interrupt \/ BeginStop \/ StopDetector \/ Unsubscribe \/ WaitBackend \/ WaitTick
Feed(f) == RecvSlot(f) \/ AskBlockHash(f) \/ Elapse(f) \/ FeedFails(f) \/ FeedExits(f)
Receiver(r) == RecvAccount(r) \/ OnAccountUpdate(r) \/ ReceiverExits(r)
Update(u) == UpdateAccount(u) \/ OnBalanceUpdate(u) \/ ProducerExits(u)
Serve == (\E p \in Producers : Take(p)) \/ Post \/ Release \/ TickExits
Refresher == RefreshBlockHash \/ RefresherExits

EngineNext ==
  /\ Alive
  /\ \/ StartUp
     \/ Stop
     \/ Serve
     \/ Refresher
     \/ \E k \in Sinks : Clog(k)
     \/ \E f \in Feeds : Feed(f)
     \/ \E t \in Tickers : AdditionalSlot(t) \/ ProducerExits(t)
     \/ \E p \in SlotSources : OnSlotUpdate(p)
     \/ \E r \in Receivers : Receiver(r)
     \/ \E u \in Updaters : Update(u)

(***************************************************************************)
(* Fairness.  Every goroutine that can run does run: weak fairness of its  *)
(* steps, except of what the network decides (a slot or an account change  *)
(* arrives, the ping resolves) and of the signals.  Strong fairness where  *)
(* the code tries again and again: the loop around the compare-and-swap    *)
(* polls without pause while the gate is shut for the length of one        *)
(* calculation, and Go's select and sub.Recv() choose uniformly between    *)
(* the end of the goroutine and its next message.                          *)
(***************************************************************************)
Do(A) == Alive /\ A

MainStep ==
  \/ Boot \/ Flash \/ Listen \/ SubscribeSlot \/ OpenGate
  \/ BeginStop \/ StopDetector \/ Unsubscribe \/ WaitBackend \/ WaitTick

\* Each of these goroutines returns once, so that strong fairness of all of them
\* together is strong fairness of each.
Leaving ==
  \/ \E t \in Tickers : ProducerExits(t)
  \/ \E f \in Feeds : FeedExits(f)
  \/ \E r \in Receivers : Unsubscribed /\ ReceiverExits(r)

Fairness ==
  /\ WF_engineVars(Do(MainStep))
  /\ WF_engineVars(Do(Release \/ \E p \in Producers : Take(p))) /\ WF_engineVars(Do(TickExits))
  /\ WF_engineVars(Do(RefreshBlockHash)) /\ WF_engineVars(Do(RefresherExits))
  /\ \A f \in Feeds :
       WF_engineVars(Do(AskBlockHash(f) \/ OnSlotUpdate(f))) /\ WF_engineVars(Do(Elapse(f)))
  /\ \A t \in Tickers : WF_engineVars(Do(AdditionalSlot(t) \/ OnSlotUpdate(t)))
  /\ \A r \in Receivers : WF_engineVars(Do(OnAccountUpdate(r)))
  /\ \A u \in Updaters :
       /\ WF_engineVars(Do(UpdateAccount(u))) /\ WF_engineVars(Do(ProducerExits(u)))
       /\ SF_engineVars(Do(OnBalanceUpdate(u)))
  /\ SF_engineVars(Do(Leaving))

SafeSpec == EngineInit /\ [][EngineNext]_engineVars
EngineSpec == SafeSpec /\ Fairness

-----------------------------------------------------------------------------
(* Properties.                                                             *)

Owners == {p \in Producers : pc[p] = "send"}

EngineTypeOK ==
  /\ status \in Statuses
  /\ main \in Mains
  /\ cancelled \in BOOLEAN
  /\ pinger \in BOOLEAN
  /\ pc \in [Producers -> PCs]
  /\ acct \in [Receivers -> {"off", "recv", "push", "done"}]
  /\ queue \in [Updaters -> 0..AcctCap]
  /\ unseen \subseteq Updaters
  /\ quiet \in [Feeds -> BOOLEAN]
  /\ hashq \in 0..HashCap
  /\ hash \in {"off", "recv", "done"}
  /\ clogged \subseteq Sinks
  /\ tick \in {"off", "select", "try", "post", "done"}
  /\ cause \in Producers \cup {NoOne}

\* The gate has at most one owner: never two goroutines past their
\* compare-and-swap (OnSlotUpdate, OnBalanceUpdate), none while a calculation
\* runs, and status is Pause exactly while there is an owner, so that the plain
\* stores of Start(), Tick() and Stop() never reopen a gate that is owned.
GateExclusive ==
  /\ \A p, q \in Owners : p = q
  /\ Calculating => Owners = {}
  /\ status = "Pause" => Owners # {} \/ Calculating
  /\ Owners # {} \/ Calculating => status \in {"Pause", "Stopped"}

(***************************************************************************)
(* The engine implements the gate of TriggerGate.  The owner is the        *)
(* goroutine that sends on trade, then the one whose trigger Tick works    *)
(* on.                                                                     *)
(***************************************************************************)
Phase ==
  CASE status = "Init" -> "shut"
    [] status = "Started" -> "free"
    [] status = "Pause" -> IF Calculating THEN "running" ELSE "taken"
    [] status = "Stopped" -> "closed"

Sole(S) == CHOOSE p \in S : TRUE

Owner ==
  CASE Phase = "taken" -> Sole(Owners)
    [] Phase = "running" -> cause
    [] OTHER -> NoOne

Gate == INSTANCE TriggerGate WITH phase <- Phase, owner <- Owner

\* Every step of the engine is a step of the gate or leaves it alone: status,
\* the channel trade and Tick together take one trigger at a time and make one
\* calculation for it (OnSlotUpdate, OnBalanceUpdate, OnStateUpdate, Tick).
GateSpec == Gate!Spec

\* OnBalanceUpdate and OnStateUpdate do not drop: an account change that
\* triggers is answered by a calculation of its own, unless ctx is cancelled.
UpdateAnswered ==
  \A u \in Updaters :
    pc[u] = "spin" ~> (Calculating /\ cause = u) \/ cancelled

\* Has SubscribeSlot left the engine without any AdditionalSlot?
NoBeat == main \in {"open", "serve"} /\ \A t \in Tickers : pc[t] = "off"

\* A change that does not trigger (the old balance was 0), or that is applied in
\* the middle of a calculation, is still followed by a calculation that starts
\* after it, because AdditionalSlot keeps the engine calculating when the slot
\* feed is silent.
ChangeCalculated ==
  \A u \in Updaters : u \in unseen ~> u \notin unseen \/ cancelled \/ NoBeat

\* The goroutines that block for ever once ctx is cancelled: a slot goroutine
\* that owns the gate after Tick returned, a RecvSlot whose updateBlockHash is
\* full after CacheRecentBlockHash returned, a RecvAccount whose updateAccounts
\* is full while its updater has returned or does not get through the gate, and a
\* calculation whose executors, or the notifier, have returned from a full channel.
StuckSlot == tick = "done" /\ \E p \in SlotSources : pc[p] = "send"
StuckHash == hash = "done" /\ hashq = HashCap /\ \E f \in Feeds : pc[f] = "hash"
StuckReceiver ==
  \E r \in Receivers :
    /\ acct[r] = "push"
    /\ queue[Target[r]] = AcctCap
    /\ \/ pc[Target[r]] = "done"
       \/ tick = "done" /\ pc[Target[r]] \in {"spin", "send"}
StuckPost == tick = "post"

\* Stop() returns, or panics in nd.Stop(), unless one of those four holds it.
StopBlockedOnlyBy ==
  cancelled ~> ~Alive \/ StuckSlot \/ StuckHash \/ StuckReceiver \/ StuckPost

\* monitor.sh restarts the trader when the process is gone, so that a cancelled
\* process must end.
ProcessEnds == cancelled ~> ~Alive

=============================================================================
