------------------------------- MODULE TpuProxy -------------------------------
(***************************************************************************)
(* How transactions reach the leaders.  A proxy follows the slots, asks    *)
(* the leader schedule for the leaders from Past slots ago to Upcoming     *)
(* slots ahead, and keeps a connection to each.  Both proxies do this in   *)
(* the same way.  "Proxy1", of the trader, sends a transaction once and    *)
(* Bomb times more; "Proxy", of the sender service, caches transactions    *)
(* and sends each of them again and again, until it has landed, until it   *)
(* is too old, or because newer ones have no place.                        *)
(***************************************************************************)
EXTENDS Integers, Sequences, FiniteSets

CONSTANTS
  Leaders,      \* the validators, each with one TPU address
  Schedule,     \* the leader of each slot
  Past, Upcoming, Every,  \* 5, 60, and 5: what is looked at, and how often
  FirstSlot,    \* the slot at which the program starts: far beyond 2 * Upcoming
  FreshCap,     \* capacity of newFresh (1024)
  NWorkers, Bomb,  \* the goroutines of Proxy1 (8), and the extra rounds
  MaxUnsent,    \* so many waiting transactions are looked at by Proxy (8)
  MaxAge,       \* it gives up those that are older (2 s)
  Skew,         \* the clock of the trader may be ahead by this much
  LastSlot, LastTime, MaxCommands  \* bounds, by kind of proxy

Kinds == {"Proxy1", "Proxy"}
\* The slots a proxy may look at.
Slots == 0 .. LastSlot["Proxy1"] + LastSlot["Proxy"] + Upcoming

ASSUME TpuAssumption ==
  /\ Past \in Nat /\ Upcoming \in Nat /\ Past < Upcoming /\ Every \in Nat \ {0}
  /\ FirstSlot \in Nat /\ FirstSlot > 2 * Upcoming
  /\ FreshCap \in Nat \ {0} /\ NWorkers \in Nat /\ Bomb \in Nat
  /\ MaxUnsent \in Nat \ {0} /\ MaxAge \in Nat /\ Skew \in Nat
  /\ LastSlot \in [Kinds -> Nat] /\ LastTime \in [Kinds -> Nat] /\ MaxCommands \in [Kinds -> Nat]
  /\ \A k \in Kinds : FirstSlot <= LastSlot[k]
  /\ \A s \in Slots : Schedule[s] \in Leaders

VARIABLES
  kind,       \* which of the two proxies it is
  slot,       \* the newest slot
  latest,     \* latestSlots
  curSlot,
  round,      \* what refresh() does: the next slot and the leaders found, or Idle
  missed,     \* history: the slots this round has no leader for
  settled,    \* history: whether this round is close to one that has all it looked at
  tpuConns,   \* the leaders there is a connection to
  known,      \* the slots in lss.leaders
  firstSlot,
  newFresh,
  asking,     \* the slot fetchLeaders works on, or None
  nodes,      \* the leaders whose address is in availableNodes
  now,        \* the time
  commands,   \* how many were committed
  transactions,  \* the channel of that name
  worker,     \* Proxy1: what the goroutines send, and where to
  cache, status, txSub,  \* Proxy: the cache, what has landed, the subscriptions
  cut         \* history, Proxy: what fell out of the cache because others wait

vars == <<kind, slot, latest, curSlot, round, missed, settled, tpuConns, known, firstSlot,
          newFresh, asking, nodes, now, commands, transactions, worker, cache, status, txSub,
          cut>>
refreshing == <<curSlot, round, missed, settled, tpuConns>>
schedule == <<known, firstSlot, newFresh, asking>>
cached == <<cache, status, txSub, cut>>
sendings == <<now, commands, transactions, worker, cached>>

None == -1
Idle == [at |-> "idle"]
MinOf(S) == CHOOSE x \in S : \A y \in S : x <= y
MaxOf(S) == CHOOSE x \in S : \A y \in S : y <= x

GetCheckPoint == firstSlot + 2 * Upcoming

\* The slots a round looks at.
Window(s) == s - Past .. s + Upcoming - 1

\* Proxy: t - Id is unsigned, so that a time to come is too old as well.
InTime(tx) == tx.id <= now /\ now - tx.id <= MaxAge

\* How much of the cache the first loop of send() looks at: up to the MaxUnsent-th
\* of those that wait.
Waiting(c) == {i \in DOMAIN c : InTime(c[i]) /\ c[i].n \notin status}
\* (Faulty: the limit counts the cache and not what waits.)
LookedByLength(c) == {i \in DOMAIN c : i <= MaxUnsent}
Looked(c) ==
  LET full == {i \in Waiting(c) : Cardinality({j \in Waiting(c) : j <= i}) = MaxUnsent}
  IN IF full = {} THEN DOMAIN c ELSE 1 .. MinOf(full)

\* What it keeps: from the first to the last that is in time.
Kept(c) ==
  LET young == {i \in Looked(c) : InTime(c[i])}
  IN IF young = {} THEN <<>> ELSE SubSeq(c, MinOf(young), MaxOf(young))

Numbers(c) == {c[i].n : i \in DOMAIN c}
\* (Faulty: what is in time is kept and the rest left out, its subscription too.)
ExpiredFirst(c) == {c[i].n : i \in {j \in Looked(c) : j = 1 /\ ~InTime(c[j])}}
Expired(c) == {c[i].n : i \in {j \in Looked(c) : ~InTime(c[j])}}

-----------------------------------------------------------------------------
(* Faulty variants of some of the definitions below, which show that the   *)
(* properties tell them from the code.  No specification uses them.        *)

\* The leaders are fetched between two rounds.
TakeFreshBetween ==
  /\ round = Idle
  /\ asking = None /\ newFresh # <<>>
  /\ asking' = MinOf({newFresh[i] : i \in DOMAIN newFresh})
  /\ newFresh' = <<>>
  /\ UNCHANGED <<kind, slot, latest, refreshing, known, firstSlot, nodes, sendings>>

\* No more leaders are fetched than up to the check point.
FetchLeadersShort ==
  LET first == asking - Past
  IN /\ asking # None
     /\ known' = known \cup (first .. first + 2 * Upcoming - 1)
     /\ firstSlot' = first
     /\ asking' = None
     /\ UNCHANGED <<kind, slot, latest, refreshing, newFresh, nodes, sendings>>

-----------------------------------------------------------------------------
Init ==
  /\ kind \in Kinds
  /\ slot = FirstSlot /\ latest = <<>> /\ curSlot = 0 /\ round = Idle
  /\ missed = {} /\ settled = FALSE /\ tpuConns = {}
  /\ known = {} /\ firstSlot = 0 /\ newFresh = <<>> /\ asking = None /\ nodes = {}
  /\ now = 0 /\ commands = 0 /\ transactions = <<>>
  /\ worker = [w \in 1 .. NWorkers |-> Idle]
  /\ cache = <<>> /\ status = {} /\ txSub = {} /\ cut = {}

-----------------------------------------------------------------------------
(* The chain: slots are notified in their order.                           *)

NewSlot ==
  /\ slot < LastSlot[kind]
  /\ slot' = slot + 1
  /\ latest' = IF slot' % Every = 0 THEN Append(latest, slot') ELSE latest
  /\ UNCHANGED <<kind, refreshing, schedule, nodes, sendings>>

-----------------------------------------------------------------------------
(* refreshConnection and refresh().                                        *)

\* The newest slot that waits; slot - curSlot is unsigned.  The round is settled
\* when by now the leaders of all the slots of the last one are known, none of them
\* behind the check point, and it is less than Upcoming slots since.
StartRound ==
  LET s == latest[Len(latest)]
      skip == s >= curSlot /\ s - curSlot < Every
  IN /\ round = Idle /\ latest # <<>>
     /\ latest' = <<>>
     /\ curSlot' = IF skip THEN curSlot ELSE s
     /\ round' = IF skip THEN Idle ELSE [at |-> s - Past, found |-> {}]
     /\ missed' = IF skip THEN missed ELSE {}
     /\ settled' = IF skip THEN settled
                   ELSE /\ curSlot # 0 /\ Window(curSlot) \subseteq known
                        /\ curSlot + Upcoming - 1 <= GetCheckPoint
                        /\ s - curSlot < Upcoming
     /\ UNCHANGED <<kind, slot, tpuConns, schedule, nodes, sendings>>

\* GetSlotLeader: a slot beyond the check point is asked for, then looked up.
Lookup ==
  LET s == round.at
  IN /\ round # Idle /\ s < curSlot + Upcoming
     /\ s > GetCheckPoint => Len(newFresh) < FreshCap
     /\ newFresh' = IF s > GetCheckPoint THEN Append(newFresh, s) ELSE newFresh
     /\ round' = [at |-> s + 1,
                  found |-> IF s \in known THEN round.found \cup {Schedule[s]} ELSE round.found]
     /\ missed' = IF s \in known THEN missed ELSE missed \cup {s}
     /\ UNCHANGED <<kind, slot, latest, curSlot, settled, tpuConns, known, firstSlot, asking, nodes, sendings>>

\* Leaders without an address, and those the dial or the first write fails for, are
\* left out.  The connections to the others are forgotten, not closed.
Connect ==
  /\ round # Idle /\ round.at = curSlot + Upcoming
  /\ \E down \in SUBSET (round.found \cap nodes) : tpuConns' = (round.found \cap nodes) \ down
  /\ round' = Idle
  /\ UNCHANGED <<kind, slot, latest, curSlot, missed, settled, schedule, nodes, sendings>>

-----------------------------------------------------------------------------
(* LeaderScheduleService and AvailableNodesService.                        *)

TakeFresh ==
  /\ asking = None /\ newFresh # <<>>
  /\ asking' = MinOf({newFresh[i] : i \in DOMAIN newFresh})
  /\ newFresh' = <<>>
  /\ UNCHANGED <<kind, slot, latest, refreshing, known, firstSlot, nodes, sendings>>

FetchLeaders ==
  LET first == asking - Past
  IN /\ asking # None
     /\ known' = known \cup (first .. first + 3 * Upcoming - 1)
     /\ firstSlot' = first
     /\ asking' = None
     /\ UNCHANGED <<kind, slot, latest, refreshing, newFresh, nodes, sendings>>

\* No client answers: nothing changes, the next round asks again.
FetchFails ==
  /\ asking # None
  /\ asking' = None
  /\ UNCHANGED <<kind, slot, latest, refreshing, known, firstSlot, newFresh, nodes, sendings>>

\* Addresses are added, every five minutes; those that have gone stay.
FetchAvailableNodes ==
  /\ \E found \in SUBSET Leaders : nodes' = nodes \cup found
  /\ UNCHANGED <<kind, slot, latest, refreshing, schedule, sendings>>

-----------------------------------------------------------------------------
(* CommitTransaction; a command of Proxy comes from another machine.       *)

CommitTransaction ==
  /\ commands < MaxCommands[kind]
  /\ commands' = commands + 1
  /\ \E id \in 0 .. now + Skew :
       transactions' = Append(transactions, [n |-> commands + 1, id |-> id])
  /\ UNCHANGED <<kind, slot, latest, refreshing, schedule, nodes, now, worker, cached>>

Tick ==
  /\ now < LastTime[kind]
  /\ now' = now + 1
  /\ UNCHANGED <<kind, slot, latest, refreshing, schedule, nodes, commands, transactions, worker, cached>>

-----------------------------------------------------------------------------
(* Proxy1: the goroutine copies the map and writes to its connections.     *)

TakeTx(w) ==
  /\ kind = "Proxy1" /\ worker[w] = Idle /\ transactions # <<>>
  /\ transactions' = Tail(transactions)
  /\ worker' = [worker EXCEPT ![w] = [tx |-> Head(transactions), to |-> tpuConns, again |-> Bomb]]
  /\ UNCHANGED <<kind, slot, latest, refreshing, schedule, nodes, now, commands, cached>>

\* One round over the connections; what fails is logged.
SendRound(w) ==
  /\ worker[w] # Idle
  /\ worker' = [worker EXCEPT ![w] = IF @.again = 0 THEN Idle
                                         ELSE [worker[w] EXCEPT !.again = worker[w].again - 1]]
  /\ UNCHANGED <<kind, slot, latest, refreshing, schedule, nodes, now, commands, transactions, cached>>

-----------------------------------------------------------------------------
(* Proxy: one goroutine, woken by a command or by a ticker.  A             *)
(* subscription may fail and is tried again at the next send.              *)

Send ==
  LET all == cache \o transactions
      kept == Kept(all)
      due == {kept[i].n : i \in Waiting(kept)}
  IN /\ kind = "Proxy"
     /\ transactions' = <<>>
     /\ cache' = kept
     /\ \E refused \in {{}, due} : txSub' = (txSub \ Expired(all)) \cup (due \ refused)
     /\ cut' = cut \cup {all[i].n : i \in DOMAIN all \ Looked(all)}
     /\ UNCHANGED <<kind, slot, latest, refreshing, schedule, nodes, now, commands, worker, status>>

\* recvTx: the cluster has seen the transaction.
Landed(n) ==
  /\ kind = "Proxy" /\ n \in txSub /\ n \notin status
  /\ status' = status \cup {n}
  /\ UNCHANGED <<kind, slot, latest, refreshing, schedule, nodes, now, commands, transactions,
                 worker, cache, txSub, cut>>

-----------------------------------------------------------------------------
RefreshConnection == StartRound \/ Lookup \/ Connect
RefreshSlotLeaders == TakeFresh \/ FetchLeaders \/ FetchFails
SendTransaction(w) == TakeTx(w) \/ SendRound(w)

Next ==
  \/ NewSlot \/ RefreshConnection \/ RefreshSlotLeaders \/ FetchAvailableNodes
  \/ CommitTransaction \/ Tick
  \/ \E w \in 1 .. NWorkers : SendTransaction(w)
  \/ Send
  \/ \E n \in 1 .. commands : Landed(n)

SafeSpec == Init /\ [][Next]_vars

(***************************************************************************)
(* Fairness: the goroutines run, and a request to a node returns, with an  *)
(* answer or an error.                                                     *)
(***************************************************************************)
Spec ==
  /\ SafeSpec
  /\ WF_vars(RefreshConnection) /\ WF_vars(RefreshSlotLeaders)
  /\ \A w \in 1 .. NWorkers : WF_vars(SendTransaction(w))

-----------------------------------------------------------------------------
(* Properties.                                                             *)

Commands == [n : 1 .. MaxCommands[kind], id : 0 .. LastTime[kind] + Skew]

TypeOK ==
  /\ kind \in Kinds
  /\ slot \in FirstSlot .. LastSlot[kind] /\ latest \in Seq(FirstSlot .. LastSlot[kind])
  /\ curSlot \in {0} \cup FirstSlot .. LastSlot[kind]
  /\ round \in {Idle} \cup [at : Nat, found : SUBSET Leaders]
  /\ missed \subseteq Nat /\ settled \in BOOLEAN
  /\ nodes \in SUBSET Leaders /\ tpuConns \in SUBSET nodes
  /\ known \subseteq Nat /\ firstSlot \in Nat
  /\ newFresh \in Seq(Nat) /\ Len(newFresh) <= FreshCap /\ asking \in Nat \cup {None}
  /\ now \in 0 .. LastTime[kind] /\ commands \in 0 .. MaxCommands[kind]
  /\ transactions \in Seq(Commands) /\ cache \in Seq(Commands)
  /\ worker \in [1 .. NWorkers -> {Idle} \cup [tx : Commands, to : SUBSET Leaders, again : 0 .. Bomb]]
  /\ status \subseteq 1 .. commands /\ txSub \subseteq 1 .. commands /\ cut \subseteq 1 .. commands

\* From a round whose leaders are all known when the next one starts, on slots that
\* went on less than Upcoming, that one finds the leader of every slot too, whether
\* or not anything was asked for in between: the check point is early enough, and
\* what is fetched reaches far enough back and lasts for long enough, also when
\* requests of two rounds are answered as one and some came to nothing before.
NoLeaderMissed == settled => missed = {}

\* What is subscribed to is in the cache, or fell out of it because others wait: a
\* subscription does not outlive its transaction.
SubscribedIsCached == txSub \subseteq Numbers(cache) \cup cut

\* The service lets a transaction go because it has landed, because of its time
\* (which may be too old or, with a clock that is ahead, to come), or because
\* MaxUnsent others that came before it wait to land.
LeavesForReason ==
  [][kind = "Proxy" =>
       LET all == cache \o transactions
       IN \A i \in DOMAIN all :
            all[i].n \notin Numbers(cache' \o transactions') =>
              \/ all[i].n \in status \/ ~InTime(all[i])
              \/ Cardinality({j \in Waiting(all) : j < i}) >= MaxUnsent]_vars

\* A round of refresh comes to its end, although its requests fill a channel that is
\* only emptied between two requests to nodes that may fail.
RoundEnds == []<>(round = Idle)

\* Proxy1 takes every transaction, whatever its connections are: Commit is not held
\* up by the proxy.
TransactionsTaken == []<>(kind = "Proxy1" => transactions = <<>>)

\* The tables of the proxy are well-formed, and what is subscribed to is in its cache.
CacheSound == TypeOK /\ SubscribedIsCached

\* The proxy goes on: rounds end, and transactions are taken.
GoesOn == RoundEnds /\ TransactionsTaken
=============================================================================
