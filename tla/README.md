# A verification project for solana-arbitrage

The program watches token accounts, liquidity pools and order books of Solana,
searches cyclic trades whose output exceeds their input, and sends a
transaction for the ones it finds, directly to the validators that are about to
produce blocks. This directory holds TLA+ models of its core, the TLC runs that
check them on small instances and TLAPS proofs for instances of any size.
Paths below are relative to the repository (`src/` in PROJECT.json).

## 1. The system

| part | state it keeps | operations | interacts with |
|---|---|---|---|
| engine, `arbitrage/app/arbitrage.go` | `status`, the channel `trade`, `cache` per path, the cancelled `ctx` | `Service`, `Start`, `Stop`, `Tick`, `OnSlotUpdate`, `OnBalanceUpdate`, `OnStateUpdate`, `OnArbitrage`, `Arbitrage` | called back by the backend and the programs; calls the calculators and `backend.Commit` |
| entry point, `arbitrage/main.go` | the signal channel | node selection, `shutdown` | cancels `ctx` |
| subscriptions, `backend/slotsubscribe.go`, `accountsubscribe.go` | one goroutine (two for slots) per websocket client and account | `RecvSlot`, `AdditionalSlot`, `RecvAccount` | fill `updateBlockHash` and the `updateAccounts` of the programs, call the engine |
| block hashes, `backend/blockhash.go` | a window of three hashes under a spin lock, the index of the RPC client | `CacheRecentBlockHash`, `GetRecentBlockHash` | fed by `RecvSlot`, read by the executors |
| executors, `backend/execute.go` | channels `commandChans`, `commandData`; one TCP connection per sender | `Commit`, `Executor`, `Execute`, `sender` | engine to sender service and TPU proxy |
| SPL token accounts, `spltoken/program.go` | the table `users`, channel `updateAccounts` | `RetrieveUsers`, `update`, `upsertUser` | triggers the engine |
| Serum, `serumv1/`, `serumv2/` | order books, five best prices per side | `buildModels`, `update`, `updateAccount`, slab traversal, `Local` | triggers the engine (v2) |
| pools, `orca/`, `tokenswap/`, `raydium/`, `saber/` | pools and the models built from them | `buildModels`, `Local`, `ArbitrageStep` | read by the calculators |
| calculators, `calculator/` | the graph of tokens and models, the list of cyclic paths | `AddModel`, `Start`, `Calculate` | called by `Tick`, call `OnArbitrage` |
| TPU side, `solana_sender/` | leader schedule, available nodes, connections per leader | `refreshConnection`, `Send`, `CommitTransaction`, message `Encode`/`Decode`, TCP framing | own process, or a library of the backend |
| network detector, `networkdetect/` | `pinger`, averages | `Start`, `ping`, `Stop` | started and stopped by the engine |
| tables, `env/`, `config/`, `program/`, `system/` | read-only JSON data | lookups | everybody |
| persistence, `store/` | database | `Store*` | never started: `arb.store` stays nil |
| listeners, `balancelisten/`, `statelisten/`, notifications | tickers, a channel of 32 | dumps and chat messages | read the programs |
| other mains (`random_*`, `config_serum_orca`, `marketmaker*`, `marketanalysis`, `tools`) | variants of the engine with fixed paths | as the engine | the same backend |

What is hard here:

* *Concurrency.* A dozen kinds of goroutine share `status`, `trade`, the tables
  of accounts and the window of hashes with compare-and-swap loops, plain
  stores and unbuffered channels.
* *Shutdown.* Only some sends and receives watch `ctx.Done()`, and `Stop()`
  waits for the rest.
* *Lost and repeated work.* Slots are dropped while a calculation runs, changes
  are delivered once per client, commits are limited per path and minute.
* *Time.* Hashes expire, pending sends expire, leaders change every four slots,
  and the arithmetic on slots is unsigned.

The hazards that a property can be about are in PROJECT.json, at their lines.

## 2. The modules

A run checks groups of related properties as one: `TableSound` is the conjunction
of the properties that its table names in parentheses, each stated on its own in
the module. Eight modules hold the proofs: EngineProofs those about TradeGate
and PathSearch, SendingProofs those about BlockHashes and Commits, and
AccountFeedProofs, DeliveryProofs, TpuProxyProofs, TradersProofs, SerumProofs and
PoolsProofs those about the module they are named after. In each the constants
are arbitrary values that satisfy the assumptions of the model, the type
invariant is a theorem or part of one, and `IInv` (`EngineInv` for TradeGate) is
the inductive invariant. Every safety property of a run is a theorem but
`CurvesSound` of Pools, of which a part is; the liveness properties are TLC's.

Where a proof needs induction over numbers, it argues with sets of numbers: a
set of naturals that is not empty has a least member (`LeastNumber`, from the
well-founded order of the library), hence a set that has 0 and with every number
the next one has all of them (`Upward`), and hence a recursion has a function
(`Recursion`).

### TradeGate: the engine's gate, start and stop

`status` is a gate: a goroutine that changes it from `Started` to `Pause` by a
compare-and-swap owns the gate and sends on `trade`; `Tick` receives,
calculates and stores `Started`. Slot goroutines (`RecvSlot`, and
`AdditionalSlot`, which stands in for a silent feed) drop their trigger when the
gate is shut; the goroutines that apply account changes spin until they win.

| model | code |
|---|---|
| `status`, `tick`, `pc` | `arb.status`, where `Tick` and every goroutine that may trigger are |
| `main` | the line of `Service`, `Start` and `Stop` |
| `cancelled` | `ctx` is done (`shutdown` in main.go, or SIGABRT sent by a failed receive) |
| `pinger` | `nd.pinger` is not nil |
| `queue`, `acct` | the channels `updateAccounts` and the goroutines `RecvAccount` |
| `hashq`, `hash` | the channel `updateBlockHash` and `CacheRecentBlockHash` |
| `quiet` | `*tt` of a feed is at least 90 ms old |
| `clogged` | the sinks of a calculation whose readers have returned and whose channel is full: `commandChans[i]` and `notify.data` |
| `unseen`, `cause` | history variables: changes that no calculation has started after, and the goroutine `Tick` works for |

There is one action per step that another goroutine can observe: a receive, a
send, a compare-and-swap, a store. `Take` is the rendezvous of the unbuffered
channel. `updateAccount` is one action with the choice the code makes from the
account's contents: it does not parse, it triggers, or it does not. What a
calculation computes is not in this module, but that it sends what it finds is:
`Commit` sends to `commandChans` and the notifier's `Commit` to `notify.data`,
whose readers return on `ctx.Done()`. From then on a send can fill such a channel
(`Clog`), and the next one blocks for ever (`Post`, `tick = "post"`). While they
run, the executors and the notifier come back to their channel, for RPC and chat
calls return, so that a send only waits. The senders and the TPU proxy, to which `Commit` gives
commands as well, read for ever.

`TriggerGate` is the abstract specification: triggers are taken one at a time
and each leads to one calculation, for the goroutine that triggered. TradeGate
implements it with `phase` read off `status` and `tick`, and `owner` the
goroutine at its send, then `cause`.

### The runs of TradeGate

| run | question | bounds |
|---|---|---|
| `gate_safety` | `EngineTypeOK`, `GateExclusive`, refinement of TriggerGate, and `StopBlockedOnlyBy` once ctx is cancelled | one client (feed and ticker), one updater, one receiver, one sink, capacities 1, failures and signals at any time |
| `gate_live` | `UpdateAnswered` and `ChangeCalculated` while the process runs | one client, two updaters with a receiver each, no signals, the deadlock check on |
| `gate_hang` | refutes `ProcessEnds` | one client, network detector on, room in every channel, no sinks |

Every shipped configuration has one usable client. A feed, its ticker and an
updater are what can race for the gate; more clients and goroutines are in the
proofs. One sink stands for all, since the first that is clogged holds the
calculation. The channels hold 1024 entries in the code and 1 here: full and empty
are the cases that matter. `gate_hang` uses a larger hash channel, so that the
blocking it shows is not a full channel. `gate_safety` and `gate_hang` switch the
deadlock check off because the process ends in them.

Fairness: every goroutine that can run runs (weak fairness of its steps); a
calculation ends unless a clogged channel holds it; the network and the signals
owe nothing. The compare-and-swap loop of
`OnBalanceUpdate` gets strong fairness: it polls without pause while the gate
reopens after every calculation, which is what the code relies on and nothing
in it enforces. `select` chooses among its ready cases at random, so that a
ticker or a feed is not kept from its exit for ever (strong fairness of the
exits).

One run ends in a counterexample: in `gate_hang`, after the cancellation, `Tick`
returns at once. A `RecvSlot` or `AdditionalSlot` that has just won the gate
then waits for ever for a receiver on `trade`, `backend.wg.Wait()` waits for it,
and the process stays. The first signal was consumed and later ones are ignored,
so that only SIGKILL ends it, and `monitor.sh` sees a program that is running.

`Stop()` also calls `nd.Stop()` when the detector was never started, and
dereferences nil: with the detector off, as in the shipped configurations, the
process ends by a panic before `save2Cache()`. The module has this outcome.

`StopBlockedOnlyBy` says what else there is: apart from the panic, only four sends
can hold `Stop()`: on `trade` (`StuckSlot`), on a full `updateBlockHash`
(`StuckHash`), on a full `updateAccounts` (`StuckReceiver`), and those of a calculation
on a full `commandChans[i]` or `notify.data` (`StuckPost`).

### EngineProofs, about TradeGate

For any sets of clients, updaters and receivers and any capacities, from
`ConstAssumption` alone:

* `TypeCorrect`: `SafeSpec => []EngineTypeOK`.
* `GateIsExclusive`: `SafeSpec => []GateExclusive`.
* `GateImplemented`: `SafeSpec => GateSpec`, the refinement of TriggerGate.

`GateExclusive` is not inductive: the plain store of `Start()` could reopen an
owned gate, were it not that nobody can own it before (`ShutUntilOpen`), and the
store of `Tick()` could leave `Stopped` (`StoppedAtEnd`). `EngineInv` adds both
and the types. The lemma `StepKinds` sorts the steps once: every step either leaves
status, the owners and `cause` alone (`Aside`) or is one of five that work the
gate; the invariant and the refinement then need six cases each.

### BlockHashes: the window of recent block hashes

| model | code |
|---|---|
| `queue` | `updateBlockHash`, one slot out of ten (`RecvSlot`) |
| `pc`, `index`, `slot`, `answer`, `tries` | where `CacheRecentBlockHash` is, the client it asks next, its locals, and the `i` of its loop |
| `asked` | history: the clients asked for this request |
| `window`, `lock` | `cachedBlockHash` (three hashes, oldest first) and the spin lock |
| `reader[r]` | a goroutine in `Commit`: its place, the levels still to read, the last hash it got |
| `tip`, `final` | the chain, and the finalized slot each RPC client answers; external |

A hash is named by the slot of its block, 0 is the zero hash of the start.
`Append` and `[1:]` are two actions (`AppendHash`, `Trim`), because a reader
that ignored the lock would see the window between them. Reading is one action
per line of `GetRecentBlockHash`. A reader reads one to three levels, as
`Arbitrage` does for one opportunity. `reader[r].moved` is a history variable:
how often the window moved since the last read.

`HashWindow` is the abstract specification: a window that is read and shifted
in one step and never holds the same hash twice in a row. BlockHashes
implements it with the window as seen outside the lock.

| run | question | bounds |
|---|---|---|
| `hash_window` | the lock, the window, what the transactions of one opportunity read (`Repeats`), that every client is asked (`AsksAll`), the refinement; `SpinsEnd` (`ReaderServed` and `RefreshEnds`) | two clients that fail, lag and run ahead, one reader (`Tick` is the only one in the engine), three slots, one slot out of two asks |

Three slots give the window its zero hashes and two others, which is what it
takes to repeat one and to move twice between two reads. Every number of
readers and clients is in the proofs.

Fairness: the loop of `CacheRecentBlockHash` runs (weak), and both
compare-and-swap loops win in the end (strong fairness): each polls while the
other holds the lock for a few instructions. A client may fail as often as it
likes; it is assumed to return.

The comparison `slot-result.Context.Slot > 90` is unsigned, so that an answer
newer than a request that waited in the channel is called too old. Every client
is asked in vain; the last answer is used all the same.

SendingProofs proves for every instance `HashTypeCorrect` (`HashTypeOK`),
`LockExcludes` (`Exclusive`), `WindowVaries` (`NeighboursDiffer`),
`RepeatsOnlyAfterMove` (`Repeats`), `EveryClientAsked` (`AsksAll`) and
`WindowImplemented` (`WindowAtomic`). The comparison of line 61
is made before the lock is taken, so that `NeighboursDiffer` needs `AnswerNew`:
only this goroutine moves the window, hence the answer still differs when it is
appended. `Remembered` says where the hash read last is now, which gives
`Repeats`; `WorkLeft` keeps its counter in range. `AsksAll` is about a loop that
counts its tries and steps through the clients with a remainder: the clients
asked are those from one of them to `index`, in turn, as many as the tries
(`InTurn`), so that as many tries as there are clients have met each of them,
wherever the loop began. The liveness
properties are only model-checked.

### Commits: which opportunities are sent, and how

| model | code |
|---|---|
| `cache[p]` | `arb.cache[key]`: the ids, amounts and yields accepted for a path in the last 60 seconds |
| `clock`, `id` | `time.Now()` in seconds; an id is the time plus the salt of the calculator |
| `call` | the verdict of the last call of `Arbitrage`, and the transactions it sent: their levels, steps and amount |
| `log` | history: what was accepted |

`Reject`, `LocalFails` and `Accept` are the returns of the function in order:
low yield, small amount, the cache, the local recomputation (an arbitrary yield
and amount: the pools move between the two), then the entry is cached, and only
after that the path without USDC, the small amount and the failing step return.
`config.Local` is true, as in every configuration that trades.

| run | question | bounds |
|---|---|---|
| `commit_levels` | `LevelsApart`, `StepsChain`, `SpendsWithin`, `SameIsLimited` | one path of three with USDC in the middle, a small and a large amount, yields below the limit and on both sides of the tiers, two of them much alike, a window of two seconds in three, three accepted opportunities remembered |

With amounts on one side of each comparison and yields in one, two and three
transactions the tiers are all visited but those above 30000 USDC, whose sizes
are the same; the proofs take any amounts and yields.
`SameIsLimited` says what the cache is for; it holds only where ids do not run
backwards (`MaxSalt = 0`), and only for opportunities that all look the same:
the code compares with the oldest entry alone. Nor is the size of the best yield
the limit: the code cuts the cache to the size of the opportunity at hand, so that
after a weaker one, let in because the oldest entry looks different, the stronger
one is taken again. Three are taken where two are allowed, which the run reaches with
its two yields on both sides of a tier; in general the limit is `2 * n - 1` for a size of `n`,
and `n` while the sizes do not grow. (With four opportunities remembered the run
holds too, but takes minutes; the theorem needs no bound.)

The entry is cached before it is known whether anything is sent, so that a path
is refused with "so much arbitrage transactions in 60 seconds" although none
was.

SendingProofs proves for all paths, amounts, yields, limits and ids that run
backwards `TypeCorrect`, `LevelsDiffer`, `StepsAreRotated` and `SpendsBounded`.
These invariants are about the last call only, and each is inductive as it
stands with `TypeOK`, which supplies that a cache holds one to three entries.
`RecentRecursion` shows that the recursive function that selects the recent
entries exists, by a least counterexample, and `RecentIsLast` that it yields the
end of the cache where ids are in order.

`SameLimited` proves `SameIsLimited` for any size of the log. The invariant
(`CacheLimits`) counts cache and log from their ends: both are in order, they
end with the same opportunities (`Aligned`), the cache has what is late or is
full (`Keeps`), it has lost less than one size of what looks the same (`Loses`),
and not a single one more than the size was taken while sizes fall (`Limits`). The step is
the lemma `GrowsLimited`; it rests on `HeadLike`: if the oldest entry
that counts is one of those that look the same, a full cache refuses.

### AccountFeed: how the table of accounts follows the chain

| model | code |
|---|---|
| `now`, `changed`, `node` | the chain, and the slot of the node behind each websocket client; external |
| `main`, `fetched`, `todo` | `Start` (`RetrieveUsers`, slice by slice) and `Flash` (`SubscribeUsers`) of a pool program |
| `since`, `stream` | the subscriptions and what their nodes have sent |
| `queue`, `update` | `updateAccounts` and where `update()` is |
| `users` | `p.users`: layout and height, written one after the other |

A content is named by the slot of the change that made it. A client that
refuses a subscription ends the loop over the clients for that account
(`SubscribeFails`), a slice that fails ends `Start` (`FetchFails`); both errors
are dropped by the code.

| run | question | bounds |
|---|---|---|
| `feed_table` | `TableSound` (`TypeOK`, `HeightTells`), `BehindOnlyFromStart`, `BackOnlyByOther`, `Converges` | one account, two clients, three slots, the content of one of them does not parse, a channel of one |

What an account shows depends on other accounts only through the channel, which
one account with two clients fills as well. Three slots are what it takes to be
behind, ahead and level. Fairness: the nodes follow the chain and the
goroutines run; the chain may stop.

The properties say what the code does promise: a change between the fetch and
the subscription is missed until the account changes again, the table may go
back when two sources disagree, and it is right in the end otherwise.

AccountFeedProofs proves for any clients, accounts, slots and capacity
`TableSoundAlways`, `BehindOnlyFromStartAlways` and `BackOnlyByOtherAlways`.
None of these is inductive. The argument follows one message from its node to
the table, which is what the parts of `IInv` say:

* `Grounded`: nothing in the program is newer than the chain.
* `Begins`: `Flash` subscribes to accounts the fetch has found, each once.
* `OnItsWay`: what is in a stream, the channel or the hands of `update()` was
  announced, and its height tells its content.
* `InOrder`: what one client says of one account is in order over stream, channel
  and update together; only messages of different clients overtake each other.
* `Current`: an entry was announced by its source, and whatever that client
  still says is newer. This gives `BackOnlyByOther`.
* `Complete`: every change announced to a subscriber is still on its way, or only
  newer ones of that client are and the entry shows that it was applied: it comes
  from a client, and if from this one it is not older. When nothing is on its
  way, this gives `BehindOnlyFromStart`.

`Converges` is only model-checked.

### PathSearch: the search for paths

`AddItem` (the matrix with its growing rows and columns) is an action for each
pool; `Search` is an operator on the state, as the code's search changes
nothing: `Level` is the recursion of `bsf`, `Best` its inner loop over the
models of an edge, `Arrived` and the choice in `Search` are `target`. What a
pool gives is a table.

| run | question | bounds |
|---|---|---|
| `search_routes` | `MatrixSound` (`TypeOK`, `MatrixHolds`) after every order of additions; `PathSound` (`CarriedOut`, `UsdcOnPath`) and `FindsBest` against all routes (`Routes`, the reference definition) | three tokens, four pools (a triangle and a parallel edge) of three kinds, amounts to 3, depth 4 as in Cyclic; a cycle from USDC, a way to USDC and one between two other tokens |

`FindsBest` is restricted to pools that give more for more, and the run has
states with and without such a pool (a book that runs dry is not one): there
keeping the best model of each edge may lose the best route.

EngineProofs proves `MatrixSoundAlways`, `PathSoundAlways` and
`FindsBestAlways` for any tokens, pools, tables of what they give and depths.
Here `IInv` (`TypeOK`, `MatrixHolds` and `Placed`: the tokens of a model that was
added are in the matrix) is the smaller part; the rest is about the recursion.
`Level`, `Route` and `Worth` are recursive functions, and by `Upward` and
`Recursion` it follows level by level that

* every node of a level is a walk in the matrix that keeps its amounts (`Walks`);
* a walk that arrived is a route that can be carried out (`WalkCarries`);
* the choice in `Search`, a node of the highest amount and among those the one
  met first, exists (`Found`; `FirstPath` is the lexicographic minimum);
* along every route the search comes to each of its tokens with at least as much
  as the route has there, if more in gives more out (`Reaches`). This is where
  `Monotone` is needed, and `FindsBest` follows.

### Delivery: from Commit to the sender services

| model | code |
|---|---|
| `test`, `mode` | the constant `Test` of the build, and `transactionSend` |
| `commit`, `tpu`, `chan` | where `Commit` is, what it gave to the proxy, `commandChans` |
| `worker[w]` | the executors of each node with the age check of 20 seconds |
| `asked`, `simulated`, `passed` | histories: how often each node was asked to send a command, how often its executors had it simulated, and the commands they let go for their age |
| `data`, `link`, `conns` | `commandData`, the connection a sender has, and all it made |
| `up`, `restarts`, `handled` | the sender service, its restarts, the frames it took |

`transactionSend` says which channels a command goes to (`Way`). A sender dials
when it has no connection and drops the command when a dial or a write fails; a
write may stop half way. The service reads its stream in pieces and cuts it into
frames of `CommandLen` bytes; a frame is two halves here, which is what it takes
to lose one. `Encode` keeps 64 characters of a signature whose text has 86 or
more, so that `Decode` panics on every frame: the service goes down with its
first command and has to be restarted. The model has this as the code does it;
what is asked of it is that the trader does not suffer from it.

| run | question | bounds |
|---|---|---|
| `delivery` | `AskedOnce`, `StreamsSound` (`TypeOK`, `FramesWhole`); `CommandsPass` (`CommitReturns`, `EveryNodeAsked`) | two nodes, two executors, one service, channels of 1, two commands, one restart, ids that are the time or one ahead of it, age limit 1 and times 0 to 2, differences of times modulo 8, `Test` set and not |

Two executors race for a channel of one command, so that every channel is full
and empty; mode 3 takes the proxy and the executors, mode 5 the senders. Fairness: goroutines
run, RPC calls return, a dial and a write take a second at most (their
timeouts). `CommitReturns` holds only until the cancellation, for the executors
then leave while `Commit` still sends (TradeGate has what follows from that).

In a build with `Test` the executors of all nodes simulate on `backend.rpcClient`,
the first of the nodes to read from, and no node is asked to send. `AskedOnce`
counts the calls of `send()` of either kind (`Made`) and says that such a build
asks nobody; `EveryNodeAsked` says that every node is asked to send (or has the command
simulated) unless its executors were late or early: the age of a command is an
unsigned difference, so that an id ahead of the clock, to which the calculator
has added, counts as too old (`TooOld`; `Word` is 2^64 in the code). With an age
limit of 1 and three times commands are sent at the limit, let go past it, and
let go before their time.

DeliveryProofs proves `AskedOnceAlways` and `StreamsSoundAlways` for any nodes,
executors, services, commands and capacities. That no node gets a command twice
follows from order: `Commit` numbers its commands (`Numbered`), each channel
holds them in that order and only later ones than those taken from it
(`NodesInOrder`, `SendersInOrder`), and a command taken from a node's channel is
in the hands of one executor (`InOneHand`). For the streams, `Framed` says that
every connection is a row of whole frames, but for a last half on a connection
that was given up, and `Apart` that no frame is on two connections, so that a service
that comes back does not see a command again. `CommandsPass` is liveness and
only model-checked.

### TpuProxy: how transactions reach the leaders

`Proxy1` is in the trader and sends a transaction once and a number of times
more; `Proxy` is in the sender service, which keeps transactions and sends them
again until they have landed or are too old. Both follow slots and keep
connections to the leaders of slots from `Past` ago to `Upcoming` ahead.

| model | code |
|---|---|
| `latest`, `curSlot` | `latestSlots` and the slot of the last round |
| `round`, `missed`, `settled` | `refresh`: the slot it looks up next and the leaders it found; histories: slots without a leader, and whether the round before was answered |
| `known`, `firstSlot`, `newFresh`, `asking` | the leader schedule with its check point, its channel and the request under way |
| `nodes`, `tpuConns` | the addresses known and the leaders connected |
| `transactions`, `worker` | the channel and the goroutines of `Proxy1` |
| `cache`, `status`, `txSub`, `cut` | the waiting transactions of `Proxy`, those that landed, the subscriptions, and those that fell out (history) |

| run | question | bounds |
|---|---|---|
| `tpu_slots` | `NoLeaderMissed`, `CacheSound` (`TypeOK`, `SubscribedIsCached`), `LeavesForReason`; `GoesOn` (`RoundEnds`, `TransactionsTaken`) | windows of 1 slot back and 4 ahead, rounds every other slot, four rounds for `Proxy1`, four transactions and places for two in `Proxy`, a clock that is ahead by one |

One leader suffices: a lookup depends on the slot, not on who leads it. Slots
come in order. Subtraction of slots is unsigned, as in the code; what a slot that
comes late would do to it is not modelled. `NoLeaderMissed` says when the schedule
is asked for early enough. A round asks only for what lies past the check point
of the last answer, so that a round whose first requests fail and whose later
ones are answered leaves slots below the check point that nobody asks for again.
The property therefore speaks of a round that starts when the window of the
round before is known. Fairness: goroutines run and requests are answered or
fail.

TpuProxyProofs proves `CacheSoundAlways`, `NoLeaderMissedAlways` and
`LeavesForReasonAlways` for any windows, periods, slots and numbers of
transactions. `Forward` says that no slot that waits is older than the round,
`Within` keeps a lookup in its window, `Asked` says which slots a request may be
for, `Fetched` that the last answer is known as a whole and begins where a
round's window reaches it, `Met` that a settled round knows all of its window, and
`Counted` that what waits was committed. `SubscribedIsCached` is inductive with the types:
what is cut from the cache is recorded before anything else reads it. `GoesOn`
is only model-checked.

### Routes and Traders: the traders of fixed routes

`Routes` is the data: what each function `Arbitrage_...` of
`random_saber_mercurl_usdc_ust` puts into its transaction, as records of
accounts. `Traders` runs five programs: their loop with its ticker, throttle
and nonce, the requests for accounts at the start, the balances that the SPL
token program reports on its own goroutine (compare, stamp, report), the file
of cases that is read anew at every tick.

| run | question | bounds |
|---|---|---|
| `traders` | `TwinsApart`, `TransactionsSound` (`SaberPoolsAgree`, `CasesWhole`), `BalancesSound` (`TypeOK`, `KnownIsCurrent`, `DifferencesAddUp`); `ThrottleSound` (`CalmsDown`, `KeepsTrading`) | nonce modulo 4 (90 or 100 in the code), every flag alone that shares a pool and all together, balances 0 to 2, throttle every second tick against every tick, four files, one with a program that does not exist |

The counters of ticks are kept as their remainder by `Slow` and their distance
from the last update, which is all that is read of them. `DifferencesAddUp`
starts anew at a balance of 0, which the code takes for one never reported.
Fairness: start, loop and reports go on.

A configured case whose program does not exist ends the process: `GetProgram`
gives nil (`CaseFails`, phase `crashed`).

TradersProofs proves `BalancesSoundAlways`, `TwinsApartAlways` and
`TransactionsSoundAlways` for any modulus of the nonce, any flags, balances and
cases. `TwinsApart` rests on `Sequenced`: the nonces of the last transactions go
back one by one, with a wrap, over all routes that share the nonce, and two
places less than `NonceMod` apart differ (a lemma on remainders). The balances
rest on `Newest` (what is being reported is the last report) and on the sum of
the differences kept through the four steps of a report; `Fitting` ties a loop to
the flags of its trader. `SaberPoolsAgree` is by the eight Saber legs: every
route takes its Saber leg from one of them, and the legs of one pool name the same
accounts. `ThrottleSound` is only model-checked.

### Serum: markets, order books and quotes

| model | code |
|---|---|
| `markets`, `models`, `used`, `subscribed`, `phase` | `buildAccounts`, `buildModels`, the callbacks and `Flash` |
| `orderBooks` | `p.orderBooks`; the slab is a crit-bit tree, read by `items` from one end |
| `ticks` | `AskTick0` and `BidTick0` (version 2) |
| `updates`, `updater` | `updateAccounts` and where `update()` is: sides are copied one after the other |
| `chain`, `missed` | the books as they are, and changes that came before `Flash` (history) |

The two sides are crossed twice: `upsertModel` gets the books in the wrong order
and `items` reads each from the end that fits. `TicksAreBest` compares the result
with the orders sorted by price. `Swap1`, `Swap`, `BestOrder` (version 1),
`NewOrder` and `ArbitrageStep` are operators on the state; the loops in them are
recursive functions of how far they have come.

A slab is given by its orders, by rising price, and the shape of its tree by the
constant `Split`, which says of any node where the orders below it part. `Items` is the
loop over the stack, for any shape. That no two markets share a book is assumed.

Prices are decimals: `priceLotsToNumber` divides, and `Decimal.Div` rounds to the
nearest of 16 digits. Here a price is a number of parts, of which `Scale` (10^16 in
the code) make one, `DivRound` is that division, products and sums are exact, and
`BigInt()` cuts to whole units. `InstructionNewOrder` converts the amount of a
purchase to tokens, divides by the price of a token and converts back (`Affords`,
`Ui`), with a rounding each. Assumed is `BaseLotSize <= Scale`, so that no price
is rounded to zero; a lot that is larger than 10^16 units of a token would be. Where the price of a
*token* is rounded to zero (`Ui = 0`), the code divides by it and panics, and
the model makes no order.

| run | question | bounds |
|---|---|---|
| `serum_books` | `BooksKnown` (`TypeOK`, `KnowsLast`, `TicksAreBest`), `QuotesSound` (`QuoteHonest`, `BestOrderQuoted`, `SwapWorth`), `OrdersSound` (`OrderMeets`, `StepFollowsQuote`) | two ticks (five in the code), books of none to three orders that change twice, lots of 3 and 1, so that prices are thirds, and 100 parts of one (10^16), amounts below, within and beyond the depth, versions 1 and 2 |

A quote is compared with what the exchange counts without a rounding (`Exactly`,
`Total`: lots times the price in lots, all multiplied out). A sale of 3 units at a price of a third shows the difference: the exchange pays 1,
and the code quotes 3 * 0.333..., which is cut to 0. The two agree but for what
the roundings add up to, and this bound is part of the statement: half a part for
each unit of the base token for the price (`NoMore`, `NoLess`, `FairSale`), and
half a part of a unit, at the price of one of the orders, for the division of a
purchase (`FairPurchase`). At 10^16 parts that is less than a unit for amounts up
to 10^16. An order to buy may cost more than the amount by `Overrun`, its three
roundings by half a part each. `Total` takes any number of units of an order,
where an exchange fills whole base lots: it is what the orders pay for the
amount, in proportion.

With 100 parts instead of 10^16 the roundings are large enough in the run for
every one of these bounds to matter.

`QuoteHonest` and `TicksAreBest` are stated for what the code does with a book
that became shorter: the ticks of orders that are gone stay behind it, and an
empty book is still quoted, although `model.Swap` has an error "no ask in this
market" for it. A book of more orders than ticks, of as many, of fewer and of
none is in the instance.

SerumProofs proves all of it for any accounts, markets, books, trees, lots and
amounts and any number of ticks and changes: `KnowsBooks` (`BooksKnown`),
`QuotesAreSound` (`QuotesSound`) and `OrdersAreSound` (`OrdersSound`). The
inductive invariant has, besides the types and what there is in each phase
(`Nested`, `Phases`),

* `Real`: a book that is known, or in a message, was so at its slot;
* `Follows`: the last word on a book, in the queue or else in the program, is of
  the chain's last change, unless that one is `missed`. This gives `KnowsLast`;
* `Copied`: each side starts with the orders of its book, but while that book is
  being copied: the goroutine copies one side after the other, and version 2
  keeps messages waiting meanwhile.

Without `Copied` being excused for the book in hand the invariant is not
inductive, and without `Real` a book that is known as of the last slot could still be
another one.

The rest is about the loops. `ItemsAre`, a theorem of its own, says that `items`
returns the first orders from the end it starts from, whatever the shape of the
tree: what the nodes on the stack stand for follows what has been met without a
gap (`Walked`), and twice the orders met and the nodes that wait bound the passes
that are left (`Left`). For the quotes, `Held`, `Spent` and `Paid` are what there
is, what it costs and what an amount costs up to a tick. A sale is `Paid` at the
last tick (`Sold`); a purchase has after every tick the most that its amount buys
so far (`Buys`, `BuysNext`), which is where the roundings matter. Both agree
with the reference definition `Total` on the first orders of the book, within
the bounds above (`SaleHonest`, `PurchaseHonest`), although a side may have old
ticks behind them. Nothing is assumed of the lots but that no price is rounded
to zero.

### Pools: Orca, TokenSwap, Saber and Raydium

| model | code |
|---|---|
| `program`, `phase` | which of the four runs, and how far `Start` and `Flash` are |
| `swaps`, `models`, `announced`, `used` | pools read, pools with both vaults, those that `callback` passes on (constant product only for Orca and TokenSwap), and those a calculator uses |
| `users`, `updates`, `subscribed`, `half` | the vaults as the SPL token program knows them, the messages on their way (module AccountFeed has that side in full), and whether the amount of the first of them is stored and its height not |
| `reading` | the quote that is asked for: the pool, the token, the words seen so far, and as a history whether no message about the pool was worked on meanwhile |
| `chain`, `missed` | the vaults after every slot; external |

A trade on the chain changes both vaults in one slot; they are heard of one
after the other. `upsertUser` stores the layout and then the height (`SplUpdate`,
`SplHeight`), and a quote reads amount and height of the one vault and of the
other in this order, a word at a time (`Ask`, `Read`), on another goroutine. (The
compiler may order the words otherwise, as nothing synchronizes the two; the
properties do not depend on the order.) The quotes of TokenSwap, and of the curves but
constant product and Saber's, leave their slots 0.

The curves are operators that calculate as the code does, with
the rounding of `big.Int`, the fees that are never rounded to 0, and Newton's
iterations, which end at a fixed point or after 32 or 20 rounds.

| run | question | bounds |
|---|---|---|
| `pool_trades` | `VaultsKnown` (`TypeOK`, `VaultsFollow`, `OneSlotIsReal`), `StepFollowsQuote`, `CurvesSound` (`NoGainInside`, `MoreForMore`, `ProductFair`) | one trading pool for each program, three pairs of reserves, three slots, four amounts, a pool paused, one without a vault, one of constant price, one stable, one whose token has no account |

`OneSlotIsReal` says what a quote is of. Each amount it has read was its vault's at
some slot. Equal slots alone do not say more: between the two stores an amount of
the next slot comes with the height of the last. If no message about the pool was worked
on while the quote was read, equal slots mean that it is what the pool paid at
that slot. A quote of two slots is of a pool that never was, and even then a swap
and its way back, each at the reserves that were read, do not seem to pay
(`NoGainInside`, up to the roundings, `Gain`). `MoreForMore` is what the search by
amounts assumes, of the answers to one reading; that a pool pays less than it has
is not true of constant price, where the code does not look at the reserves. For
Raydium, whose quotes panic, these say nothing. Iterations stop where the code
does: after 20 rounds for Saber, 32 for Orca. One change of an account per slot is assumed, as
the feed gives no finer order.

Known and in the module: `ArbitrageStep` of TokenSwap and `Local` of Raydium
panic (the market files list no pool of the one, no application runs the other);
the curve of constant price compares a token with a vault and prices both
directions alike (never announced). Outside of the assumptions: an empty pool,
which divides by zero in Saber's `computeD`.

PoolsProofs proves for any accounts, curves, fees and numbers of slots
`KnowsVaults` (`VaultsKnown`) and `StepIsQuoted` (`StepFollowsQuote`), and of
`CurvesSound` the part on constant product: `ProductsFair` (`ProductFair`), with
the price of the rounding stated where TLC has the constant `Gain`. In the
inductive invariant `Real` says that a height names the content of a vault, known
or on its way, and `Halved` that the amount stored without its height is that of
the first message; `SeenReal` that each amount a quote has read was there,
`SeenCalm` that what it has read is still there if nothing came between, which is
why a calm quote of two equal slots is real; `Follows` that the
last word on a vault in use is the chain's amount, unless it is `missed`. A trade
puts one or two messages at the end of the queue in either order
(`MessageTells`, `HeardTells`), and taking the first keeps the last word
(`WorkedOff`).

`NoGainInside` and `MoreForMore` stay with TLC. They are not true of all values of
the constants: the fees are rounded, so that for more a pool may keep more and pay
less at a boundary, and what the roundings add up to depends on the reserves.
The stable curves are found by iterations that are cut off, about which nothing
is known beyond the runs' reserves.

## 3. The plan

What was planned is built but for the items below. The runs answer one question
each, and further questions belong into the runs there are.

Proofs left:

1. The stable curves of Pools: that an iteration which ends at a fixed point
   quotes no more than the invariant allows, for reserves of a bounded ratio.
2. A composition of AccountFeed and Pools, for which the theorems on
   both sides are the interface.

Models still to add: the instructions and queues of `serumv1`; how `Pools` and
`AccountFeed` compose (the lagging clients are only there); the loop of the
calculators over prices and markets; a composition of TradeGate with BlockHashes
and Commits, in which one calculation reads one window.

## 4. What is not modelled, and what is not proved

* `store/` is never started; `balancelisten/`, `statelisten/` and the chat
  messages only report (of the notifier TradeGate has the channel); `env/`, `config/` and `system/` are read-only tables;
  `tools` run offline.
* `marketmaker`, `marketmaker_close` and `marketanalysis` call the backend with
  arguments it no longer takes, and do not build: there is no program to be
  faithful to.
* The plain swap instructions, the simulations, `RandomAccounts` and the printed
  states of the programs; of Serum version 1 the instructions and queues that
  only its tests use, its panicking `ArbitrageStep`, and `SettleFund`.
* The RPC server of the engine, `save2Cache` and the HTTP route of the sender
  service (never started) are input and output only.
* The RPC and websocket libraries are external: they answer, fail or lag.
* The decimals of Serum are exact but for the rounding of `Div`, as in the code;
  their 16 digits are a constant. The ramp of Saber's amplification
  is left out, as the code takes the initial value for ever.
* Undefined behaviour of Go's plain reads and writes is modelled where two
  goroutines meet on a word that matters (`status`, the window, `users`, the
  vaults, the throttle of the traders); a torn read of a whole table is not.
* Connections that a round of `TpuProxy` drops are never closed, and the
  goroutines of senders never end: the modules count what is used, not what is
  left behind.
* Liveness under fairness (`SpinsEnd`, `Converges`, `CommandsPass`,
  `GoesOn`, `ThrottleSound` and the properties of `gate_live`) is checked by TLC
  only: the provers do not handle ENABLED.
* The curves of Pools other than constant product (Newton's iterations) are
  checked on the reserves of `pool_trades` only.
* That a slot arrives after a later one is left out of TpuProxy.
