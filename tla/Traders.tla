------------------------------- MODULE Traders -------------------------------
(***************************************************************************)
(* The random and the single-purpose traders: programs that trade at every *)
(* tick and leave it to the contract whether the trade is worth anything.  *)
(*   saber  random_saber_mercurl_usdc_ust: up to sixteen fixed routes      *)
(*   orca   random_serum_orca: Serum against Orca                          *)
(*   msol   random_serum_sol_msol_usdc: two Serum markets and Saber        *)
(*   usdt   random_serum_sol_usdc_usdt: the same with USDT                 *)
(*   cases  config_serum_orca: the routes of a file                        *)
(* Each has the goroutine of randomArbitrage; orca, msol and usdt also     *)
(* hear of the balances of the USDC accounts, on the goroutine of the SPL  *)
(* token program, which shares frequency and latestUpdate with it.         *)
(*                                                                         *)
(* counter is kept as its remainder by Slow and its distance from          *)
(* latestUpdate: nothing else of it is read.                               *)
(***************************************************************************)
EXTENDS Routes, FiniteSets

CONSTANTS
  Apps,        \* which of the five are looked at
  FlagSets,    \* sets of flags (USTUSDC, ...) that the trader saber is started with
  NonceMod,    \* of saber, msol and usdt 90, of orca 100
  Slow, Fast,  \* every how many ticks msol and usdt trade (10, 5)
  Quiet,       \* ticks until they slow down again (10*60)
  Amounts,     \* balances of the USDC account
  Files        \* contents of the file of cases: sequences of cases, which are sequences
               \* of "ok", "err" (no such market) and "absent" (no such program)

ASSUME TradersAssumption ==
  /\ Apps \subseteq {"saber", "orca", "msol", "usdt", "cases"}
  /\ NonceMod \in Nat \ {0} /\ Slow \in Nat \ {0} /\ Fast \in Nat \ {0}
  /\ Slow % Fast = 0 /\ Quiet \in Nat
  /\ Amounts \subseteq Nat /\ 0 \in Amounts
  /\ Files \subseteq Seq(Seq({"ok", "err", "absent"}))

Levels == 3
Watches == {"orca", "msol", "usdt"}  \* they subscribe to the USDC accounts
Throttled == {"msol", "usdt"}        \* they trade at some ticks only

VARIABLES
  app, flags,   \* which program it is, and how it is configured
  phase,        \* "new", "running", "stopped" or "crashed"
  ctx,          \* "open" or "done"
  served,       \* the requests for accounts that its programs can answer
  loop,         \* what randomArbitrage does
  nonce, blockHash,
  tick, age,    \* counter % Slow, and counter - latestUpdate (at most Quiet + 1)
  frequency,
  file,         \* the file of cases: there is none, or what it says
  amount,       \* what the SPL token program has as the balance of the account
  balances,     \* what the trader has
  feed,         \* what the goroutine of the SPL token program does
  base, told,   \* history: the balance that was reported first since it was 0, and the
                \* sum of the differences that were reported since
  recent,       \* history: the last NonceMod transactions, with their hash level
  traded        \* history: the routes of all transactions

vars == <<app, flags, phase, ctx, served, loop, nonce, blockHash, tick, age, frequency,
          file, amount, balances, feed, base, told, recent, traded>>
config == <<app, flags, served>>
clock == <<tick, age, frequency>>
spl == <<amount, balances, feed, base, told>>
trading == <<nonce, blockHash, recent, traded>>

Idle == [at |-> "idle"]
NoFile == [there |-> FALSE]
Texts == {NoFile} \cup {[there |-> TRUE, cases |-> f] : f \in Files}

-----------------------------------------------------------------------------
(* What the traders send. *)

\* The calls of a tick: every function whose flag is set, in this order.
Calls ==
  LET If(flag, routes) == IF flag \in flags THEN routes ELSE <<>>
  IN If("USTUSDC", <<Arbitrage_saber_mercurl_usdc_ust, Arbitrage_mercurl_saber_usdc_ust>>)
     \o If("USDTUSDC", <<Arbitrage_saber_mercurl_usdc_usdt, Arbitrage_mercurl_saber_usdc_usdt>>)
     \o If("SOLMSOL", <<Arbitrage_mercurl_saber_sol_msol, Arbitrage_saber_mercurl_sol_msol>>)
     \o If("SOLSTSOL", <<Arbitrage_mercurl_saber_sol_stsol, Arbitrage_saber_mercurl_sol_stsol>>)
     \o If("USDTUSDC3POOL", <<Arbitrage_saber_mercurl_usdc_usdt_3pool,
                              Arbitrage_mercurl_saber_usdc_usdt_3pool>>)
     \o If("SOLUSDC", <<Arbitrage_orca_raydium_sol_usdc>>)
     \o If("GSTUSDC", <<Arbitrage_orca_raydium_gst_usdc>>)
     \o If("GMTUSDC", <<Arbitrage_orca_raydium_gmt_usdc>>)
     \o If("WhirlUSTUSDC", <<Arbitrage_whirl_saber_usdc_ust>>)
     \o If("WhirlSOLUSDC", <<Arbitrage_orca_whirl_sol_usdc, Arbitrage_whirl_orca_sol_usdc>>)
     \o If("SerumWhirl", <<Arbitrage_serum_whirl_sol_usdc, Arbitrage_whirl_serum_sol_usdc>>)

\* A trader of Serum asks its programs for the accounts of these markets, in this order.
OrcaRequests == <<<<"SerumV22", "tokenA", "tokenB">>, <<"OrcaV2", "tokenA", "tokenB">>>>
MsolRequests == <<<<"SerumV22", "SOL", "USDC">>, <<"SerumV22", "MSOL", "USDC">>,
                  <<"Saber", "MSOL", "SOL">>>>
UsdtRequests == <<<<"SerumV22", "SOL", "USDC">>, <<"SerumV22", "SOL", "USDT">>,
                  <<"Saber", "USDC", "USDT">>>>
Requests == CASE app = "orca" -> OrcaRequests
              [] app = "msol" -> MsolRequests
              [] app = "usdt" -> UsdtRequests
              [] OTHER -> <<>>

\* The data of their instructions: only those of orca are numbered.
OrcaData(n) == [i \in 1 .. InstructionSize |-> <<1, n, IF i = InstructionSize THEN 100 ELSE i - 1>>]
MsolData(n) == [i \in 1 .. InstructionSize |-> <<n + 105>>]
UsdtData(n) == [i \in 1 .. InstructionSize |-> <<n + 5>>]

\* The flags of the steps of a case.
Flag(case, j) == IF j = 1 THEN 0 ELSE IF j = Len(case) THEN 2 ELSE 1

(* Faulty variants of some of the definitions below, which show that the   *)
(* properties tell them from the code.  No specification uses them.        *)

\* Faulty: the nonce stays.
NextNonceStays == nonce

\* The next nonce; that of cases, a byte, skips 0.
NextNonce == IF app = "cases" THEN (nonce % NonceMod) + 1 ELSE (nonce + 1) % NonceMod

\* Faulty: the difference is told although nothing was known before.
DifferenceAlways(new) == new - balances

\* The difference that is told: 0 if nothing was known.
Difference(new) == IF balances = 0 THEN 0 ELSE new - balances

\* The steps of a case that make it into its transaction.
CaseSteps(case) == case

\* Faulty: only ticks at which it trades count; it never slows down.
CountTraded ==
  /\ phase \in {"running", "stopped"} /\ loop = Idle /\ app \in Throttled
  /\ tick' = IF tick % frequency = 0 THEN (tick + 1) % Slow ELSE tick
  /\ age' = IF age > Quiet THEN age ELSE age + 1
  /\ loop' = [at |-> IF age' > Quiet THEN "calm" ELSE "throttle"]
  /\ UNCHANGED <<config, phase, ctx, trading, frequency, file, spl>>

-----------------------------------------------------------------------------
Init ==
  /\ app \in Apps
  /\ flags \in (IF app = "saber" THEN FlagSets ELSE {{}})
  /\ phase = "new" /\ ctx = "open" /\ served = {} /\ loop = Idle
  /\ nonce = 0
  /\ blockHash = IF app \in {"orca", "cases"} THEN 0 ELSE 2
  /\ tick = 0 /\ age = 0 /\ frequency = Slow
  /\ file \in (IF app = "cases" THEN Texts ELSE {NoFile})
  /\ amount \in (IF app \in Watches THEN Amounts ELSE {0})
  /\ balances = 0 /\ feed = Idle /\ base = 0 /\ told = 0
  /\ recent = <<>> /\ traded = {}

\* Start: a program that fails to start is logged, and its markets are missing.  What
\* comes after the first request without an answer is never asked.
Start(requests) ==
  /\ phase = "new"
  /\ phase' = "running"
  /\ \E k \in 0 .. Len(requests) : served' = {requests[i] : i \in 1 .. k}
  /\ UNCHANGED <<app, flags, ctx, loop, trading, clock, file, spl>>
SaberStart == app = "saber" /\ Start(<<>>)
OrcaStart == app = "orca" /\ Start(OrcaRequests)
MsolStart == app = "msol" /\ Start(MsolRequests)
UsdtStart == app = "usdt" /\ Start(UsdtRequests)
CasesStart == app = "cases" /\ Start(<<>>)

\* The world: the trader is told to stop, and the file is written.
Cancel ==
  /\ ctx = "open" /\ phase = "running"
  /\ ctx' = "done"
  /\ UNCHANGED <<config, phase, loop, trading, clock, file, spl>>

Rewrite ==
  /\ app = "cases"
  /\ file' \in Texts
  /\ UNCHANGED <<config, phase, ctx, loop, trading, clock, spl>>

\* Stop does not wait for the loop (wg.Wait is commented out).
Stop ==
  /\ phase = "running" /\ ctx = "done"
  /\ phase' = "stopped"
  /\ UNCHANGED <<config, ctx, loop, trading, clock, file, spl>>

-----------------------------------------------------------------------------
(* The loop.  Both of its channels may be ready: it may take a tick when   *)
(* the trader has been told to stop.                                       *)

Ready == phase \in {"running", "stopped"} /\ loop = Idle

Leave ==
  /\ Ready /\ ctx = "done"
  /\ loop' = [at |-> "left"]
  /\ UNCHANGED <<config, phase, ctx, trading, clock, file, spl>>

\* A tick of saber and orca.
Tick ==
  /\ Ready /\ app \in {"saber", "orca"}
  /\ loop' = IF app = "orca" THEN [at |-> "fetch", left |-> Requests]
             ELSE IF Calls = <<>> THEN Idle ELSE [at |-> "call", left |-> Calls]
  /\ UNCHANGED <<config, phase, ctx, trading, clock, file, spl>>

\* A tick of msol and usdt: it counts, looks whether it has been quiet for long ...
Count ==
  /\ Ready /\ app \in Throttled
  /\ tick' = (tick + 1) % Slow
  /\ age' = IF age > Quiet THEN age ELSE age + 1
  /\ loop' = [at |-> IF age' > Quiet THEN "calm" ELSE "throttle"]
  /\ UNCHANGED <<config, phase, ctx, trading, frequency, file, spl>>

\* ... slows down, and trades if it is its turn.
Calm ==
  /\ loop.at = "calm"
  /\ frequency' = Slow
  /\ loop' = [at |-> "throttle"]
  /\ UNCHANGED <<config, phase, ctx, trading, tick, age, file, spl>>

Throttle ==
  /\ loop.at = "throttle"
  /\ loop' = IF tick % frequency = 0 THEN [at |-> "fetch", left |-> Requests] ELSE Idle
  /\ UNCHANGED <<config, phase, ctx, trading, clock, file, spl>>

\* RandomAccounts of the next program, which answers or fails.
Fetch ==
  /\ loop.at = "fetch" /\ loop.left # <<>> /\ Head(loop.left) \in served
  /\ loop' = [loop EXCEPT !.left = Tail(loop.left)]
  /\ UNCHANGED <<config, phase, ctx, trading, clock, file, spl>>

Missing ==
  /\ loop.at = "fetch" /\ loop.left # <<>> /\ Head(loop.left) \notin served
  /\ loop' = Idle
  /\ UNCHANGED <<config, phase, ctx, trading, clock, file, spl>>

Latest(s) == IF Len(s) > NonceMod THEN Tail(s) ELSE s

\* Commit of a transaction with the hash of this level.
Commit(tx, level) == recent' = Latest(Append(recent, [tx |-> tx, level |-> level]))

\* saber commits the next route of the tick.
CommitRoute ==
  /\ loop.at = "call" /\ loop.left # <<>>
  /\ nonce' = NextNonce
  /\ Commit(Transaction(Head(loop.left), nonce'), blockHash)
  /\ blockHash' = (blockHash + 1) % Levels
  /\ traded' = traded \cup {Head(loop.left)}
  /\ loop' = IF Tail(loop.left) = <<>> THEN Idle ELSE [loop EXCEPT !.left = Tail(loop.left)]
  /\ UNCHANGED <<config, phase, ctx, clock, file, spl>>

\* orca, msol and usdt commit when they have all accounts.
CommitMarkets ==
  /\ loop.at = "fetch" /\ loop.left = <<>>
  /\ nonce' = NextNonce
  /\ Commit([data |-> CASE app = "orca" -> OrcaData(nonce') [] app = "msol" -> MsolData(nonce')
                        [] OTHER -> UsdtData(nonce'),
             legs |-> Requests], blockHash)
  /\ blockHash' = (blockHash + 1) % Levels
  /\ loop' = Idle
  /\ UNCHANGED <<config, phase, ctx, traded, clock, file, spl>>

\* cases reads its file, and makes one nonce for all of it.
ReadCases ==
  /\ Ready /\ app = "cases" /\ file.there
  /\ nonce' = NextNonce
  /\ loop' = IF file.cases = <<>> THEN Idle ELSE [at |-> "case", left |-> file.cases]
  /\ UNCHANGED <<config, phase, ctx, blockHash, recent, traded, clock, file, spl>>

\* The next case: all its steps become one transaction of the newest hash.
CommitCase ==
  /\ loop.at = "case"
  /\ LET case == CaseSteps(Head(loop.left))
     IN /\ \A j \in DOMAIN case : case[j] = "ok"
        /\ Commit([data |-> [j \in DOMAIN case |-> <<Flag(case, j), nonce>>],
                   of |-> Head(loop.left)], 0)
  /\ loop' = IF Tail(loop.left) = <<>> THEN Idle ELSE [loop EXCEPT !.left = Tail(loop.left)]
  /\ UNCHANGED <<config, phase, ctx, nonce, blockHash, traded, clock, file, spl>>

\* A step without a market ends the tick; one without a program ends the trader.
CaseFails ==
  /\ loop.at = "case"
  /\ LET case == CaseSteps(Head(loop.left))
     IN \E j \in DOMAIN case :
          /\ case[j] # "ok" /\ \A k \in 1 .. j - 1 : case[k] = "ok"
          /\ loop' = [at |-> IF case[j] = "err" THEN "idle" ELSE "left"]
          /\ phase' = IF case[j] = "err" THEN phase ELSE "crashed"
  /\ UNCHANGED <<config, ctx, trading, clock, file, spl>>

-----------------------------------------------------------------------------
(* The balance of a USDC account.  The SPL token program passes a change   *)
(* on unless the balance was 0.                                            *)

SplUpdate(new) ==
  /\ phase = "running" /\ app \in Watches /\ feed = Idle
  /\ amount' = new
  /\ feed' = IF amount # 0 THEN [at |-> "compare", new |-> new] ELSE Idle
  /\ UNCHANGED <<config, phase, ctx, loop, trading, clock, file, balances, base, told>>

\* OnBalanceUpdate compares, and lets the trader hurry: first the frequency ...
Compare ==
  /\ feed.at = "compare"
  /\ IF feed.new = balances THEN feed' = Idle /\ UNCHANGED frequency
     ELSE /\ feed' = [feed EXCEPT !.at = IF balances # 0 THEN "stamp" ELSE "report"]
          /\ frequency' = IF balances # 0 /\ app \in Throttled THEN Fast ELSE frequency
  /\ UNCHANGED <<config, phase, ctx, loop, trading, tick, age, file, amount, balances, base, told>>

\* ... then the time of the update.
Stamp ==
  /\ feed.at = "stamp"
  /\ age' = IF app \in Throttled THEN 0 ELSE age
  /\ feed' = [feed EXCEPT !.at = "report"]
  /\ UNCHANGED <<config, phase, ctx, loop, trading, tick, frequency, file, amount, balances, base, told>>

\* The message with the difference, and the new balance.
Report ==
  /\ feed.at = "report"
  /\ told' = IF balances = 0 THEN Difference(feed.new) ELSE told + Difference(feed.new)
  /\ base' = IF balances = 0 THEN feed.new ELSE base
  /\ balances' = feed.new
  /\ feed' = Idle
  /\ UNCHANGED <<config, phase, ctx, loop, trading, clock, file, amount>>

-----------------------------------------------------------------------------
Loop == Tick \/ Count \/ Calm \/ Throttle \/ Fetch \/ Missing \/ CommitRoute
        \/ CommitMarkets \/ ReadCases \/ CommitCase \/ CaseFails
Feed == Compare \/ Stamp \/ Report
StartUp == SaberStart \/ OrcaStart \/ MsolStart \/ UsdtStart \/ CasesStart

Next == StartUp \/ Cancel \/ Rewrite \/ Stop \/ Leave \/ Loop
        \/ (\E new \in Amounts : SplUpdate(new)) \/ Feed

SafeSpec == Init /\ [][Next]_vars

\* The ticker ticks and the goroutines run on; a message is sent at last.
Spec == SafeSpec /\ WF_vars(StartUp) /\ WF_vars(Loop) /\ WF_vars(Feed)

-----------------------------------------------------------------------------
\* What the loop and the goroutine of the SPL token program may be at.
Asked == {Requests[i] : i \in DOMAIN Requests}
Called == {Calls[i] : i \in DOMAIN Calls}
Loops ==
  [at : {"idle", "calm", "throttle", "left"}] \cup [at : {"fetch"}, left : Seq(Asked)]
  \cup [at : {"call"}, left : Seq(Called) \ {<<>>}]
  \cup [at : {"case"}, left : Seq(Seq({"ok", "err", "absent"})) \ {<<>>}]
Feeds == {Idle} \cup [at : {"compare", "stamp", "report"}, new : Amounts]

TypeOK ==
  /\ app \in Apps /\ phase \in {"new", "running", "stopped", "crashed"} /\ ctx \in {"open", "done"}
  /\ served \subseteq Asked /\ loop \in Loops
  /\ nonce \in 0 .. NonceMod /\ blockHash \in 0 .. Levels - 1
  /\ tick \in 0 .. Slow - 1 /\ age \in 0 .. Quiet + 1 /\ frequency \in {Slow, Fast}
  /\ amount \in Amounts /\ balances \in Amounts /\ base \in Amounts /\ told \in Int
  /\ feed \in Feeds
  /\ Len(recent) <= NonceMod /\ file \in Texts
  /\ traded \subseteq Called

\* Two transactions that are equal to the byte, with a hash of the same level, are at
\* least NonceMod transactions apart, over all the routes that share the nonce: the
\* cluster drops a transaction it has seen with this hash.
TwinsApart ==
  app # "cases" => \A i, j \in DOMAIN recent : recent[i] = recent[j] => i = j

\* The routes over a pool of Saber agree about it: its authority, its two vaults, and
\* the fee account, which is one for each direction.
SaberPoolsAgree ==
  \A r, q \in traded : \A a \in Swaps(r), b \in Swaps(q) :
    a[2] = b[2] =>
      /\ a[3] = b[3] /\ {a[4], a[5]} = {b[4], b[5]}
      /\ a[4] = b[4] <=> a[6] = b[6]

\* Between two updates the trader's balance is the account's, or 0: nothing it has
\* reported is out of date, although the SPL token program keeps changes from it.
KnownIsCurrent == feed = Idle /\ balances # 0 => balances = amount

\* The differences that were reported add up to what the account has gained since its
\* balance was reported first.
DifferencesAddUp == balances # 0 => told = balances - base

\* The transaction of a case has all its steps in order; the first and the last are
\* marked, and none of them twice.
CasesWhole ==
  app = "cases" =>
    \A i \in DOMAIN recent :
      LET tx == recent[i].tx
      IN /\ Len(tx.data) = Len(tx.of)
         /\ \A j \in DOMAIN tx.data : (tx.data[j][1] = 0 <=> j = 1)
                                      /\ (tx.data[j][1] = 2 <=> j = Len(tx.of) /\ j > 1)

\* A trader whose balances change no more slows down for good.
CalmsDown ==
  <>[](feed = Idle /\ loop.at # "left" /\ phase \in {"running", "stopped"}) => <>[](frequency = Slow)

\* A trader whose programs have all accounts goes on trading until it is told to stop:
\* neither the throttle nor the balances that hurry it keep it from it.
KeepsTrading ==
  []<>(\/ app = "cases" \/ ctx = "done" \/ served # Asked
       \/ loop.at = "call" \/ (loop.at = "fetch" /\ loop.left = <<>>))

\* What a transaction is made of is right: the accounts of every route, which pools they
\* share, and the steps of every case.
TransactionsSound == SaberPoolsAgree /\ CasesWhole

\* What the trader has and tells of its balance is the account's.
BalancesSound == TypeOK /\ KnownIsCurrent /\ DifferencesAddUp

\* The throttle slows down, and never to a stop.
ThrottleSound == CalmsDown /\ KeepsTrading
=============================================================================
