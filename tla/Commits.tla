------------------------------ MODULE Commits ------------------------------
(***************************************************************************)
(* What Arbitrage() of arbitrage/app/arbitrage.go does with an opportunity *)
(* a calculator found: the limits, the cache per path that keeps the same  *)
(* opportunity from being taken too often, the local recomputation, the    *)
(* order of the steps, the amount, and the block hash levels of the        *)
(* transactions.  Tick calls it for one opportunity after the other.       *)
(*                                                                         *)
(* Amounts are in USDC, yields in 1/10000, time in seconds.                *)
(***************************************************************************)
EXTENDS Integers, Sequences, FiniteSets

CONSTANTS
  Paths,       \* the cyclic paths, as lists of models: the keys of arb.cache
  Cycle,       \* [Paths -> Seq(Tokens)]: the input token of each step
  Tokens,
  USDC,        \* the token USDC
  Amounts,     \* the amounts of USDC that may come up
  Yields,      \* the yields that may come up
  ValidYield,  \* config.ValidYield
  UsdcAmount,  \* config.USDC_AMOUNT
  NodeId,      \* config.NodeId
  Window,      \* 60: seconds that an entry of the cache counts
  Word,        \* 2^64: ids are uint64
  MaxSalt,     \* the calculator adds up to this to the time to get an id
  MaxTime,     \* bound of the clock
  KeepLog      \* bound: the accepted opportunities remembered per path

ASSUME CommitAssumption ==
  /\ Cycle \in [Paths -> Seq(Tokens) \ {<<>>}]
  /\ Amounts \subseteq Nat /\ Yields \subseteq Int
  /\ ValidYield \in Int /\ UsdcAmount \in Nat /\ NodeId \in Nat
  /\ Window \in Nat /\ MaxSalt \in Nat /\ MaxTime \in Nat /\ KeepLog \in Nat
  /\ Word \in Nat /\ Word > MaxTime + MaxSalt + Window

VARIABLES
  clock,  \* time.Now()
  cache,  \* arb.cache: per path the entries [id, usdc, yield], oldest first
  call,   \* what the last call of Arbitrage() did
  log     \* history: per path the opportunities it accepted, the latest KeepLog

vars == <<clock, cache, call, log>>

\* The yields that are worth one more transaction, by amount.
\* (30000 USDC exactly is in no tier.)
Tiers(usdc) ==
  CASE usdc < 15000 -> {200, 400}
    [] 15000 <= usdc /\ usdc < 30000 -> {150, 350}
    [] usdc > 30000 -> {150, 300}
    [] OTHER -> {}
CacheSize(usdc, yield) == 1 + Cardinality({t \in Tiers(usdc) : yield > t})

\* The number of transactions of an opportunity with this local yield.
Count(yield) == 1 + Cardinality({t \in {200, 400} : yield > t})

\* The entries that count, in the unsigned arithmetic of the ids.  (A recursive
\* function, for the provers know nothing of SelectSeq.)
Counts(entry, id) == (id - entry.id) % Word < Window
Recent(entries, id) ==
  LET kept[n \in 0 .. Len(entries)] ==
        IF n = 0 THEN <<>>
        ELSE IF Counts(entries[n], id) THEN Append(kept[n-1], entries[n])
        ELSE kept[n-1]
  IN kept[Len(entries)]

Near(a, b, d) == a - b < d /\ b - a < d
Similar(usdc, yield, entry) == Near(usdc, entry.usdc, 1000) /\ Near(yield, entry.yield, 100)

\* The first step that pays USDC.
HasUsdc(tokens) == \E i \in DOMAIN tokens : tokens[i] = USDC
FirstUsdc(tokens) == CHOOSE i \in DOMAIN tokens :
                   tokens[i] = USDC /\ \A j \in 1 .. i - 1 : tokens[j] # USDC

-----------------------------------------------------------------------------
(* Faulty variants of some of the definitions of this module, which show   *)
(* that the properties tell them from the code.                            *)

\* One entry too many is let in.
SoMuchLate(entries, usdc, yield) ==
  Len(entries) > CacheSize(usdc, yield) /\ Similar(usdc, yield, entries[1])
\* The two halves of the path are swapped.
RotatedLast(tokens) ==
  SubSeq(tokens, 1, FirstUsdc(tokens) - 1) \o SubSeq(tokens, FirstUsdc(tokens), Len(tokens))
\* The amount is rounded up.
SpentUp(amount) ==
  LET capped == IF amount > UsdcAmount THEN UsdcAmount ELSE amount
  IN ((capped + 99) \div 100) * 100
\* blockHashIndex is not advanced.
LevelsSame(len, size, yield) == [k \in 1 .. Count(yield) |-> (len - 1 + NodeId) % size]

-----------------------------------------------------------------------------
\* "So much arbitrage transactions in 60 seconds": as many entries as the amount
\* and the yield allow, the oldest of them much like this opportunity.
SoMuch(entries, usdc, yield) ==
  /\ Len(entries) >= CacheSize(usdc, yield)
  /\ Similar(usdc, yield, entries[1])

Trimmed(entries, size) ==
  IF Len(entries) > size THEN SubSeq(entries, Len(entries) - size + 1, Len(entries))
  ELSE entries

\* The steps, starting with the first that pays USDC.
Rotated(tokens) ==
  SubSeq(tokens, FirstUsdc(tokens), Len(tokens)) \o SubSeq(tokens, 1, FirstUsdc(tokens) - 1)

\* What is spent of the amount that the local recomputation asks for.
Spent(amount) ==
  LET capped == IF amount > UsdcAmount THEN UsdcAmount ELSE amount
  IN (capped \div 100) * 100
TooSmall(amount, yield) == amount <= UsdcAmount /\ amount < 600 /\ yield < 200

\* The block hash levels of the transactions.
Levels(len, size, yield) ==
  [k \in 1 .. Count(yield) |-> (len - 1 + NodeId + k - 1) % size]

-----------------------------------------------------------------------------
NoCall == [verdict |-> "none", levels |-> <<>>]

\* What a call that sends nothing leaves, and one that sends.
Unsent(p, verdict) == [verdict |-> verdict, path |-> p, levels |-> <<>>]
Transactions(p, usdc, yield, local, amount, levels) ==
  [verdict |-> "sent", path |-> p, usdc |-> usdc, outer |-> yield, yield |-> local,
   asked |-> amount, amount |-> Spent(amount), steps |-> Rotated(Cycle[p]), levels |-> levels]

Init ==
  /\ clock = 0
  /\ cache = [p \in Paths |-> <<>>]
  /\ call = NoCall
  /\ log = [p \in Paths |-> <<>>]

\* Time passes.
Pass ==
  /\ clock < MaxTime
  /\ clock' = clock + 1
  /\ UNCHANGED <<cache, call, log>>

\* arb.Arbitrage(id, ..., usdc, models of p, yield): returned before the cache
\* is touched.
Returns(p, verdict) ==
  /\ call' = Unsent(p, verdict)
  /\ UNCHANGED <<clock, cache, log>>

Reject(p, id, usdc, yield) ==
  \/ yield < ValidYield /\ Returns(p, "low yield")
  \/ yield >= ValidYield /\ usdc < 600 /\ Returns(p, "small usdc")
  \/ /\ yield >= ValidYield /\ usdc >= 600
     /\ SoMuch(Recent(cache[p], id), usdc, yield)
     /\ call' = [verdict |-> "so much", path |-> p, id |-> id, levels |-> <<>>]
     /\ UNCHANGED <<clock, cache, log>>

\* The limits are passed.
Passes(p, id, usdc, yield) ==
  /\ yield >= ValidYield /\ usdc >= 600
  /\ ~SoMuch(Recent(cache[p], id), usdc, yield)

\* A program is unknown, a model does not compute, or the local yield is low.
LocalFails(p, id, usdc, yield) ==
  /\ Passes(p, id, usdc, yield)
  /\ Returns(p, "local")

\* The entries of a path with that of this opportunity.
Cached(p, id, usdc, yield, local) ==
  Trimmed(Append(Recent(cache[p], id), [id |-> id, usdc |-> usdc, yield |-> local]),
          CacheSize(usdc, yield))

\* History: the opportunity was accepted, sent or not.
Log(p, id, usdc, yield, local) ==
  log' = [log EXCEPT ![p] =
            Trimmed(Append(@, [id |-> id, usdc |-> usdc, outer |-> yield, yield |-> local,
                               size |-> CacheSize(usdc, yield)]), KeepLog)]

\* The entry is in the cache before it is known whether a transaction is sent:
\* a path without USDC, a small amount, or a step that fails sends nothing.
\* `local` and `amount` are the yield and the USDC of the recomputation.
Accept(p, id, usdc, yield, local, amount) ==
  LET entries == Cached(p, id, usdc, yield, local)
      Nothing(verdict) == call' = Unsent(p, verdict)
  IN /\ Passes(p, id, usdc, yield)
     /\ local >= ValidYield
     /\ cache' = [cache EXCEPT ![p] = entries]
     /\ Log(p, id, usdc, yield, local)
     /\ UNCHANGED clock
     /\ IF ~HasUsdc(Cycle[p]) THEN Nothing("no usdc")
        ELSE IF TooSmall(amount, local) THEN Nothing("small amount")
        ELSE \/ Nothing("step")
             \/ call' = Transactions(p, usdc, yield, local, amount,
                                    Levels(Len(entries), CacheSize(usdc, yield), local))

Arbitrage ==
  \E p \in Paths, id \in clock .. clock + MaxSalt, usdc \in Amounts, yield \in Yields :
    \/ Reject(p, id, usdc, yield)
    \/ LocalFails(p, id, usdc, yield)
    \/ \E local \in Yields, amount \in Amounts : Accept(p, id, usdc, yield, local, amount)

Next == Pass \/ Arbitrage

Spec == Init /\ [][Next]_vars

-----------------------------------------------------------------------------
(* Properties.                                                             *)

Ids == 0 .. MaxTime + MaxSalt
Entry == [id : Ids, usdc : Amounts, yield : Yields]
Accepted ==
  [id : Ids, usdc : Amounts, outer : Yields, yield : Yields, size : 1..3]
Verdicts == {"none", "low yield", "small usdc", "so much", "local", "no usdc",
             "small amount", "step", "sent"}

TypeOK ==
  /\ clock \in 0 .. MaxTime
  /\ cache \in [Paths -> Seq(Entry)]
  /\ \A p \in Paths : Len(cache[p]) <= 3
  /\ call.verdict \in Verdicts
  /\ log \in [Paths -> Seq(Accepted)]
  /\ \A p \in Paths : Len(log[p]) <= KeepLog

Sent == call.verdict = "sent"

\* The transactions of one opportunity read one of the three hashes of the window
\* of backend/blockhash.go, and each another one, unless the pools moved in
\* between so that the local yield is higher than the yield whose tier set the
\* size, or the amount is in no tier.
LevelsApart ==
  Sent =>
    /\ \A k \in DOMAIN call.levels : call.levels[k] \in 0..2
    /\ call.yield <= call.outer /\ call.usdc # 30000
         => \A j, k \in DOMAIN call.levels : call.levels[j] = call.levels[k] => j = k

\* The entries of path p that were accepted within the window of the last one.
Burst(p) ==
  {k \in DOMAIN log[p] : log[p][Len(log[p])].id - log[p][k].id < Window}

Alike(p) ==
  \A j, k \in Burst(p) : j < k => Similar(log[p][k].usdc, log[p][k].outer, log[p][j])

\* What the cache is for: as long as an opportunity looks the same, it is taken at
\* most as often within the window as its yield allows, if the yield allows no more
\* than before.  The entries are cut to what the yield of the moment allows, so that
\* a weaker opportunity in between makes the cache forget: if the yield goes up
\* again, one less than twice as many are taken.  (It is compared with one entry
\* only, so that two opportunities that alternate are not limited.)
SameIsLimited ==
  MaxSalt = 0 =>
    \A p \in Paths, n \in 1 .. 3 :
      Alike(p) /\ (\A k \in Burst(p) : log[p][k].size <= n) =>
        /\ Cardinality(Burst(p)) <= 2 * n - 1
        /\ (\A j, k \in Burst(p) : j < k => log[p][k].size <= log[p][j].size)
             => Cardinality(Burst(p)) <= n

\* The steps pass tokens on.
Passed(tokens) ==
  {<<tokens[k], tokens[(k % Len(tokens)) + 1]>> : k \in DOMAIN tokens}

\* The transaction starts with the step that pays USDC and ends with the one that
\* returns it, and in between every step still spends what the one before it
\* bought.
StepsChain ==
  Sent =>
    /\ call.steps[1] = USDC
    /\ Passed(call.steps) = Passed(Cycle[call.path])

\* No transaction spends more than config.USDC_AMOUNT or more than the local
\* recomputation priced, and a low yield is not taken for a small amount.
SpendsWithin ==
  Sent =>
    /\ call.amount <= UsdcAmount /\ call.amount <= call.asked
    /\ call.amount >= 600 \/ call.yield >= 200 \/ UsdcAmount < 600
=============================================================================
