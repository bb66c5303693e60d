--------------------------------- MODULE Pools ---------------------------------
(***************************************************************************)
(* The programs of the pools: orca, tokenswap, saber and raydium.  Each    *)
(* lists its pools, reads their vaults with the SPL token program,         *)
(* announces them, follows the vaults of those in use, quotes a swap from  *)
(* what it knows of the two vaults, and builds the instruction for it.     *)
(*                                                                         *)
(* A trade on the chain changes both vaults of a pool in one slot; they    *)
(* are heard of one after the other, the amount of a vault is stored       *)
(* before its height, and a quote reads these words one by one meanwhile:  *)
(* it may be of two slots, and of an amount and a height that do not       *)
(* belong together. Of the instructions the accounts are kept that depend  *)
(* on the direction of the swap. The integers are big.Int in the code:     *)
(* nothing wraps but the last conversion to uint64.                        *)
(***************************************************************************)
EXTENDS Integers, Sequences, FiniteSets

CONSTANTS
  Programs,    \* those that are run: "orca", "tokenswap", "saber", "raydium"
  Accounts,    \* the accounts that the programs list, each with its owner, its curve
               \* ("product", "price", "stable", "saber", "amm"), tokenA, tokenB, swapA,
               \* swapB, adminA, adminB, and whether it is sound (of the right size)
  ReservesOf,  \* of each account, the pairs of reserves that its vaults can have
  Before,      \* of each account, the reserves at first
  Lost,        \* vaults that RetrieveUsers does not find
  TradeFee, OwnerFee,   \* of a pool of orca, the denominator of each, for one; or 0
  SaberFee,    \* the same for saber
  Amp,         \* amplification of the stable curves
  BPrice,      \* price of token B in a pool of constant price
  Amounts,     \* amounts of a quote
  UserOf,      \* the token account of a token, or NoUser
  Gain,        \* what the roundings of two quotes may add up to
  MaxSlot      \* bound: slots

NoUser == "zero"
Error == [ok |-> FALSE, crash |-> FALSE]
Crash == [ok |-> FALSE, crash |-> TRUE]
Keys == DOMAIN Accounts
VaultsOf(k) == {Accounts[k].swapA, Accounts[k].swapB}
Vaults == UNION {VaultsOf(k) : k \in Keys}
Pair(k) == {Accounts[k].tokenA, Accounts[k].tokenB}

ASSUME PoolsAssumption ==
  /\ Programs \subseteq {"orca", "tokenswap", "saber", "raydium"}
  /\ DOMAIN ReservesOf = Keys /\ Lost \subseteq Vaults
  /\ \A k \in Keys :
       /\ Accounts[k].tokenA # Accounts[k].tokenB /\ Accounts[k].swapA # Accounts[k].swapB
       /\ Before[k] \in ReservesOf[k]
       /\ \A r \in ReservesOf[k] : r[1] \in Nat \ {0} /\ r[2] \in Nat \ {0}
  /\ \A k, l \in Keys : k # l => VaultsOf(k) \cap VaultsOf(l) = {}
  /\ \A k \in Keys : Accounts[k].owner = "saber" => Accounts[k].curve = "saber"
  /\ {TradeFee, OwnerFee, SaberFee, Gain} \subseteq Nat
  /\ Amp \in Nat \ {0} /\ BPrice \in Nat \ {0} /\ MaxSlot \in Nat \ {0}
  /\ Amounts \subseteq Nat \ {0}

VARIABLES
  program,     \* the program that runs
  phase,       \* "new", "listed", "built", "flashed", "failed"
  swaps,       \* the pools that were read
  models,      \* those that have a model
  announced,   \* those that the calculators heard of
  used,        \* those that a calculator uses
  users,       \* what the SPL token program knows of a vault: amount and height
  subscribed,  \* the vaults that were subscribed to
  chain,       \* the vaults after each slot
  updates,     \* the vaults on their way to the SPL token program
  half,        \* whether the amount of the first of them is stored, and its height not
  reading,     \* what a calculator has read for the quote it asked for, and whether
               \* no message about the pool was worked on meanwhile
  missed       \* history: vaults whose last change came between reading and Flash

starting == <<program, phase, swaps, models, announced, used, subscribed>>
world == <<chain, missed>>
vars == <<starting, users, world, updates, half, reading>>

Slot == Len(chain)
Unread == [amount |-> 0, height |-> 0]
NoQuote == [seen |-> <<>>]
LargerOf(x, y) == IF x < y THEN y ELSE x
Uint64(x) == IF x < 0 THEN -x ELSE x

-----------------------------------------------------------------------------
(* The curves: what a pool with x of the token and y of the other one pays *)
(* for an amount.                                                          *)

\* A fee is rounded down, but never to 0.
Fee(amount, denominator) ==
  IF denominator = 0 \/ amount = 0 THEN 0
  ELSE IF amount \div denominator = 0 THEN 1 ELSE amount \div denominator
LessFees(amount) == amount - Fee(amount, TradeFee) - Fee(amount, OwnerFee)

(* Faulty variants of some of the definitions below, which show that the   *)
(* properties tell them from the code.  No specification uses them.        *)

\* Faulty: with y - amount below.
ConstantProductTurned(x, y, amount) == y - (x * y) \div LargerOf(1, y - amount)

\* swapWithoutFeesConstantProduct: the new reserve is rounded down.
ConstantProduct(x, y, amount) == y - (x * y) \div (x + amount)

\* The token that is sold.  swapWithoutFeesConstantPrice of orca compares the token with a
\* vault, which it never is: both directions are priced as a sale of token A.
Sold(k, token) ==
  IF program = "orca" /\ Accounts[k].curve = "price" THEN Accounts[k].tokenA ELSE token

\* swapWithoutFeesConstantPrice.
ConstantPrice(k, sold, amount) ==
  IF sold = Accounts[k].tokenB THEN amount * BPrice ELSE amount \div BPrice

\* An iteration that stops when nothing changes, or after so many rounds.
Iterated(step(_), start, rounds) ==
  LET from[v \in Int, left \in 0 .. rounds] ==
        IF left = 0 THEN v
        ELSE LET next == step(v) IN IF next = v THEN v ELSE from[next, left - 1]
  IN from[start, rounds]

\* computeD and computeNewDestinationAmount of orca.
StableD(x, y) ==
  LET leverage == 2 * Amp
      step(d) == LET p == (((d * d) \div (2 * x + 1)) * d) \div (2 * y + 1)
                 IN ((leverage * (x + y) + 2 * p) * d) \div (d * (leverage - 1) + 3 * p)
  IN Iterated(step, x + y, 32)
StableY(x, d) ==
  LET c == (d * d * d) \div (x * 4 * 2 * Amp)
      step(y) == (y * y + c) \div (2 * y + x + d \div (2 * Amp) - d)
  IN Iterated(step, d, 32)

\* swapWithoutFeesStable.
Stable(x, y, amount) == Uint64(y - StableY(x + amount, StableD(x, y)))

\* computeD and computeY of saber, which stop after 20 rounds.
SaberD(x, y) ==
  LET ann == 2 * Amp
      step(d) == LET p == (((d * d) \div (2 * x)) * d) \div (2 * y)
                 IN (d * (ann * (x + y) + 2 * p)) \div (d * (ann - 1) + 3 * p)
  IN Iterated(step, x + y, 20)
SaberY(x, d) ==
  LET c == (d * d * d) \div (4 * x * 2 * Amp)
      step(y) == (y * y + c) \div (2 * y + x + d \div (2 * Amp) - d)
  IN Iterated(step, d, 20)

\* stableSwap, whose fee is of what is paid.
StableSwap(x, y, amount) ==
  LET out == y - SaberY(x + amount, SaberD(x, y)) IN Uint64(out - Fee(out, SaberFee))

\* What a pool with x of the token and y of the other one pays.
Pays(k, token, x, y, amount) ==
  LET less == LessFees(amount)
      curve == Accounts[k].curve
      out == CASE curve = "product" -> ConstantProduct(x, y, less)
               [] curve = "price" -> ConstantPrice(k, Sold(k, token), less)
               [] curve = "stable" -> Stable(x, y, less)
               [] curve = "saber" -> StableSwap(x, y, amount)
               [] OTHER -> 0
  IN IF curve # "saber" /\ less <= 0 THEN Error ELSE [ok |-> TRUE, out |-> out]

-----------------------------------------------------------------------------
(* Quotes and instructions. *)

\* The vaults and the administrators of the two tokens, in the direction of the swap.
Direction(k, token) ==
  LET a == Accounts[k] IN
  IF token = a.tokenB
  THEN [src |-> a.swapB, dst |-> a.swapA, tokenOut |-> a.tokenA, admin |-> a.adminA]
  ELSE [src |-> a.swapA, dst |-> a.swapB, tokenOut |-> a.tokenB, admin |-> a.adminB]

\* What a quote reads of the two vaults, in this order.
Words(k, token) ==
  LET d == Direction(k, Sold(k, token))
  IN <<users[d.src].amount, users[d.src].height, users[d.dst].amount, users[d.dst].height>>

\* Local of orca and of tokenswap: the quote from the words that were seen.  The slots its
\* amounts are said to be of stay 0 in tokenswap, and where the curve is not a product.
Local(k, token, seen, amount) ==
  LET sold == Sold(k, token)
      pays == Pays(k, token, seen[1], seen[3], amount)
      silent == program = "tokenswap" \/ Accounts[k].curve \in {"price", "stable"}
  IN IF k \notin models \/ token \notin Pair(k) \/ ~pays.ok THEN Error
     ELSE [ok |-> TRUE, tokenIn |-> sold, tokenOut |-> Direction(k, sold).tokenOut,
           in |-> amount, out |-> pays.out,
           slotIn |-> IF silent THEN 0 ELSE seen[2], slotOut |-> IF silent THEN 0 ELSE seen[4]]

\* Local of saber: the model refuses a pool that is paused.
LocalSaber(k, token, seen, amount) ==
  IF Accounts[k].paused THEN Error ELSE Local(k, token, seen, amount)

\* Local of raydium: Swap returns nil without an error.
LocalRaydium(k, token) == IF k \notin models \/ token \notin Pair(k) THEN Error ELSE Crash

Quote(k, token, seen, amount) ==
  CASE program = "saber" -> LocalSaber(k, token, seen, amount)
    [] program = "raydium" -> LocalRaydium(k, token)
    [] OTHER -> Local(k, token, seen, amount)

\* Faulty: the administrator of the token that is given.
SwapAccountsOwnAdmin(k, token) ==
  LET a == Accounts[k] IN
  IF token = a.tokenB
  THEN [src |-> a.swapB, dst |-> a.swapA, tokenOut |-> a.tokenA, admin |-> a.adminB]
  ELSE [src |-> a.swapA, dst |-> a.swapB, tokenOut |-> a.tokenB, admin |-> a.adminA]

\* getSwapAccounts of saber, which has the administrator's account of the token that is
\* paid; those of orca and of raydium have none.
SwapAccounts(k, token) ==
  LET a == Accounts[k] IN
  IF token = a.tokenB
  THEN [src |-> a.swapB, dst |-> a.swapA, tokenOut |-> a.tokenA, admin |-> a.adminA]
  ELSE [src |-> a.swapA, dst |-> a.swapB, tokenOut |-> a.tokenB, admin |-> a.adminB]

\* The accounts of an instruction that have a direction.
Instruction(k, token, amount, kind) ==
  LET s == SwapAccounts(k, token) IN
  IF k \notin models \/ token \notin Pair(k) \/ NoUser \in {UserOf[token], UserOf[s.tokenOut]}
  THEN Error
  ELSE [ok |-> TRUE, kind |-> kind, amount |-> amount, userSrc |-> UserOf[token],
        swapSrc |-> s.src, swapDst |-> s.dst, userDst |-> UserOf[s.tokenOut], admin |-> s.admin]

OrcaStep(k, token, amount, flag, nonce) ==
  [step |-> Instruction(k, token, amount, 0), data |-> <<flag, nonce>>]
SaberStep(k, token, amount, flag, nonce) ==
  [step |-> Instruction(k, token, amount, 1), data |-> <<flag, nonce>>]
RaydiumStep(k, token, amount, flag) ==
  [step |-> Instruction(k, token, amount, 0), data |-> <<flag>>]
TokenswapStep == [step |-> Crash]   \* "not implement"

ArbitrageStep(k, token, amount, flag, nonce) ==
  CASE program = "orca" -> OrcaStep(k, token, amount, flag, nonce)
    [] program = "saber" -> SaberStep(k, token, amount, flag, nonce)
    [] program = "raydium" -> RaydiumStep(k, token, amount, flag)
    [] OTHER -> TokenswapStep

-----------------------------------------------------------------------------
Init ==
  /\ program \in Programs
  /\ phase = "new"
  /\ swaps = {} /\ models = {} /\ announced = {} /\ used = {} /\ subscribed = {} /\ missed = {}
  /\ users = [v \in Vaults |-> Unread]
  /\ chain = << [v \in Vaults |->
                  LET k == CHOOSE l \in Keys : v \in VaultsOf(l)
                  IN [amount |-> Before[k][IF v = Accounts[k].swapA THEN 1 ELSE 2], height |-> 1]] >>
  /\ updates = <<>> /\ half = FALSE
  /\ reading = NoQuote

\* parseAccount: of the program, and of the right size.
Parsed(k) == Accounts[k].owner = program /\ Accounts[k].sound

\* programAccounts and buildAccounts; an account that is not sound is skipped.
List ==
  /\ phase = "new"
  /\ phase' = "listed"
  /\ swaps' = {k \in Keys : Parsed(k)}
  /\ UNCHANGED <<program, models, announced, used, users, subscribed, world, updates, half, reading>>

\* A fetch of Start fails, and Start with it.
Fail ==
  /\ phase \in {"new", "listed"}
  /\ phase' = "failed"
  /\ UNCHANGED <<program, swaps, models, announced, used, users, subscribed, world, updates, half,
                 reading>>

\* RetrieveUsers, in one request for all of the vaults.
RetrieveUsers ==
  [v \in Vaults |-> IF v \in Lost \/ \A k \in swaps : v \notin VaultsOf(k)
                    THEN users[v] ELSE [amount |-> chain[Slot][v].amount, height |-> Slot]]

\* callback of orca and of tokenswap.
CallbackProduct == {k \in models' : Accounts[k].curve = "product"}
\* callback of saber, and of raydium.
CallbackAll == models'

\* buildModels, and the callbacks: a pool without one of its vaults is skipped, the others
\* are announced, and the calculators take those they want.
Build ==
  /\ phase = "listed"
  /\ phase' = "built"
  /\ users' = RetrieveUsers
  /\ models' = {k \in swaps : VaultsOf(k) \cap Lost = {}}
  /\ announced' = IF program \in {"orca", "tokenswap"} THEN CallbackProduct ELSE CallbackAll
  /\ used' \in SUBSET announced'
  /\ UNCHANGED <<program, swaps, subscribed, world, updates, half, reading>>

\* subscribeUpdate: the vaults of the models in use.
Wanted == UNION {VaultsOf(k) : k \in used}

Flash ==
  /\ phase = "built"
  /\ phase' = "flashed"
  /\ subscribed' = Wanted
  /\ UNCHANGED <<program, swaps, models, announced, used, users, world, updates, half, reading>>

\* The message of the feed for vault w.
Heard(now, w) == IF w \in subscribed THEN << [vault |-> w, user |-> now[w]] >> ELSE <<>>

\* A trade on the chain: both vaults of a pool of the program change in a slot, and the feed
\* has a message for each that is subscribed to, in either order.
Trade(k, r, first) ==
  LET a == Accounts[k].swapA
      b == Accounts[k].swapB
      now == [chain[Slot] EXCEPT ![a] = [amount |-> r[1], height |-> Slot + 1],
                                 ![b] = [amount |-> r[2], height |-> Slot + 1]]
      expected == phase = "flashed" /\ k \in used
  IN /\ Slot < MaxSlot /\ r[1] # chain[Slot][a].amount /\ r[2] # chain[Slot][b].amount
     /\ chain' = Append(chain, now)
     /\ updates' = IF first = "a" THEN updates \o Heard(now, a) \o Heard(now, b)
                   ELSE updates \o Heard(now, b) \o Heard(now, a)
     /\ missed' = IF phase \in {"new", "listed"} THEN missed
                  ELSE IF expected THEN missed \ {a, b} ELSE missed \cup {a, b}
     /\ UNCHANGED <<starting, users, half, reading>>
Trades ==
  \E k \in {l \in Keys : Accounts[l].owner = program} : \E r \in ReservesOf[k], first \in {"a", "b"} :
    Trade(k, r, first)

\* The SPL token program works off a message (module AccountFeed): the models hold the same
\* user.  The layout with the amount is stored first.
SplUpdate ==
  LET m == Head(updates) IN
  /\ updates # <<>> /\ ~half
  /\ half' = TRUE
  /\ users' = [users EXCEPT ![m.vault].amount = m.user.amount]
  /\ reading' = IF reading # NoQuote /\ m.vault \in VaultsOf(reading.pool)
                THEN [reading EXCEPT !.calm = FALSE] ELSE reading
  /\ UNCHANGED <<starting, world, updates>>

\* Faulty: the height stays.
SplHeightStays ==
  /\ half
  /\ half' = FALSE
  /\ updates' = Tail(updates)
  /\ UNCHANGED <<starting, users, world, reading>>

\* Then its height.
SplHeight ==
  /\ half
  /\ half' = FALSE
  /\ updates' = Tail(updates)
  /\ users' = [users EXCEPT ![Head(updates).vault].height = Head(updates).user.height]
  /\ UNCHANGED <<starting, world, reading>>

\* A calculator asks for a quote, which reads the first word.
Ask(k, token) ==
  /\ reading = NoQuote /\ k \in models /\ token \in Pair(k)
  /\ reading' = [pool |-> k, token |-> token, seen |-> <<Words(k, token)[1]>>,
                 calm |-> ~(half /\ Head(updates).vault \in VaultsOf(k))]
  /\ UNCHANGED <<starting, users, world, updates, half>>

\* It reads the next one.
Read ==
  /\ reading # NoQuote /\ Len(reading.seen) < 4
  /\ reading' = [reading EXCEPT !.seen =
                   Append(@, Words(reading.pool, reading.token)[Len(@) + 1])]
  /\ UNCHANGED <<starting, users, world, updates, half>>

\* All words are read, and Local returns.
Answered == Len(reading.seen) = 4
Return ==
  /\ Answered
  /\ reading' = NoQuote
  /\ UNCHANGED <<starting, users, world, updates, half>>

Quoting == (\E k \in models : \E token \in Pair(k) : Ask(k, token)) \/ Read \/ Return

Next == List \/ Fail \/ Build \/ Flash \/ Trades \/ SplUpdate \/ SplHeight \/ Quoting
Spec == Init /\ [][Next]_vars

-----------------------------------------------------------------------------
(* Properties. *)

TypeOK ==
  /\ program \in Programs
  /\ phase \in {"new", "listed", "built", "flashed", "failed"}
  /\ used \subseteq announced /\ announced \subseteq models /\ models \subseteq swaps
  /\ swaps \subseteq Keys /\ subscribed \subseteq Vaults /\ missed \subseteq Vaults
  /\ DOMAIN users = Vaults /\ \A v \in Vaults : users[v].amount \in Nat /\ users[v].height \in 0 .. Slot
  /\ Slot \in 1 .. MaxSlot
  /\ Len(updates) <= 2 * MaxSlot /\ half \in BOOLEAN
  /\ \/ reading = NoQuote
     \/ /\ DOMAIN reading = {"pool", "token", "seen", "calm"}
        /\ reading.pool \in models /\ reading.token \in Pair(reading.pool)
        /\ reading.seen \in Seq(Nat) /\ Len(reading.seen) \in 1 .. 4 /\ reading.calm \in BOOLEAN

\* When the messages are worked off, the program knows both vaults of every pool in use as
\* they are, but for changes between the reading and Flash (buildModels, subscribeUpdate).
VaultsFollow ==
  (updates = <<>> /\ phase = "flashed") => \A k \in used :
     \A v \in VaultsOf(k) \ missed : users[v].amount = chain[Slot][v].amount

\* What is answered for each amount.
Answers == [amount \in Amounts |-> Quote(reading.pool, reading.token, reading.seen, amount)]

\* The vaults that are read.
Read2 == Direction(reading.pool, Sold(reading.pool, reading.token))

\* A quote may be of two slots, one for each vault: then it is of a pool that never was; and
\* when a message about one of its vaults is worked on meanwhile, an amount may be of
\* another slot than the quote says (Local, upsertUser).  But each amount was its vault's at
\* some slot; and if no message was worked on and the slots are equal, the quote is what
\* the pool paid at that slot, by an exchange that looks at the accounts then.
OneSlotIsReal ==
  Answered =>
    LET k == reading.pool
        d == Read2
        answers == Answers
        WasHeld(v, amount) == \E h \in 1 .. Slot : chain[h][v].amount = amount
    IN /\ WasHeld(d.src, reading.seen[1]) /\ WasHeld(d.dst, reading.seen[3])
       /\ \A amount \in Amounts :
            LET q == answers[amount]
            IN (q.ok /\ reading.calm /\ q.slotIn # 0 /\ q.slotIn = q.slotOut) =>
                 q.out = Pays(k, reading.token, chain[q.slotIn][d.src].amount,
                              chain[q.slotIn][d.dst].amount, amount).out

\* Whatever is quoted can be carried out as it was quoted: the instruction takes the two
\* vaults that the quote has read and the users, in the same order, and a fee account of the
\* token that is paid (getSwapAccounts, InstructionArbitrageStep).  A pool of tokenswap is
\* announced, quoted, and then panics; a quote of raydium panics itself.
StepFollowsQuote ==
  (Answered /\ reading.pool \in announced /\ program # "tokenswap") =>
    LET k == reading.pool
        answers == Answers
    IN \A amount \in Amounts :
         LET q == answers[amount]
             step == ArbitrageStep(k, reading.token, amount, 0, 0).step
             funded == \A t \in Pair(k) : UserOf[t] # NoUser
         IN q.ok =>
              /\ step.ok = funded
              /\ step.ok => /\ step.userSrc = UserOf[q.tokenIn] /\ step.userDst = UserOf[q.tokenOut]
                            /\ step.swapSrc = Read2.src /\ step.swapDst = Read2.dst
                            /\ step.admin = IF q.tokenOut = Accounts[k].tokenA THEN Accounts[k].adminA
                                            ELSE Accounts[k].adminB

\* What a swap may pay at most.
AtMost(swap, limit) == swap.ok => swap.out <= limit

\* A swap and the swap back, each as it is quoted by a model, gain no more than the
\* roundings, which are in the trader's favour: the quotes invent no arbitrage in a pool by
\* itself, not even when one amount is from before a trade and the other from after it.
NoGain(k, x, y, amount, kept, q) ==
  (q.ok /\ q.out > 0) => AtMost(Pays(k, q.tokenOut, y - q.out, x + kept, q.out), amount + Gain)
NoGainInside ==
  Answered =>
    LET q == Answers
    IN \A amount \in Amounts :
         NoGain(reading.pool, reading.seen[1], reading.seen[3], amount,
                IF Accounts[reading.pool].curve = "saber" THEN amount ELSE LessFees(amount),
                q[amount])

\* A pool pays less than it has, unless the price is constant, and never less for more (the
\* search of the best amount goes by that).
MoreForMore ==
  Answered =>
    LET q == Answers
    IN \A amount \in Amounts : q[amount].ok =>
         /\ q[amount].out < reading.seen[3] \/ Accounts[reading.pool].curve = "price"
         /\ \A less \in Amounts : less < amount => AtMost(q[less], q[amount].out)

\* The pools of constant product: they pay no more than they have, for a larger amount after
\* the fees never less, and for what they paid no more than was given but for one unit of
\* what is given and the price of one unit of what is paid, the two roundings (Local,
\* swapWithoutFeesConstantProduct).
Fair(k, x, y, kept, q, quotes) ==
  q.ok => /\ q.out \in 0 .. y
          /\ \A less \in Amounts : LessFees(less) <= kept => AtMost(quotes[less], q.out)
          /\ AtMost(Pays(k, q.tokenOut, y - q.out, x + kept, q.out), kept + 1 + (x + kept) \div y)
ProductFair ==
  (Answered /\ Accounts[reading.pool].curve = "product") =>
    LET q == Answers
    IN \A amount \in Amounts :
         Fair(reading.pool, reading.seen[1], reading.seen[3], LessFees(amount), q[amount], q)

\* What the program has of the vaults is the chain's, and so is a quote of one slot.
VaultsKnown == TypeOK /\ VaultsFollow /\ OneSlotIsReal

\* The curves, as they are calculated, invent no arbitrage and are monotone.
CurvesSound == NoGainInside /\ MoreForMore /\ ProductFair
=============================================================================
