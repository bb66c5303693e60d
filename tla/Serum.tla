--------------------------------- MODULE Serum ---------------------------------
(***************************************************************************)
(* The Serum program of serumv2: it lists the markets of the chain, keeps  *)
(* the order books of those that are used, and quotes, out of the best     *)
(* Depth orders of each side, what a market pays.                          *)
(*                                                                         *)
(* The sides are crossed twice: upsertModel gets the books in the wrong    *)
(* order, so that model.Bid is the book of the market's Asks, and items    *)
(* reads each book from the end that fits this.  AskTick0 are therefore    *)
(* the best bids, which a sale of the base token meets.                    *)
(*                                                                         *)
(* A slab is a crit-bit tree: the keys below Children[0] are smaller than  *)
(* those below Children[1].  Its indices are left out: a node stands for   *)
(* the orders below it.  The price of an order is in quote lots for a base *)
(* lot; the owners of the orders are left out.                             *)
(*                                                                         *)
(* Prices and sums are decimals.  A product is exact, a quotient is        *)
(* rounded to the nearest part, of which Scale make one.  Here a price and *)
(* an amount of the quote token are given in parts, wherever a definition  *)
(* says so.                                                                *)
(***************************************************************************)
EXTENDS Integers, Sequences, FiniteSets

CONSTANTS
  Versions,      \* of the program: "v1", "v2"
  Accounts,      \* the accounts of the program, by key, each with its kind: "market",
                 \* "orders" (open orders), "foreign" (another owner) or "other"
  MarketOf,      \* of the markets: base, quote, bids, asks
  BooksOf,       \* the contents a book can have: sequences of orders, by rising price
  Split(_, _, _),  \* the shape of the trees: (orders, first, last), the last order below
                 \* Children[0] of the node of the orders from first to last
  Broken,        \* books whose data cannot be read at the start
  Incomplete,    \* markets with a queue or a vault that cannot be read
  Depth,         \* ticks of a side (5)
  BaseLotSize, QuoteLotSize,
  Scale,         \* parts of one (10^16, the sixteen digits that Div keeps)
  Multiplier,    \* of a token: its units in one token
  Micro,         \* the units of USDC in one (10^6)
  Worth,         \* Swap adds ticks up to this worth (500 USDC)
  Amounts,       \* amounts of a quote
  UserOf,        \* the token account of a token, or NoUser
  UpdateCap,     \* capacity of updateAccounts (1024)
  MaxSlot        \* bound: changes of a book

NoUser == "zero"
Order == [price : Nat \ {0}, quantity : Nat \ {0}]
NoBook == [there |-> FALSE]
Markets == {k \in DOMAIN Accounts : Accounts[k] = "market"}
Books == DOMAIN BooksOf
BooksOn(m) == {MarketOf[m].bids, MarketOf[m].asks}

ASSUME SerumAssumption ==
  /\ Versions \subseteq {"v1", "v2"}
  /\ \A k \in DOMAIN Accounts : Accounts[k] \in {"market", "orders", "foreign", "other"}
  /\ Markets = DOMAIN MarketOf /\ Incomplete \subseteq Markets /\ Broken \subseteq Books
  /\ \A k \in Markets : MarketOf[k].bids \in Books /\ MarketOf[k].asks \in Books
  /\ \A k \in Markets : /\ MarketOf[k].base # MarketOf[k].quote
                         /\ MarketOf[k].bids # MarketOf[k].asks
                         /\ \A l \in Markets \ {k} : BooksOn(k) \cap BooksOn(l) = {}
  /\ \A b \in Books : \A s \in BooksOf[b] :
       /\ s \in Seq(Order)
       /\ \A i \in DOMAIN s : \A j \in 1 .. i : s[j].price <= s[i].price
       /\ \A i, j \in DOMAIN s : i < j => Split(s, i, j) \in i .. (j - 1)
  /\ Depth \in Nat \ {0} /\ UpdateCap \in Nat \ {0} /\ Worth \in Nat /\ MaxSlot \in Nat
  /\ BaseLotSize \in Nat \ {0} /\ QuoteLotSize \in Nat \ {0}
  /\ Scale \in Nat \ {0} /\ BaseLotSize <= Scale   \* so that no price is rounded to zero
  /\ \A k \in Markets : \A t \in {MarketOf[k].base, MarketOf[k].quote} :
       Multiplier[t] \in Nat \ {0}
  /\ Micro \in Nat \ {0}
  /\ Amounts \subseteq Nat \ {0}

VARIABLES
  version,     \* the program that runs
  phase,       \* "new", "listed", "built", "announced", "flashed", "failed"
  markets,     \* the markets that were read
  orderBooks,  \* what the program knows of a book: its height and its slab, or NoBook;
               \* and, as a history, the slot that they are from
  models,      \* the markets that have a model
  ticks,       \* of each market, the ticks on its two sides (v2)
  used,        \* the models that a calculator uses
  subscribed,  \* the books that were subscribed to
  chain,       \* the books as they are: their orders, and the slot of the last change
  updates,     \* updateAccounts; in v1, the update that the feed delivers
  updater,     \* what the goroutine of update does
  missed       \* history: books of used models whose last change came before Flash, or
               \* in a message that cannot be read

vars == <<version, phase, markets, orderBooks, models, ticks, used, subscribed, chain,
          updates, updater, missed>>
listing == <<version, phase, markets, models, used, subscribed>>

Idle == [at |-> "idle"]
NoTick == [price |-> 0, quantity |-> 0]
NoTicks == [i \in 1 .. Depth |-> NoTick]
Error == [ok |-> FALSE]

-----------------------------------------------------------------------------
(* The order books.  A slab is given by its orders, by rising price; its   *)
(* tree may have any shape: Split says where the orders below a node part, *)
(* and LeafCount is the number of the orders.                              *)

Node(first, last) == [first |-> first, last |-> last]
Children(orders, node) ==
  LET k == Split(orders, node.first, node.last)
  IN <<Node(node.first, k), Node(k + 1, node.last)>>

\* One pass of the loop of items, which takes the node on top of the stack.
Popped(orders, bids, at) ==
  LET node == Head(at.stack)
      children == Children(orders, node)
  IN IF node.first = node.last
     THEN [stack |-> Tail(at.stack), leaves |-> Append(at.leaves, orders[node.first])]
     ELSE [stack |-> (IF bids THEN children ELSE <<children[2], children[1]>>) \o Tail(at.stack),
           leaves |-> at.leaves]

\* items, which walks a tree of at most 2 * Len(orders) nodes: the first size orders, from
\* the end that has the small keys if bids is set, and from the other otherwise.
Items(orders, bids, size) ==
  LET walk[i \in 0 .. 2 * Len(orders)] ==
        IF i = 0 THEN [stack |-> <<Node(1, Len(orders))>>, leaves |-> <<>>]
        ELSE LET at == walk[i - 1]
             IN IF at.stack = <<>> \/ Len(at.leaves) >= size THEN at ELSE Popped(orders, bids, at)
  IN IF orders = <<>> THEN <<>> ELSE walk[2 * Len(orders)].leaves

\* items of v1 has no size.
Items1(orders, bids) == Items(orders, bids, Len(orders))

\* A quotient, rounded to the nearest.
DivRound(x, y) == (2 * x + y) \div (2 * y)

\* In parts: the price, in units of the quote token, of a unit of the base token.
PriceLotsToNumber(price) == DivRound(price * QuoteLotSize * Scale, BaseLotSize)
BaseSizeLotsToNumber(quantity) == quantity * BaseLotSize
BaseSizeNumberToLots(quantity) == DivRound(quantity * Scale, BaseLotSize) \div Scale

\* In parts: the price of a token, for one of the quote token.
PriceNumberToUi(price, base, quote) == DivRound(price * base, quote)

\* The ticks of orders; their prices are in parts.
Ticks(items) ==
  [i \in DOMAIN items |-> [price |-> PriceLotsToNumber(items[i].price),
                           quantity |-> BaseSizeLotsToNumber(items[i].quantity)]]

(* Faulty variants of some of the definitions below, which show that the   *)
(* properties tell them from the code.  No specification uses them.        *)

\* Faulty: the books in the right order, with items as it is.
ModelStraight(m) == [bid |-> MarketOf[m].bids, ask |-> MarketOf[m].asks]

\* The books of a model: upsertModel takes bid before ask, and is given ask before bid.
Model(m) == [bid |-> MarketOf[m].asks, ask |-> MarketOf[m].bids]

Bids(books, m) == Ticks(Items(books[Model(m).bid].slab, TRUE, Depth))
Asks(books, m) == Ticks(Items(books[Model(m).ask].slab, FALSE, Depth))
BidsRaw(m) == Items(orderBooks[Model(m).bid].slab, TRUE, 1)
AsksRaw(m) == Items(orderBooks[Model(m).ask].slab, FALSE, 1)

\* Copies the ticks of a book over those of the model; those beyond the end of the book
\* stay what they were.
Copy(old, new) == [i \in 1 .. Depth |-> IF i <= Len(new) THEN new[i] ELSE old[i]]

-----------------------------------------------------------------------------
(* Quotes.  The loops over the ticks are functions of how many ticks they  *)
(* have passed.                                                            *)

\* The running totals of a sequence.
Sums(s) == LET sum[i \in 0 .. Len(s)] == IF i = 0 THEN 0 ELSE sum[i - 1] + s[i] IN sum

Quantities(side) == [i \in DOMAIN side |-> side[i].quantity]
\* In parts.
Costs(side) == [i \in DOMAIN side |-> side[i].price * side[i].quantity]

\* In parts, of what is left of an amount at a tick that can take it: what it gets there.
Gets(left, tick, selling) ==
  IF selling THEN left * tick.price ELSE DivRound(left * Scale, tick.price)

\* Faulty: a tick that does not do is taken in full and forgotten.
TookForgets(s, tick, selling) ==
  LET cost == tick.price * tick.quantity
      takes == IF selling THEN tick.quantity ELSE cost
      gives == IF selling THEN cost ELSE tick.quantity * Scale
  IN IF s.left = 0 THEN s
     ELSE IF s.left <= takes THEN [left |-> 0, got |-> s.got + Gets(s.left, tick, selling)]
     ELSE [left |-> s.left - takes, got |-> gives]

\* One tick of the loop of Swap1: what is left of the amount, in parts if it is of the quote
\* token, and what was got for the rest, in parts.  The loop ends when nothing is left.
Took(s, tick, selling) ==
  LET cost == tick.price * tick.quantity
      takes == IF selling THEN tick.quantity ELSE cost
      gives == IF selling THEN cost ELSE tick.quantity * Scale
  IN IF s.left = 0 THEN s
     ELSE IF s.left <= takes THEN [left |-> 0, got |-> s.got + Gets(s.left, tick, selling)]
     ELSE [left |-> s.left - takes, got |-> s.got + gives]

\* Swap1: what the ticks give for the amount, of the base token if it is sold.
Swap1(side, selling, amount) ==
  LET start == [left |-> IF selling THEN amount ELSE amount * Scale, got |-> 0]
      passed[i \in 0 .. Depth] == IF i = 0 THEN start ELSE Took(passed[i - 1], side[i], selling)
  IN passed[Depth].got \div Scale

\* What an amount, in parts, is worth at this price of a token.
WorthOf(amount, price) == DivRound(amount * price, Micro) \div Scale

\* Swap, which the Serum calculator asks: all of the ticks until what is given is worth
\* more than Worth at this price of the token: the base and the quote tokens they trade.
Swap(side, selling, price) ==
  LET base == Sums(Quantities(side))
      quote == Sums(Costs(side))
      enough == {i \in 1 .. Depth :
                   WorthOf(IF selling THEN base[i] * Scale ELSE quote[i], price) > Worth}
      last == IF enough = {} THEN Depth ELSE CHOOSE i \in enough : \A j \in enough : i <= j
  IN [base |-> base[last], quote |-> quote[last] \div Scale]

\* The ticks that a token meets; there is no quote if the first has no quantity.
Side(m, selling) == IF selling THEN ticks[m].ask ELSE ticks[m].bid
Quoted(m, selling) == Side(m, selling)[1].quantity # 0

-----------------------------------------------------------------------------
(* What the program answers. *)

Pair(m) == {MarketOf[m].base, MarketOf[m].quote}
Reading == {"announced", "flashed"}

\* Local of v2: the quote of a token and an amount, with the slot of the book it is from.
Local(m, token, amount) ==
  LET selling == token = MarketOf[m].base IN
  IF m \notin models \/ token \notin Pair(m) \/ ~Quoted(m, selling) THEN Error
  ELSE [ok |-> TRUE, tokenIn |-> token, tokenOut |-> CHOOSE t \in Pair(m) : t # token,
        in |-> amount, out |-> Swap1(Side(m, selling), selling, amount),
        slotIn |-> orderBooks[IF selling THEN Model(m).ask ELSE Model(m).bid].height]

\* Swap of v1: the best order of the book, whatever the amount.
BestOrder(m, selling) ==
  LET best == Ticks(IF selling THEN Items1(orderBooks[Model(m).ask].slab, FALSE)
                    ELSE Items1(orderBooks[Model(m).bid].slab, TRUE))
      quote == (best[1].price * best[1].quantity) \div Scale
  IN IF best = <<>> THEN Error
     ELSE [ok |-> TRUE, in |-> IF selling THEN best[1].quantity ELSE quote,
           out |-> IF selling THEN quote ELSE best[1].quantity]

\* Local of v1.
Local1(m, token) ==
  IF m \notin models \/ token \notin Pair(m) THEN Error
  ELSE BestOrder(m, token = MarketOf[m].base)

\* How much of the base token an amount of the quote token buys at a price, in parts, of a
\* token: the amount in tokens, what that buys, and this in units again.
Affords(m, amount, ui) ==
  LET tokens == DivRound(amount * Scale, Multiplier[MarketOf[m].quote])
  IN (DivRound(tokens * Scale, ui) * Multiplier[MarketOf[m].base]) \div Scale

\* The price of a token in a purchase up to a limit.
Ui(m, limit) == PriceNumberToUi(PriceLotsToNumber(limit), Multiplier[MarketOf[m].base],
                                Multiplier[MarketOf[m].quote])

\* InstructionNewOrder: an order to fill at once or to cancel, two percent beyond the best
\* price.  Its quantities are in lots of the base token and in units of the quote token.
\* (Where the price of a token is rounded to zero, the code panics, and makes no order.)
NewOrder(m, token, amount) ==
  LET selling == token = MarketOf[m].base
      raw == IF selling THEN AsksRaw(m) ELSE BidsRaw(m)
      limit == (raw[1].price * (IF selling THEN 98 ELSE 102)) \div 100
      base == BaseSizeNumberToLots(IF selling THEN amount ELSE Affords(m, amount, Ui(m, limit)))
  IN IF m \notin models \/ raw = <<>> \/ (~selling /\ Ui(m, limit) = 0) THEN Error
     ELSE [ok |-> TRUE, side |-> IF selling THEN 1 ELSE 0, limit |-> limit, maxBase |-> base,
           maxQuote |-> QuoteLotSize * base * limit]

\* Faulty: the destination first.
GetMarketAccountsSwapped(m, token) ==
  <<CHOOSE t \in Pair(m) : t # token, token>>

\* getMarketAccounts: the token to give and the token to get.
GetMarketAccounts(m, token) ==
  <<token, CHOOSE t \in Pair(m) : t # token>>

\* InstructionArbitrageStep of v2.  The vaults, the queues, the signer of the vaults and
\* the programs, which are the market's own, are left out.
ArbitrageStep(m, token, amount, flag) ==
  LET users == [i \in 1 .. 2 |-> UserOf[GetMarketAccounts(m, token)[i]]] IN
  IF m \notin models \/ token \notin Pair(m) \/ NoUser \in {users[1], users[2]} THEN Error
  ELSE [ok |-> TRUE, amount |-> amount, side |-> IF token = MarketOf[m].base THEN 1 ELSE 0,
        flag |-> flag, bids |-> MarketOf[m].bids, asks |-> MarketOf[m].asks,
        userSrc |-> users[1], userDst |-> users[2],
        userBase |-> UserOf[MarketOf[m].base], userQuote |-> UserOf[MarketOf[m].quote]]

-----------------------------------------------------------------------------
Init ==
  /\ version \in Versions
  /\ phase = "new"
  /\ markets = {} /\ models = {} /\ used = {} /\ subscribed = {} /\ missed = {}
  /\ orderBooks = [b \in Books |-> NoBook]
  /\ ticks = [m \in Markets |-> [bid |-> NoTicks, ask |-> NoTicks]]
  /\ chain \in [Books -> {[slot |-> 1, orders |-> s] : s \in UNION {BooksOf[b] : b \in Books}}]
  /\ \A b \in Books : chain[b].orders \in BooksOf[b]
  /\ updates = <<>>
  /\ updater = Idle

\* programAccounts and buildAccounts: the markets are kept, the open orders noted, and the
\* accounts of another owner or size skipped.
List ==
  /\ phase = "new"
  /\ phase' = "listed"
  /\ markets' = {k \in DOMAIN Accounts : Accounts[k] = "market"}
  /\ UNCHANGED <<version, orderBooks, models, ticks, used, subscribed, chain, updates, updater, missed>>

\* One of the fetches of Start fails, and Start with it.
Fail ==
  /\ phase \in {"new", "listed"}
  /\ phase' = "failed"
  /\ UNCHANGED <<version, markets, orderBooks, models, ticks, used, subscribed, chain, updates,
                 updater, missed>>

\* A new entry of the program's books.
KeyedOrderBook(account, height) ==
  [there |-> TRUE, height |-> height, slot |-> account.slot, slab |-> account.orders]

\* RetrieveOrderBooks, for the books of the markets.
Retrieved ==
  [b \in Books |-> IF b \in Broken \/ \A m \in markets : b \notin BooksOn(m)
                   THEN orderBooks[b]
                   ELSE KeyedOrderBook(chain[b], chain[b].slot)]
Whole(m) == orderBooks'[MarketOf[m].asks].there /\ orderBooks'[MarketOf[m].bids].there

\* buildModels of v2: a market without its books is skipped; the ticks are read.
Build ==
  /\ version = "v2" /\ phase = "listed"
  /\ phase' = "built"
  /\ orderBooks' = Retrieved
  /\ models' = {m \in markets : Whole(m)}
  /\ ticks' = [m \in Markets |-> IF m \in models'
                                 THEN [bid |-> Copy(ticks[m].bid, Bids(orderBooks', m)),
                                       ask |-> Copy(ticks[m].ask, Asks(orderBooks', m))]
                                 ELSE ticks[m]]
  /\ UNCHANGED <<version, markets, used, subscribed, chain, updates, updater, missed>>

\* buildModels of v1, which needs the queues and the vaults too, and has no ticks.
Build1 ==
  /\ version = "v1" /\ phase = "listed"
  /\ phase' = "built"
  /\ orderBooks' = Retrieved
  /\ models' = {m \in markets \ Incomplete : Whole(m)}
  /\ UNCHANGED <<version, markets, ticks, used, subscribed, chain, updates, updater, missed>>

\* The callbacks of Start: the calculators take the models they want.
Announce ==
  /\ phase = "built"
  /\ phase' = "announced"
  /\ used' \in SUBSET models
  /\ UNCHANGED <<version, markets, orderBooks, models, ticks, subscribed, chain, updates, updater,
                 missed>>

\* subscribeUpdate: both books of the models that are used.
Wanted == UNION {BooksOn(m) : m \in used}

Flash ==
  /\ phase = "announced"
  /\ phase' = "flashed"
  /\ subscribed' = Wanted
  /\ UNCHANGED <<version, markets, orderBooks, models, ticks, used, chain, updates, updater, missed>>

\* The exchange changes a book, and the feed delivers it if there is room; readable says
\* whether the program can read the message.  (While there is none, the feed waits, and
\* what it holds back counts as a change still to come.)
Exchange ==
  \E b \in Books, readable \in BOOLEAN :
  \E s \in BooksOf[b] \ {chain[b].orders} :
    LET expected == phase = "flashed" /\ \E m \in used : b \in BooksOn(m)
        next == [slot |-> chain[b].slot + 1, orders |-> s]
    IN /\ chain[b].slot < MaxSlot /\ Len(updates) < UpdateCap
       /\ chain' = [chain EXCEPT ![b] = next]
       /\ updates' = IF b \in subscribed
                     THEN Append(updates, [book |-> b, readable |-> readable, account |-> next])
                     ELSE updates
       /\ missed' = IF phase \in {"new", "listed"} THEN missed
                    ELSE IF expected /\ readable THEN missed \ {b} ELSE missed \cup {b}
       /\ UNCHANGED <<listing, orderBooks, ticks, updater>>

\* upsertOrderBook of v2.
Upsert(update) ==
  [orderBooks EXCEPT ![update.book] = KeyedOrderBook(update.account, update.account.slot)]

\* upsertOrderBook of v1, which leaves the height as it is.
Upsert1(update) ==
  [orderBooks EXCEPT ![update.book] = KeyedOrderBook(update.account, @.height)]

\* updateAccount: the new book, if it can be read; the ticks follow.
Take ==
  /\ version = "v2" /\ updates # <<>> /\ updater = Idle
  /\ updates' = Tail(updates)
  /\ IF Head(updates).readable
     THEN /\ orderBooks' = Upsert(Head(updates))
          /\ updater' = [at |-> "bids", book |-> Head(updates).book]
     ELSE UNCHANGED <<orderBooks, updater>>
  /\ UNCHANGED <<listing, ticks, chain, missed>>

\* The model of the book, both of whose sides are read again.
Changed == CHOOSE m \in models : updater.book \in BooksOn(m)

CopyBids ==
  /\ updater.at = "bids"
  /\ ticks' = [ticks EXCEPT ![Changed].bid = Copy(@, Bids(orderBooks, Changed))]
  /\ updater' = [updater EXCEPT !.at = "asks"]
  /\ UNCHANGED <<listing, orderBooks, chain, updates, missed>>

\* The last ticks; then OnStateUpdate tells the trigger (module TriggerGate).
CopyAsks ==
  /\ updater.at = "asks"
  /\ ticks' = [ticks EXCEPT ![Changed].ask = Copy(@, Asks(orderBooks, Changed))]
  /\ updater' = Idle
  /\ UNCHANGED <<listing, orderBooks, chain, updates, missed>>

\* OnAccountUpdate of v1, which has no goroutine of its own.
OnAccountUpdate ==
  /\ version = "v1" /\ updates # <<>>
  /\ updates' = Tail(updates)
  /\ orderBooks' = IF Head(updates).readable THEN Upsert1(Head(updates)) ELSE orderBooks
  /\ UNCHANGED <<listing, ticks, chain, updater, missed>>

\* The context is done: update returns, and the queue fills up.
Quit ==
  /\ version = "v2" /\ phase = "flashed" /\ updater = Idle
  /\ updater' = [at |-> "gone"]
  /\ UNCHANGED <<listing, orderBooks, ticks, chain, updates, missed>>

\* The goroutine of update; in v1, that of the feed.
Update == Take \/ CopyBids \/ CopyAsks \/ OnAccountUpdate

Next == List \/ Fail \/ Build \/ Build1 \/ Announce \/ Flash \/ Exchange \/ Update \/ Quit

Spec == Init /\ [][Next]_vars

-----------------------------------------------------------------------------
(* Properties. *)

TypeOK ==
  /\ version \in Versions
  /\ phase \in {"new", "listed", "built", "announced", "flashed", "failed"}
  /\ used \subseteq models /\ models \subseteq markets /\ markets \subseteq Markets
  /\ subscribed \subseteq Books /\ missed \subseteq Books
  /\ DOMAIN orderBooks = Books /\ DOMAIN chain = Books
  /\ \A m \in Markets : DOMAIN ticks[m].bid = 1 .. Depth /\ DOMAIN ticks[m].ask = 1 .. Depth
  /\ Len(updates) <= UpdateCap
  /\ updater.at \in {"idle", "bids", "asks", "gone"}

Settled == updates = <<>> /\ updater = Idle

\* The program knows the book as it is.
Current(b) == Settled /\ orderBooks[b].there /\ orderBooks[b].slot = chain[b].slot

\* When the updates are worked off, the program has the last state of both books of every
\* model in use, but for changes between the first reading and Flash and for messages it
\* cannot read (buildModels, subscribeUpdate, updateAccount).
KnowsLast ==
  (Settled /\ phase = "flashed") =>
     \A m \in used : \A b \in BooksOn(m) \ missed : Current(b)

\* The best orders first: the dearest bid, the cheapest ask.
BestBids(m) == LET s == chain[MarketOf[m].bids].orders
               IN [i \in DOMAIN s |-> s[Len(s) + 1 - i]]
BestAsks(m) == chain[MarketOf[m].asks].orders
StartsWith(side, s) == \A i \in 1 .. Depth : i \in DOMAIN s => side[i] = s[i]

\* Although the sides are crossed twice, a sale of the base token meets the best bids and
\* a purchase the best asks: the first ticks of a side are the best orders of the other
\* side's book, best first, at the moment the program knows (upsertModel, items, bids).
TicksAreBest ==
  version = "v2" => \A m \in models :
    /\ Current(MarketOf[m].bids) => StartsWith(ticks[m].ask, Ticks(BestBids(m)))
    /\ Current(MarketOf[m].asks) => StartsWith(ticks[m].bid, Ticks(BestAsks(m)))

\* The orders as the exchange counts, without a rounding: the price of BaseLotSize units of
\* the base token, in units of the quote token.
Exactly(orders) ==
  [i \in DOMAIN orders |-> [price |-> orders[i].price * QuoteLotSize,
                            quantity |-> BaseSizeLotsToNumber(orders[i].quantity)]]

\* What ticks give for an amount of the base token, and what they take for it: one is
\* filled as far as those before it leave something.
Filled(tick, before, amount) ==
  IF amount <= before THEN 0
  ELSE IF amount - before < tick.quantity THEN amount - before ELSE tick.quantity
Size(s) == Sums(Quantities(s))[Len(s)]
Total(s, amount) ==
  LET before == Sums(Quantities(s))
  IN Sums([i \in DOMAIN s |-> s[i].price * Filled(s[i], before[i - 1], amount)])[Len(s)]
Top(orders) == IF Len(orders) > Depth THEN SubSeq(orders, 1, Depth) ELSE orders

\* A number of units of the quote token is what the exchange counts for an amount of the
\* base token, cut to a whole number, but for the rounding of the prices: half a part for
\* each unit of the base token.
NoMore(units, orders, amount) ==
  2 * Scale * BaseLotSize * units
    <= 2 * Scale * Total(Exactly(orders), amount) + BaseLotSize * amount
NoLess(units, orders, amount) ==
  2 * Scale * Total(Exactly(orders), amount)
    < 2 * Scale * BaseLotSize * (units + 1) + BaseLotSize * amount

\* The sale of an amount gets what the orders pay, and as much at least if they cannot take
\* all of it: then the ticks behind them, whose orders are gone, pay too.
FairSale(out, orders, amount) ==
  /\ NoLess(out, orders, amount)
  /\ amount <= Size(Exactly(orders)) => NoMore(out, orders, amount)

\* A purchase gets the most that the amount pays out of the orders: one unit more costs
\* more, and what it gets costs no more, if the orders can take the amount; but for the
\* rounding of the prices, and half a part of a unit at the price of one of the orders.
FairPurchase(out, orders, amount) ==
  LET cost(quantity) == Total(Exactly(orders), quantity)
      all == Size(Exactly(orders))
  IN /\ out < all =>
          2 * Scale * BaseLotSize * amount < 2 * Scale * cost(out + 1) + BaseLotSize * (out + 1)
     /\ 2 * Scale * BaseLotSize * amount + BaseLotSize * all <= 2 * Scale * cost(all) =>
          /\ out <= all
          /\ \E i \in DOMAIN orders :
               2 * Scale * Scale * cost(out)
                 <= BaseLotSize * (2 * Scale * Scale * amount + Scale * out
                                   + PriceLotsToNumber(orders[i].price))

\* A quote from books the program knows as they are is what the exchange would give, out
\* of its first Depth orders, for an amount they can take; a larger amount may be quoted
\* from orders that are gone, and then too much.  There is no quote only of an empty book.
QuoteHonest ==
  (version = "v2" /\ phase \in Reading) => \A m \in models : \A amount \in Amounts :
    LET sale == Local(m, MarketOf[m].base, amount)
        purchase == Local(m, MarketOf[m].quote, amount)
        bids == Top(BestBids(m))
        asks == Top(BestAsks(m))
    IN /\ Current(MarketOf[m].bids) =>
            IF sale.ok THEN FairSale(sale.out, bids, amount) ELSE bids = <<>>
       /\ Current(MarketOf[m].asks) =>
            IF purchase.ok THEN FairPurchase(purchase.out, asks, amount) ELSE asks = <<>>

\* Version 1 quotes the best order only, and says for which amount: what it quotes for it
\* in the quote token is what the exchange counts (Model.Swap of serumv1).
BestOrderQuoted ==
  (version = "v1" /\ phase \in Reading) => \A m \in models :
    LET sale == Local1(m, MarketOf[m].base)
        purchase == Local1(m, MarketOf[m].quote)
    IN /\ (Current(MarketOf[m].bids) /\ sale.ok) =>
            NoMore(sale.out, BestBids(m), sale.in) /\ NoLess(sale.out, BestBids(m), sale.in)
       /\ (Current(MarketOf[m].asks) /\ purchase.ok) =>
            /\ NoMore(purchase.in, BestAsks(m), purchase.out)
            /\ NoLess(purchase.in, BestAsks(m), purchase.out)

\* The Serum calculator searches on from what Swap offers.  Of a sale it is what Swap1 gives
\* for the same amount; the amount of a purchase is cut to whole units, which may pay for
\* less, and one unit more pays for all.  It is all of the ticks unless what is given is
\* worth more than Worth.
SwapWorth ==
  (version = "v2" /\ phase \in Reading) => \A m \in models : \A price \in Amounts :
    LET sale == Swap(ticks[m].ask, TRUE, price)
        purchase == Swap(ticks[m].bid, FALSE, price)
    IN /\ sale.quote = Swap1(ticks[m].ask, TRUE, sale.base)
       /\ WorthOf(sale.base * Scale, price) > Worth \/ sale.base = Size(ticks[m].ask)
       /\ Swap1(ticks[m].bid, FALSE, purchase.quote) <= purchase.base
       /\ Swap1(ticks[m].bid, FALSE, purchase.quote + 1) >= purchase.base
       /\ \/ WorthOf((purchase.quote + 1) * Scale, price) > Worth
          \/ purchase.base = Size(ticks[m].bid)

\* What the roundings of an order to buy may add to its cost: those of the amount in
\* tokens, of what that buys, and of the price, each by half a part.
Overrun(m, order) ==
  LET base == Multiplier[MarketOf[m].base]
      quote == Multiplier[MarketOf[m].quote]
  IN base * quote * (Scale + Ui(m, order.limit))
     + order.maxBase * BaseLotSize * Scale * (base + quote)

\* An order to fill at once meets the best order of the other side, and takes no more
\* than the amount, but for the roundings of a purchase (InstructionNewOrder).
OrderMeets ==
  (version = "v2" /\ phase \in Reading) => \A m \in models : \A amount \in Amounts :
    LET sale == NewOrder(m, MarketOf[m].base, amount)
        purchase == NewOrder(m, MarketOf[m].quote, amount)
        all == 2 * Scale * Scale * Multiplier[MarketOf[m].base]
    IN /\ (Current(MarketOf[m].bids) /\ sale.ok) =>
            /\ sale.limit <= chain[MarketOf[m].bids].orders[Len(chain[MarketOf[m].bids].orders)].price
            /\ sale.maxBase * BaseLotSize <= amount
       /\ (Current(MarketOf[m].asks) /\ purchase.ok) =>
            /\ purchase.limit >= chain[MarketOf[m].asks].orders[1].price
            /\ all * purchase.maxQuote <= all * amount + Overrun(m, purchase)

\* The instruction does what the quote said: it gives from the account of the token that
\* was quoted, it gets to the account of the other, and it meets the book the quote is from.
StepFollowsQuote ==
  (version = "v2" /\ phase \in Reading) =>
    \A m \in models : \A token \in Pair(m) : \A amount \in Amounts :
      LET quote == Local(m, token, amount)
          step == ArbitrageStep(m, token, amount, 0)
      IN (quote.ok /\ step.ok) =>
           /\ step.userSrc = UserOf[quote.tokenIn] /\ step.userDst = UserOf[quote.tokenOut]
           /\ step.userSrc = IF step.side = 1 THEN step.userBase ELSE step.userQuote
           /\ quote.slotIn = orderBooks[IF step.side = 1 THEN step.bids ELSE step.asks].height

\* What the program has of the books is the chain's, on the right sides, best first.
BooksKnown == TypeOK /\ KnowsLast /\ TicksAreBest

\* Every quote, of either version, is what the orders give.
QuotesSound == QuoteHonest /\ BestOrderQuoted /\ SwapWorth

\* Every instruction does what was quoted.
OrdersSound == OrderMeets /\ StepFollowsQuote
=============================================================================
