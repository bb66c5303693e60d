----------------------------- MODULE SerumProofs -----------------------------
(***************************************************************************)
(* Proofs about Serum, for any accounts, markets, books, trees and lots    *)
(* and any number of ticks and changes.                                    *)
(***************************************************************************)
EXTENDS Serum, SequenceTheorems, WellFoundedInduction, TLAPS

\* What a book can hold, and what there is of it.
Content == UNION {BooksOf[b] : b \in Books}
KnownBook == [there : {TRUE}, height : Nat, slot : Nat, slab : Content]
Account == [slot : Nat, orders : Content]
Message == [book : Books, readable : BOOLEAN, account : Account]
Tick == {t \in [price : Nat, quantity : Nat] : t.quantity > 0 => t.price > 0}
Ticked == [1 .. Depth -> Tick]

Types ==
  /\ version \in Versions
  /\ phase \in {"new", "listed", "built", "announced", "flashed", "failed"}
  /\ orderBooks \in [Books -> {NoBook} \cup KnownBook]
  /\ ticks \in [Markets -> [bid : Ticked, ask : Ticked]]
  /\ chain \in [Books -> Account]
  /\ updates \in Seq(Message) /\ Len(updates) <= UpdateCap
  /\ updater \in {Idle, [at |-> "gone"]} \cup [at : {"bids", "asks"}, book : Books]
  /\ missed \subseteq Books /\ subscribed \subseteq Books

\* A model in use was built, of books that were read, for a market that was read.
Nested ==
  /\ used \subseteq models /\ models \subseteq markets /\ markets \subseteq Markets
  /\ \A m \in models : \A b \in BooksOn(m) : orderBooks[b].there

\* What there is in each phase.
Phases ==
  /\ phase \in {"new", "listed", "failed"} => models = {} /\ \A b \in Books : ~orderBooks[b].there
  /\ phase # "flashed" => subscribed = {} /\ updates = <<>> /\ updater = Idle
  /\ phase = "flashed" => subscribed = Wanted
  /\ version = "v1" => updater = Idle
  /\ \A i \in DOMAIN updates : updates[i].book \in subscribed
  /\ updater.at \in {"bids", "asks"} => updater.book \in subscribed

\* Orders that the book b had at a slot: those it has, if it is the last slot.
At(b, slot, orders) ==
  slot <= chain[b].slot /\ (slot = chain[b].slot => orders = chain[b].orders)

\* What is known, or told, was so.
Real ==
  /\ \A b \in Books : orderBooks[b].there => At(b, orderBooks[b].slot, orderBooks[b].slab)
  /\ \A i \in DOMAIN updates :
       At(updates[i].book, updates[i].account.slot, updates[i].account.orders)

\* The last word on book b is of slot goal: known is, if there is no message.
Told(us, b, known, goal) ==
  \/ known = goal /\ \A i \in DOMAIN us : us[i].book # b
  \/ \E i \in DOMAIN us : /\ us[i].book = b /\ us[i].readable /\ us[i].account.slot = goal
                          /\ \A j \in DOMAIN us : us[j].book = b => j <= i

\* The last word on a book is the chain's.
Follows ==
  \A m \in models : \A b \in BooksOn(m) \ missed :
    Told(updates, b, orderBooks[b].slot, chain[b].slot)

\* The ticks of a side are those of the book, but while the book is copied.
Backward(s) == [i \in DOMAIN s |-> s[Len(s) + 1 - i]]
BidsRead(m) == StartsWith(ticks[m].bid, Ticks(orderBooks[MarketOf[m].asks].slab))
AsksRead(m) == StartsWith(ticks[m].ask, Ticks(Backward(orderBooks[MarketOf[m].bids].slab)))
Copied ==
  version = "v2" => \A m \in models :
    /\ BidsRead(m) \/ (updater.at = "bids" /\ updater.book \in BooksOn(m))
    /\ AsksRead(m) \/ (updater.at \in {"bids", "asks"} /\ updater.book \in BooksOn(m))

IInv == Types /\ Nested /\ Phases /\ Real /\ Follows /\ Copied

-----------------------------------------------------------------------------
(***************************************************************************)
(* Induction and recursion.                                                *)
(***************************************************************************)

\* Every nonempty set of naturals has a least member.
LEMMA LeastNumber ==
  ASSUME NEW T, T \subseteq Nat, T # {}
  PROVE  \E x \in T : \A y \in T : x <= y
<1>1. PICK x \in T : \A y \in T : <<y, x>> \notin OpToRel(<, Nat)
  BY NatLessThanWellFounded, WFMin
<1>2. ASSUME NEW y \in T PROVE x <= y
  <2>1. <<y, x>> \notin OpToRel(<, Nat)
    BY <1>1
  <2>2. x \in Nat /\ y \in Nat
    OBVIOUS
  <2>3. ~(y < x)
    BY <2>1, <2>2, Zenon DEF OpToRel
  <2> QED  BY <2>2, <2>3
<1> QED  BY <1>2

\* A set that has 0 and with every number the next one has all numbers up to n.
LEMMA Upward ==
  ASSUME NEW n \in Nat, NEW T, 0 \in T, \A k \in 1 .. n : k - 1 \in T => k \in T
  PROVE  \A k \in 0 .. n : k \in T
<1> DEFINE Rest == {k \in 0 .. n : k \notin T}
<1>1. Rest = {}
  <2> SUFFICES ASSUME Rest # {} PROVE FALSE
    OBVIOUS
  <2>1. Rest \subseteq Nat
    OBVIOUS
  <2>2. PICK m \in Rest : \A y \in Rest : m <= y
    <3> HIDE DEF Rest
    <3> QED  BY <2>1, LeastNumber
  <2>3. m \in 1 .. n /\ m - 1 \in 0 .. n /\ ~(m <= m - 1)
    OBVIOUS
  <2>4. m - 1 \in T
    BY <2>2, <2>3
  <2> QED  BY <2>3, <2>4
<1> QED  BY <1>1

\* A recursion over 0 .. n, from z by the given steps.
HasFunction(S, n, z, step) ==
  \E f \in [0 .. n -> S] : f[0] = z /\ \A k \in 1 .. n : f[k] = step[k][f[k - 1]]

\* It has a function.
LEMMA Recursion ==
  ASSUME NEW S, NEW n \in Nat, NEW z \in S, NEW step \in [1 .. n -> [S -> S]]
  PROVE  HasFunction(S, n, z, step)
<1> DEFINE Up(f, m) == f[0] = z /\ \A k \in 1 .. m : f[k] = step[k][f[k - 1]]
           T == {m \in 0 .. n : \E f \in [0 .. m -> S] : Up(f, m)}
<1>1. 0 \in T
  <2> DEFINE f == [k \in 0 .. 0 |-> z]
  <2>1. f \in [0 .. 0 -> S] /\ Up(f, 0)
    OBVIOUS
  <2>2. \E h \in [0 .. 0 -> S] : Up(h, 0)
    BY <2>1
  <2>3. 0 \in 0 .. n
    OBVIOUS
  <2> HIDE DEF Up
  <2> QED  BY <2>2, <2>3
<1>2. ASSUME NEW m \in 1 .. n, m - 1 \in T PROVE m \in T
  <2>1. PICK f \in [0 .. m - 1 -> S] : Up(f, m - 1)
    BY <1>2, Zenon
  <2> DEFINE g == [k \in 0 .. m |-> IF k = m THEN step[m][f[m - 1]] ELSE f[k]]
  <2>2. m - 1 \in 0 .. m - 1 /\ m \in Nat /\ 0 \in 0 .. m - 1
    OBVIOUS
  <2>3. step[m][f[m - 1]] \in S
    BY <2>2
  <2>4. g \in [0 .. m -> S]
    BY <2>2, <2>3
  <2>5. g[0] = z
    BY <2>1, <2>2
  <2>6. ASSUME NEW k \in 1 .. m PROVE g[k] = step[k][g[k - 1]]
    <3>1. g[k - 1] = f[k - 1]
      OBVIOUS
    <3>2. CASE k = m
      BY <3>1, <3>2
    <3>3. CASE k # m
      <4>1. k \in 1 .. m - 1 /\ g[k] = f[k]
        BY <3>3
      <4> QED  BY <2>1, <3>1, <4>1
    <3> QED  BY <3>2, <3>3
  <2> HIDE DEF g
  <2>7. \E h \in [0 .. m -> S] : Up(h, m)
    BY <2>4, <2>5, <2>6
  <2>8. m \in 0 .. n
    OBVIOUS
  <2> HIDE DEF Up
  <2> QED  BY <2>7, <2>8
<1>3. n \in T
  <2> HIDE DEF T
  <2>1. \A k \in 0 .. n : k \in T
    BY <1>1, <1>2, Upward
  <2> QED  BY <2>1
<1> QED  BY <1>3 DEF HasFunction

-----------------------------------------------------------------------------
(***************************************************************************)
(* The slab.  The walk of items meets the orders from the end it starts    *)
(* from: what the nodes on its stack stand for follows what it has, without *)
(* a gap.                                                                  *)
(***************************************************************************)

\* The nodes of a tree of n orders, and what the walk may be at.
Nodes(n) == {d \in [first : 1 .. n, last : 1 .. n] : d.first <= d.last}
Walks(n) == [stack : Seq(Nodes(n)), leaves : Seq(Order)]

\* Positions as the walk counts them: from the end it starts from.
From(d, n, bids) == IF bids THEN d.first ELSE n + 1 - d.last
To(d, n, bids) == IF bids THEN d.last ELSE n + 1 - d.first
Met(orders, i, bids) == IF bids THEN orders[i] ELSE orders[Len(orders) + 1 - i]

\* What the assumption says of a book.
LEMMA ContentIs ==
  ASSUME SerumAssumption, NEW s \in Content
  PROVE  /\ s \in Seq(Order)
         /\ \A i, j \in 1 .. Len(s) : i < j => Split(s, i, j) \in i .. (j - 1)
<1>1. PICK b \in Books : s \in BooksOf[b]
  BY DEF Content
<1>2. s \in Seq(Order) /\ \A i, j \in DOMAIN s : i < j => Split(s, i, j) \in i .. (j - 1)
  BY <1>1 DEF SerumAssumption
<1>3. DOMAIN s = 1 .. Len(s)  BY <1>2
<1> QED  BY <1>2, <1>3, Zenon

\* The children of a node, in the order in which the walk takes them.
InOrder(a, b, d, n, bids) ==
  /\ a \in Nodes(n) /\ b \in Nodes(n)
  /\ From(a, n, bids) = From(d, n, bids) /\ To(b, n, bids) = To(d, n, bids)
  /\ From(b, n, bids) = To(a, n, bids) + 1

\* The children of a node that stands for several orders share them out, in order (Split).
LEMMA ChildrenInOrder ==
  ASSUME SerumAssumption, NEW s \in Content, NEW d \in Nodes(Len(s)), d.first # d.last
  PROVE  LET two == Children(s, d)
         IN InOrder(two[1], two[2], d, Len(s), TRUE) /\ InOrder(two[2], two[1], d, Len(s), FALSE)
<1> DEFINE n == Len(s)
           k == Split(s, d.first, d.last)
           two == Children(s, d)
<1>1. n \in Nat /\ d.first \in 1 .. n /\ d.last \in 1 .. n /\ d.first < d.last
  <2>1. s \in Seq(Order)  BY ContentIs
  <2> QED  BY <2>1 DEF Nodes
<1>2. k \in d.first .. (d.last - 1)
  BY <1>1, ContentIs
<1>3. two[1] = [first |-> d.first, last |-> k] /\ two[2] = [first |-> k + 1, last |-> d.last]
  BY DEF Children, Node
<1> HIDE DEF two, k, n
<1>4. two[1] \in Nodes(n) /\ two[2] \in Nodes(n)
  BY <1>1, <1>2, <1>3 DEF Nodes
<1>5. InOrder(two[1], two[2], d, n, TRUE) /\ InOrder(two[2], two[1], d, n, FALSE)
  BY <1>1, <1>2, <1>3, <1>4 DEF InOrder, From, To
<1> QED  BY <1>5 DEF two, n

\* A node is taken from the stack for its children.
LEMMA PushedIs ==
  ASSUME NEW S, NEW stack \in Seq(S), stack # <<>>, NEW a \in S, NEW b \in S
  PROVE  LET pushed == <<a, b>> \o Tail(stack)
         IN /\ pushed \in Seq(S) /\ Len(pushed) = Len(stack) + 1 /\ Len(stack) \in Nat \ {0}
            /\ pushed[1] = a /\ pushed[2] = b
            /\ \A i \in 2 .. Len(stack) : pushed[i + 1] = stack[i]
<1> DEFINE rest == Tail(stack)
<1>1. /\ rest \in Seq(S) /\ Len(stack) \in Nat \ {0} /\ Len(rest) = Len(stack) - 1
      /\ \A i \in 1 .. Len(rest) : rest[i] = stack[i + 1]
  OBVIOUS
<1>2. <<a, b>> \in Seq(S) /\ Len(<<a, b>>) = 2 /\ <<a, b>>[1] = a /\ <<a, b>>[2] = b
  OBVIOUS
<1> HIDE DEF rest
<1>3. /\ <<a, b>> \o rest \in Seq(S) /\ Len(<<a, b>> \o rest) = 2 + Len(rest)
      /\ \A i \in 1 .. 2 + Len(rest) :
           (<<a, b>> \o rest)[i] = IF i <= 2 THEN <<a, b>>[i] ELSE rest[i - 2]
  BY <1>1, <1>2, ConcatProperties
<1>4. (<<a, b>> \o rest)[1] = a /\ (<<a, b>> \o rest)[2] = b
  BY <1>1, <1>2, <1>3
<1>5. ASSUME NEW i \in 2 .. Len(stack) PROVE (<<a, b>> \o rest)[i + 1] = stack[i]
  <2>1. i + 1 \in 1 .. 2 + Len(rest) /\ ~(i + 1 <= 2) /\ (i + 1) - 2 = i - 1 /\ i - 1 \in 1 .. Len(rest)
    BY <1>1
  <2>2. (<<a, b>> \o rest)[i + 1] = rest[i - 1]
    BY <1>3, <2>1
  <2>3. rest[i - 1] = stack[(i - 1) + 1] /\ (i - 1) + 1 = i
    BY <1>1, <2>1
  <2> QED  BY <2>2, <2>3
<1> QED  BY <1>1, <1>3, <1>4, <1>5 DEF rest

\* The top of the stack, and what is left.
LEMMA TopIs ==
  ASSUME NEW S, NEW stack \in Seq(S), stack # <<>>
  PROVE  /\ Head(stack) = stack[1] /\ stack[1] \in S /\ Len(stack) \in Nat \ {0}
         /\ Tail(stack) \in Seq(S) /\ Len(Tail(stack)) = Len(stack) - 1
         /\ \A i \in 1 .. Len(stack) - 1 : Tail(stack)[i] = stack[i + 1]
OBVIOUS

\* What one pass of the loop does to the stack and the leaves.
Leaf(orders, s, p) ==
  /\ s.stack[1].first = s.stack[1].last
  /\ p.stack = Tail(s.stack) /\ p.leaves = Append(s.leaves, orders[s.stack[1].first])
Inner(orders, bids, s, p) ==
  \E a, b \in Nodes(Len(orders)) :
    /\ InOrder(a, b, s.stack[1], Len(orders), bids)
    /\ p.stack = <<a, b>> \o Tail(s.stack) /\ p.leaves = s.leaves

\* One pass of the loop: a leaf is met, or a node is replaced by its children, the nearer one
\* on top.
LEMMA PoppedIs ==
  ASSUME SerumAssumption, NEW orders \in Content, NEW bids \in BOOLEAN,
         NEW s \in Walks(Len(orders)), s.stack # <<>>
  PROVE  LET p == Popped(orders, bids, s)
         IN /\ p \in Walks(Len(orders))
            /\ Leaf(orders, s, p) \/ Inner(orders, bids, s, p)
<1> DEFINE p == Popped(orders, bids, s)
           n == Len(orders)
           d == s.stack[1]
           two == Children(orders, d)
<1>0. orders \in Seq(Order) /\ n \in Nat
  BY ContentIs
<1>1. s.stack \in Seq(Nodes(n)) /\ s.leaves \in Seq(Order)
  BY DEF Walks
<1>2. Head(s.stack) = d /\ d \in Nodes(n) /\ Tail(s.stack) \in Seq(Nodes(n))
  BY <1>1, TopIs
<1>3. CASE d.first = d.last
  <2>1. p = [stack |-> Tail(s.stack), leaves |-> Append(s.leaves, orders[d.first])]
    BY <1>2, <1>3 DEF Popped
  <2>2. orders[d.first] \in Order
    BY <1>0, <1>2 DEF Nodes
  <2>3. Append(s.leaves, orders[d.first]) \in Seq(Order)
    BY <1>1, <2>2
  <2> HIDE DEF p
  <2>4. p \in Walks(n)
    BY <1>2, <2>1, <2>3 DEF Walks
  <2>5. Leaf(orders, s, p)
    BY <1>3, <2>1 DEF Leaf
  <2> QED  BY <2>4, <2>5 DEF p
<1>4. CASE d.first # d.last
  <2> DEFINE a == IF bids THEN two[1] ELSE two[2]
             b == IF bids THEN two[2] ELSE two[1]
  <2>1. InOrder(a, b, d, n, bids)
    <3>1. InOrder(two[1], two[2], d, n, TRUE) /\ InOrder(two[2], two[1], d, n, FALSE)
      BY <1>2, <1>4, ChildrenInOrder
    <3> HIDE DEF two
    <3>2. CASE bids = TRUE   BY <3>1, <3>2
    <3>3. CASE bids = FALSE  BY <3>1, <3>3
    <3> QED  BY <3>2, <3>3
  <2>2. a \in Nodes(n) /\ b \in Nodes(n)
    BY <2>1 DEF InOrder
  <2>3. p = [stack |-> <<a, b>> \o Tail(s.stack), leaves |-> s.leaves]
    <3>1. two = <<two[1], two[2]>>
      BY DEF Children
    <3>2. p = [stack |-> (IF bids THEN two ELSE <<two[2], two[1]>>) \o Tail(s.stack), leaves |-> s.leaves]
      BY <1>2, <1>4 DEF Popped
    <3> HIDE DEF p, two
    <3>3. CASE bids = TRUE   BY <3>1, <3>2, <3>3
    <3>4. CASE bids = FALSE  BY <3>2, <3>4
    <3> QED  BY <3>3, <3>4
  <2> HIDE DEF p, a, b
  <2>4. <<a, b>> \o Tail(s.stack) \in Seq(Nodes(n))
    BY <1>1, <2>2, PushedIs
  <2>5. p \in Walks(n)
    BY <1>1, <2>3, <2>4 DEF Walks
  <2>6. Inner(orders, bids, s, p)
    BY <2>1, <2>2, <2>3 DEF Inner
  <2> QED  BY <2>5, <2>6 DEF p
<1> QED  BY <1>3, <1>4

\* The leaves are the first orders, and the nodes on the stack stand for the rest.
Walked(orders, bids, s) ==
  LET n == Len(orders)
      m == Len(s.leaves)
      h == Len(s.stack)
  IN /\ m <= n /\ \A i \in 1 .. m : s.leaves[i] = Met(orders, i, bids)
     /\ h = 0 => m = n
     /\ h # 0 => From(s.stack[1], n, bids) = m + 1 /\ To(s.stack[h], n, bids) = n
     /\ \A j \in 1 .. h - 1 : From(s.stack[j + 1], n, bids) = To(s.stack[j], n, bids) + 1

\* A pass that takes a leaf keeps the walk in order.
LEMMA LeafWalked ==
  ASSUME SerumAssumption, NEW orders \in Content, NEW bids \in BOOLEAN,
         NEW s \in Walks(Len(orders)), s.stack # <<>>, Walked(orders, bids, s),
         NEW p, Leaf(orders, s, p)
  PROVE  /\ Walked(orders, bids, p)
         /\ Len(p.leaves) = Len(s.leaves) + 1 /\ Len(p.stack) = Len(s.stack) - 1
<1> DEFINE n == Len(orders)
           m == Len(s.leaves)
           h == Len(s.stack)
           d == s.stack[1]
<1>0. orders \in Seq(Order) /\ n \in Nat
  BY ContentIs
<1>1. s.stack \in Seq(Nodes(n)) /\ s.leaves \in Seq(Order) /\ m \in Nat
  BY DEF Walks
<1>2. /\ d \in Nodes(n) /\ h \in Nat \ {0} /\ Len(p.stack) = h - 1
      /\ \A i \in 1 .. h - 1 : p.stack[i] = s.stack[i + 1]
  BY <1>1, TopIs DEF Leaf
<1>3. /\ Len(p.leaves) = m + 1 /\ p.leaves[m + 1] = orders[d.first]
      /\ \A i \in 1 .. m : p.leaves[i] = s.leaves[i]
  <2>1. orders[d.first] \in Order
    BY <1>0, <1>2 DEF Nodes
  <2> QED  BY <1>1, <2>1, AppendProperties DEF Leaf
<1>4. /\ m <= n /\ \A i \in 1 .. m : s.leaves[i] = Met(orders, i, bids)
      /\ From(d, n, bids) = m + 1 /\ To(s.stack[h], n, bids) = n
      /\ \A j \in 1 .. h - 1 : From(s.stack[j + 1], n, bids) = To(s.stack[j], n, bids) + 1
  BY <1>2 DEF Walked
<1>5. d.first = d.last /\ d.first \in 1 .. n
  BY <1>2 DEF Leaf, Nodes
<1> HIDE DEF n, m, h, d
<1>6. To(d, n, bids) = m + 1 /\ m + 1 <= n /\ orders[d.first] = Met(orders, m + 1, bids)
  <2>1. CASE bids = TRUE
    BY <1>0, <1>1, <1>4, <1>5, <2>1 DEF From, To, Met
  <2>2. CASE bids = FALSE
    <3>1. n + 1 - d.first = m + 1
      BY <1>4, <1>5, <2>2 DEF From
    <3>2. d.first = n + 1 - (m + 1) /\ m + 1 <= n
      BY <1>0, <1>1, <1>5, <3>1
    <3> QED  BY <1>5, <2>2, <3>1, <3>2 DEF To, Met, n
  <2> QED  BY <2>1, <2>2
<1>7. ASSUME NEW i \in 1 .. m + 1 PROVE p.leaves[i] = Met(orders, i, bids)
  <2>1. CASE i = m + 1
    BY <1>3, <1>6, <2>1
  <2>2. CASE i # m + 1
    <3>1. i \in 1 .. m
      BY <1>1, <2>2
    <3> QED  BY <1>3, <1>4, <3>1
  <2> QED  BY <2>1, <2>2
<1>8. h - 1 = 0 => m + 1 = n
  <2>1. h = 1 => s.stack[h] = d
    BY DEF d
  <2> QED  BY <1>2, <1>4, <1>6, <2>1
<1>9. h - 1 # 0 => From(p.stack[1], n, bids) = (m + 1) + 1 /\ To(p.stack[h - 1], n, bids) = n
  <2> SUFFICES ASSUME h - 1 # 0
               PROVE  From(p.stack[1], n, bids) = (m + 1) + 1 /\ To(p.stack[h - 1], n, bids) = n
    OBVIOUS
  <2>1. 1 \in 1 .. h - 1 /\ h - 1 \in 1 .. h - 1 /\ (h - 1) + 1 = h
    BY <1>2
  <2>2. p.stack[1] = s.stack[1 + 1] /\ p.stack[h - 1] = s.stack[h]
    BY <1>2, <2>1
  <2>3. From(s.stack[1 + 1], n, bids) = To(s.stack[1], n, bids) + 1
    BY <1>4, <2>1
  <2> QED  BY <1>4, <1>6, <2>2, <2>3 DEF d
<1>10. ASSUME NEW j \in 1 .. (h - 1) - 1
       PROVE  From(p.stack[j + 1], n, bids) = To(p.stack[j], n, bids) + 1
  <2>1. j \in 1 .. h - 1 /\ j + 1 \in 1 .. h - 1
    BY <1>2
  <2> QED  BY <1>2, <1>4, <2>1
<1>11. Walked(orders, bids, p)
  BY <1>2, <1>3, <1>6, <1>7, <1>8, <1>9, <1>10 DEF Walked, n
<1> QED  BY <1>2, <1>3, <1>11 DEF h, m

\* A pass that takes an inner node keeps the walk in order.
LEMMA InnerWalked ==
  ASSUME SerumAssumption, NEW orders \in Content, NEW bids \in BOOLEAN,
         NEW s \in Walks(Len(orders)), s.stack # <<>>, Walked(orders, bids, s),
         NEW p, Inner(orders, bids, s, p)
  PROVE  /\ Walked(orders, bids, p)
         /\ Len(p.leaves) = Len(s.leaves) /\ Len(p.stack) = Len(s.stack) + 1
<1> DEFINE n == Len(orders)
           m == Len(s.leaves)
           h == Len(s.stack)
           d == s.stack[1]
<1>0. orders \in Seq(Order) /\ n \in Nat
  BY ContentIs
<1>1. s.stack \in Seq(Nodes(n)) /\ s.leaves \in Seq(Order) /\ m \in Nat
  BY DEF Walks
<1>2. PICK a \in Nodes(n), b \in Nodes(n) :
        /\ InOrder(a, b, d, n, bids)
        /\ p.stack = <<a, b>> \o Tail(s.stack) /\ p.leaves = s.leaves
  BY DEF Inner
<1>3. /\ Len(p.stack) = h + 1 /\ h \in Nat \ {0}
      /\ p.stack[1] = a /\ p.stack[2] = b
      /\ \A i \in 2 .. h : p.stack[i + 1] = s.stack[i]
  <2>1. LET pushed == <<a, b>> \o Tail(s.stack)
        IN /\ Len(pushed) = Len(s.stack) + 1 /\ Len(s.stack) \in Nat \ {0}
           /\ pushed[1] = a /\ pushed[2] = b
           /\ \A i \in 2 .. Len(s.stack) : pushed[i + 1] = s.stack[i]
    BY <1>1, <1>2, PushedIs
  <2> QED  BY <1>2, <2>1
<1>4. /\ m <= n /\ \A i \in 1 .. m : s.leaves[i] = Met(orders, i, bids)
      /\ From(d, n, bids) = m + 1 /\ To(s.stack[h], n, bids) = n
      /\ \A j \in 1 .. h - 1 : From(s.stack[j + 1], n, bids) = To(s.stack[j], n, bids) + 1
  BY <1>3 DEF Walked
<1>5. /\ From(a, n, bids) = m + 1 /\ To(b, n, bids) = To(d, n, bids)
      /\ From(b, n, bids) = To(a, n, bids) + 1
  BY <1>2, <1>4 DEF InOrder
<1>6. s.stack[1] = d
  OBVIOUS
<1> HIDE DEF n, m, h, d
<1>7. To(p.stack[h + 1], n, bids) = n
  <2>1. CASE h = 1
    BY <1>3, <1>4, <1>5, <1>6, <2>1
  <2>2. CASE h # 1
    <3>1. h \in 2 .. h  BY <1>3, <2>2
    <3> QED  BY <1>3, <1>4, <3>1
  <2> QED  BY <2>1, <2>2
<1>8. ASSUME NEW j \in 1 .. (h + 1) - 1
      PROVE  From(p.stack[j + 1], n, bids) = To(p.stack[j], n, bids) + 1
  <2>1. CASE j = 1
    BY <1>3, <1>5, <2>1
  <2>2. CASE j = 2
    <3>1. 1 \in 1 .. h - 1 /\ 2 \in 2 .. h
      BY <1>3, <2>2
    <3>2. p.stack[2 + 1] = s.stack[2] /\ From(s.stack[1 + 1], n, bids) = To(s.stack[1], n, bids) + 1
      BY <1>3, <1>4, <3>1
    <3> QED  BY <1>3, <1>5, <1>6, <2>2, <3>2
  <2>3. CASE j > 2
    <3>1. j \in 2 .. h /\ j - 1 \in 2 .. h /\ j - 1 \in 1 .. h - 1 /\ (j - 1) + 1 = j
      BY <1>3, <2>3
    <3>2. p.stack[j + 1] = s.stack[j] /\ p.stack[(j - 1) + 1] = s.stack[j - 1]
      BY <1>3, <3>1
    <3>3. From(s.stack[(j - 1) + 1], n, bids) = To(s.stack[j - 1], n, bids) + 1
      BY <1>4, <3>1
    <3> QED  BY <3>1, <3>2, <3>3
  <2> QED  BY <1>3, <2>1, <2>2, <2>3
<1>9. Len(p.leaves) = m /\ \A i \in 1 .. m : p.leaves[i] = Met(orders, i, bids)
  BY <1>2, <1>4 DEF m
<1>10. h + 1 # 0
  BY <1>3
<1>11. Walked(orders, bids, p)
  BY <1>3, <1>4, <1>5, <1>7, <1>8, <1>9, <1>10 DEF Walked, n
<1> QED  BY <1>3, <1>9, <1>11 DEF h, m

\* One pass of the loop of items, if it is not over.
Passed(orders, bids, size, at) ==
  IF at.stack = <<>> \/ Len(at.leaves) >= size THEN at ELSE Popped(orders, bids, at)

\* A function f is the walk of items.
Walking(f, orders, bids, size) ==
  LET n == 2 * Len(orders)
  IN /\ f \in [0 .. n -> Walks(Len(orders))]
     /\ f[0] = [stack |-> <<Node(1, Len(orders))>>, leaves |-> <<>>]
     /\ \A k \in 1 .. n : f[k] = Passed(orders, bids, size, f[k - 1])
     /\ Items(orders, bids, size) = f[n].leaves

\* The recursion of items has a function.
LEMMA WalkRecursion ==
  ASSUME SerumAssumption, NEW orders \in Content, orders # <<>>, NEW bids \in BOOLEAN,
         NEW size \in Nat \ {0}
  PROVE  \E f : Walking(f, orders, bids, size)
<1> DEFINE n == 2 * Len(orders)
           S == Walks(Len(orders))
           z == [stack |-> <<Node(1, Len(orders))>>, leaves |-> <<>>]
           Body(f, k) == IF k = 0 THEN z ELSE Passed(orders, bids, size, f[k - 1])
           step == [k \in 1 .. n |-> [s \in S |-> Passed(orders, bids, size, s)]]
           first == CHOOSE f : f = [k \in 0 .. n |-> Body(f, k)]
<1>1. orders \in Seq(Order) /\ n \in Nat /\ Len(orders) \in Nat \ {0}
  <2>1. orders \in Seq(Order)
    BY ContentIs
  <2> QED  BY <2>1
<1>2. z \in S
  <2>1. Node(1, Len(orders)) \in Nodes(Len(orders))
    BY <1>1 DEF Nodes, Node
  <2>2. <<Node(1, Len(orders))>> \in Seq(Nodes(Len(orders))) /\ <<>> \in Seq(Order)
    BY <2>1
  <2> QED  BY <2>2 DEF Walks
<1>3. ASSUME NEW s \in S PROVE Passed(orders, bids, size, s) \in S
  <2>1. s.stack # <<>> => Popped(orders, bids, s) \in S
    BY PoppedIs
  <2> QED  BY <2>1, Zenon DEF Passed
<1>4. step \in [1 .. n -> [S -> S]]
  <2> HIDE DEF S, n
  <2> QED  BY <1>3
<1>5. PICK f \in [0 .. n -> S] : f[0] = z /\ \A k \in 1 .. n : f[k] = step[k][f[k - 1]]
  <2> HIDE DEF step, n, S, z
  <2>1. HasFunction(S, n, z, step)
    BY <1>1, <1>2, <1>4, Recursion, Zenon
  <2> QED  BY <2>1, Zenon DEF HasFunction
<1> HIDE DEF S, z
<1>6. ASSUME NEW k \in 0 .. n PROVE f[k] = Body(f, k)
  <2>1. CASE k = 0
    BY <1>5, <2>1
  <2>2. CASE k # 0
    <3>1. k \in 1 .. n /\ k - 1 \in 0 .. n
      BY <2>2, <1>1
    <3>2. f[k - 1] \in S /\ f[k] = step[k][f[k - 1]]
      BY <3>1, <1>5
    <3> HIDE DEF n
    <3> QED  BY <2>2, <3>1, <3>2
  <2> QED  BY <2>1, <2>2
<1>7. f = [k \in 0 .. n |-> Body(f, k)]
  <2> HIDE DEF Body
  <2> QED  BY <1>6, <1>5
<1>8. first = [k \in 0 .. n |-> Body(first, k)]
  <2> HIDE DEF Body, n
  <2> QED  BY <1>7
<1>9. Items(orders, bids, size) = first[n].leaves
  BY Zenon DEF Items, Passed, z
<1> HIDE DEF first
<1>10. ASSUME NEW k \in 0 .. n PROVE first[k] = Body(first, k)
  <2> HIDE DEF Body, n
  <2> QED  BY <1>8
<1> HIDE DEF n
<1>11. \A k \in 0 .. n : k \in {i \in 0 .. n : first[i] = f[i]}
  <2> DEFINE T == {k \in 0 .. n : first[k] = f[k]}
  <2>1. 0 \in T
    <3>1. 0 \in 0 .. n
      BY <1>1
    <3>2. first[0] = Body(first, 0)
      BY <1>10, <3>1
    <3> QED  BY <1>6, <3>1, <3>2
  <2>2. ASSUME NEW k \in 1 .. n, k - 1 \in T PROVE k \in T
    <3>1. k \in 0 .. n /\ k # 0 /\ first[k - 1] = f[k - 1]
      BY <2>2
    <3> QED  BY <1>6, <1>10, <3>1
  <2> HIDE DEF T
  <2> QED  BY <1>1, <2>1, <2>2, Upward DEF T
<1>12. first \in [0 .. n -> S]
  <2>1. \A k \in 0 .. n : first[k] \in S
    BY <1>11, <1>5
  <2> HIDE DEF Body
  <2> QED  BY <1>8, <2>1
<1>13. first[0] = z
  BY <1>1, <1>10
<1>14. ASSUME NEW k \in 1 .. n PROVE first[k] = Passed(orders, bids, size, first[k - 1])
  <2>1. k \in 0 .. n /\ k # 0
    OBVIOUS
  <2> QED  BY <1>10, <2>1
<1> QED  BY <1>9, <1>12, <1>13, <1>14 DEF Walking, n, S, z

\* The stack has no more nodes than there are orders to meet.
LEMMA StackIsShort ==
  ASSUME SerumAssumption, NEW orders \in Content, NEW bids \in BOOLEAN,
         NEW s \in Walks(Len(orders)), Walked(orders, bids, s)
  PROVE  Len(s.stack) + Len(s.leaves) <= Len(orders)
<1> DEFINE n == Len(orders)
           m == Len(s.leaves)
           h == Len(s.stack)
           T == {j \in 0 .. h : j = 0 \/ From(s.stack[j], n, bids) >= m + j}
<1>0. orders \in Seq(Order) /\ n \in Nat
  BY ContentIs
<1>1. s.stack \in Seq(Nodes(n)) /\ s.leaves \in Seq(Order)
  BY DEF Walks
<1>2. m \in Nat /\ h \in Nat /\ \A j \in 1 .. h : s.stack[j] \in Nodes(n)
  BY <1>1
<1>3. /\ m <= n
      /\ h # 0 => From(s.stack[1], n, bids) = m + 1 /\ To(s.stack[h], n, bids) = n
      /\ \A j \in 1 .. h - 1 : From(s.stack[j + 1], n, bids) = To(s.stack[j], n, bids) + 1
  BY DEF Walked
<1> HIDE DEF n, m, h
<1>4. ASSUME NEW j \in 1 .. h
      PROVE  /\ From(s.stack[j], n, bids) \in Int /\ To(s.stack[j], n, bids) \in Int
             /\ From(s.stack[j], n, bids) <= To(s.stack[j], n, bids)
  <2>1. s.stack[j] \in Nodes(n)
    BY <1>2
  <2>2. CASE bids = TRUE   BY <1>0, <2>1, <2>2 DEF Nodes, From, To
  <2>3. CASE bids = FALSE  BY <1>0, <2>1, <2>3, SMTT(30) DEF Nodes, From, To
  <2> QED  BY <2>2, <2>3
<1>5. 0 \in T
  BY <1>2
<1>6. ASSUME NEW k \in 1 .. h, k - 1 \in T PROVE k \in T
  <2>1. CASE k = 1
    BY <1>2, <1>3, <2>1
  <2>2. CASE k # 1
    <3>1. k - 1 \in 1 .. h - 1 /\ k - 1 \in 1 .. h /\ (k - 1) + 1 = k /\ h \in Nat /\ m \in Nat
      BY <1>2, <2>2
    <3>2. From(s.stack[k - 1], n, bids) >= m + (k - 1)
      BY <1>6, <2>2
    <3>3. From(s.stack[k], n, bids) = To(s.stack[k - 1], n, bids) + 1
      BY <1>3, <3>1
    <3>4. From(s.stack[k], n, bids) >= m + k
      BY <1>4, <3>1, <3>2, <3>3
    <3> QED  BY <3>4
  <2> QED  BY <2>1, <2>2
<1> HIDE DEF T
<1>7. \A k \in 0 .. h : k \in T
  BY <1>2, <1>5, <1>6, Upward
<1>8. h + m <= n
  <2>1. CASE h = 0
    BY <1>2, <1>3, <2>1
  <2>2. CASE h # 0
    <3>1. h \in 1 .. h /\ h \in T
      BY <1>2, <1>7, <2>2
    <3>2. From(s.stack[h], n, bids) >= m + h
      BY <2>2, <3>1 DEF T
    <3> QED  BY <1>2, <1>3, <1>4, <2>2, <3>1, <3>2, <1>0
  <2> QED  BY <2>1, <2>2
<1> QED  BY <1>8 DEF h, m, n

\* What items returns: the first size orders of the book, from the end it starts from.
ItemsOf(orders, bids, size, s) ==
  /\ s \in Seq(Order) /\ Len(s) <= Len(orders) /\ Len(s) <= size
  /\ Len(s) = Len(orders) \/ Len(s) = size
  /\ \A i \in 1 .. Len(s) : s[i] = Met(orders, i, bids)

\* The walk has stopped, or has a number of nodes left that falls.
Left(orders, size, s, k) ==
  \/ s.stack = <<>> \/ Len(s.leaves) >= size
  \/ Len(s.stack) + 2 * Len(s.leaves) = k + 1

\* One step of the walk, whether the loop goes on or has ended.
LEMMA PassedIs ==
  ASSUME SerumAssumption, NEW orders \in Content, NEW bids \in BOOLEAN, NEW size \in Nat \ {0},
         NEW s \in Walks(Len(orders)), NEW k \in Nat,
         Walked(orders, bids, s), Len(s.leaves) <= size, Left(orders, size, s, k)
  PROVE  LET p == Passed(orders, bids, size, s)
         IN Walked(orders, bids, p) /\ Len(p.leaves) <= size /\ Left(orders, size, p, k + 1)
<1> DEFINE p == Passed(orders, bids, size, s)
<1>1. CASE s.stack = <<>> \/ Len(s.leaves) >= size
  BY <1>1 DEF Passed, Left
<1>2. CASE s.stack # <<>> /\ ~(Len(s.leaves) >= size)
  <2>1. p = Popped(orders, bids, s)
    BY <1>2 DEF Passed
  <2> HIDE DEF p
  <2>2. Leaf(orders, s, p) \/ Inner(orders, bids, s, p)
    BY <1>2, <2>1, PoppedIs
  <2>3. Len(s.leaves) \in Nat /\ Len(s.stack) \in Nat
    BY DEF Walks
  <2>4. Len(s.stack) + 2 * Len(s.leaves) = k + 1
    BY <1>2 DEF Left
  <2>5. CASE Leaf(orders, s, p)
    <3>1. Walked(orders, bids, p) /\ Len(p.leaves) = Len(s.leaves) + 1 /\ Len(p.stack) = Len(s.stack) - 1
      BY <1>2, <2>5, LeafWalked
    <3>2. Len(p.leaves) <= size /\ Len(p.stack) + 2 * Len(p.leaves) = (k + 1) + 1
      <4>1. k \in Nat /\ size \in Nat /\ ~(Len(s.leaves) >= size)
        BY <1>2
      <4> DEFINE a == Len(s.stack)
                 b == Len(s.leaves)
                 c == Len(p.stack)
                 d == Len(p.leaves)
      <4>2. /\ a \in Nat /\ b \in Nat /\ a + 2 * b = k + 1 /\ ~(b >= size)
            /\ c = a - 1 /\ d = b + 1
        BY <2>3, <2>4, <3>1, <4>1
      <4> HIDE DEF a, b, c, d
      <4>3. d <= size /\ c + 2 * d = (k + 1) + 1
        BY ONLY <4>1, <4>2
      <4> QED  BY <4>3 DEF c, d
    <3> QED  BY <3>1, <3>2 DEF Left, p
  <2>6. CASE Inner(orders, bids, s, p)
    <3>1. Walked(orders, bids, p) /\ Len(p.leaves) = Len(s.leaves) /\ Len(p.stack) = Len(s.stack) + 1
      BY <1>2, <2>6, InnerWalked
    <3>2. Len(p.leaves) <= size /\ Len(p.stack) + 2 * Len(p.leaves) = (k + 1) + 1
      <4>1. k \in Nat /\ size \in Nat /\ ~(Len(s.leaves) >= size)
        BY <1>2
      <4> DEFINE a == Len(s.stack)
                 b == Len(s.leaves)
                 c == Len(p.stack)
                 d == Len(p.leaves)
      <4>2. /\ a \in Nat /\ b \in Nat /\ a + 2 * b = k + 1 /\ ~(b >= size)
            /\ c = a + 1 /\ d = b
        BY <2>3, <2>4, <3>1, <4>1
      <4> HIDE DEF a, b, c, d
      <4>3. d <= size /\ c + 2 * d = (k + 1) + 1
        BY ONLY <4>1, <4>2
      <4> QED  BY <4>3 DEF c, d
    <3> QED  BY <3>1, <3>2 DEF Left, p
  <2> QED  BY <2>2, <2>5, <2>6
<1> QED  BY <1>1, <1>2

\* items returns the first size orders, from the end it starts from, whatever the shape of
\* the tree: 2 * Len(orders) nodes are enough for the walk to end.
THEOREM ItemsAre ==
  ASSUME SerumAssumption, NEW orders \in Content, NEW bids \in BOOLEAN, NEW size \in Nat \ {0}
  PROVE  ItemsOf(orders, bids, size, Items(orders, bids, size))
<1>0. orders \in Seq(Order) /\ Len(orders) \in Nat
  BY ContentIs
<1>1. CASE orders = <<>>
  <2>1. Items(orders, bids, size) = <<>>
    BY <1>1, Zenon DEF Items
  <2>2. Len(orders) = 0 /\ <<>> \in Seq(Order) /\ Len(<<>>) = 0
    BY <1>1
  <2> QED  BY <2>1, <2>2 DEF ItemsOf
<1>2. CASE orders # <<>>
  <2> DEFINE n == 2 * Len(orders)
  <2>1. PICK f : Walking(f, orders, bids, size)
    BY <1>2, WalkRecursion, Zenon
  <2>2. /\ f \in [0 .. n -> Walks(Len(orders))]
        /\ f[0] = [stack |-> <<Node(1, Len(orders))>>, leaves |-> <<>>]
        /\ \A k \in 1 .. n : f[k] = Passed(orders, bids, size, f[k - 1])
        /\ Items(orders, bids, size) = f[n].leaves
    BY <2>1, Zenon DEF Walking
  <2>3. n \in Nat /\ n = 2 * Len(orders)
    BY <1>0
  <2> HIDE DEF n
  <2> DEFINE T == {k \in 0 .. n : /\ Walked(orders, bids, f[k]) /\ Len(f[k].leaves) <= size
                                  /\ Left(orders, size, f[k], k)}
  <2>4. 0 \in T
    <3>1. f[0].stack = <<Node(1, Len(orders))>> /\ f[0].leaves = <<>>
      BY <2>2
    <3>2. /\ Len(f[0].stack) = 1 /\ Len(f[0].leaves) = 0
          /\ f[0].stack[1] = Node(1, Len(orders))
      BY <3>1
    <3>3. From(f[0].stack[1], Len(orders), bids) = 1 /\ To(f[0].stack[1], Len(orders), bids) = Len(orders)
      <4>1. CASE bids = TRUE   BY <1>0, <3>2, <4>1 DEF From, To, Node
      <4>2. CASE bids = FALSE  BY <1>0, <3>2, <4>2 DEF From, To, Node
      <4> QED  BY <4>1, <4>2
    <3>4. Walked(orders, bids, f[0])
      BY <1>0, <3>2, <3>3 DEF Walked
    <3>5. Left(orders, size, f[0], 0)
      BY <3>2 DEF Left
    <3> QED  BY <2>3, <3>2, <3>4, <3>5
  <2>5. ASSUME NEW k \in 1 .. n, k - 1 \in T PROVE k \in T
    <3>1. k - 1 \in 0 .. n /\ k \in 0 .. n /\ k - 1 \in Nat /\ (k - 1) + 1 = k
      BY <2>3
    <3>2. f[k - 1] \in Walks(Len(orders)) /\ f[k] = Passed(orders, bids, size, f[k - 1])
      BY <2>2, <3>1
    <3>3. /\ Walked(orders, bids, f[k - 1]) /\ Len(f[k - 1].leaves) <= size
          /\ Left(orders, size, f[k - 1], k - 1)
      BY <2>5
    <3>4. /\ Walked(orders, bids, f[k]) /\ Len(f[k].leaves) <= size
          /\ Left(orders, size, f[k], (k - 1) + 1)
      BY <3>1, <3>2, <3>3, PassedIs
    <3> QED  BY <3>1, <3>4
  <2> HIDE DEF T
  <2>6. n \in T
    <3>1. \A k \in 0 .. n : k \in T
      BY <2>3, <2>4, <2>5, Upward
    <3> QED  BY <2>3, <3>1
  <2> DEFINE s == f[n]
  <2>7. s \in Walks(Len(orders)) /\ Walked(orders, bids, s) /\ Len(s.leaves) <= size /\ Left(orders, size, s, n)
    BY <2>2, <2>3, <2>6 DEF T
  <2> HIDE DEF s
  <2>8. s.leaves \in Seq(Order) /\ s.stack \in Seq(Nodes(Len(orders)))
    BY <2>7 DEF Walks
  <2>9. Len(s.stack) + Len(s.leaves) <= Len(orders)
    BY <2>7, StackIsShort
  <2>10. s.stack = <<>> \/ Len(s.leaves) >= size
    <3>1. Len(s.stack) \in Nat /\ Len(s.leaves) \in Nat
      BY <2>8
    <3>2. Len(s.stack) + 2 * Len(s.leaves) # n + 1
      <4> DEFINE a == Len(s.stack)
                 b == Len(s.leaves)
                 c == Len(orders)
      <4>1. a \in Nat /\ b \in Nat /\ c \in Nat /\ n = 2 * c /\ a + b <= c
        BY <1>0, <2>3, <2>9, <3>1
      <4> HIDE DEF a, b, c
      <4>2. a + 2 * b # n + 1
        BY ONLY <4>1
      <4> QED  BY <4>2 DEF a, b
    <3> QED  BY <2>7, <3>2 DEF Left
  <2>11. Len(s.leaves) = Len(orders) \/ Len(s.leaves) = size
    <3>1. s.stack = <<>> => Len(s.leaves) = Len(orders)
      BY <2>7 DEF Walked
    <3>2. Len(s.leaves) \in Nat
      BY <2>8
    <3> QED  BY <2>7, <2>10, <3>1, <3>2
  <2>12. Len(s.leaves) <= Len(orders) /\ \A i \in 1 .. Len(s.leaves) : s.leaves[i] = Met(orders, i, bids)
    BY <2>7 DEF Walked
  <2> QED  BY <2>2, <2>7, <2>8, <2>11, <2>12 DEF ItemsOf, s
<1> QED  BY <1>1, <1>2

-----------------------------------------------------------------------------
(***************************************************************************)
(* The ticks.                                                              *)
(***************************************************************************)

\* More of one factor, more of the product.
LEMMA TimesMore ==
  ASSUME NEW a \in Nat, NEW b \in Int, NEW c \in Int, b <= c
  PROVE  a * b <= a * c
<1>1. a * (c - b) \in Nat
  <2>1. c - b \in Nat
    OBVIOUS
  <2> QED  BY <2>1
<1>2. a * (c - b) = a * c - a * b
  OBVIOUS
<1> QED  BY <1>1, <1>2

\* A quotient, rounded down, and its remainder.
LEMMA Quotient ==
  ASSUME NEW a \in Nat, NEW b \in Nat \ {0}
  PROVE  a \div b \in Nat /\ b * (a \div b) <= a /\ a < b * (a \div b) + b
OBVIOUS

\* What is less than one factor beyond a product is that product at most.
LEMMA Cancel ==
  ASSUME NEW p \in Nat \ {0}, NEW a \in Int, NEW b \in Int, p * a < p * b + p
  PROVE  a <= b
<1> SUFFICES ASSUME b + 1 <= a PROVE FALSE
  OBVIOUS
<1>1. p * (b + 1) <= p * a
  BY TimesMore
<1>2. p * (b + 1) = p * b + p
  OBVIOUS
<1>3. p * a \in Int /\ p * b \in Int
  OBVIOUS
<1> QED  BY <1>1, <1>2, <1>3

\* A quotient, rounded down, of a larger number is no smaller.
LEMMA QuotientRises ==
  ASSUME NEW a \in Nat, NEW b \in Nat, NEW c \in Nat \ {0}, a <= b
  PROVE  a \div c <= b \div c
<1> DEFINE x == a \div c
           y == b \div c
<1>1. x \in Nat /\ y \in Nat /\ c * x <= a /\ b < c * y + c
  BY Quotient
<1> HIDE DEF x, y
<1>2. c * x \in Nat /\ c * y \in Nat
  BY <1>1
<1>3. c * x < c * y + c
  BY <1>1, <1>2
<1>4. x <= y
  BY <1>1, <1>3, Cancel
<1> QED  BY <1>4 DEF x, y

\* A number and less than one more, in units of c.
LEMMA QuotientOfSum ==
  ASSUME NEW a \in Nat, NEW b \in Nat, NEW c \in Nat \ {0}
  PROVE  (a * c + b) \div c = a + b \div c
<1> DEFINE x == a * c + b
           y == b \div c
           z == x \div c
<1>1. x \in Nat /\ a * c = c * a
  OBVIOUS
<1>2. y \in Nat /\ c * y <= b /\ b < c * y + c
  BY Quotient
<1>3. z \in Nat /\ c * z <= x /\ x < c * z + c
  BY <1>1, Quotient
<1> HIDE DEF z, y
<1>4. c * (a + y) = c * a + c * y /\ c * a \in Nat /\ c * y \in Nat /\ c * z \in Nat
  BY <1>2, <1>3
<1>5. c * z < c * (a + y) + c /\ c * (a + y) < c * z + c
  BY <1>1, <1>2, <1>3, <1>4
<1>6. z <= a + y /\ a + y <= z
  BY <1>2, <1>3, <1>5, Cancel
<1>7. z = a + y
  BY <1>2, <1>3, <1>6
<1> QED  BY <1>7 DEF x, y, z

\* Whole units, in parts, are these units.
LEMMA WholeQuotient ==
  ASSUME NEW a \in Nat, NEW c \in Nat \ {0}
  PROVE  (a * c) \div c = a
<1>1. 0 \in Nat /\ a * c \in Nat
  OBVIOUS
<1>2. (a * c + 0) \div c = a + 0 \div c
  BY <1>1, QuotientOfSum
<1>3. 0 \div c \in Nat /\ c * (0 \div c) <= 0
  BY <1>1, Quotient
<1>4. 0 \div c = 0
  <2> DEFINE d == 0 \div c
  <2> SUFFICES ASSUME 1 <= d PROVE FALSE
    BY <1>3
  <2>1. d \in Nat /\ c * d <= 0
    BY <1>3
  <2> HIDE DEF d
  <2>2. c * 1 <= c * d
    BY <2>1, TimesMore
  <2>3. c * d \in Nat /\ c * 1 = c
    BY <2>1
  <2> QED  BY <2>1, <2>2, <2>3
<1>5. a * c + 0 = a * c
  BY <1>1
<1> QED  BY <1>2, <1>4, <1>5

\* A quotient, rounded to the nearest, is half of one away at most.
LEMMA Rounded ==
  ASSUME NEW x \in Nat, NEW y \in Nat \ {0}
  PROVE  /\ DivRound(x, y) \in Nat
         /\ 2 * (y * DivRound(x, y)) <= 2 * x + y
         /\ 2 * x < 2 * (y * DivRound(x, y)) + y
<1> DEFINE a == 2 * x + y
           b == 2 * y
           d == a \div b
<1>1. a \in Nat /\ b \in Nat \ {0}
  OBVIOUS
<1>2. d \in Nat /\ b * d <= a /\ a < b * d + b
  BY <1>1, Quotient
<1>3. DivRound(x, y) = d
  BY DEF DivRound
<1> HIDE DEF d
<1>4. b * d = 2 * (y * d) /\ y * d \in Nat
  BY <1>2
<1>5. 2 * (y * d) <= 2 * x + y /\ 2 * x < 2 * (y * d) + y
  BY <1>2, <1>4
<1> QED  BY <1>2, <1>3, <1>5

\* A rounded quotient of a larger number is no smaller.
LEMMA RoundedRises ==
  ASSUME NEW a \in Nat, NEW b \in Nat, NEW c \in Nat \ {0}, a <= b
  PROVE  DivRound(a, c) <= DivRound(b, c)
<1>1. 2 * a + c \in Nat /\ 2 * b + c \in Nat /\ 2 * c \in Nat \ {0} /\ 2 * a + c <= 2 * b + c
  OBVIOUS
<1> QED  BY <1>1, QuotientRises DEF DivRound

\* The constants of a market, in short.
LEMMA Lots ==
  ASSUME SerumAssumption
  PROVE  /\ Scale \in Nat \ {0} /\ BaseLotSize \in Nat \ {0} /\ QuoteLotSize \in Nat \ {0}
         /\ BaseLotSize <= Scale /\ Micro \in Nat \ {0} /\ Worth \in Nat
BY DEF SerumAssumption

\* A price is half a part away from what it is exactly, and none for no lots only.
LEMMA PriceIs ==
  ASSUME SerumAssumption, NEW p \in Nat
  PROVE  /\ PriceLotsToNumber(p) \in Nat
         /\ 2 * (BaseLotSize * PriceLotsToNumber(p)) <= 2 * ((p * QuoteLotSize) * Scale) + BaseLotSize
         /\ 2 * ((p * QuoteLotSize) * Scale) < 2 * (BaseLotSize * PriceLotsToNumber(p)) + BaseLotSize
         /\ p > 0 => PriceLotsToNumber(p) > 0
<1> DEFINE B == BaseLotSize
           Q == QuoteLotSize
           S == Scale
           x == (p * Q) * S
           P == DivRound(x, B)
<1>1. B \in Nat \ {0} /\ Q \in Nat \ {0} /\ S \in Nat \ {0} /\ B <= S
  BY Lots
<1>2. PriceLotsToNumber(p) = P
  BY DEF PriceLotsToNumber
<1> HIDE DEF B, Q, S
<1>3. x \in Nat
  BY <1>1
<1>4. P \in Nat /\ 2 * (B * P) <= 2 * x + B /\ 2 * x < 2 * (B * P) + B
  BY <1>1, <1>3, Rounded
<1> HIDE DEF P
<1>5. ASSUME p > 0 PROVE P > 0
  <2> SUFFICES ASSUME P = 0 PROVE FALSE
    BY <1>4
  <2>1. B * P = 0
    BY <1>1
  <2>2. p * Q \in Nat /\ p * Q >= 1
    BY <1>1, <1>5
  <2> DEFINE y == p * Q
  <2> HIDE DEF y
  <2>3. S * 1 <= S * y
    BY <1>1, <2>2, TimesMore DEF y
  <2>4. S * y = x
    BY <1>1, <2>2 DEF y
  <2>5. S <= x
    BY <1>1, <2>3, <2>4
  <2> HIDE DEF x
  <2> QED  BY <1>1, <1>3, <1>4, <2>1, <2>5
<1> QED  BY <1>2, <1>4, <1>5 DEF B, Q, S

\* The tick of an order.
TickOf(order) == [price |-> PriceLotsToNumber(order.price),
                  quantity |-> BaseSizeLotsToNumber(order.quantity)]
Positive == {t \in Tick : t.price > 0 /\ t.quantity > 0}

\* The tick of an order has a price and a quantity.
LEMMA TickIs ==
  ASSUME SerumAssumption, NEW o \in Order
  PROVE  TickOf(o) \in Positive
<1>1. o.price \in Nat \ {0} /\ o.quantity \in Nat \ {0}
  BY DEF Order
<1>2. PriceLotsToNumber(o.price) \in Nat /\ PriceLotsToNumber(o.price) > 0
  <2> DEFINE p == o.price
  <2>1. p \in Nat /\ p > 0
    BY <1>1
  <2> HIDE DEF p
  <2>2. PriceLotsToNumber(p) \in Nat /\ PriceLotsToNumber(p) > 0
    BY <2>1, PriceIs
  <2> QED  BY <2>2 DEF p
<1>3. BaseSizeLotsToNumber(o.quantity) \in Nat /\ BaseSizeLotsToNumber(o.quantity) > 0
  <2> DEFINE q == o.quantity
             b == BaseLotSize
  <2>1. q \in Nat \ {0} /\ b \in Nat \ {0}
    BY <1>1 DEF SerumAssumption
  <2> HIDE DEF q, b
  <2>2. q * b \in Nat /\ q * b > 0
    BY ONLY <2>1
  <2> QED  BY <2>2 DEF BaseSizeLotsToNumber, q, b
<1> QED  BY <1>2, <1>3 DEF TickOf, Tick, Positive

\* The ticks of orders.
LEMMA TicksAre ==
  ASSUME SerumAssumption, NEW s \in Seq(Order)
  PROVE  /\ Ticks(s) \in Seq(Positive) /\ Len(Ticks(s)) = Len(s) /\ Len(s) \in Nat
         /\ DOMAIN Ticks(s) = 1 .. Len(s)
         /\ \A i \in 1 .. Len(s) : Ticks(s)[i] = TickOf(s[i])
<1>1. DOMAIN s = 1 .. Len(s) /\ Len(s) \in Nat /\ \A i \in 1 .. Len(s) : s[i] \in Order
  OBVIOUS
<1>2. Ticks(s) = [i \in 1 .. Len(s) |-> TickOf(s[i])]
  BY <1>1 DEF Ticks, TickOf
<1>3. \A i \in 1 .. Len(s) : TickOf(s[i]) \in Positive
  BY <1>1, TickIs
<1> QED  BY <1>1, <1>2, <1>3

\* The orders as the walk meets them.
Facing(orders, bids) == IF bids THEN orders ELSE Backward(orders)

\* Those orders, one by one.
LEMMA FacingIs ==
  ASSUME SerumAssumption, NEW orders \in Content, NEW bids \in BOOLEAN
  PROVE  /\ Facing(orders, bids) \in Seq(Order) /\ Len(Facing(orders, bids)) = Len(orders)
         /\ Len(orders) \in Nat
         /\ \A i \in 1 .. Len(orders) : Facing(orders, bids)[i] = Met(orders, i, bids)
<1>1. /\ orders \in Seq(Order) /\ Len(orders) \in Nat /\ DOMAIN orders = 1 .. Len(orders)
      /\ \A i \in 1 .. Len(orders) : orders[i] \in Order
  BY ContentIs
<1>2. CASE bids = TRUE
  BY <1>1, <1>2 DEF Facing, Met
<1>3. CASE bids = FALSE
  <2>1. Backward(orders) = [i \in 1 .. Len(orders) |-> orders[Len(orders) + 1 - i]]
    BY <1>1 DEF Backward
  <2>2. \A i \in 1 .. Len(orders) : Len(orders) + 1 - i \in 1 .. Len(orders)
    BY <1>1
  <2>3. \A i \in 1 .. Len(orders) : orders[Len(orders) + 1 - i] \in Order
    BY <1>1, <2>2
  <2>4. Backward(orders) \in Seq(Order) /\ Len(Backward(orders)) = Len(orders)
    BY <1>1, <2>1, <2>3
  <2> QED  BY <1>1, <1>3, <2>1, <2>4 DEF Facing, Met
<1> QED  BY <1>2, <1>3

\* The ticks that are copied start with those of the book.
LEMMA CopyIs ==
  ASSUME SerumAssumption, NEW orders \in Content, NEW bids \in BOOLEAN, NEW old \in Ticked
  PROVE  /\ Copy(old, Ticks(Items(orders, bids, Depth))) \in Ticked
         /\ StartsWith(Copy(old, Ticks(Items(orders, bids, Depth))), Ticks(Facing(orders, bids)))
<1> DEFINE s == Items(orders, bids, Depth)
           t == Ticks(s)
           all == Facing(orders, bids)
           copy == Copy(old, t)
<1>1. Depth \in Nat \ {0}
  BY DEF SerumAssumption
<1>2. ItemsOf(orders, bids, Depth, s)
  BY <1>1, ItemsAre
<1>3. all \in Seq(Order) /\ Len(all) = Len(orders) /\ Len(orders) \in Nat
      /\ \A i \in 1 .. Len(orders) : all[i] = Met(orders, i, bids)
  BY FacingIs
<1> HIDE DEF s, all
<1>4. /\ s \in Seq(Order) /\ Len(s) <= Len(orders) /\ Len(s) <= Depth
      /\ Len(s) = Len(orders) \/ Len(s) = Depth
      /\ \A i \in 1 .. Len(s) : s[i] = Met(orders, i, bids)
  BY <1>2 DEF ItemsOf
<1>5. /\ t \in Seq(Positive) /\ Len(t) = Len(s) /\ Len(s) \in Nat
      /\ \A i \in 1 .. Len(s) : t[i] = TickOf(s[i])
  BY <1>4, TicksAre
<1>6. DOMAIN Ticks(all) = 1 .. Len(orders) /\ \A i \in 1 .. Len(orders) : Ticks(all)[i] = TickOf(all[i])
  BY <1>3, TicksAre
<1> HIDE DEF t
<1>7. copy = [i \in 1 .. Depth |-> IF i <= Len(t) THEN t[i] ELSE old[i]]
  BY DEF Copy
<1> HIDE DEF copy
<1>8. \A i \in 1 .. Len(t) : t[i] \in Tick
  <2>1. \A i \in 1 .. Len(t) : t[i] \in Positive
    BY <1>5
  <2> QED  BY <2>1 DEF Positive
<1>9. copy \in Ticked
  BY <1>1, <1>5, <1>7, <1>8 DEF Ticked
<1>10. StartsWith(copy, Ticks(all))
  <2> SUFFICES ASSUME NEW i \in 1 .. Depth, i \in 1 .. Len(orders)
               PROVE  copy[i] = Ticks(all)[i]
    BY <1>6 DEF StartsWith
  <2>1. i \in 1 .. Len(s)
    BY <1>1, <1>3, <1>4, <1>5
  <2>2. copy[i] = TickOf(s[i]) /\ s[i] = all[i]
    BY <1>3, <1>4, <1>5, <1>7, <2>1
  <2> QED  BY <1>6, <2>2
<1> QED  BY <1>9, <1>10 DEF copy, t, s, all

-----------------------------------------------------------------------------
(***************************************************************************)
(* The inductive invariant.                                                *)
(***************************************************************************)

\* A book is of one market.
LEMMA BooksApart ==
  ASSUME SerumAssumption, NEW m \in Markets
  PROVE  /\ BooksOn(m) \subseteq Books /\ MarketOf[m].bids # MarketOf[m].asks
         /\ MarketOf[m].bids \in BooksOn(m) /\ MarketOf[m].asks \in BooksOn(m)
         /\ \A l \in Markets : \A b \in BooksOn(m) : b \in BooksOn(l) => l = m
<1>1. MarketOf[m].bids \in Books /\ MarketOf[m].asks \in Books /\ MarketOf[m].bids # MarketOf[m].asks
  BY DEF SerumAssumption
<1>2. BooksOn(m) = {MarketOf[m].bids, MarketOf[m].asks}
  BY DEF BooksOn
<1>3. \A l \in Markets \ {m} : BooksOn(m) \cap BooksOn(l) = {}
  BY DEF SerumAssumption
<1> QED  BY <1>1, <1>2, <1>3

\* The first message is worked off.
LEMMA ToldTail ==
  ASSUME NEW us \in Seq(Message), us # <<>>, NEW b, NEW known, NEW goal, Told(us, b, known, goal)
  PROVE  Told(Tail(us), b,
              IF us[1].book = b /\ us[1].readable THEN us[1].account.slot ELSE known, goal)
<1> DEFINE rest == Tail(us)
           n == Len(rest)
<1>1. /\ Len(us) = n + 1 /\ n \in Nat /\ DOMAIN us = 1 .. n + 1 /\ DOMAIN rest = 1 .. n
      /\ \A i \in 1 .. n : rest[i] = us[i + 1]
  BY TopIs
<1>2. us[1].readable \in BOOLEAN
  <2>1. us[1] \in Message
    BY TopIs
  <2> QED  BY <2>1 DEF Message
<1> HIDE DEF rest, n
<1>3. CASE known = goal /\ \A i \in DOMAIN us : us[i].book # b
  <2>1. us[1].book # b /\ \A i \in 1 .. n : rest[i].book # b
    BY <1>1, <1>3
  <2>2. Told(rest, b, IF us[1].book = b /\ us[1].readable THEN us[1].account.slot ELSE known, goal)
    BY <1>1, <1>3, <2>1 DEF Told
  <2> QED  BY <2>2 DEF rest
<1>4. ASSUME NEW i \in DOMAIN us, us[i].book = b, us[i].readable, us[i].account.slot = goal,
             \A j \in DOMAIN us : us[j].book = b => j <= i
      PROVE  Told(rest, b, IF us[1].book = b /\ us[1].readable THEN us[1].account.slot ELSE known, goal)
  <2>1. CASE i = 1
    <3>1. us[1].book = b /\ us[1].readable /\ us[1].account.slot = goal
      BY <1>4, <2>1
    <3>2. \A j \in DOMAIN rest : rest[j].book # b
      <4> SUFFICES ASSUME NEW j \in 1 .. n, rest[j].book = b PROVE FALSE
        BY <1>1
      <4>1. us[j + 1].book = b /\ j + 1 \in DOMAIN us /\ j \in Nat
        BY <1>1
      <4>2. j + 1 <= 1
        BY <1>4, <2>1, <4>1
      <4> QED  BY <4>1, <4>2
    <3> QED  BY <3>1, <3>2 DEF Told
  <2>2. CASE i # 1
    <3>1. i - 1 \in 1 .. n /\ (i - 1) + 1 = i
      BY <1>1, <2>2
    <3>2. rest[i - 1] = us[i]
      BY <1>1, <3>1
    <3>3. ASSUME NEW j \in DOMAIN rest, rest[j].book = b PROVE j <= i - 1
      <4>1. j \in 1 .. n /\ j + 1 \in DOMAIN us /\ us[j + 1].book = b
        BY <1>1, <3>3
      <4>2. j + 1 <= i
        BY <1>4, <4>1
      <4> QED  BY <1>1, <3>1, <4>1, <4>2
    <3>4. i - 1 \in DOMAIN rest
      BY <1>1, <3>1
    <3> QED  BY <1>4, <3>2, <3>3, <3>4 DEF Told
  <2> QED  BY <2>1, <2>2
<1> QED  BY <1>3, <1>4 DEF Told, rest

\* A message is sent, of this book or another.
LEMMA ToldAppend ==
  ASSUME NEW us \in Seq(Message), NEW e \in Message, NEW b, NEW known, NEW goal
  PROVE  /\ e.book # b /\ Told(us, b, known, goal) => Told(Append(us, e), b, known, goal)
         /\ e.book = b /\ e.readable /\ e.account.slot = goal => Told(Append(us, e), b, known, goal)
<1> DEFINE more == Append(us, e)
           n == Len(us)
<1>1. /\ n \in Nat /\ DOMAIN us = 1 .. n /\ DOMAIN more = 1 .. n + 1 /\ more[n + 1] = e
      /\ \A i \in 1 .. n : more[i] = us[i]
  BY AppendProperties
<1> HIDE DEF more, n
<1>2. ASSUME e.book # b, Told(us, b, known, goal) PROVE Told(more, b, known, goal)
  <2>1. CASE known = goal /\ \A i \in DOMAIN us : us[i].book # b
    <3>1. ASSUME NEW i \in DOMAIN more PROVE more[i].book # b
      <4>1. CASE i = n + 1  BY <1>1, <1>2, <4>1
      <4>2. CASE i # n + 1
        <5>1. i \in 1 .. n  BY <1>1, <4>2
        <5> QED  BY <1>1, <2>1, <5>1
      <4> QED  BY <4>1, <4>2
    <3> QED  BY <2>1, <3>1 DEF Told
  <2>2. ASSUME NEW i \in DOMAIN us, us[i].book = b, us[i].readable, us[i].account.slot = goal,
               \A j \in DOMAIN us : us[j].book = b => j <= i
        PROVE  Told(more, b, known, goal)
    <3>1. i \in DOMAIN more /\ more[i] = us[i]
      BY <1>1
    <3>2. ASSUME NEW j \in DOMAIN more, more[j].book = b PROVE j <= i
      <4>1. j # n + 1
        BY <1>1, <1>2, <3>2
      <4>2. j \in 1 .. n
        BY <1>1, <4>1
      <4> QED  BY <1>1, <2>2, <3>2, <4>2
    <3> QED  BY <2>2, <3>1, <3>2 DEF Told
  <2> QED  BY <1>2, <2>1, <2>2 DEF Told
<1>3. ASSUME e.book = b, e.readable, e.account.slot = goal PROVE Told(more, b, known, goal)
  <2>1. n + 1 \in DOMAIN more /\ \A j \in DOMAIN more : j <= n + 1
    BY <1>1
  <2> QED  BY <1>1, <1>3, <2>1 DEF Told
<1> QED  BY <1>2, <1>3 DEF more

\* The invariant holds at the start.
LEMMA InvInit ==
  ASSUME SerumAssumption, Init
  PROVE  IInv
<1>1. /\ version \in Versions /\ phase = "new" /\ markets = {} /\ models = {} /\ used = {}
      /\ subscribed = {} /\ missed = {} /\ updates = <<>> /\ updater = Idle
      /\ orderBooks = [b \in Books |-> NoBook]
      /\ ticks = [m \in Markets |-> [bid |-> NoTicks, ask |-> NoTicks]]
  BY DEF Init
<1>2. Len(updates) = 0 /\ UpdateCap \in Nat /\ DOMAIN updates = {}
  BY <1>1 DEF SerumAssumption
<1>3. chain \in [Books -> Account]
  <2>1. \A b \in Books : chain[b] \in {[slot |-> 1, orders |-> s] : s \in Content}
    BY DEF Init, Content
  <2>2. DOMAIN chain = Books /\ chain = [b \in Books |-> chain[b]]
    BY DEF Init
  <2> QED  BY <2>1, <2>2 DEF Account
<1>4. NoTicks \in Ticked
  <2>1. NoTick \in Tick
    BY DEF NoTick, Tick
  <2> QED  BY <2>1 DEF NoTicks, Ticked
<1>5. \A b \in Books : ~orderBooks[b].there
  BY <1>1 DEF NoBook
<1>6. Types
  BY <1>1, <1>2, <1>3, <1>4 DEF Types
<1>7. Nested /\ Follows /\ Copied
  BY <1>1 DEF Nested, Follows, Copied
<1>8. Real
  BY <1>2, <1>5 DEF Real
<1>9. Phases
  <2>1. updater.at = "idle"
    BY <1>1 DEF Idle
  <2> QED  BY <1>1, <1>2, <1>5, <2>1 DEF Phases
<1> QED  BY <1>6, <1>7, <1>8, <1>9 DEF IInv

\* The first fetch, or one that fails: there are no models yet.
LEMMA ListInv ==
  ASSUME SerumAssumption, IInv, List \/ Fail
  PROVE  IInv'
<1>1. Types /\ Nested /\ Phases /\ Real
  BY DEF IInv
<1>2. /\ phase \in {"new", "listed"} /\ phase' \in {"listed", "failed"}
      /\ markets' \in {markets, Markets} /\ models' = models /\ used' = used
  BY DEF List, Fail, Markets
<1>3. /\ version' = version /\ orderBooks' = orderBooks /\ ticks' = ticks
      /\ subscribed' = subscribed /\ chain' = chain /\ updates' = updates /\ updater' = updater
      /\ missed' = missed
  BY DEF List, Fail
<1>4. models = {} /\ used = {} /\ subscribed = {} /\ updates = <<>> /\ updater = Idle
  BY <1>1, <1>2 DEF Phases, Nested
<1>5. Types'
  BY <1>1, <1>2, <1>3 DEF Types
<1>6. Nested'
  BY <1>1, <1>2, <1>3, <1>4 DEF Nested
<1>7. Phases'
  BY <1>1, <1>2, <1>3, <1>4 DEF Phases
<1>8. Real'
  BY <1>1, <1>3 DEF Real, At
<1>9. Follows' /\ Copied'
  BY <1>2, <1>4 DEF Follows, Copied
<1> QED  BY <1>5, <1>6, <1>7, <1>8, <1>9 DEF IInv

\* Both versions read the books of the models as they are.
Built ==
  /\ phase = "listed" /\ phase' = "built" /\ orderBooks' = Retrieved
  /\ models' \subseteq {m \in markets : Whole(m)}
  /\ version' = version /\ markets' = markets /\ used' = used /\ subscribed' = subscribed
  /\ chain' = chain /\ updates' = updates /\ updater' = updater /\ missed' = missed

\* The invariant holds once the books are read, if the ticks and the models are as built.
LEMMA BuiltInv ==
  ASSUME SerumAssumption, IInv, Built, ticks' \in [Markets -> [bid : Ticked, ask : Ticked]]
  PROVE  Types' /\ Nested' /\ Phases' /\ Real' /\ Follows'
<1>1. Types /\ Nested /\ Phases /\ Real
  BY DEF IInv
<1>2. /\ phase = "listed" /\ phase' = "built" /\ orderBooks' = Retrieved
      /\ models' \subseteq {m \in markets : Whole(m)}
      /\ version' = version /\ markets' = markets /\ used' = used /\ subscribed' = subscribed
      /\ chain' = chain /\ updates' = updates /\ updater' = updater /\ missed' = missed
  BY DEF Built
<1>3. /\ models = {} /\ used = {} /\ subscribed = {} /\ updates = <<>> /\ updater = Idle
      /\ \A b \in Books : ~orderBooks[b].there
  BY <1>1, <1>2 DEF Phases, Nested
<1>4. ASSUME NEW b \in Books
      PROVE  /\ orderBooks'[b] \in {NoBook} \cup KnownBook
             /\ orderBooks'[b].there => /\ orderBooks'[b].slot = chain[b].slot
                                        /\ orderBooks'[b].slab = chain[b].orders
  <2> DEFINE new == KeyedOrderBook(chain[b], chain[b].slot)
  <2>1. orderBooks'[b] \in {orderBooks[b], new}
    BY <1>2 DEF Retrieved
  <2>2. chain[b].slot \in Nat /\ chain[b].orders \in Content
    BY <1>1 DEF Types, Account
  <2>3. new = [there |-> TRUE, height |-> chain[b].slot, slot |-> chain[b].slot, slab |-> chain[b].orders]
    BY DEF KeyedOrderBook
  <2> HIDE DEF new
  <2>4. new \in KnownBook /\ new.slot = chain[b].slot /\ new.slab = chain[b].orders
    BY <2>2, <2>3 DEF KnownBook
  <2>5. orderBooks[b] \in {NoBook} \cup KnownBook
    BY <1>1 DEF Types
  <2> QED  BY <1>3, <2>1, <2>4, <2>5
<1>5. Types'
  <2>1. DOMAIN orderBooks' = Books /\ orderBooks' = [b \in Books |-> orderBooks'[b]]
    BY <1>2 DEF Retrieved
  <2>2. orderBooks' \in [Books -> {NoBook} \cup KnownBook]
    BY <1>4, <2>1
  <2> QED  BY <1>1, <1>2, <2>2 DEF Types
<1>6. Nested'
  <2>1. used' \subseteq models' /\ models' \subseteq markets' /\ markets' \subseteq Markets
    BY <1>1, <1>2, <1>3 DEF Nested
  <2>2. ASSUME NEW m \in models', NEW b \in BooksOn(m) PROVE orderBooks'[b].there
    BY <1>2 DEF Whole, BooksOn
  <2> QED  BY <2>1, <2>2 DEF Nested
<1>7. Phases'
  <2>1. DOMAIN updates' = {} /\ updater'.at = "idle"
    BY <1>2, <1>3 DEF Idle
  <2> QED  BY <1>2, <1>3, <2>1 DEF Phases
<1>8. Real'
  <2>1. DOMAIN updates' = {}
    BY <1>2, <1>3
  <2>2. ASSUME NEW b \in Books, orderBooks'[b].there
        PROVE  At(b, orderBooks[b].slot, orderBooks[b].slab)'
    <3>1. chain'[b].slot \in Nat
      BY <1>1, <1>2 DEF Types, Account
    <3> QED  BY <1>2, <1>4, <2>2, <3>1 DEF At
  <2> QED  BY <2>1, <2>2 DEF Real
<1>9. Follows'
  <2> SUFFICES ASSUME NEW m \in models', NEW b \in BooksOn(m) \ missed'
               PROVE  Told(updates', b, orderBooks'[b].slot, chain'[b].slot)
    BY DEF Follows
  <2>1. m \in Markets /\ orderBooks'[b].there
    BY <1>6 DEF Nested
  <2>2. b \in Books
    BY <2>1, BooksApart
  <2>3. orderBooks'[b].slot = chain'[b].slot
    BY <1>2, <1>4, <2>1, <2>2
  <2> QED  BY <1>2, <1>3, <2>3 DEF Told
<1> QED  BY <1>5, <1>6, <1>7, <1>8, <1>9

\* Version 1 builds models without ticks.
LEMMA Build1Inv ==
  ASSUME SerumAssumption, IInv, Build1
  PROVE  IInv'
<1>1. Built /\ ticks' = ticks /\ version' = "v1"
  BY DEF Build1, Built
<1>2. ticks' \in [Markets -> [bid : Ticked, ask : Ticked]]
  BY <1>1 DEF IInv, Types
<1>3. Copied'
  BY <1>1 DEF Copied
<1> QED  BY <1>1, <1>2, <1>3, BuiltInv DEF IInv

\* Version 2 builds models, and reads both sides of their ticks.
LEMMA BuildInv ==
  ASSUME SerumAssumption, IInv, Build
  PROVE  IInv'
<1>1. Built
  BY DEF Build, Built
<1>2. ASSUME NEW m \in models'
      PROVE  /\ m \in Markets
             /\ orderBooks'[MarketOf[m].asks].slab \in Content
             /\ orderBooks'[MarketOf[m].bids].slab \in Content
  <2>1. m \in markets /\ markets \subseteq Markets /\ Whole(m)
    BY DEF Build, IInv, Nested
  <2>2. ASSUME NEW b \in Books, orderBooks'[b].there PROVE orderBooks'[b].slab \in Content
    <3> DEFINE new == KeyedOrderBook(chain[b], chain[b].slot)
    <3>1. orderBooks'[b] \in {orderBooks[b], new}
      BY DEF Build, Retrieved
    <3>2. chain[b].orders \in Content /\ orderBooks[b] \in {NoBook} \cup KnownBook
      BY DEF IInv, Types, Account
    <3>3. new.slab = chain[b].orders
      BY DEF KeyedOrderBook
    <3> HIDE DEF new
    <3>4. orderBooks[b].there => orderBooks[b].slab \in Content
      <4>1. orderBooks[b] = NoBook => ~orderBooks[b].there
        BY DEF NoBook
      <4>2. orderBooks[b] \in KnownBook => orderBooks[b].slab \in Content
        BY DEF KnownBook
      <4> QED  BY <3>2, <4>1, <4>2
    <3> QED  BY <2>2, <3>1, <3>2, <3>3, <3>4
  <2>3. MarketOf[m].asks \in Books /\ MarketOf[m].bids \in Books
    BY <2>1 DEF SerumAssumption
  <2> QED  BY <2>1, <2>2, <2>3 DEF Whole
<1>3. ASSUME NEW m \in models'
      PROVE  /\ Bids(orderBooks', m) = Ticks(Items(orderBooks'[MarketOf[m].asks].slab, TRUE, Depth))
             /\ Asks(orderBooks', m) = Ticks(Items(orderBooks'[MarketOf[m].bids].slab, FALSE, Depth))
  BY DEF Bids, Asks, Model
<1>4. \A m \in Markets : ticks[m].bid \in Ticked /\ ticks[m].ask \in Ticked
  BY DEF IInv, Types
<1>5. ticks' = [m \in Markets |-> IF m \in models'
                                  THEN [bid |-> Copy(ticks[m].bid, Bids(orderBooks', m)),
                                        ask |-> Copy(ticks[m].ask, Asks(orderBooks', m))]
                                  ELSE ticks[m]]
  BY DEF Build
<1>6. ASSUME NEW m \in models'
      PROVE  /\ ticks'[m].bid \in Ticked /\ ticks'[m].ask \in Ticked /\ BidsRead(m)' /\ AsksRead(m)'
             /\ ticks'[m] = [bid |-> ticks'[m].bid, ask |-> ticks'[m].ask]
  <2> DEFINE bids == orderBooks'[MarketOf[m].bids].slab
             asks == orderBooks'[MarketOf[m].asks].slab
             oldBid == ticks[m].bid
             oldAsk == ticks[m].ask
  <2>1. ticks'[m] = [bid |-> Copy(oldBid, Ticks(Items(asks, TRUE, Depth))),
                     ask |-> Copy(oldAsk, Ticks(Items(bids, FALSE, Depth)))]
    BY <1>2, <1>3, <1>5
  <2>2. bids \in Content /\ asks \in Content /\ oldBid \in Ticked /\ oldAsk \in Ticked
    BY <1>2, <1>4
  <2> HIDE DEF bids, asks, oldBid, oldAsk
  <2>3. /\ ticks'[m].bid = Copy(oldBid, Ticks(Items(asks, TRUE, Depth)))
        /\ ticks'[m].ask = Copy(oldAsk, Ticks(Items(bids, FALSE, Depth)))
        /\ ticks'[m] = [bid |-> ticks'[m].bid, ask |-> ticks'[m].ask]
    BY <2>1
  <2>4. /\ ticks'[m].bid \in Ticked /\ StartsWith(ticks'[m].bid, Ticks(Facing(asks, TRUE)))
        /\ ticks'[m].ask \in Ticked /\ StartsWith(ticks'[m].ask, Ticks(Facing(bids, FALSE)))
    BY <2>2, <2>3, CopyIs, ZenonT(30)
  <2>5. Facing(asks, TRUE) = asks /\ Facing(bids, FALSE) = Backward(bids)
    BY DEF Facing
  <2>6. StartsWith(ticks'[m].bid, Ticks(asks)) /\ StartsWith(ticks'[m].ask, Ticks(Backward(bids)))
    BY <2>4, <2>5
  <2> QED  BY <2>3, <2>4, <2>6 DEF BidsRead, AsksRead, bids, asks
<1>7. ticks' \in [Markets -> [bid : Ticked, ask : Ticked]]
  <2>1. ASSUME NEW m \in Markets PROVE ticks'[m] \in [bid : Ticked, ask : Ticked]
    <3>1. CASE m \in models'
      <4>1. /\ ticks'[m].bid \in Ticked /\ ticks'[m].ask \in Ticked
            /\ ticks'[m] = [bid |-> ticks'[m].bid, ask |-> ticks'[m].ask]
        BY <1>6, <3>1
      <4> QED  BY <4>1
    <3>2. CASE m \notin models'
      <4>1. ticks'[m] = ticks[m]
        BY <1>5, <3>2
      <4> QED  BY <4>1 DEF IInv, Types
    <3> QED  BY <3>1, <3>2
  <2>2. DOMAIN ticks' = Markets /\ ticks' = [m \in Markets |-> ticks'[m]]
    BY <1>5
  <2> QED  BY <2>1, <2>2
<1>8. Copied'
  BY <1>6 DEF Copied
<1> QED  BY <1>1, <1>7, <1>8, BuiltInv DEF IInv

\* The calculators take models that were built.
LEMMA AnnounceInv ==
  ASSUME SerumAssumption, IInv, Announce
  PROVE  IInv'
<1>1. Types /\ Nested /\ Phases /\ Real /\ Follows /\ Copied
  BY DEF IInv
<1>2. /\ phase = "built" /\ phase' = "announced" /\ used' \subseteq models
      /\ version' = version /\ markets' = markets /\ orderBooks' = orderBooks
      /\ models' = models /\ ticks' = ticks /\ subscribed' = subscribed /\ chain' = chain
      /\ updates' = updates /\ updater' = updater /\ missed' = missed
  BY DEF Announce
<1>3. Types'
  BY <1>1, <1>2 DEF Types
<1>4. Nested'
  BY <1>1, <1>2 DEF Nested
<1>5. Phases'
  BY <1>1, <1>2 DEF Phases
<1>6. Real'
  BY <1>1, <1>2 DEF Real, At
<1>7. Follows'
  BY <1>1, <1>2 DEF Follows
<1>8. Copied'
  BY <1>1, <1>2 DEF Copied, BidsRead, AsksRead
<1> QED  BY <1>3, <1>4, <1>5, <1>6, <1>7, <1>8 DEF IInv

\* The books of the used models are subscribed to, before any update.
LEMMA FlashInv ==
  ASSUME SerumAssumption, IInv, Flash
  PROVE  IInv'
<1>1. Types /\ Nested /\ Phases /\ Real /\ Follows /\ Copied
  BY DEF IInv
<1>2. /\ phase = "announced" /\ phase' = "flashed" /\ subscribed' = Wanted
      /\ version' = version /\ markets' = markets /\ orderBooks' = orderBooks
      /\ models' = models /\ ticks' = ticks /\ used' = used /\ chain' = chain
      /\ updates' = updates /\ updater' = updater /\ missed' = missed
  BY DEF Flash
<1>3. Types'
  <2>1. Wanted \subseteq Books
    <3> SUFFICES ASSUME NEW m \in used PROVE BooksOn(m) \subseteq Books
      BY DEF Wanted
    <3>1. m \in Markets
      BY <1>1 DEF Nested
    <3> QED  BY <3>1, BooksApart
  <2> QED  BY <1>1, <1>2, <2>1 DEF Types
<1>4. Nested'
  BY <1>1, <1>2 DEF Nested
<1>5. Phases'
  <2>1. updates = <<>> /\ updater = Idle /\ subscribed = {}
    BY <1>1, <1>2 DEF Phases
  <2>2. DOMAIN updates' = {} /\ updater'.at = "idle"
    BY <1>2, <2>1 DEF Idle
  <2>3. subscribed' = Wanted'
    BY <1>2 DEF Wanted
  <2> QED  BY <1>2, <2>1, <2>2, <2>3 DEF Phases
<1>6. Real'
  BY <1>1, <1>2 DEF Real, At
<1>7. Follows'
  BY <1>1, <1>2 DEF Follows
<1>8. Copied'
  BY <1>1, <1>2 DEF Copied, BidsRead, AsksRead
<1> QED  BY <1>3, <1>4, <1>5, <1>6, <1>7, <1>8 DEF IInv

\* The goroutine goes when it is idle; the updates stay.
LEMMA QuitInv ==
  ASSUME SerumAssumption, IInv, Quit
  PROVE  IInv'
<1>1. Types /\ Nested /\ Phases /\ Real /\ Follows /\ Copied
  BY DEF IInv
<1>2. /\ version = "v2" /\ phase = "flashed" /\ updater = Idle /\ updater' = [at |-> "gone"]
      /\ version' = version /\ phase' = phase /\ markets' = markets /\ orderBooks' = orderBooks
      /\ models' = models /\ ticks' = ticks /\ used' = used /\ subscribed' = subscribed
      /\ chain' = chain /\ updates' = updates /\ missed' = missed
  BY DEF Quit, listing
<1>3. updater.at = "idle" /\ updater'.at = "gone"
  BY <1>2 DEF Idle
<1>4. Types'
  BY <1>1, <1>2 DEF Types
<1>5. Nested'
  BY <1>1, <1>2 DEF Nested
<1>6. Phases'
  BY <1>1, <1>2, <1>3 DEF Phases, Wanted
<1>7. Real'
  BY <1>1, <1>2 DEF Real, At
<1>8. Follows'
  BY <1>1, <1>2 DEF Follows
<1>9. Copied'
  BY <1>1, <1>2, <1>3 DEF Copied, BidsRead, AsksRead
<1> QED  BY <1>4, <1>5, <1>6, <1>7, <1>8, <1>9 DEF IInv

\* The exchange: a book that is in use is told of, and the others are missed or not yet read.
LEMMA ExchangeInv ==
  ASSUME SerumAssumption, IInv, Exchange
  PROVE  IInv'
<1>1. Types /\ Nested /\ Phases /\ Real /\ Follows /\ Copied
  BY DEF IInv
<1> DEFINE expected(b) == phase = "flashed" /\ \E m \in used : b \in BooksOn(m)
<1>2. PICK b \in Books, readable \in BOOLEAN : \E s \in BooksOf[b] \ {chain[b].orders} :
        LET next == [slot |-> chain[b].slot + 1, orders |-> s]
        IN /\ chain[b].slot < MaxSlot /\ Len(updates) < UpdateCap
           /\ chain' = [chain EXCEPT ![b] = next]
           /\ updates' = IF b \in subscribed
                         THEN Append(updates, [book |-> b, readable |-> readable, account |-> next])
                         ELSE updates
           /\ missed' = IF phase \in {"new", "listed"} THEN missed
                        ELSE IF expected(b) /\ readable THEN missed \ {b} ELSE missed \cup {b}
           /\ UNCHANGED <<listing, orderBooks, ticks, updater>>
  BY Zenon DEF Exchange
<1>3. PICK s \in BooksOf[b] \ {chain[b].orders} :
        LET next == [slot |-> chain[b].slot + 1, orders |-> s]
        IN /\ chain[b].slot < MaxSlot /\ Len(updates) < UpdateCap
           /\ chain' = [chain EXCEPT ![b] = next]
           /\ updates' = IF b \in subscribed
                         THEN Append(updates, [book |-> b, readable |-> readable, account |-> next])
                         ELSE updates
           /\ missed' = IF phase \in {"new", "listed"} THEN missed
                        ELSE IF expected(b) /\ readable THEN missed \ {b} ELSE missed \cup {b}
           /\ UNCHANGED <<listing, orderBooks, ticks, updater>>
  BY <1>2, Zenon
<1> DEFINE next == [slot |-> chain[b].slot + 1, orders |-> s]
           message == [book |-> b, readable |-> readable, account |-> next]
<1>4. /\ Len(updates) < UpdateCap /\ chain' = [chain EXCEPT ![b] = next]
      /\ updates' = IF b \in subscribed THEN Append(updates, message) ELSE updates
      /\ missed' = IF phase \in {"new", "listed"} THEN missed
                   ELSE IF expected(b) /\ readable THEN missed \ {b} ELSE missed \cup {b}
  BY <1>3
<1>5. /\ version' = version /\ phase' = phase /\ markets' = markets /\ orderBooks' = orderBooks
      /\ models' = models /\ ticks' = ticks /\ used' = used /\ subscribed' = subscribed
      /\ updater' = updater
  BY <1>3 DEF listing
<1>6. /\ updates \in Seq(Message) /\ Len(updates) \in Nat /\ chain \in [Books -> Account]
      /\ chain[b].slot \in Nat
  <2>1. updates \in Seq(Message) /\ chain \in [Books -> Account]
    BY <1>1 DEF Types
  <2> QED  BY <2>1 DEF Account
<1>7. next \in Account /\ next.slot = chain[b].slot + 1 /\ next.orders = s
  <2>1. s \in Content
    BY DEF Content
  <2> QED  BY <1>6, <2>1 DEF Account
<1> HIDE DEF next
<1>8. message \in Message /\ message.book = b /\ message.readable = readable /\ message.account = next
  BY <1>7 DEF Message
<1> HIDE DEF message
<1>9. /\ updates' \in Seq(Message) /\ Len(updates') <= UpdateCap
      /\ DOMAIN updates = 1 .. Len(updates)
      /\ b \notin subscribed => updates' = updates
      /\ b \in subscribed => /\ DOMAIN updates' = 1 .. Len(updates) + 1
                             /\ updates'[Len(updates) + 1] = message
                             /\ \A i \in 1 .. Len(updates) : updates'[i] = updates[i]
  <2>1. UpdateCap \in Nat
    BY DEF SerumAssumption
  <2> QED  BY <1>4, <1>6, <1>8, <2>1, AppendProperties
<1>10. Types'
  <2>1. chain' \in [Books -> Account]
    BY <1>4, <1>6, <1>7
  <2>2. missed' \subseteq Books
    BY <1>1, <1>4 DEF Types
  <2> QED  BY <1>1, <1>5, <1>9, <2>1, <2>2 DEF Types
<1>11. Nested'
  BY <1>1, <1>5 DEF Nested
<1>12. Phases'
  <2>1. phase # "flashed" => updates' = updates
    BY <1>1, <1>9 DEF Phases
  <2>2. ASSUME NEW i \in DOMAIN updates' PROVE updates'[i].book \in subscribed'
    <3>1. CASE b \in subscribed /\ i = Len(updates) + 1
      BY <1>5, <1>8, <1>9, <3>1
    <3>2. CASE ~(b \in subscribed /\ i = Len(updates) + 1)
      <4>1. i \in DOMAIN updates /\ updates'[i] = updates[i]
        BY <1>6, <1>9, <3>2
      <4> QED  BY <1>1, <1>5, <4>1 DEF Phases
    <3> QED  BY <3>1, <3>2
  <2> QED  BY <1>1, <1>5, <2>1, <2>2 DEF Phases, Wanted
<1>13. \A c \in Books : \A slot \in Nat : \A orders :
          At(c, slot, orders) => slot <= chain'[c].slot /\ (slot = chain'[c].slot => orders = chain'[c].orders)
  <2> SUFFICES ASSUME NEW c \in Books, NEW slot \in Nat, NEW orders, At(c, slot, orders)
               PROVE  slot <= chain'[c].slot /\ (slot = chain'[c].slot => orders = chain'[c].orders)
    OBVIOUS
  <2>1. slot <= chain[c].slot /\ (slot = chain[c].slot => orders = chain[c].orders)
    BY DEF At
  <2>2. CASE c = b
    <3>1. chain'[c] = next
      BY <1>4, <1>6, <2>2
    <3>2. slot <= chain[b].slot
      BY <2>1, <2>2
    <3>3. chain'[c].slot = chain[b].slot + 1
      BY <1>7, <3>1
    <3> QED  BY <1>6, <3>2, <3>3
  <2>3. CASE c # b
    <3>1. chain'[c] = chain[c]
      BY <1>4, <1>6, <2>3
    <3> QED  BY <2>1, <3>1
  <2> QED  BY <2>2, <2>3
<1>14. Real'
  <2>1. ASSUME NEW c \in Books, orderBooks'[c].there PROVE At(c, orderBooks[c].slot, orderBooks[c].slab)'
    <3>1. orderBooks[c] \in {NoBook} \cup KnownBook /\ orderBooks[c].there
      BY <1>1, <1>5, <2>1 DEF Types
    <3>2. orderBooks[c].slot \in Nat
      <4>1. orderBooks[c] \in KnownBook
        BY <3>1 DEF NoBook
      <4> QED  BY <4>1 DEF KnownBook
    <3>3. At(c, orderBooks[c].slot, orderBooks[c].slab)
      BY <1>1, <3>1 DEF Real
    <3>4. /\ orderBooks[c].slot <= chain'[c].slot
          /\ orderBooks[c].slot = chain'[c].slot => orderBooks[c].slab = chain'[c].orders
      BY <1>13, <3>2, <3>3
    <3> QED  BY <1>5, <3>4 DEF At
  <2>2. ASSUME NEW i \in DOMAIN updates'
        PROVE  At(updates[i].book, updates[i].account.slot, updates[i].account.orders)'
    <3>1. CASE b \in subscribed /\ i = Len(updates) + 1
      <4>1. updates'[i].book = b /\ updates'[i].account = next
        BY <1>8, <1>9, <3>1
      <4>2. chain'[b] = next
        BY <1>4, <1>6
      <4> QED  BY <1>6, <1>7, <4>1, <4>2 DEF At
    <3>2. CASE ~(b \in subscribed /\ i = Len(updates) + 1)
      <4>1. i \in DOMAIN updates /\ updates'[i] = updates[i]
        BY <1>6, <1>9, <3>2
      <4>2. updates[i] \in Message
        BY <1>6, <4>1
      <4>3. updates[i].book \in Books /\ updates[i].account.slot \in Nat
        BY <4>2 DEF Message, Account
      <4>4. At(updates[i].book, updates[i].account.slot, updates[i].account.orders)
        BY <1>1, <4>1 DEF Real
      <4>5. LET u == updates[i]
            IN /\ u.account.slot <= chain'[u.book].slot
               /\ u.account.slot = chain'[u.book].slot => u.account.orders = chain'[u.book].orders
        BY <1>13, <4>3, <4>4
      <4> QED  BY <4>1, <4>5 DEF At
    <3> QED  BY <3>1, <3>2
  <2> QED  BY <2>1, <2>2 DEF Real
<1>15. Follows'
  <2> SUFFICES ASSUME NEW m \in models', NEW c \in BooksOn(m) \ missed'
               PROVE  Told(updates', c, orderBooks'[c].slot, chain'[c].slot)
    BY DEF Follows
  <2>1. m \in models /\ m \in Markets
    BY <1>1, <1>5 DEF Nested
  <2>2. c \in Books
    BY <2>1, BooksApart
  <2>3. CASE c # b
    <3>1. c \notin missed /\ chain'[c] = chain[c]
      BY <1>4, <1>6, <2>2, <2>3
    <3>2. Told(updates, c, orderBooks[c].slot, chain[c].slot)
      BY <1>1, <2>1, <3>1 DEF Follows
    <3>3. Told(Append(updates, message), c, orderBooks[c].slot, chain[c].slot)
      BY <1>6, <1>8, <2>3, <3>2, ToldAppend
    <3> QED  BY <1>4, <1>5, <3>1, <3>2, <3>3
  <2>4. CASE c = b
    <3>1. phase \notin {"new", "listed"}
      BY <1>1, <2>1 DEF Phases
    <3>2. expected(b) /\ readable
      BY <1>4, <2>4, <3>1
    <3>3. b \in subscribed
      BY <1>1, <3>2 DEF Phases, Wanted
    <3>4. updates' = Append(updates, message) /\ chain'[c] = next
      BY <1>4, <1>6, <2>4, <3>3
    <3>5. message.book = c /\ message.readable /\ message.account.slot = next.slot
      BY <1>8, <2>4, <3>2
    <3>6. Told(Append(updates, message), c, orderBooks'[c].slot, next.slot)
      BY <1>6, <1>8, <3>5, ToldAppend
    <3> QED  BY <3>4, <3>6
  <2> QED  BY <2>3, <2>4
<1>16. Copied'
  BY <1>1, <1>5 DEF Copied, BidsRead, AsksRead
<1> QED  BY <1>10, <1>11, <1>12, <1>14, <1>15, <1>16 DEF IInv

\* Either version works off the first message: the book is known as it says, if it can be read.
Heard(height) ==
  LET u == updates[1] IN
  /\ updates # <<>> /\ updates' = Tail(updates)
  /\ orderBooks' = IF u.readable THEN [orderBooks EXCEPT ![u.book] = KeyedOrderBook(u.account, height)]
                   ELSE orderBooks
  /\ version' = version /\ phase' = phase /\ markets' = markets /\ models' = models
  /\ used' = used /\ subscribed' = subscribed
  /\ ticks' = ticks /\ chain' = chain /\ missed' = missed

\* A message that was taken off the queue, with the book it has, if it can be read; the ticks
\* are left to the caller.
LEMMA HeardInv ==
  ASSUME SerumAssumption, IInv, NEW height, updates[1].readable => height \in Nat, Heard(height)
  PROVE  /\ phase = "flashed" /\ updates[1] \in Message /\ updates[1].book \in subscribed
         /\ updates' \in Seq(Message) /\ Len(updates') <= UpdateCap
         /\ \A i \in DOMAIN updates' : updates'[i].book \in subscribed
         /\ orderBooks' \in [Books -> {NoBook} \cup KnownBook]
         /\ \A b \in Books : (b # updates[1].book \/ ~updates[1].readable) => orderBooks'[b] = orderBooks[b]
         /\ Nested' /\ Real' /\ Follows'
<1>1. Types /\ Nested /\ Phases /\ Real /\ Follows
  BY DEF IInv
<1> DEFINE u == updates[1]
<1>2. /\ updates # <<>> /\ updates' = Tail(updates)
      /\ orderBooks' = IF u.readable THEN [orderBooks EXCEPT ![u.book] = KeyedOrderBook(u.account, height)]
                       ELSE orderBooks
      /\ version' = version /\ phase' = phase /\ markets' = markets /\ models' = models
      /\ used' = used /\ subscribed' = subscribed
      /\ ticks' = ticks /\ chain' = chain /\ missed' = missed
  BY DEF Heard
<1>3. /\ updates \in Seq(Message) /\ Len(updates) <= UpdateCap /\ chain \in [Books -> Account]
      /\ orderBooks \in [Books -> {NoBook} \cup KnownBook]
  BY <1>1 DEF Types
<1>4. /\ u \in Message /\ updates' \in Seq(Message) /\ Len(updates') = Len(updates) - 1
      /\ Len(updates) \in Nat \ {0} /\ DOMAIN updates = 1 .. Len(updates)
      /\ DOMAIN updates' = 1 .. Len(updates) - 1
      /\ \A i \in 1 .. Len(updates) - 1 : updates'[i] = updates[i + 1]
  BY <1>2, <1>3, TopIs
<1>5. Len(updates') <= UpdateCap /\ 1 \in DOMAIN updates
  <2>1. UpdateCap \in Nat
    BY DEF SerumAssumption
  <2> QED  BY <1>3, <1>4, <2>1
<1>6. ASSUME NEW i \in DOMAIN updates'
      PROVE  i + 1 \in DOMAIN updates /\ updates'[i] = updates[i + 1]
  BY <1>4
<1>7. phase = "flashed" /\ u.book \in subscribed /\ \A i \in DOMAIN updates' : updates'[i].book \in subscribed
  BY <1>1, <1>2, <1>5, <1>6 DEF Phases
<1> HIDE DEF u
<1>8. /\ u.book \in Books /\ u.readable \in BOOLEAN /\ u.account \in Account
      /\ u.account.slot \in Nat /\ u.account.orders \in Content
  <2>1. u.book \in Books /\ u.readable \in BOOLEAN /\ u.account \in Account
    BY <1>4 DEF Message
  <2> QED  BY <2>1 DEF Account
<1> DEFINE new == KeyedOrderBook(u.account, height)
<1>9. new.there /\ new.slot = u.account.slot /\ new.slab = u.account.orders
      /\ (u.readable => new \in KnownBook)
  <2>1. new = [there |-> TRUE, height |-> height, slot |-> u.account.slot, slab |-> u.account.orders]
    BY DEF KeyedOrderBook
  <2> HIDE DEF new
  <2>2. new.there /\ new.slot = u.account.slot /\ new.slab = u.account.orders
    BY <2>1
  <2>3. u.readable => new \in KnownBook
    BY <1>8, <2>1 DEF KnownBook, u
  <2> QED  BY <2>2, <2>3
<1> HIDE DEF new
<1>10. /\ orderBooks' = IF u.readable THEN [orderBooks EXCEPT ![u.book] = new] ELSE orderBooks
  BY <1>2 DEF new
<1>11. /\ orderBooks' \in [Books -> {NoBook} \cup KnownBook]
       /\ \A b \in Books : (b # u.book \/ ~u.readable) => orderBooks'[b] = orderBooks[b]
       /\ u.readable => orderBooks'[u.book] = new
  BY <1>3, <1>8, <1>9, <1>10
<1>12. Nested'
  <2> SUFFICES ASSUME NEW m \in models', NEW b \in BooksOn(m) PROVE orderBooks'[b].there
    BY <1>1, <1>2 DEF Nested
  <2>1. m \in Markets /\ orderBooks[b].there
    BY <1>1, <1>2 DEF Nested
  <2>2. b \in Books
    BY <2>1, BooksApart
  <2> QED  BY <1>8, <1>9, <1>11, <2>1, <2>2
<1>13. Real'
  <2>1. ASSUME NEW b \in Books, orderBooks'[b].there PROVE At(b, orderBooks[b].slot, orderBooks[b].slab)'
    <3>1. CASE b = u.book /\ u.readable
      <4>1. At(u.book, u.account.slot, u.account.orders)
        BY <1>1, <1>5 DEF Real, u
      <4>2. orderBooks'[b].slot = u.account.slot /\ orderBooks'[b].slab = u.account.orders
        BY <1>9, <1>11, <3>1
      <4> QED  BY <1>2, <3>1, <4>1, <4>2 DEF At
    <3>2. CASE ~(b = u.book /\ u.readable)
      <4>1. orderBooks'[b] = orderBooks[b]
        BY <1>8, <1>11, <3>2
      <4>2. At(b, orderBooks[b].slot, orderBooks[b].slab)
        BY <1>1, <2>1, <4>1 DEF Real
      <4> QED  BY <1>2, <4>1, <4>2 DEF At
    <3> QED  BY <3>1, <3>2
  <2>2. ASSUME NEW i \in DOMAIN updates'
        PROVE  At(updates[i].book, updates[i].account.slot, updates[i].account.orders)'
    <3>1. i + 1 \in DOMAIN updates /\ updates'[i] = updates[i + 1]
      BY <1>6
    <3>2. At(updates[i + 1].book, updates[i + 1].account.slot, updates[i + 1].account.orders)
      BY <1>1, <3>1 DEF Real
    <3> QED  BY <1>2, <3>1, <3>2 DEF At
  <2> QED  BY <2>1, <2>2 DEF Real
<1>14. Follows'
  <2> SUFFICES ASSUME NEW m \in models', NEW b \in BooksOn(m) \ missed'
               PROVE  Told(updates', b, orderBooks'[b].slot, chain'[b].slot)
    BY DEF Follows
  <2>1. m \in models /\ m \in Markets /\ b \notin missed
    BY <1>1, <1>2 DEF Nested
  <2>2. b \in Books
    BY <2>1, BooksApart
  <2>3. Told(updates, b, orderBooks[b].slot, chain[b].slot)
    BY <1>1, <2>1 DEF Follows
  <2>4. Told(Tail(updates), b,
             IF u.book = b /\ u.readable THEN u.account.slot ELSE orderBooks[b].slot, chain[b].slot)
    BY <1>2, <1>3, <2>3, ToldTail DEF u
  <2>5. orderBooks'[b].slot = IF u.book = b /\ u.readable THEN u.account.slot ELSE orderBooks[b].slot
    <3>1. CASE u.book = b /\ u.readable
      BY <1>9, <1>11, <3>1
    <3>2. CASE ~(u.book = b /\ u.readable)
      BY <1>8, <1>11, <2>2, <3>2
    <3> QED  BY <3>1, <3>2
  <2> QED  BY <1>2, <2>4, <2>5
<1> QED  BY <1>4, <1>5, <1>7, <1>11, <1>12, <1>13, <1>14 DEF u

\* Version 2 takes a message: the ticks of its book are to be copied.
LEMMA TakeInv ==
  ASSUME SerumAssumption, IInv, Take
  PROVE  IInv'
<1>1. Types /\ Nested /\ Phases /\ Copied
  BY DEF IInv
<1> DEFINE u == updates[1]
<1>2. /\ version = "v2" /\ updates # <<>> /\ updater = Idle
      /\ u.readable => updater' = [at |-> "bids", book |-> u.book]
      /\ ~u.readable => updater' = updater
  <2>1. updates # <<>> => Head(updates) = u
    BY <1>1, TopIs DEF Types
  <2> QED  BY <2>1 DEF Take
<1>3. /\ u.readable => orderBooks' = [orderBooks EXCEPT ![u.book] = KeyedOrderBook(u.account, u.account.slot)]
      /\ ~u.readable => orderBooks' = orderBooks
  <2>1. Head(updates) = u
    BY <1>1, <1>2, TopIs DEF Types
  <2> HIDE DEF u
  <2> QED  BY <2>1 DEF Take, Upsert
<1>4. u \in Message
  BY <1>1, <1>2, TopIs DEF Types
<1> HIDE DEF u
<1>5. u.readable \in BOOLEAN /\ u.book \in Books /\ u.account \in Account
  BY <1>4 DEF Message
<1>6. u.account.slot \in Nat
  BY <1>5 DEF Account
<1>7. Heard(u.account.slot)
  <2>1. /\ version' = version /\ phase' = phase /\ markets' = markets /\ models' = models
        /\ used' = used /\ subscribed' = subscribed
        /\ ticks' = ticks /\ chain' = chain /\ missed' = missed /\ updates' = Tail(updates)
    BY DEF Take, listing
  <2>2. orderBooks' = IF u.readable
                      THEN [orderBooks EXCEPT ![u.book] = KeyedOrderBook(u.account, u.account.slot)]
                      ELSE orderBooks
    BY <1>3
  <2> QED  BY <1>2, <2>1, <2>2 DEF Heard, u
<1>8. /\ phase = "flashed" /\ u \in Message /\ u.book \in subscribed
      /\ updates' \in Seq(Message) /\ Len(updates') <= UpdateCap
      /\ \A i \in DOMAIN updates' : updates'[i].book \in subscribed
      /\ orderBooks' \in [Books -> {NoBook} \cup KnownBook]
      /\ \A b \in Books : (b # u.book \/ ~u.readable) => orderBooks'[b] = orderBooks[b]
      /\ Nested' /\ Real' /\ Follows'
  BY <1>6, <1>7, HeardInv DEF u
<1>9. /\ version' = version /\ phase' = phase /\ markets' = markets /\ models' = models
      /\ used' = used /\ subscribed' = subscribed
      /\ ticks' = ticks /\ chain' = chain /\ missed' = missed
  BY <1>7 DEF Heard
<1>10. /\ u.readable => updater'.at = "bids" /\ updater'.book = u.book
       /\ updater.at = "idle" /\ (~u.readable => updater'.at = "idle")
  BY <1>2 DEF Idle
<1>11. Types'
  BY <1>1, <1>2, <1>5, <1>8, <1>9 DEF Types
<1>12. Phases'
  BY <1>1, <1>2, <1>5, <1>8, <1>9, <1>10 DEF Phases, Wanted
<1>13. Copied'
  <2> SUFFICES ASSUME NEW m \in models
               PROVE  /\ BidsRead(m)' \/ (updater'.at = "bids" /\ updater'.book \in BooksOn(m))
                      /\ AsksRead(m)' \/ (updater'.at \in {"bids", "asks"} /\ updater'.book \in BooksOn(m))
    BY <1>9 DEF Copied
  <2>1. BidsRead(m) /\ AsksRead(m) /\ m \in Markets
    BY <1>1, <1>2, <1>10 DEF Copied, Nested
  <2>2. CASE u.readable /\ u.book \in BooksOn(m)
    BY <1>10, <2>2
  <2>3. CASE ~(u.readable /\ u.book \in BooksOn(m))
    <3>1. MarketOf[m].asks \in Books /\ MarketOf[m].bids \in Books
          /\ MarketOf[m].asks \in BooksOn(m) /\ MarketOf[m].bids \in BooksOn(m)
      BY <2>1, BooksApart
    <3>2. /\ orderBooks'[MarketOf[m].asks] = orderBooks[MarketOf[m].asks]
          /\ orderBooks'[MarketOf[m].bids] = orderBooks[MarketOf[m].bids]
      BY <1>5, <1>8, <2>3, <3>1
    <3> QED  BY <1>9, <2>1, <3>2 DEF BidsRead, AsksRead
  <2> QED  BY <2>2, <2>3
<1> QED  BY <1>8, <1>11, <1>12, <1>13 DEF IInv

\* Version 1 takes a message, and copies nothing.
LEMMA OnAccountUpdateInv ==
  ASSUME SerumAssumption, IInv, OnAccountUpdate
  PROVE  IInv'
<1>1. Types /\ Nested /\ Phases /\ Copied
  BY DEF IInv
<1> DEFINE u == updates[1]
           height == orderBooks[u.book].height
<1>2. version = "v1" /\ updates # <<>>
  BY DEF OnAccountUpdate
<1>3. u \in Message /\ Head(updates) = u /\ u.book \in subscribed
  <2>1. updates \in Seq(Message)
    BY <1>1 DEF Types
  <2>2. u \in Message /\ Head(updates) = u /\ 1 \in DOMAIN updates
    BY <1>2, <2>1
  <2> QED  BY <1>1, <2>2 DEF Phases
<1> HIDE DEF u
<1>4. u.readable \in BOOLEAN /\ u.book \in Books
  BY <1>3 DEF Message
<1>5. height \in Nat
  <2>1. phase = "flashed" /\ subscribed = Wanted
    BY <1>1, <1>2 DEF Phases
  <2>2. PICK m \in used : u.book \in BooksOn(m)
    BY <1>3, <2>1 DEF Wanted
  <2>3. orderBooks[u.book].there
    BY <1>1, <2>2 DEF Nested
  <2>4. orderBooks[u.book] \in {NoBook} \cup KnownBook
    BY <1>1, <1>4 DEF Types
  <2>5. orderBooks[u.book] \in KnownBook
    BY <2>3, <2>4 DEF NoBook
  <2> QED  BY <2>5 DEF KnownBook
<1>6. Heard(height) /\ updater' = updater
  <2>1. /\ version' = version /\ phase' = phase /\ markets' = markets /\ models' = models
        /\ used' = used /\ subscribed' = subscribed /\ updater' = updater
        /\ ticks' = ticks /\ chain' = chain /\ missed' = missed /\ updates' = Tail(updates)
    BY DEF OnAccountUpdate, listing
  <2>2. orderBooks' = IF u.readable THEN Upsert1(u) ELSE orderBooks
    BY <1>3 DEF OnAccountUpdate
  <2>3. Upsert1(u) = [orderBooks EXCEPT ![u.book] = KeyedOrderBook(u.account, height)]
    BY <1>1, <1>4 DEF Upsert1, Types
  <2> HIDE DEF height
  <2> QED  BY <1>2, <2>1, <2>2, <2>3 DEF Heard, u
<1> HIDE DEF height
<1>7. /\ phase = "flashed" /\ u.book \in subscribed
      /\ updates' \in Seq(Message) /\ Len(updates') <= UpdateCap
      /\ \A i \in DOMAIN updates' : updates'[i].book \in subscribed
      /\ orderBooks' \in [Books -> {NoBook} \cup KnownBook]
      /\ Nested' /\ Real' /\ Follows'
  BY <1>5, <1>6, HeardInv DEF u
<1>8. /\ version' = version /\ phase' = phase /\ markets' = markets /\ models' = models
      /\ used' = used /\ subscribed' = subscribed
      /\ ticks' = ticks /\ chain' = chain /\ missed' = missed
  BY <1>6 DEF Heard
<1>9. Types'
  BY <1>1, <1>6, <1>7, <1>8 DEF Types
<1>10. Phases'
  BY <1>1, <1>6, <1>7, <1>8 DEF Phases, Wanted
<1>11. Copied'
  BY <1>2, <1>8 DEF Copied
<1> QED  BY <1>7, <1>9, <1>10, <1>11 DEF IInv

\* The model of a book that is copied: it is there, and it is the only one.
LEMMA ChangedIs ==
  ASSUME SerumAssumption, IInv, updater.at \in {"bids", "asks"}
  PROVE  /\ Changed \in models /\ Changed \in Markets /\ updater.book \in BooksOn(Changed)
         /\ \A m \in models : updater.book \in BooksOn(m) => m = Changed
         /\ phase = "flashed" /\ version # "v1" /\ updater.book \in Books
         /\ updater \in [at : {"bids", "asks"}, book : Books]
<1>1. Types /\ Nested /\ Phases
  BY DEF IInv
<1>2. updater # Idle /\ updater # [at |-> "gone"]
  BY DEF Idle
<1>3. phase = "flashed" /\ version # "v1" /\ subscribed = Wanted /\ updater.book \in subscribed
  BY <1>1, <1>2 DEF Phases
<1>4. PICK m \in used : updater.book \in BooksOn(m)
  BY <1>3 DEF Wanted
<1>5. \E l \in models : updater.book \in BooksOn(l)
  BY <1>1, <1>4 DEF Nested
<1>6. Changed \in models /\ updater.book \in BooksOn(Changed)
  BY <1>5 DEF Changed
<1>7. Changed \in Markets /\ \A l \in models : l \in Markets
  BY <1>1, <1>6 DEF Nested
<1>8. \A l \in models : updater.book \in BooksOn(l) => l = Changed
  BY <1>6, <1>7, BooksApart
<1>9. updater \in [at : {"bids", "asks"}, book : Books]
  BY <1>1, <1>2 DEF Types
<1> QED  BY <1>3, <1>6, <1>7, <1>8, <1>9

\* The first side is copied; the other is still to come.
LEMMA CopyBidsInv ==
  ASSUME SerumAssumption, IInv, CopyBids
  PROVE  IInv'
<1> DEFINE m == Changed
           old == ticks[m].bid
           book == orderBooks[MarketOf[m].asks].slab
           new == Copy(old, Ticks(Items(book, TRUE, Depth)))
<1>1. Types /\ Nested /\ Phases /\ Real /\ Follows /\ Copied
  BY DEF IInv
<1>2. updater.at = "bids"
  BY DEF CopyBids
<1>3. /\ m \in models /\ m \in Markets /\ updater.book \in BooksOn(m)
      /\ \A l \in models : updater.book \in BooksOn(l) => l = m
      /\ phase = "flashed" /\ version # "v1" /\ updater.book \in Books
      /\ updater \in [at : {"bids", "asks"}, book : Books]
  BY <1>2, ChangedIs
<1>4. ticks' = [ticks EXCEPT ![m].bid = new]
  BY DEF CopyBids, Bids, Model
<1> HIDE DEF m
<1>5. /\ updater' = [updater EXCEPT !.at = "asks"]
      /\ version' = version /\ phase' = phase /\ markets' = markets /\ orderBooks' = orderBooks
      /\ models' = models /\ used' = used /\ subscribed' = subscribed
      /\ chain' = chain /\ updates' = updates /\ missed' = missed
  BY DEF CopyBids, listing
<1>6. updater' \in [at : {"bids", "asks"}, book : Books] /\ updater'.at = "asks" /\ updater'.book = updater.book
  BY <1>3, <1>5
<1>7. book \in Content
  <2> DEFINE b == MarketOf[m].asks
  <2>1. b \in Books /\ b \in BooksOn(m)
    BY <1>3, BooksApart
  <2> HIDE DEF b
  <2>2. orderBooks[b] \in {NoBook} \cup KnownBook /\ orderBooks[b].there
    BY <1>1, <1>3, <2>1 DEF Types, Nested
  <2>3. orderBooks[b] \in KnownBook
    BY <2>2 DEF NoBook
  <2>4. orderBooks[b].slab \in Content
    BY <2>3 DEF KnownBook
  <2> QED  BY <2>4 DEF b
<1>8. ticks \in [Markets -> [bid : Ticked, ask : Ticked]] /\ old \in Ticked
  BY <1>1, <1>3 DEF Types
<1>9. new \in Ticked /\ StartsWith(new, Ticks(book))
  <2> HIDE DEF old, book
  <2>1. Facing(book, TRUE) = book
    BY DEF Facing
  <2> QED  BY <1>7, <1>8, <2>1, CopyIs
<1> HIDE DEF new, book, old
<1>10. /\ ticks' \in [Markets -> [bid : Ticked, ask : Ticked]]
       /\ ticks'[m].bid = new /\ ticks'[m].ask = ticks[m].ask
       /\ \A l \in Markets : l # m => ticks'[l] = ticks[l]
  <2>1. ticks' \in [Markets -> [bid : Ticked, ask : Ticked]]
    <3> DEFINE sides == [ticks[m] EXCEPT !.bid = new]
    <3>1. ticks' = [ticks EXCEPT ![m] = sides]
      BY <1>4
    <3>2. ticks[m] \in [bid : Ticked, ask : Ticked]
      BY <1>3, <1>8
    <3>3. sides \in [bid : Ticked, ask : Ticked]
      BY <1>9, <3>2
    <3> HIDE DEF sides
    <3> QED  BY <1>3, <1>8, <3>1, <3>3
  <2>2. ticks'[m].bid = new /\ ticks'[m].ask = ticks[m].ask
    BY <1>3, <1>4, <1>8
  <2>3. \A l \in Markets : l # m => ticks'[l] = ticks[l]
    BY <1>4, <1>8
  <2> QED  BY <2>1, <2>2, <2>3
<1>11. Types'
  BY <1>1, <1>5, <1>6, <1>10 DEF Types
<1>12. Nested'
  BY <1>1, <1>5 DEF Nested
<1>13. Phases'
  BY <1>1, <1>3, <1>5, <1>6, <1>2 DEF Phases, Wanted
<1>14. Real'
  BY <1>1, <1>5 DEF Real, At
<1>15. Follows'
  BY <1>1, <1>5 DEF Follows
<1>16. Copied'
  <2> SUFFICES ASSUME NEW l \in models, version = "v2"
               PROVE  /\ BidsRead(l)' \/ (updater'.at = "bids" /\ updater'.book \in BooksOn(l))
                      /\ AsksRead(l)' \/ (updater'.at \in {"bids", "asks"} /\ updater'.book \in BooksOn(l))
    BY <1>5 DEF Copied
  <2>1. CASE l = m
    <3>1. BidsRead(l)'
      BY <1>5, <1>9, <1>10, <2>1 DEF BidsRead, book
    <3> QED  BY <1>3, <1>6, <2>1, <3>1
  <2>2. CASE l # m
    <3>1. updater.book \notin BooksOn(l) /\ l \in Markets
      BY <1>1, <1>3, <2>2 DEF Nested
    <3>2. BidsRead(l) /\ AsksRead(l)
      BY <1>1, <3>1 DEF Copied
    <3>3. ticks'[l] = ticks[l]
      BY <1>10, <2>2, <3>1
    <3> QED  BY <1>5, <3>2, <3>3 DEF BidsRead, AsksRead
  <2> QED  BY <2>1, <2>2
<1> QED  BY <1>11, <1>12, <1>13, <1>14, <1>15, <1>16 DEF IInv

\* The second side is copied: both are as the books that are known.
LEMMA CopyAsksInv ==
  ASSUME SerumAssumption, IInv, CopyAsks
  PROVE  IInv'
<1> DEFINE m == Changed
           old == ticks[m].ask
           book == orderBooks[MarketOf[m].bids].slab
           new == Copy(old, Ticks(Items(book, FALSE, Depth)))
<1>1. Types /\ Nested /\ Phases /\ Real /\ Follows /\ Copied
  BY DEF IInv
<1>2. updater.at = "asks"
  BY DEF CopyAsks
<1>3. /\ m \in models /\ m \in Markets /\ updater.book \in BooksOn(m)
      /\ \A l \in models : updater.book \in BooksOn(l) => l = m
      /\ phase = "flashed" /\ version # "v1"
  BY <1>2, ChangedIs
<1>4. ticks' = [ticks EXCEPT ![m].ask = new]
  BY DEF CopyAsks, Asks, Model
<1> HIDE DEF m
<1>5. /\ updater' = Idle
      /\ version' = version /\ phase' = phase /\ markets' = markets /\ orderBooks' = orderBooks
      /\ models' = models /\ used' = used /\ subscribed' = subscribed
      /\ chain' = chain /\ updates' = updates /\ missed' = missed
  BY DEF CopyAsks, listing
<1>6. updater'.at = "idle"
  BY <1>5 DEF Idle
<1>7. book \in Content
  <2> DEFINE b == MarketOf[m].bids
  <2>1. b \in Books /\ b \in BooksOn(m)
    BY <1>3, BooksApart
  <2> HIDE DEF b
  <2>2. orderBooks[b] \in {NoBook} \cup KnownBook /\ orderBooks[b].there
    BY <1>1, <1>3, <2>1 DEF Types, Nested
  <2>3. orderBooks[b] \in KnownBook
    BY <2>2 DEF NoBook
  <2>4. orderBooks[b].slab \in Content
    BY <2>3 DEF KnownBook
  <2> QED  BY <2>4 DEF b
<1>8. ticks \in [Markets -> [bid : Ticked, ask : Ticked]] /\ old \in Ticked
  BY <1>1, <1>3 DEF Types
<1>9. new \in Ticked /\ StartsWith(new, Ticks(Backward(book)))
  <2> HIDE DEF old, book
  <2>1. Facing(book, FALSE) = Backward(book)
    BY DEF Facing
  <2> QED  BY <1>7, <1>8, <2>1, CopyIs
<1> HIDE DEF new, book, old
<1>10. /\ ticks' \in [Markets -> [bid : Ticked, ask : Ticked]]
       /\ ticks'[m].ask = new /\ ticks'[m].bid = ticks[m].bid
       /\ \A l \in Markets : l # m => ticks'[l] = ticks[l]
  BY <1>3, <1>4, <1>8, <1>9
<1>11. Types'
  BY <1>1, <1>5, <1>10 DEF Types
<1>12. Nested'
  BY <1>1, <1>5 DEF Nested
<1>13. Phases'
  BY <1>1, <1>3, <1>5, <1>6 DEF Phases, Wanted
<1>14. Real'
  BY <1>1, <1>5 DEF Real, At
<1>15. Follows'
  BY <1>1, <1>5 DEF Follows
<1>16. Copied'
  <2> SUFFICES ASSUME NEW l \in models, version = "v2" PROVE BidsRead(l)' /\ AsksRead(l)'
    BY <1>5 DEF Copied
  <2>1. CASE l = m
    <3>1. AsksRead(l)'
      BY <1>5, <1>9, <1>10, <2>1 DEF AsksRead, book
    <3>2. BidsRead(l)
      BY <1>1, <1>2 DEF Copied
    <3>3. BidsRead(l)'
      BY <1>5, <1>10, <2>1, <3>2 DEF BidsRead
    <3> QED  BY <3>1, <3>3
  <2>2. CASE l # m
    <3>1. updater.book \notin BooksOn(l) /\ l \in Markets
      BY <1>1, <1>3, <2>2 DEF Nested
    <3>2. BidsRead(l) /\ AsksRead(l)
      BY <1>1, <3>1 DEF Copied
    <3>3. ticks'[l] = ticks[l]
      BY <1>10, <2>2, <3>1
    <3> QED  BY <1>5, <3>2, <3>3 DEF BidsRead, AsksRead
  <2> QED  BY <2>1, <2>2
<1> QED  BY <1>11, <1>12, <1>13, <1>14, <1>15, <1>16 DEF IInv

\* A step that changes nothing.
LEMMA StutterInv ==
  ASSUME IInv, UNCHANGED vars
  PROVE  IInv'
BY DEF IInv, vars, Types, Nested, Phases, Real, At, Follows, Copied, BidsRead, AsksRead, Wanted

\* Every step keeps the invariant.
LEMMA InvStep ==
  ASSUME SerumAssumption, IInv, [Next]_vars
  PROVE  IInv'
<1>1. CASE List \/ Fail
  BY <1>1, ListInv
<1>2. CASE Build
  BY <1>2, BuildInv
<1>3. CASE Build1
  BY <1>3, Build1Inv
<1>4. CASE Announce
  BY <1>4, AnnounceInv
<1>5. CASE Flash
  BY <1>5, FlashInv
<1>6. CASE Exchange
  BY <1>6, ExchangeInv
<1>7. CASE Take
  BY <1>7, TakeInv
<1>8. CASE CopyBids
  BY <1>8, CopyBidsInv
<1>9. CASE CopyAsks
  BY <1>9, CopyAsksInv
<1>10. CASE OnAccountUpdate
  BY <1>10, OnAccountUpdateInv
<1>11. CASE Quit
  BY <1>11, QuitInv
<1>12. CASE UNCHANGED vars
  BY <1>12, StutterInv
<1> QED  BY <1>1, <1>2, <1>3, <1>4, <1>5, <1>6, <1>7, <1>8, <1>9, <1>10, <1>11, <1>12 DEF Next, Update

\* The inductive invariant: who has what, in which phase, and what the messages and the ticks
\* still have to tell.
THEOREM Invariant == Spec => []IInv
<1>1. Init => IInv
  BY SerumAssumption, InvInit
<1>2. IInv /\ [Next]_vars => IInv'
  BY SerumAssumption, InvStep
<1> QED  BY <1>1, <1>2, PTL DEF Spec

-----------------------------------------------------------------------------
(***************************************************************************)
(* What the invariant says of the books.                                   *)
(***************************************************************************)

\* A book that is known as it is.
LEMMA CurrentIs ==
  ASSUME SerumAssumption, IInv, NEW b \in Books, Current(b)
  PROVE  orderBooks[b].slab = chain[b].orders /\ chain[b].orders \in Content /\ updater.at = "idle"
<1>1. orderBooks[b].there /\ orderBooks[b].slot = chain[b].slot /\ updater.at = "idle"
  BY DEF Current, Settled, Idle
<1>2. At(b, orderBooks[b].slot, orderBooks[b].slab)
  BY <1>1 DEF IInv, Real
<1>3. chain[b].orders \in Content
  BY DEF IInv, Types, Account
<1> QED  BY <1>1, <1>2, <1>3 DEF At

\* The best orders are those of a book, from the one end or the other.
LEMMA BestIs ==
  ASSUME SerumAssumption, IInv, NEW m \in Markets
  PROVE  /\ BestBids(m) = Backward(chain[MarketOf[m].bids].orders)
         /\ BestAsks(m) = chain[MarketOf[m].asks].orders
         /\ BestBids(m) \in Seq(Order) /\ BestAsks(m) \in Seq(Order)
<1> DEFINE s == chain[MarketOf[m].bids].orders
<1>0. MarketOf[m].bids \in Books /\ MarketOf[m].asks \in Books
  BY DEF SerumAssumption
<1>1. s \in Content /\ chain[MarketOf[m].asks].orders \in Content
  BY <1>0 DEF IInv, Types, Account
<1>2. chain[MarketOf[m].asks].orders \in Seq(Order)
  BY <1>1, ContentIs
<1>3. BestBids(m) = Backward(s)
  BY Zenon DEF BestBids, Backward
<1> HIDE DEF s
<1>4. Backward(s) \in Seq(Order)
  <2>1. Facing(s, FALSE) = Backward(s) /\ FALSE \in BOOLEAN
    BY DEF Facing
  <2>2. Facing(s, FALSE) \in Seq(Order)
    BY <1>1, <2>1, FacingIs
  <2> QED  BY <2>1, <2>2
<1> QED  BY <1>2, <1>3, <1>4 DEF s, BestAsks

\* A side starts with the best orders of its book, if the book is known as it is.
LEMMA SidesAre ==
  ASSUME SerumAssumption, IInv, version = "v2", NEW m \in models
  PROVE  /\ Current(MarketOf[m].bids) => StartsWith(ticks[m].ask, Ticks(BestBids(m)))
         /\ Current(MarketOf[m].asks) => StartsWith(ticks[m].bid, Ticks(BestAsks(m)))
<1>1. m \in Markets
  BY DEF IInv, Nested
<1>2. MarketOf[m].bids \in Books /\ MarketOf[m].asks \in Books
  BY <1>1 DEF SerumAssumption
<1>3. ASSUME Current(MarketOf[m].bids) PROVE StartsWith(ticks[m].ask, Ticks(BestBids(m)))
  <2>1. orderBooks[MarketOf[m].bids].slab = chain[MarketOf[m].bids].orders /\ updater.at = "idle"
    BY <1>2, <1>3, CurrentIs
  <2>2. AsksRead(m)
    BY <2>1 DEF IInv, Copied
  <2> QED  BY <1>1, <2>1, <2>2, BestIs DEF AsksRead
<1>4. ASSUME Current(MarketOf[m].asks) PROVE StartsWith(ticks[m].bid, Ticks(BestAsks(m)))
  <2>1. orderBooks[MarketOf[m].asks].slab = chain[MarketOf[m].asks].orders /\ updater.at = "idle"
    BY <1>2, <1>4, CurrentIs
  <2>2. BidsRead(m)
    BY <2>1 DEF IInv, Copied
  <2> QED  BY <1>1, <2>1, <2>2, BestIs DEF BidsRead
<1> QED  BY <1>3, <1>4

\* What the program has of the books is the chain's: once the updates are worked off, each
\* book in use is known as it last was, but for those missed, and the ticks of each side are
\* the best orders of the other side's book, best first (buildModels, subscribeUpdate,
\* updateAccount, upsertModel, items).
THEOREM KnowsBooks == Spec => []BooksKnown
<1>1. IInv => BooksKnown
  <2> SUFFICES ASSUME IInv PROVE BooksKnown
    OBVIOUS
  <2>1. TypeOK
    <3>1. Types /\ Nested
      BY DEF IInv
    <3>2. updater.at \in {"idle", "bids", "asks", "gone"}
      <4>1. updater \in [at : {"bids", "asks"}, book : Books] => updater.at \in {"bids", "asks"}
        OBVIOUS
      <4> QED  BY <3>1, <4>1 DEF Types, Idle
    <3>3. \A m \in Markets : DOMAIN ticks[m].bid = 1 .. Depth /\ DOMAIN ticks[m].ask = 1 .. Depth
      <4>1. \A m \in Markets : ticks[m].bid \in Ticked /\ ticks[m].ask \in Ticked
        BY <3>1 DEF Types
      <4> QED  BY <4>1 DEF Ticked
    <3>4. DOMAIN orderBooks = Books /\ DOMAIN chain = Books
      BY <3>1 DEF Types
    <3> QED  BY <3>1, <3>2, <3>3, <3>4 DEF TypeOK, Types, Nested
  <2>2. KnowsLast
    <3> SUFFICES ASSUME Settled, NEW m \in used, NEW b \in BooksOn(m) \ missed
                 PROVE  Current(b)
      BY DEF KnowsLast
    <3>1. m \in models /\ orderBooks[b].there
      BY DEF IInv, Nested
    <3>2. Told(updates, b, orderBooks[b].slot, chain[b].slot)
      BY <3>1 DEF IInv, Follows
    <3>3. DOMAIN updates = {}
      BY DEF Settled
    <3> QED  BY <3>1, <3>2, <3>3 DEF Told, Current
  <2>3. TicksAreBest
    <3> SUFFICES ASSUME version = "v2", NEW m \in models
                 PROVE  /\ Current(MarketOf[m].bids) => StartsWith(ticks[m].ask, Ticks(BestBids(m)))
                        /\ Current(MarketOf[m].asks) => StartsWith(ticks[m].bid, Ticks(BestAsks(m)))
      BY DEF TicksAreBest
    <3> QED  BY SerumAssumption, SidesAre
  <2> QED  BY <2>1, <2>2, <2>3 DEF BooksKnown
<1> QED  BY <1>1, Invariant, PTL

-----------------------------------------------------------------------------
(***************************************************************************)
(* Instructions.                                                           *)
(***************************************************************************)

\* The best order of a book that is not empty.
LEMMA BestItem ==
  ASSUME SerumAssumption, NEW orders \in Content, NEW bids \in BOOLEAN, Items(orders, bids, 1) # <<>>
  PROVE  /\ Items(orders, bids, 1)[1] = IF bids THEN orders[1] ELSE orders[Len(orders)]
         /\ Items(orders, bids, 1)[1] \in Order
<1> DEFINE s == Items(orders, bids, 1)
<1>0. orders \in Seq(Order) /\ Len(orders) \in Nat
  BY ContentIs
<1>1. ItemsOf(orders, bids, 1, s)
  BY ItemsAre
<1> HIDE DEF s
<1>2. s \in Seq(Order) /\ Len(s) <= 1 /\ \A i \in 1 .. Len(s) : s[i] = Met(orders, i, bids)
  BY <1>1 DEF ItemsOf
<1>3. s # <<>>
  BY DEF s
<1>4. 1 \in 1 .. Len(s) /\ s[1] \in Order
  BY <1>2, <1>3
<1>5. s[1] = IF bids THEN orders[1] ELSE orders[Len(orders) + 1 - 1]
  BY <1>2, <1>4 DEF Met
<1>6. Len(orders) + 1 - 1 = Len(orders)
  BY <1>0
<1> QED  BY <1>4, <1>5, <1>6 DEF s

\* The lots of a quantity are no more than it.
LEMMA LotsAre ==
  ASSUME SerumAssumption, NEW q \in Nat
  PROVE  BaseSizeNumberToLots(q) \in Nat /\ BaseLotSize * BaseSizeNumberToLots(q) <= q
<1> DEFINE B == BaseLotSize
           S == Scale
           r == DivRound(q * S, B)
           l == r \div S
<1>1. B \in Nat \ {0} /\ S \in Nat \ {0} /\ B <= S /\ q * S \in Nat
  BY Lots
<1>2. r \in Nat /\ 2 * (B * r) <= 2 * (q * S) + B
  BY <1>1, Rounded
<1>3. BaseSizeNumberToLots(q) = l
  BY DEF BaseSizeNumberToLots
<1> HIDE DEF B, S, r
<1>4. l \in Nat /\ S * l <= r
  BY <1>1, <1>2, Quotient
<1> HIDE DEF l
<1>5. B * (S * l) <= B * r
  <2>1. S * l \in Int
    BY <1>1, <1>4
  <2> QED  BY <1>1, <1>2, <1>4, <2>1, TimesMore
<1>6. S * (B * l) = B * (S * l) /\ S * q = q * S /\ S * (B * l) \in Nat /\ S * q \in Nat /\ B * r \in Nat
      /\ B * l \in Nat
  BY <1>1, <1>2, <1>4
<1>7. S * (B * l) < S * q + S
  BY <1>1, <1>2, <1>5, <1>6
<1>8. B * l <= q
  BY <1>1, <1>6, <1>7, Cancel
<1> QED  BY <1>3, <1>4, <1>8 DEF B

\* The roundings of a purchase, one after the other, of naturals: s parts, lots of b and q,
\* k and m units in a token; the price n of lots of the limit, the price u of a token, the
\* amount in tokens a, which buys c, of which l lots are taken.
LEMMA Roundings ==
  ASSUME NEW s \in Nat, NEW b \in Nat, NEW q \in Nat, NEW k \in Nat, NEW m \in Nat,
         NEW limit \in Nat, NEW n \in Nat, NEW u \in Nat, NEW amount \in Nat, NEW a \in Nat,
         NEW c \in Nat, NEW l \in Nat,
         s * (b * l) <= c * k,
         2 * (u * c) <= 2 * (a * s) + u,
         2 * (m * a) <= 2 * (amount * s) + m,
         2 * (n * k) <= 2 * (m * u) + m,
         2 * ((limit * q) * s) <= 2 * (b * n) + b
  PROVE  (2 * s * s * k) * (q * l * limit)
           <= (2 * s * s * k) * amount + (k * m * (s + u) + l * b * s * (m + k))
<1> DEFINE x == s * (b * l)
           w == k * (s * l)
           mk == m * k
           mu == m * u
           ks == k * s
<1>1. x \in Nat /\ w \in Nat /\ mk \in Nat /\ mu \in Nat /\ ks \in Nat
  OBVIOUS
<1>2. w * (2 * ((limit * q) * s)) <= w * (2 * (b * n) + b)
  <2>1. 2 * ((limit * q) * s) \in Int /\ 2 * (b * n) + b \in Int
    OBVIOUS
  <2> HIDE DEF w
  <2> QED  BY <1>1, <2>1, TimesMore
<1>3. w * (2 * ((limit * q) * s)) = (2 * s * s * k) * (q * l * limit)
  OBVIOUS
<1>4. w * (2 * (b * n) + b) = x * (2 * (n * k)) + k * x
  OBVIOUS
<1>5. x * (2 * (n * k)) <= x * (2 * (m * u) + m)
  <2>1. 2 * (n * k) \in Int /\ 2 * (m * u) + m \in Int
    OBVIOUS
  <2> HIDE DEF x
  <2> QED  BY <1>1, <2>1, TimesMore
<1>6. x * (2 * (m * u) + m) = 2 * (mu * x) + m * x
  OBVIOUS
<1>7. mu * x <= mu * (c * k)
  <2>1. c * k \in Int /\ x \in Int /\ x <= c * k
    OBVIOUS
  <2> HIDE DEF x, mu
  <2> QED  BY <1>1, <2>1, TimesMore
<1>8. 2 * (mu * (c * k)) = mk * (2 * (u * c))
  OBVIOUS
<1>9. mk * (2 * (u * c)) <= mk * (2 * (a * s) + u)
  <2>1. 2 * (u * c) \in Int /\ 2 * (a * s) + u \in Int
    OBVIOUS
  <2> HIDE DEF mk
  <2> QED  BY <1>1, <2>1, TimesMore
<1>10. mk * (2 * (a * s) + u) = ks * (2 * (m * a)) + mk * u
  OBVIOUS
<1>11. ks * (2 * (m * a)) <= ks * (2 * (amount * s) + m)
  <2>1. 2 * (m * a) \in Int /\ 2 * (amount * s) + m \in Int
    OBVIOUS
  <2> HIDE DEF ks
  <2> QED  BY <1>1, <2>1, TimesMore
<1>12. ks * (2 * (amount * s) + m) = (2 * s * s * k) * amount + k * m * s
  OBVIOUS
<1>13. k * m * (s + u) = k * m * s + mk * u /\ l * b * s * (m + k) = m * x + k * x
  OBVIOUS
<1> DEFINE t1 == (2 * s * s * k) * (q * l * limit)
           t2 == (2 * s * s * k) * amount
           t3 == k * m * s
           t4 == mk * u
           t5 == m * x
           t6 == k * x
           t7 == x * (2 * (n * k))
           t8 == mu * x
           t9 == mu * (c * k)
           t10 == ks * (2 * (m * a))
<1>14. /\ t1 \in Int /\ t2 \in Int /\ t3 \in Int /\ t4 \in Int /\ t5 \in Int /\ t6 \in Int /\ t7 \in Int
       /\ t8 \in Int /\ t9 \in Int /\ t10 \in Int
  BY <1>1
<1>15. /\ t1 <= t7 + t6
       /\ t7 <= 2 * t8 + t5
       /\ t8 <= t9
       /\ 2 * t9 <= t10 + t4
       /\ t10 <= t2 + t3
  <2>1. t1 <= t7 + t6
    BY <1>2, <1>3, <1>4
  <2>2. t7 <= 2 * t8 + t5
    BY <1>5, <1>6
  <2>3. t8 <= t9
    BY <1>7
  <2>4. 2 * t9 <= t10 + t4
    BY <1>8, <1>9, <1>10
  <2>5. t10 <= t2 + t3
    BY <1>11, <1>12
  <2> QED  BY <2>1, <2>2, <2>3, <2>4, <2>5
<1>16. t1 <= t2 + (t3 + t4 + (t5 + t6))
  <2> HIDE DEF t1, t2, t3, t4, t5, t6, t7, t8, t9, t10
  <2> QED  BY <1>14, <1>15
<1>17. t3 + t4 + (t5 + t6) = k * m * (s + u) + l * b * s * (m + k)
  <2>1. t3 + t4 = k * m * (s + u) /\ t5 + t6 = l * b * s * (m + k)
    BY <1>13
  <2> QED  BY <2>1
<1> QED  BY <1>16, <1>17

\* What is taken for a purchase, in lots at the limit, costs no more than the amount, but
\* for the roundings.
LEMMA LotsCost ==
  ASSUME SerumAssumption, NEW k \in Markets, NEW amount \in Nat, NEW limit \in Nat \ {0},
         Ui(k, limit) # 0
  PROVE  LET l == BaseSizeNumberToLots(Affords(k, amount, Ui(k, limit)))
             base == Multiplier[MarketOf[k].base]
             quote == Multiplier[MarketOf[k].quote]
         IN /\ l \in Nat
            /\ (2 * Scale * Scale * base) * (QuoteLotSize * l * limit)
                 <= (2 * Scale * Scale * base) * amount
                    + (base * quote * (Scale + Ui(k, limit)) + l * BaseLotSize * Scale * (base + quote))
<1> DEFINE s == Scale
           b == BaseLotSize
           q == QuoteLotSize
           K == Multiplier[MarketOf[k].base]
           M == Multiplier[MarketOf[k].quote]
           n == PriceLotsToNumber(limit)
           u == Ui(k, limit)
           a == DivRound(amount * s, M)
           c == DivRound(a * s, u)
           g == Affords(k, amount, u)
           l == BaseSizeNumberToLots(g)
<1>1. s \in Nat \ {0} /\ b \in Nat \ {0} /\ q \in Nat \ {0}
  BY Lots
<1>2. K \in Nat \ {0} /\ M \in Nat \ {0}
  BY DEF SerumAssumption
<1>3. n \in Nat /\ 2 * ((limit * q) * s) < 2 * (b * n) + b
  <2>1. limit \in Nat
    OBVIOUS
  <2> QED  BY <2>1, PriceIs
<1>4. u = DivRound(n * K, M)
  BY DEF Ui, PriceNumberToUi
<1>5. g = (c * K) \div s
  BY DEF Affords
<1> HIDE DEF s, b, q, K, M, n, u, g, l
<1>6. u \in Nat /\ 2 * (n * K) < 2 * (M * u) + M
  <2>1. n * K \in Nat
    BY <1>2, <1>3
  <2> QED  BY <1>2, <1>4, <2>1, Rounded
<1>7. a \in Nat /\ 2 * (M * a) <= 2 * (amount * s) + M
  <2>1. amount * s \in Nat
    BY <1>1
  <2> QED  BY <1>2, <2>1, Rounded
<1> HIDE DEF a
<1>8. c \in Nat /\ 2 * (u * c) <= 2 * (a * s) + u
  <2>1. a * s \in Nat /\ u \in Nat \ {0}
    BY <1>1, <1>6, <1>7 DEF u
  <2> QED  BY <2>1, Rounded
<1> HIDE DEF c
<1>9. g \in Nat /\ s * g <= c * K
  <2>1. c * K \in Nat
    BY <1>2, <1>8
  <2> QED  BY <1>1, <1>5, <2>1, Quotient
<1>10. l \in Nat /\ b * l <= g
  BY <1>9, LotsAre DEF l, b
<1>11. s * (b * l) <= c * K
  <2>1. b * l \in Int /\ s \in Nat
    BY <1>1, <1>10
  <2>2. s * (b * l) <= s * g
    BY <1>9, <1>10, <2>1, TimesMore
  <2>3. s * (b * l) \in Int /\ s * g \in Int /\ c * K \in Int
    BY <1>1, <1>2, <1>8, <1>9, <2>1
  <2> QED  BY <1>9, <2>2, <2>3
<1>12. /\ 2 * ((limit * q) * s) <= 2 * (b * n) + b
       /\ 2 * (n * K) <= 2 * (M * u) + M
  <2>1. 2 * ((limit * q) * s) \in Int /\ 2 * (b * n) + b \in Int /\ 2 * (n * K) \in Int /\ 2 * (M * u) + M \in Int
    BY <1>1, <1>2, <1>3, <1>6
  <2> QED  BY <1>3, <1>6, <2>1
<1>13. (2 * s * s * K) * (q * l * limit)
         <= (2 * s * s * K) * amount + (K * M * (s + u) + l * b * s * (M + K))
  <2>1. limit \in Nat /\ s \in Nat /\ b \in Nat /\ q \in Nat /\ K \in Nat /\ M \in Nat
    BY <1>1, <1>2
  <2> QED  BY <1>3, <1>6, <1>7, <1>8, <1>10, <1>11, <1>12, <2>1, Roundings
<1>14. M + K = K + M
  BY <1>2
<1> QED  BY <1>10, <1>13, <1>14 DEF s, b, q, K, M, u, g, l

\* Two percent below a price, and above it.
LEMMA Percents ==
  ASSUME NEW p \in Nat \ {0}
  PROVE  /\ (p * 98) \div 100 <= p /\ (p * 98) \div 100 \in Nat
         /\ (p * 102) \div 100 >= p /\ (p * 102) \div 100 \in Nat \ {0}
OBVIOUS

\* The order of a sale meets the best bid, and sells no more than the amount (OrderMeets).
LEMMA SaleMeets ==
  ASSUME SerumAssumption, IInv, NEW m \in models, NEW amount \in Amounts,
         Current(MarketOf[m].bids), NewOrder(m, MarketOf[m].base, amount).ok
  PROVE  LET sale == NewOrder(m, MarketOf[m].base, amount)
         IN /\ sale.limit <= chain[MarketOf[m].bids].orders[Len(chain[MarketOf[m].bids].orders)].price
            /\ sale.maxBase * BaseLotSize <= amount
<1> DEFINE orders == chain[MarketOf[m].bids].orders
           raw == AsksRaw(m)
           p == raw[1].price
           limit == (p * 98) \div 100
           sale == NewOrder(m, MarketOf[m].base, amount)
<1>1. m \in Markets /\ MarketOf[m].bids \in Books /\ amount \in Nat /\ BaseLotSize \in Nat \ {0}
  BY DEF SerumAssumption, IInv, Nested
<1>2. orders \in Content /\ raw = Items(orders, FALSE, 1)
  BY <1>1, CurrentIs DEF AsksRaw, Model
<1> HIDE DEF orders, raw
<1>3. raw # <<>>
  BY DEF NewOrder, Error, raw
<1>4. raw[1] = orders[Len(orders)] /\ raw[1] \in Order
  BY <1>2, <1>3, BestItem
<1>5. p \in Nat \ {0}
  BY <1>4 DEF Order
<1>6. sale = [ok |-> TRUE, side |-> 1, limit |-> limit, maxBase |-> BaseSizeNumberToLots(amount),
              maxQuote |-> QuoteLotSize * BaseSizeNumberToLots(amount) * limit]
  BY <1>3 DEF NewOrder, raw
<1> HIDE DEF sale, p
<1>7. sale.limit = limit /\ sale.maxBase = BaseSizeNumberToLots(amount)
  BY <1>6
<1>8. limit <= p
  BY <1>5, Percents
<1> HIDE DEF limit
<1>9. sale.maxBase * BaseLotSize <= amount
  <2> DEFINE b == BaseSizeNumberToLots(amount)
  <2>1. b \in Nat /\ BaseLotSize * b <= amount
    BY <1>1, LotsAre
  <2> HIDE DEF b
  <2>2. b * BaseLotSize = BaseLotSize * b
    BY <1>1, <2>1
  <2>3. b * BaseLotSize <= amount
    BY <2>1, <2>2
  <2> QED  BY <1>7, <2>3 DEF b
<1>10. sale.limit <= orders[Len(orders)].price
  BY <1>4, <1>7, <1>8 DEF p
<1> QED  BY <1>9, <1>10 DEF sale, orders

\* The order of a purchase meets the best ask, and costs no more than the amount, but for the
\* roundings (OrderMeets).
LEMMA PurchaseMeets ==
  ASSUME SerumAssumption, IInv, NEW m \in models, NEW amount \in Amounts,
         Current(MarketOf[m].asks), NewOrder(m, MarketOf[m].quote, amount).ok
  PROVE  LET purchase == NewOrder(m, MarketOf[m].quote, amount)
             all == 2 * Scale * Scale * Multiplier[MarketOf[m].base]
         IN /\ purchase.limit >= chain[MarketOf[m].asks].orders[1].price
            /\ all * purchase.maxQuote <= all * amount + Overrun(m, purchase)
<1> DEFINE orders == chain[MarketOf[m].asks].orders
           raw == BidsRaw(m)
           p == raw[1].price
           limit == (p * 102) \div 100
           base == BaseSizeNumberToLots(Affords(m, amount, Ui(m, limit)))
           purchase == NewOrder(m, MarketOf[m].quote, amount)
           all == 2 * Scale * Scale * Multiplier[MarketOf[m].base]
<1>1. m \in Markets /\ MarketOf[m].asks \in Books /\ amount \in Nat
      /\ MarketOf[m].quote # MarketOf[m].base
  BY DEF SerumAssumption, IInv, Nested
<1>2. orders \in Content /\ raw = Items(orders, TRUE, 1)
  BY <1>1, CurrentIs DEF BidsRaw, Model
<1> HIDE DEF orders, raw
<1>3. raw # <<>> /\ Ui(m, limit) # 0
  BY <1>1 DEF NewOrder, Error, raw
<1>4. raw[1] = orders[1] /\ raw[1] \in Order
  BY <1>2, <1>3, BestItem
<1>5. p \in Nat \ {0}
  BY <1>4 DEF Order
<1>6. purchase = [ok |-> TRUE, side |-> 0, limit |-> limit, maxBase |-> base,
                  maxQuote |-> QuoteLotSize * base * limit]
  BY <1>1, <1>3 DEF NewOrder, raw
<1> HIDE DEF purchase, p
<1>7. purchase.limit = limit /\ purchase.maxQuote = QuoteLotSize * base * limit /\ purchase.maxBase = base
  BY <1>6
<1>8. limit >= p /\ limit \in Nat \ {0}
  BY <1>5, Percents
<1> HIDE DEF limit
<1>9. all * purchase.maxQuote <= all * amount + Overrun(m, purchase)
  <2>1. Overrun(m, purchase) =
          Multiplier[MarketOf[m].base] * Multiplier[MarketOf[m].quote] * (Scale + Ui(m, limit))
          + base * BaseLotSize * Scale * (Multiplier[MarketOf[m].base] + Multiplier[MarketOf[m].quote])
    BY <1>7 DEF Overrun
  <2>2. all * (QuoteLotSize * base * limit) <= all * amount
          + (Multiplier[MarketOf[m].base] * Multiplier[MarketOf[m].quote] * (Scale + Ui(m, limit))
             + base * BaseLotSize * Scale * (Multiplier[MarketOf[m].base] + Multiplier[MarketOf[m].quote]))
    BY <1>1, <1>3, <1>8, LotsCost
  <2> HIDE DEF all, base
  <2> QED  BY <1>7, <2>1, <2>2
<1>10. purchase.limit >= orders[1].price
  BY <1>4, <1>7, <1>8 DEF p
<1> QED  BY <1>9, <1>10 DEF purchase, orders, all

\* The instruction of a token gives and gets what its quote says, from the book it was quoted
\* from (StepFollowsQuote).
LEMMA StepFollows ==
  ASSUME SerumAssumption, IInv, NEW m \in models, NEW token \in Pair(m), NEW amount,
         Local(m, token, amount).ok, ArbitrageStep(m, token, amount, 0).ok
  PROVE  LET quote == Local(m, token, amount)
             step == ArbitrageStep(m, token, amount, 0)
         IN /\ step.userSrc = UserOf[quote.tokenIn] /\ step.userDst = UserOf[quote.tokenOut]
            /\ step.userSrc = IF step.side = 1 THEN step.userBase ELSE step.userQuote
            /\ quote.slotIn = orderBooks[IF step.side = 1 THEN step.bids ELSE step.asks].height
<1> DEFINE quote == Local(m, token, amount)
           step == ArbitrageStep(m, token, amount, 0)
           selling == token = MarketOf[m].base
           other == CHOOSE t \in Pair(m) : t # token
           out == Swap1(Side(m, selling), selling, amount)
           users == [i \in 1 .. 2 |-> UserOf[GetMarketAccounts(m, token)[i]]]
<1>1. users[1] = UserOf[token] /\ users[2] = UserOf[other]
  <2>1. GetMarketAccounts(m, token) = <<token, other>>
    BY Zenon DEF GetMarketAccounts
  <2> HIDE DEF other
  <2> QED  BY <2>1
<1>2. quote \in {Error,
                 [ok |-> TRUE, tokenIn |-> token, tokenOut |-> other, in |-> amount, out |-> out,
                  slotIn |-> orderBooks[IF selling THEN Model(m).ask ELSE Model(m).bid].height]}
  BY DEF Local
<1>3. step \in {Error,
                [ok |-> TRUE, amount |-> amount, side |-> IF selling THEN 1 ELSE 0,
                 flag |-> 0, bids |-> MarketOf[m].bids, asks |-> MarketOf[m].asks,
                 userSrc |-> users[1], userDst |-> users[2],
                 userBase |-> UserOf[MarketOf[m].base], userQuote |-> UserOf[MarketOf[m].quote]]}
  BY DEF ArbitrageStep
<1> HIDE DEF quote, step, users, other, out
<1>4. quote.ok /\ step.ok
  BY DEF quote, step
<1>5. /\ quote.tokenIn = token /\ quote.tokenOut = other
      /\ quote.slotIn = orderBooks[IF selling THEN Model(m).ask ELSE Model(m).bid].height
  BY <1>2, <1>4 DEF Error
<1>6. /\ step.side = IF selling THEN 1 ELSE 0
      /\ step.bids = MarketOf[m].bids /\ step.asks = MarketOf[m].asks
      /\ step.userSrc = users[1] /\ step.userDst = users[2]
      /\ step.userBase = UserOf[MarketOf[m].base] /\ step.userQuote = UserOf[MarketOf[m].quote]
  BY <1>3, <1>4 DEF Error
<1>7. ~selling => token = MarketOf[m].quote
  BY DEF Pair
<1>8. Model(m).ask = MarketOf[m].bids /\ Model(m).bid = MarketOf[m].asks
  BY DEF Model
<1>9. /\ step.userSrc = UserOf[quote.tokenIn] /\ step.userDst = UserOf[quote.tokenOut]
      /\ step.userSrc = IF step.side = 1 THEN step.userBase ELSE step.userQuote
      /\ quote.slotIn = orderBooks[IF step.side = 1 THEN step.bids ELSE step.asks].height
  BY <1>1, <1>5, <1>6, <1>7, <1>8
<1> QED  BY <1>9 DEF quote, step

\* Every instruction does what was quoted: an order to fill at once meets the best order of
\* the other side and takes no more than the amount, and a step moves the tokens of the quote
\* on the book the quote is from (InstructionNewOrder, InstructionArbitrageStep).
THEOREM OrdersAreSound == Spec => []OrdersSound
<1>1. IInv => OrdersSound
  <2> SUFFICES ASSUME IInv PROVE OrdersSound
    OBVIOUS
  <2>1. OrderMeets
    <3> SUFFICES ASSUME NEW m \in models, NEW amount \in Amounts
                 PROVE  LET sale == NewOrder(m, MarketOf[m].base, amount)
                            purchase == NewOrder(m, MarketOf[m].quote, amount)
                            all == 2 * Scale * Scale * Multiplier[MarketOf[m].base]
                        IN /\ (Current(MarketOf[m].bids) /\ sale.ok) =>
                                /\ sale.limit <= chain[MarketOf[m].bids].orders[Len(chain[MarketOf[m].bids].orders)].price
                                /\ sale.maxBase * BaseLotSize <= amount
                           /\ (Current(MarketOf[m].asks) /\ purchase.ok) =>
                                /\ purchase.limit >= chain[MarketOf[m].asks].orders[1].price
                                /\ all * purchase.maxQuote <= all * amount + Overrun(m, purchase)
      BY Zenon DEF OrderMeets
    <3> QED  BY SerumAssumption, SaleMeets, PurchaseMeets
  <2>2. StepFollowsQuote
    <3> SUFFICES ASSUME NEW m \in models, NEW token \in Pair(m), NEW amount \in Amounts,
                        Local(m, token, amount).ok, ArbitrageStep(m, token, amount, 0).ok
                 PROVE  LET quote == Local(m, token, amount)
                            step == ArbitrageStep(m, token, amount, 0)
                        IN /\ step.userSrc = UserOf[quote.tokenIn] /\ step.userDst = UserOf[quote.tokenOut]
                           /\ step.userSrc = IF step.side = 1 THEN step.userBase ELSE step.userQuote
                           /\ quote.slotIn = orderBooks[IF step.side = 1 THEN step.bids ELSE step.asks].height
      BY ZenonT(30) DEF StepFollowsQuote
    <3> QED  BY SerumAssumption, StepFollows
  <2> QED  BY <2>1, <2>2 DEF OrdersSound
<1> QED  BY <1>1, Invariant, PTL

-----------------------------------------------------------------------------
(***************************************************************************)
(* Totals of ticks: what there is up to a tick, what it costs, and what a  *)
(* part of it costs.                                                       *)
(***************************************************************************)

\* Running totals.
Totals(f, s) == /\ f \in [0 .. Len(s) -> Nat] /\ f[0] = 0
                /\ \A k \in 1 .. Len(s) : f[k] = f[k - 1] + s[k]

\* The recursion of Sums.
LEMMA SumsAre ==
  ASSUME NEW s \in Seq(Nat)
  PROVE  Totals(Sums(s), s)
<1> DEFINE n == Len(s)
           Body(f, k) == IF k = 0 THEN 0 ELSE f[k - 1] + s[k]
           step == [k \in 1 .. n |-> [x \in Nat |-> x + s[k]]]
           first == CHOOSE f : f = [k \in 0 .. n |-> Body(f, k)]
<1>1. n \in Nat /\ \A k \in 1 .. n : s[k] \in Nat
  OBVIOUS
<1>2. step \in [1 .. n -> [Nat -> Nat]]
  <2> HIDE DEF n
  <2> QED  BY <1>1
<1>3. PICK f \in [0 .. n -> Nat] : f[0] = 0 /\ \A k \in 1 .. n : f[k] = step[k][f[k - 1]]
  <2> HIDE DEF step, n
  <2>1. 0 \in Nat
    OBVIOUS
  <2>2. HasFunction(Nat, n, 0, step)
    BY <1>1, <1>2, <2>1, Recursion, Zenon
  <2> QED  BY <2>2, Zenon DEF HasFunction
<1>4. ASSUME NEW k \in 0 .. n PROVE f[k] = Body(f, k)
  <2>1. CASE k = 0
    BY <1>3, <2>1
  <2>2. CASE k # 0
    <3>1. k \in 1 .. n /\ k - 1 \in 0 .. n
      BY <2>2, <1>1
    <3>2. f[k - 1] \in Nat /\ f[k] = step[k][f[k - 1]]
      BY <3>1, <1>3
    <3> QED  BY <2>2, <3>1, <3>2
  <2> QED  BY <2>1, <2>2
<1>5. f = [k \in 0 .. n |-> Body(f, k)]
  <2> HIDE DEF Body
  <2> QED  BY <1>3, <1>4
<1>6. first = [k \in 0 .. n |-> Body(first, k)]
  <2> HIDE DEF Body, n
  <2> QED  BY <1>5
<1>7. Sums(s) = first
  BY Zenon DEF Sums
<1> HIDE DEF first
<1>8. ASSUME NEW k \in 0 .. n PROVE first[k] = Body(first, k)
  <2> HIDE DEF Body, n
  <2> QED  BY <1>6
<1>9. \A k \in 0 .. n : k \in {i \in 0 .. n : first[i] = f[i]}
  <2> DEFINE T == {k \in 0 .. n : first[k] = f[k]}
  <2>1. 0 \in T
    BY <1>1, <1>4, <1>8
  <2>2. ASSUME NEW k \in 1 .. n, k - 1 \in T PROVE k \in T
    <3>1. k \in 0 .. n /\ k # 0 /\ first[k - 1] = f[k - 1]
      BY <2>2
    <3> QED  BY <1>4, <1>8, <3>1
  <2> HIDE DEF T
  <2> QED  BY <1>1, <2>1, <2>2, Upward DEF T
<1>10. first \in [0 .. n -> Nat]
  <2>1. \A k \in 0 .. n : first[k] \in Nat
    BY <1>3, <1>9
  <2> HIDE DEF Body, n
  <2> QED  BY <1>6, <2>1
<1>11. first[0] = 0
  BY <1>1, <1>8
<1>12. ASSUME NEW k \in 1 .. n PROVE first[k] = first[k - 1] + s[k]
  <2>1. k \in 0 .. n /\ k # 0
    OBVIOUS
  <2> QED  BY <1>8, <2>1
<1> QED  BY <1>7, <1>10, <1>11, <1>12 DEF Totals

\* What the ticks hold up to each, what that costs, and what quantity costs up to each.
Held(s) == Sums(Quantities(s))
Spent(s) == Sums(Costs(s))
Paid(s, quantity) ==
  Sums([i \in DOMAIN s |-> s[i].price * Filled(s[i], Held(s)[i - 1], quantity)])

\* What is filled of a tick.
LEMMA FilledIs ==
  ASSUME NEW t \in Tick, NEW before \in Nat, NEW q \in Nat
  PROVE  /\ Filled(t, before, q) \in 0 .. t.quantity
         /\ q <= before => Filled(t, before, q) = 0
         /\ q >= before + t.quantity => Filled(t, before, q) = t.quantity
         /\ before <= q /\ q <= before + t.quantity => Filled(t, before, q) = q - before
<1>1. t.quantity \in Nat
  BY DEF Tick
<1> QED  BY <1>1 DEF Filled

\* What there is up to a tick, from what there is up to the one before.
LEMMA HeldIs ==
  ASSUME NEW s \in Seq(Tick)
  PROVE  /\ Held(s) \in [0 .. Len(s) -> Nat] /\ Spent(s) \in [0 .. Len(s) -> Nat]
         /\ Held(s)[0] = 0 /\ Spent(s)[0] = 0
         /\ \A k \in 1 .. Len(s) : /\ Held(s)[k] = Held(s)[k - 1] + s[k].quantity
                                   /\ Spent(s)[k] = Spent(s)[k - 1] + s[k].price * s[k].quantity
<1> DEFINE n == Len(s)
<1>1. n \in Nat /\ DOMAIN s = 1 .. n
  OBVIOUS
<1>2. \A i \in 1 .. n : s[i].quantity \in Nat /\ s[i].price \in Nat
  <2>1. \A i \in 1 .. n : s[i] \in Tick
    OBVIOUS
  <2> QED  BY <2>1 DEF Tick
<1> HIDE DEF n
<1>3. Quantities(s) = [i \in 1 .. n |-> s[i].quantity] /\ Costs(s) = [i \in 1 .. n |-> s[i].price * s[i].quantity]
  BY <1>1 DEF Quantities, Costs
<1>4. /\ Quantities(s) \in Seq(Nat) /\ Len(Quantities(s)) = n
      /\ \A i \in 1 .. n : Quantities(s)[i] = s[i].quantity
  BY <1>1, <1>2, <1>3
<1>5. /\ Costs(s) \in Seq(Nat) /\ Len(Costs(s)) = n
      /\ \A i \in 1 .. n : Costs(s)[i] = s[i].price * s[i].quantity
  <2>1. \A i \in 1 .. n : s[i].price * s[i].quantity \in Nat
    BY <1>2
  <2> QED  BY <1>1, <1>3, <2>1
<1>6. Totals(Held(s), Quantities(s)) /\ Totals(Spent(s), Costs(s))
  BY <1>4, <1>5, SumsAre DEF Held, Spent
<1>7. /\ Held(s) \in [0 .. n -> Nat] /\ Held(s)[0] = 0
      /\ \A k \in 1 .. n : Held(s)[k] = Held(s)[k - 1] + s[k].quantity
  BY <1>4, <1>6 DEF Totals
<1>8. /\ Spent(s) \in [0 .. n -> Nat] /\ Spent(s)[0] = 0
      /\ \A k \in 1 .. n : Spent(s)[k] = Spent(s)[k - 1] + s[k].price * s[k].quantity
  BY <1>5, <1>6 DEF Totals
<1> QED  BY <1>7, <1>8 DEF n

\* What there is up to a tick is a number.
LEMMA HeldAt ==
  ASSUME NEW s \in Seq(Tick), NEW k \in 0 .. Len(s)
  PROVE  Held(s)[k] \in Nat /\ Spent(s)[k] \in Nat
<1>1. Held(s) \in [0 .. Len(s) -> Nat] /\ Spent(s) \in [0 .. Len(s) -> Nat]
  BY HeldIs
<1> QED  BY <1>1

\* What a quantity costs up to a tick, from what it costs up to the one before.
LEMMA PaidIs ==
  ASSUME NEW s \in Seq(Tick), NEW q \in Nat
  PROVE  /\ Paid(s, q) \in [0 .. Len(s) -> Nat] /\ Paid(s, q)[0] = 0
         /\ \A k \in 1 .. Len(s) :
              Paid(s, q)[k] = Paid(s, q)[k - 1] + s[k].price * Filled(s[k], Held(s)[k - 1], q)
<1> DEFINE n == Len(s)
           h == Held(s)
           fills == [i \in DOMAIN s |-> s[i].price * Filled(s[i], h[i - 1], q)]
<1>1. n \in Nat /\ DOMAIN s = 1 .. n /\ \A i \in 1 .. n : s[i] \in Tick
  OBVIOUS
<1>2. h \in [0 .. n -> Nat]
  BY HeldIs
<1> HIDE DEF n, h
<1>3. ASSUME NEW i \in 1 .. n PROVE s[i].price * Filled(s[i], h[i - 1], q) \in Nat
  <2> DEFINE p == s[i].price
             x == Filled(s[i], h[i - 1], q)
  <2>1. s[i] \in Tick /\ h[i - 1] \in Nat
    BY <1>1, <1>2
  <2>2. p \in Nat /\ s[i].quantity \in Nat
    BY <2>1 DEF Tick
  <2>3. x \in Nat
    <3>1. x \in 0 .. s[i].quantity
      BY <2>1, FilledIs
    <3> HIDE DEF x
    <3> QED  BY <2>2, <3>1
  <2> HIDE DEF p, x
  <2>4. p * x \in Nat
    BY <2>2, <2>3
  <2> QED  BY <2>4 DEF p, x
<1>4. fills = [i \in 1 .. n |-> s[i].price * Filled(s[i], h[i - 1], q)]
  BY <1>1
<1>5. Paid(s, q) = Sums(fills)
  BY DEF Paid, h
<1> HIDE DEF fills
<1>6. /\ fills \in Seq(Nat) /\ Len(fills) = n
      /\ \A i \in 1 .. n : fills[i] = s[i].price * Filled(s[i], h[i - 1], q)
  BY <1>1, <1>3, <1>4
<1>7. Totals(Paid(s, q), fills)
  BY <1>5, <1>6, SumsAre
<1>8. /\ Paid(s, q) \in [0 .. n -> Nat] /\ Paid(s, q)[0] = 0
      /\ \A k \in 1 .. n : Paid(s, q)[k] = Paid(s, q)[k - 1] + fills[k]
  BY <1>6, <1>7 DEF Totals
<1> QED  BY <1>6, <1>8 DEF n, h

\* The definitions of Serum in these terms.
LEMMA TotalIs ==
  ASSUME NEW s, NEW q
  PROVE  Total(s, q) = Paid(s, q)[Len(s)] /\ Size(s) = Held(s)[Len(s)]
BY Zenon DEF Total, Paid, Size, Held

\* A total that never falls is the larger, the farther it is.
LEMMA Rising ==
  ASSUME NEW n \in Nat, NEW f \in [0 .. n -> Nat], \A k \in 1 .. n : f[k - 1] <= f[k]
  PROVE  \A i, j \in 0 .. n : i <= j => f[i] <= f[j]
<1> DEFINE T == {j \in 0 .. n : \A i \in 0 .. j : f[i] <= f[j]}
<1>1. 0 \in T
  <2>1. \A i \in 0 .. 0 : i = 0
    OBVIOUS
  <2> QED  BY <2>1
<1>2. ASSUME NEW k \in 1 .. n, k - 1 \in T PROVE k \in T
  <2>1. k \in 0 .. n /\ k - 1 \in 0 .. n /\ f[k - 1] <= f[k]
    OBVIOUS
  <2>2. ASSUME NEW i \in 0 .. k PROVE f[i] <= f[k]
    <3>1. CASE i = k
      BY <2>1, <3>1
    <3>2. CASE i # k
      <4>1. i \in 0 .. k - 1 /\ i \in 0 .. n
        BY <3>2
      <4>2. f[i] <= f[k - 1]
        BY <1>2, <4>1
      <4>3. f[i] \in Nat /\ f[k - 1] \in Nat /\ f[k] \in Nat
        BY <2>1, <4>1
      <4> QED  BY <2>1, <4>2, <4>3
    <3> QED  BY <3>1, <3>2
  <2> QED  BY <2>1, <2>2
<1> HIDE DEF T
<1>3. \A j \in 0 .. n : j \in T
  BY <1>1, <1>2, Upward
<1>4. ASSUME NEW i \in 0 .. n, NEW j \in 0 .. n, i <= j PROVE f[i] <= f[j]
  <2>1. i \in 0 .. j /\ j \in T
    BY <1>3, <1>4
  <2> QED  BY <2>1 DEF T
<1> QED  BY <1>4

\* One tick, of what there is and of what is paid.
LEMMA TickAt ==
  ASSUME NEW s \in Seq(Tick), NEW q \in Nat, NEW k \in 1 .. Len(s)
  PROVE  /\ k \in Nat /\ k - 1 \in 0 .. Len(s) /\ k \in 0 .. Len(s)
         /\ s[k] \in Tick /\ s[k].price \in Nat /\ s[k].quantity \in Nat
         /\ s[k].quantity > 0 => s[k].price > 0
         /\ Held(s)[k - 1] \in Nat /\ Held(s)[k] \in Nat /\ Held(s)[k] = Held(s)[k - 1] + s[k].quantity
         /\ Spent(s)[k - 1] \in Nat /\ Spent(s)[k] \in Nat
         /\ Spent(s)[k] = Spent(s)[k - 1] + s[k].price * s[k].quantity
         /\ Paid(s, q)[k - 1] \in Nat /\ Paid(s, q)[k] \in Nat
         /\ Filled(s[k], Held(s)[k - 1], q) \in Nat
         /\ Paid(s, q)[k] = Paid(s, q)[k - 1] + s[k].price * Filled(s[k], Held(s)[k - 1], q)
<1>1. k \in Nat /\ k - 1 \in 0 .. Len(s) /\ k \in 0 .. Len(s) /\ s[k] \in Tick
  OBVIOUS
<1>2. s[k].price \in Nat /\ s[k].quantity \in Nat /\ (s[k].quantity > 0 => s[k].price > 0)
  BY <1>1 DEF Tick
<1>3. /\ Held(s)[k - 1] \in Nat /\ Held(s)[k] \in Nat /\ Held(s)[k] = Held(s)[k - 1] + s[k].quantity
      /\ Spent(s)[k - 1] \in Nat /\ Spent(s)[k] \in Nat
      /\ Spent(s)[k] = Spent(s)[k - 1] + s[k].price * s[k].quantity
  BY <1>1, HeldIs
<1>4. /\ Paid(s, q)[k - 1] \in Nat /\ Paid(s, q)[k] \in Nat
      /\ Paid(s, q)[k] = Paid(s, q)[k - 1] + s[k].price * Filled(s[k], Held(s)[k - 1], q)
  BY <1>1, PaidIs
<1>5. Filled(s[k], Held(s)[k - 1], q) \in 0 .. s[k].quantity
  BY <1>1, <1>3, FilledIs
<1>6. Filled(s[k], Held(s)[k - 1], q) \in Nat
  BY <1>2, <1>5
<1> QED  BY <1>1, <1>2, <1>3, <1>4, <1>6

\* There is more, the farther one goes, and more is paid for a quantity.
LEMMA TotalsRise ==
  ASSUME NEW s \in Seq(Tick), NEW q \in Nat
  PROVE  \A i, j \in 0 .. Len(s) : i <= j => Held(s)[i] <= Held(s)[j] /\ Paid(s, q)[i] <= Paid(s, q)[j]
<1> DEFINE n == Len(s)
           h == Held(s)
           p == Paid(s, q)
<1>1. n \in Nat /\ h \in [0 .. n -> Nat] /\ p \in [0 .. n -> Nat]
  BY HeldIs, PaidIs
<1>2. ASSUME NEW k \in 1 .. n PROVE h[k - 1] <= h[k] /\ p[k - 1] <= p[k]
  <2> DEFINE x == s[k].quantity
             c == s[k].price
             f == Filled(s[k], Held(s)[k - 1], q)
  <2>1. /\ x \in Nat /\ c \in Nat /\ f \in Nat /\ h[k - 1] \in Nat /\ p[k - 1] \in Nat
        /\ h[k] = h[k - 1] + x /\ p[k] = p[k - 1] + c * f
    BY TickAt
  <2> HIDE DEF x, c, f, h, p
  <2>2. c * f \in Nat
    BY <2>1
  <2> QED  BY <2>1, <2>2
<1> HIDE DEF n, h, p
<1>3. /\ \A i, j \in 0 .. n : i <= j => h[i] <= h[j]
      /\ \A i, j \in 0 .. n : i <= j => p[i] <= p[j]
  BY <1>1, <1>2, Rising
<1> QED  BY <1>3 DEF n, h, p

\* A quantity that takes all there is costs all of it.
LEMMA PaidFull ==
  ASSUME NEW s \in Seq(Tick), NEW q \in Nat
  PROVE  \A k \in 0 .. Len(s) : q >= Held(s)[k] => Paid(s, q)[k] = Spent(s)[k]
<1> DEFINE n == Len(s)
           T == {k \in 0 .. n : q >= Held(s)[k] => Paid(s, q)[k] = Spent(s)[k]}
<1>1. n \in Nat
  OBVIOUS
<1>2. 0 \in T
  BY <1>1, HeldIs, PaidIs
<1>3. ASSUME NEW k \in 1 .. n, k - 1 \in T PROVE k \in T
  <2> DEFINE h == Held(s)[k - 1]
             f == Filled(s[k], h, q)
  <2>1. /\ k \in 0 .. n /\ s[k] \in Tick /\ h \in Nat /\ s[k].quantity \in Nat
        /\ Held(s)[k] = h + s[k].quantity
        /\ Spent(s)[k] = Spent(s)[k - 1] + s[k].price * s[k].quantity
        /\ Paid(s, q)[k] = Paid(s, q)[k - 1] + s[k].price * f
    BY TickAt
  <2>2. q >= h => Paid(s, q)[k - 1] = Spent(s)[k - 1]
    BY <1>3
  <2>3. q >= h + s[k].quantity => f = s[k].quantity
    BY <2>1, FilledIs
  <2> HIDE DEF h, f
  <2>4. ASSUME q >= Held(s)[k] PROVE Paid(s, q)[k] = Spent(s)[k]
    <3>1. q >= h + s[k].quantity /\ q >= h
      BY <2>1, <2>4
    <3> QED  BY <2>1, <2>2, <2>3, <3>1
  <2> QED  BY <2>1, <2>4
<1> HIDE DEF T
<1>4. \A k \in 0 .. n : k \in T
  BY <1>1, <1>2, <1>3, Upward
<1> QED  BY <1>4 DEF T, n

\* Nothing more is paid for a quantity that is there already.
LEMMA PaidStays ==
  ASSUME NEW s \in Seq(Tick), NEW q \in Nat, NEW i \in 0 .. Len(s), q <= Held(s)[i]
  PROVE  \A j \in 0 .. Len(s) : i <= j => Paid(s, q)[j] = Paid(s, q)[i]
<1> DEFINE n == Len(s)
           T == {j \in 0 .. n : i <= j => Paid(s, q)[j] = Paid(s, q)[i]}
<1>1. n \in Nat
  OBVIOUS
<1>2. 0 \in T
  BY <1>1
<1>3. ASSUME NEW k \in 1 .. n, k - 1 \in T PROVE k \in T
  <2> DEFINE h == Held(s)[k - 1]
             f == Filled(s[k], h, q)
  <2>1. /\ k \in 0 .. n /\ k - 1 \in 0 .. n /\ s[k] \in Tick /\ h \in Nat /\ s[k].price \in Nat
        /\ Paid(s, q)[k - 1] \in Nat
        /\ Paid(s, q)[k] = Paid(s, q)[k - 1] + s[k].price * f
    BY TickAt
  <2>2. i <= k - 1 => Paid(s, q)[k - 1] = Paid(s, q)[i]
    BY <1>3
  <2>3. i <= k - 1 => Held(s)[i] <= h
    BY <2>1, TotalsRise
  <2>4. q <= h => f = 0
    BY <2>1, FilledIs
  <2>5. Held(s)[i] \in Nat
    BY HeldIs
  <2> HIDE DEF h, f
  <2>6. ASSUME i <= k PROVE Paid(s, q)[k] = Paid(s, q)[i]
    <3>1. CASE i = k
      BY <3>1
    <3>2. CASE i # k
      <4>1. i <= k - 1
        BY <2>6, <3>2
      <4>2. f = 0
        BY <2>1, <2>3, <2>4, <2>5, <4>1
      <4> QED  BY <2>1, <2>2, <4>1, <4>2
    <3> QED  BY <3>1, <3>2
  <2> QED  BY <2>1, <2>6
<1> HIDE DEF T
<1>4. \A k \in 0 .. n : k \in T
  BY <1>1, <1>2, <1>3, Upward
<1> QED  BY <1>4 DEF T, n

\* A larger quantity costs no less.
LEMMA PaidMore ==
  ASSUME NEW s \in Seq(Tick), NEW q \in Nat, NEW r \in Nat, q <= r
  PROVE  \A k \in 0 .. Len(s) : Paid(s, q)[k] <= Paid(s, r)[k]
<1> DEFINE n == Len(s)
           T == {k \in 0 .. n : Paid(s, q)[k] <= Paid(s, r)[k]}
<1>1. n \in Nat
  OBVIOUS
<1>2. 0 \in T
  BY <1>1, PaidIs
<1>3. ASSUME NEW k \in 1 .. n, k - 1 \in T PROVE k \in T
  <2> DEFINE h == Held(s)[k - 1]
             f == Filled(s[k], h, q)
             g == Filled(s[k], h, r)
             c == s[k].price
             a == Paid(s, q)[k - 1]
             b == Paid(s, r)[k - 1]
  <2>1. /\ k \in 0 .. n /\ h \in Nat /\ c \in Nat /\ s[k].quantity \in Nat /\ f \in Nat /\ a \in Nat
        /\ Paid(s, q)[k] = a + c * f
    BY TickAt
  <2>2. g \in Nat /\ b \in Nat /\ Paid(s, r)[k] = b + c * g
    BY TickAt
  <2>3. f <= g
    BY <2>1, SMTT(30) DEF Filled
  <2>4. a <= b
    BY <1>3
  <2> HIDE DEF h, f, g, c, a, b
  <2>5. c * f <= c * g
    BY <2>1, <2>2, <2>3, TimesMore
  <2>6. c * f \in Nat /\ c * g \in Nat
    BY <2>1, <2>2
  <2> QED  BY <2>1, <2>2, <2>4, <2>5, <2>6
<1> HIDE DEF T
<1>4. \A k \in 0 .. n : k \in T
  BY <1>1, <1>2, <1>3, Upward
<1> QED  BY <1>4 DEF T, n

\* Ticks that start with others have the totals of those up to there.
LEMMA SamePrefix ==
  ASSUME NEW s \in Seq(Tick), NEW t \in Seq(Tick), Len(t) <= Len(s), \A i \in 1 .. Len(t) : s[i] = t[i],
         NEW q \in Nat
  PROVE  \A k \in 0 .. Len(t) : /\ Held(s)[k] = Held(t)[k] /\ Spent(s)[k] = Spent(t)[k]
                                /\ Paid(s, q)[k] = Paid(t, q)[k]
<1> DEFINE n == Len(t)
           T == {k \in 0 .. n : /\ Held(s)[k] = Held(t)[k] /\ Spent(s)[k] = Spent(t)[k]
                                /\ Paid(s, q)[k] = Paid(t, q)[k]}
<1>1. n \in Nat /\ Len(s) \in Nat
  OBVIOUS
<1>2. 0 \in T
  BY <1>1, HeldIs, PaidIs
<1>3. ASSUME NEW k \in 1 .. n, k - 1 \in T PROVE k \in T
  <2>1. k \in 1 .. Len(s) /\ s[k] = t[k] /\ k \in 0 .. n
    BY <1>1
  <2>2. /\ Held(t)[k] = Held(t)[k - 1] + t[k].quantity
        /\ Spent(t)[k] = Spent(t)[k - 1] + t[k].price * t[k].quantity
        /\ Paid(t, q)[k] = Paid(t, q)[k - 1] + t[k].price * Filled(t[k], Held(t)[k - 1], q)
    BY TickAt
  <2>3. /\ Held(s)[k] = Held(s)[k - 1] + s[k].quantity
        /\ Spent(s)[k] = Spent(s)[k - 1] + s[k].price * s[k].quantity
        /\ Paid(s, q)[k] = Paid(s, q)[k - 1] + s[k].price * Filled(s[k], Held(s)[k - 1], q)
    <3> HIDE DEF n
    <3> QED  BY <2>1, TickAt
  <2>4. /\ Held(s)[k - 1] = Held(t)[k - 1] /\ Spent(s)[k - 1] = Spent(t)[k - 1]
        /\ Paid(s, q)[k - 1] = Paid(t, q)[k - 1]
    BY <1>3
  <2> QED  BY <2>1, <2>2, <2>3, <2>4
<1> HIDE DEF T
<1>4. \A k \in 0 .. n : k \in T
  BY <1>1, <1>2, <1>3, Upward
<1> QED  BY <1>4 DEF T, n

-----------------------------------------------------------------------------
(***************************************************************************)
(* Quotes: what the loop of Swap1 has got when it has passed some ticks.   *)
(***************************************************************************)

Part == [left : Nat, got : Nat]

\* One tick, sold into.
LEMMA TookSelling ==
  ASSUME NEW s \in Part, NEW t \in Tick
  PROVE  /\ Took(s, t, TRUE) \in Part
         /\ s.left = 0 => Took(s, t, TRUE) = s
         /\ s.left # 0 /\ s.left <= t.quantity =>
              /\ Took(s, t, TRUE).left = 0 /\ Took(s, t, TRUE).got = s.got + t.price * s.left
         /\ s.left > t.quantity =>
              /\ Took(s, t, TRUE).left = s.left - t.quantity
              /\ Took(s, t, TRUE).got = s.got + t.price * t.quantity
<1> DEFINE p == t.price
           x == t.quantity
           l == s.left
           g == s.got
           r == Took(s, t, TRUE)
<1>1. p \in Nat /\ x \in Nat /\ l \in Nat /\ g \in Nat
  BY DEF Tick, Part
<1>2. r = IF l = 0 THEN s
          ELSE IF l <= x THEN [left |-> 0, got |-> g + l * p]
          ELSE [left |-> l - x, got |-> g + p * x]
  BY DEF Took, Gets
<1> HIDE DEF p, x, l, g, r
<1>3. l * p = p * l /\ p * l \in Nat /\ p * x \in Nat
  BY <1>1
<1>4. /\ r \in Part
      /\ l = 0 => r = s
      /\ l # 0 /\ l <= x => r.left = 0 /\ r.got = g + p * l
      /\ l > x => r.left = l - x /\ r.got = g + p * x
  <2>1. CASE l = 0
    BY <1>1, <1>2, <2>1
  <2>2. CASE l # 0 /\ l <= x
    <3>1. r = [left |-> 0, got |-> g + p * l] /\ ~(l > x)
      BY <1>1, <1>2, <1>3, <2>2
    <3>2. r.left = 0 /\ r.got = g + p * l
      BY <3>1
    <3>3. r \in Part
      BY <1>1, <1>3, <3>1 DEF Part
    <3> QED  BY <2>2, <3>1, <3>2, <3>3
  <2>3. CASE l # 0 /\ ~(l <= x)
    <3>1. r = [left |-> l - x, got |-> g + p * x]
      BY <1>2, <2>3
    <3>2. r.left = l - x /\ r.got = g + p * x
      BY <3>1
    <3>3. r \in Part
      BY <1>1, <1>3, <2>3, <3>1 DEF Part
    <3> QED  BY <2>3, <3>2, <3>3
  <2> QED  BY <2>1, <2>2, <2>3
<1> QED  BY <1>4 DEF l, p, x, g, r

\* One tick, bought from.
LEMMA TookBuying ==
  ASSUME SerumAssumption, NEW s \in Part, NEW t \in Tick
  PROVE  /\ Took(s, t, FALSE) \in Part
         /\ s.left = 0 => Took(s, t, FALSE) = s
         /\ s.left # 0 /\ s.left <= t.price * t.quantity =>
              /\ t.price > 0 /\ Took(s, t, FALSE).left = 0
              /\ Took(s, t, FALSE).got = s.got + DivRound(s.left * Scale, t.price)
         /\ s.left > t.price * t.quantity =>
              /\ Took(s, t, FALSE).left = s.left - t.price * t.quantity
              /\ Took(s, t, FALSE).got = s.got + t.quantity * Scale
<1> DEFINE p == t.price
           x == t.quantity
           l == s.left
           g == s.got
           c == p * x
           e == DivRound(l * Scale, p)
           y == x * Scale
           r == Took(s, t, FALSE)
<1>1. p \in Nat /\ x \in Nat /\ l \in Nat /\ g \in Nat
  BY DEF Tick, Part
<1>2. r = IF l = 0 THEN s
          ELSE IF l <= c THEN [left |-> 0, got |-> g + e]
          ELSE [left |-> l - c, got |-> g + y]
  BY DEF Took, Gets
<1>3. c \in Nat /\ (c # 0 => p > 0) /\ Scale \in Nat \ {0} /\ y \in Nat
  <2>1. Scale \in Nat \ {0}
    BY Lots
  <2> HIDE DEF p, x
  <2>2. c \in Nat /\ (c # 0 => p > 0) /\ y \in Nat
    BY <1>1, <2>1
  <2> QED  BY <2>1, <2>2
<1> HIDE DEF p, x, l, g, c, r, y
<1>4. /\ r \in Part
      /\ l = 0 => r = s
      /\ l # 0 /\ l <= c => p > 0 /\ r.left = 0 /\ r.got = g + e
      /\ l > c => r.left = l - c /\ r.got = g + y
  <2>1. CASE l = 0
    BY <1>1, <1>2, <1>3, <2>1
  <2>2. CASE l # 0 /\ l <= c
    <3>1. p > 0 /\ ~(l > c)
      BY <1>1, <1>3, <2>2
    <3>2. e \in Nat
      <4>1. l * Scale \in Nat /\ p \in Nat \ {0}
        BY <1>1, <1>3, <3>1
      <4> QED  BY <4>1, Rounded
    <3> HIDE DEF e
    <3>3. r = [left |-> 0, got |-> g + e]
      BY <1>2, <2>2
    <3>4. r.left = 0 /\ r.got = g + e
      BY <3>3
    <3>5. r \in Part
      BY <1>1, <3>2, <3>3 DEF Part
    <3> QED  BY <2>2, <3>1, <3>4, <3>5
  <2>3. CASE l # 0 /\ ~(l <= c)
    <3>1. r = [left |-> l - c, got |-> g + y]
      BY <1>2, <2>3
    <3>2. r.left = l - c /\ r.got = g + y
      BY <3>1
    <3>3. r \in Part
      BY <1>1, <1>3, <2>3, <3>1 DEF Part
    <3> QED  BY <2>3, <3>2, <3>3
  <2> QED  BY <2>1, <2>2, <2>3
<1> QED  BY <1>4 DEF l, p, x, g, c, r, y

\* A function f is the loop of Swap1.
Swapping(f, side, selling, amount) ==
  /\ f \in [0 .. Depth -> Part]
  /\ f[0] = [left |-> IF selling THEN amount ELSE amount * Scale, got |-> 0]
  /\ \A k \in 1 .. Depth : f[k] = Took(f[k - 1], side[k], selling)
  /\ Swap1(side, selling, amount) = f[Depth].got \div Scale

\* The recursion of Swap1 has a function.
LEMMA SwapRecursion ==
  ASSUME SerumAssumption, NEW side \in Ticked, NEW selling \in BOOLEAN, NEW amount \in Nat
  PROVE  \E f : Swapping(f, side, selling, amount)
<1> DEFINE n == Depth
           z == [left |-> IF selling THEN amount ELSE amount * Scale, got |-> 0]
           Body(f, k) == IF k = 0 THEN z ELSE Took(f[k - 1], side[k], selling)
           step == [k \in 1 .. n |-> [s \in Part |-> Took(s, side[k], selling)]]
           first == CHOOSE f : f = [k \in 0 .. n |-> Body(f, k)]
<1>1. n \in Nat
  BY DEF SerumAssumption
<1>2. z \in Part
  <2>1. Scale \in Nat
    BY Lots
  <2> QED  BY <2>1 DEF Part
<1>3. ASSUME NEW k \in 1 .. n, NEW s \in Part PROVE Took(s, side[k], selling) \in Part
  <2>1. side[k] \in Tick
    BY DEF Ticked
  <2>2. CASE selling = TRUE   BY <2>1, <2>2, TookSelling
  <2>3. CASE selling = FALSE  BY <2>1, <2>3, TookBuying
  <2> QED  BY <2>2, <2>3
<1>4. step \in [1 .. n -> [Part -> Part]]
  <2> HIDE DEF n
  <2> QED  BY <1>3
<1> HIDE DEF z
<1>5. PICK f \in [0 .. n -> Part] : f[0] = z /\ \A k \in 1 .. n : f[k] = step[k][f[k - 1]]
  <2> HIDE DEF step, n
  <2>1. HasFunction(Part, n, z, step)
    BY <1>1, <1>2, <1>4, Recursion, Zenon
  <2> QED  BY <2>1, Zenon DEF HasFunction
<1>6. ASSUME NEW k \in 0 .. n PROVE f[k] = Body(f, k)
  <2>1. CASE k = 0
    BY <1>5, <2>1
  <2>2. CASE k # 0
    <3>1. k \in 1 .. n /\ k - 1 \in 0 .. n
      BY <2>2, <1>1
    <3>2. f[k - 1] \in Part /\ f[k] = step[k][f[k - 1]]
      BY <3>1, <1>5
    <3> QED  BY <2>2, <3>1, <3>2
  <2> QED  BY <2>1, <2>2
<1>7. f = [k \in 0 .. n |-> Body(f, k)]
  <2> HIDE DEF Body
  <2> QED  BY <1>5, <1>6
<1>8. first = [k \in 0 .. n |-> Body(first, k)]
  <2> HIDE DEF Body, n
  <2> QED  BY <1>7
<1>9. Swap1(side, selling, amount) = first[n].got \div Scale
  BY Zenon DEF Swap1, z
<1> HIDE DEF first
<1>10. ASSUME NEW k \in 0 .. n PROVE first[k] = Body(first, k)
  <2> HIDE DEF Body, n
  <2> QED  BY <1>8
<1> HIDE DEF n
<1>11. \A k \in 0 .. n : k \in {i \in 0 .. n : first[i] = f[i]}
  <2> DEFINE T == {k \in 0 .. n : first[k] = f[k]}
  <2>1. 0 \in T
    <3>1. 0 \in 0 .. n
      BY <1>1
    <3>2. first[0] = Body(first, 0)
      BY <1>10, <3>1
    <3> QED  BY <1>6, <3>1, <3>2
  <2>2. ASSUME NEW k \in 1 .. n, k - 1 \in T PROVE k \in T
    <3>1. k \in 0 .. n /\ k # 0 /\ first[k - 1] = f[k - 1]
      BY <2>2
    <3> QED  BY <1>6, <1>10, <3>1
  <2> HIDE DEF T
  <2> QED  BY <1>1, <2>1, <2>2, Upward DEF T
<1>12. first \in [0 .. n -> Part]
  <2>1. \A k \in 0 .. n : first[k] \in Part
    BY <1>5, <1>11
  <2> HIDE DEF Body
  <2> QED  BY <1>8, <2>1
<1>13. first[0] = z
  BY <1>1, <1>10
<1>14. ASSUME NEW k \in 1 .. n PROVE first[k] = Took(first[k - 1], side[k], selling)
  <2>1. k \in 0 .. n /\ k # 0
    OBVIOUS
  <2> QED  BY <1>10, <2>1
<1> QED  BY <1>9, <1>12, <1>13, <1>14 DEF Swapping, n, z

\* A side, as a sequence of ticks.
LEMMA SideIs ==
  ASSUME SerumAssumption, NEW side \in Ticked
  PROVE  side \in Seq(Tick) /\ Len(side) = Depth /\ Depth \in Nat /\ 1 \in 1 .. Depth
<1>1. Depth \in Nat \ {0} /\ side \in [1 .. Depth -> Tick]
  BY DEF SerumAssumption, Ticked
<1> QED  BY <1>1

\* What the sale of an amount gets is what the ticks pay for it.
LEMMA Sold ==
  ASSUME SerumAssumption, NEW side \in Ticked, NEW amount \in Nat
  PROVE  Swap1(side, TRUE, amount) = Paid(side, amount)[Depth] \div Scale
<1> DEFINE n == Len(side)
           h(k) == Held(side)[k]
           T(f) == {k \in 0 .. n : /\ f[k].got = Paid(side, amount)[k]
                                   /\ f[k].left = IF amount <= h(k) THEN 0 ELSE amount - h(k)}
<1>0. side \in Seq(Tick) /\ n = Depth /\ n \in Nat
  BY SideIs
<1>1. PICK f : Swapping(f, side, TRUE, amount)
  BY SwapRecursion, Zenon
<1>2. /\ f \in [0 .. n -> Part] /\ f[0] = [left |-> amount, got |-> 0]
      /\ \A k \in 1 .. n : f[k] = Took(f[k - 1], side[k], TRUE)
      /\ Swap1(side, TRUE, amount) = f[n].got \div Scale
  <2> HIDE DEF n
  <2> QED  BY <1>0, <1>1 DEF Swapping
<1> HIDE DEF n
<1>3. 0 \in T(f)
  <2>1. f[0].got = 0 /\ f[0].left = amount
    BY <1>2
  <2>2. h(0) = 0 /\ Paid(side, amount)[0] = 0
    BY <1>0, HeldIs, PaidIs
  <2>3. amount = IF amount <= h(0) THEN 0 ELSE amount - h(0)
    BY <2>2
  <2> QED  BY <1>0, <2>1, <2>2, <2>3
<1>4. ASSUME NEW k \in 1 .. n, k - 1 \in T(f) PROVE k \in T(f)
  <2> DEFINE s == f[k - 1]
             t == side[k]
             r == Took(s, t, TRUE)
             a == Held(side)[k - 1]
             b == Held(side)[k]
             fill == Filled(t, a, amount)
             p == Paid(side, amount)[k - 1]
  <2>1. k - 1 \in 0 .. n /\ k \in 0 .. n
    BY <1>0
  <2>2. s \in Part /\ f[k] = r
    BY <1>2, <2>1
  <2>3. /\ t \in Tick /\ t.price \in Nat /\ t.quantity \in Nat /\ a \in Nat /\ b = a + t.quantity
        /\ Paid(side, amount)[k] = p + t.price * fill /\ p \in Nat
    <3>1. side \in Seq(Tick) /\ k \in 1 .. Len(side)
      BY <1>0 DEF n
    <3> HIDE DEF t, a, b, fill, p
    <3>2. t \in Tick /\ t.price \in Nat /\ t.quantity \in Nat /\ a \in Nat /\ b = a + t.quantity
      <4>1. /\ Held(side)[k - 1] \in Nat /\ Held(side)[k] = Held(side)[k - 1] + side[k].quantity
            /\ side[k] \in Tick
        BY <3>1, TickAt, SMTT(30)
      <4> QED  BY <4>1 DEF t, a, b, Tick
    <3>3. Paid(side, amount)[k] = p + t.price * fill /\ p \in Nat
      <4>1. /\ Paid(side, amount)[k - 1] \in Nat
            /\ Paid(side, amount)[k] =
                 Paid(side, amount)[k - 1] + side[k].price * Filled(side[k], Held(side)[k - 1], amount)
        BY <3>1, TickAt, SMTT(30)
      <4> QED  BY <4>1 DEF t, p, a, fill
    <3> QED  BY <3>2, <3>3
  <2>4. /\ s.left = 0 => r = s
        /\ s.left # 0 /\ s.left <= t.quantity => r.left = 0 /\ r.got = s.got + t.price * s.left
        /\ s.left > t.quantity => /\ r.left = s.left - t.quantity
                                  /\ r.got = s.got + t.price * t.quantity
    BY <2>2, <2>3, TookSelling
  <2>5. /\ amount <= a => fill = 0
        /\ amount >= a + t.quantity => fill = t.quantity
        /\ a <= amount /\ amount <= a + t.quantity => fill = amount - a
    <3> HIDE DEF t, a, b, fill
    <3>1. t \in Tick /\ a \in Nat
      BY <2>3
    <3> QED  BY <3>1, FilledIs DEF fill
  <2>6. s.got = p /\ s.left = IF amount <= a THEN 0 ELSE amount - a
    BY <1>4
  <2> HIDE DEF s, t, r, a, b, fill, p
  <2>7. r.got = p + t.price * fill /\ r.left = IF amount <= b THEN 0 ELSE amount - b
    <3>1. CASE amount <= a
      <4>1. r = s /\ fill = 0 /\ amount <= b /\ s.left = 0
        BY <2>3, <2>4, <2>5, <2>6, <3>1
      <4> QED  BY <2>3, <2>6, <4>1
    <3>2. CASE ~(amount <= a) /\ amount <= a + t.quantity
      <4>1. s.left = amount - a /\ s.left # 0 /\ s.left <= t.quantity /\ fill = amount - a
        BY <2>3, <2>5, <2>6, <3>2
      <4> QED  BY <2>3, <2>4, <2>6, <3>2, <4>1
    <3>3. CASE ~(amount <= a) /\ ~(amount <= a + t.quantity)
      <4>1. s.left = amount - a /\ s.left > t.quantity /\ fill = t.quantity
        BY <2>3, <2>5, <2>6, <3>3
      <4> QED  BY <2>3, <2>4, <2>6, <3>3, <4>1
    <3> QED  BY <3>1, <3>2, <3>3
  <2> QED  BY <2>1, <2>2, <2>3, <2>7 DEF b
<1>5. n \in T(f)
  <2> DEFINE U == T(f)
  <2>1. 0 \in U /\ \A k \in 1 .. n : k - 1 \in U => k \in U
    BY <1>3, <1>4
  <2> HIDE DEF U
  <2>2. \A k \in 0 .. n : k \in U
    BY <1>0, <2>1, Upward
  <2>3. n \in U
    BY <1>0, <2>2
  <2> QED  BY <2>3 DEF U
<1> QED  BY <1>0, <1>2, <1>5

\* A number of tokens costs an amount, in parts, at most, or less than half a part of a token
\* more at the price of one of the first k ticks.
Pays(side, quantity, k, amount) ==
  \/ Paid(side, quantity)[k] <= amount
  \/ \E i \in 1 .. k : 2 * (Scale * Paid(side, quantity)[k]) <= 2 * (Scale * amount) + side[i].price

\* What has been bought for an amount, in parts, out of the first ticks: as many whole units
\* as it pays, and all there is if something is left.
Buys(side, amount, s, k) ==
  LET h == Held(side)[k]
      c == Spent(side)[k]
      g == s.got \div Scale
  IN /\ g \in 0 .. h /\ Pays(side, g, k, amount)
     /\ s.left # 0 => s.got = h * Scale /\ s.left = amount - c
     /\ s.left = 0 => amount <= c
     /\ s.left = 0 /\ g # h => Paid(side, g + 1)[k] > amount

\* What an amount pays up to one tick, it pays up to the next, if nothing more is paid there.
LEMMA PaysOn ==
  ASSUME NEW side, NEW g, NEW k \in Nat, NEW amount, Pays(side, g, k, amount),
         Paid(side, g)[k + 1] = Paid(side, g)[k]
  PROVE  Pays(side, g, k + 1, amount)
<1>1. CASE Paid(side, g)[k] <= amount
  BY <1>1 DEF Pays
<1>2. CASE ~(Paid(side, g)[k] <= amount)
  <2>1. PICK i \in 1 .. k : 2 * (Scale * Paid(side, g)[k]) <= 2 * (Scale * amount) + side[i].price
    BY <1>2 DEF Pays
  <2>2. i \in 1 .. k + 1
    BY <2>1
  <2> QED  BY <2>1, <2>2 DEF Pays
<1> QED  BY <1>1, <1>2

\* What an amount l, in parts, gets of a tick with x units at price p, r in parts: e units,
\* which cost half a part of a unit more at most, and no unit more.
LEMMA BuysHere ==
  ASSUME SerumAssumption, NEW l \in Nat, NEW p \in Nat \ {0}, NEW x \in Nat, l <= p * x
  PROVE  LET r == DivRound(l * Scale, p)
             e == r \div Scale
         IN /\ r \in Nat /\ e \in 0 .. x
            /\ 2 * (Scale * (p * e)) <= 2 * (Scale * l) + p
            /\ l < p * (e + 1)
<1> DEFINE s == Scale
           y == l * s
           r == DivRound(y, p)
           e == r \div s
<1>1. s \in Nat \ {0}
  BY Lots
<1> HIDE DEF s
<1>2. y \in Nat
  BY <1>1
<1>3. r \in Nat /\ 2 * (p * r) <= 2 * y + p /\ 2 * y < 2 * (p * r) + p
  BY <1>2, Rounded
<1> HIDE DEF r
<1>4. e \in Nat /\ s * e <= r /\ r < s * e + s
  BY <1>1, <1>3, Quotient
<1> HIDE DEF e
<1>5. p * (s * e) <= p * r
  <2>1. s * e \in Int
    BY <1>1, <1>4
  <2> QED  BY <1>3, <1>4, <2>1, TimesMore
<1>6. p * (s * e) = s * (p * e) /\ y = s * l /\ s * (p * e) \in Nat /\ s * l \in Nat /\ p * r \in Nat
  BY <1>1, <1>3, <1>4
<1>7. 2 * (s * (p * e)) <= 2 * (s * l) + p
  <2> HIDE DEF y
  <2> QED  BY <1>3, <1>5, <1>6
<1>8. e <= x
  <2> DEFINE z == s * x
  <2>1. z \in Nat /\ p * x \in Nat
    BY <1>1
  <2>2. s * l <= s * (p * x)
    BY <1>1, <2>1, TimesMore
  <2>3. s * (p * x) = p * z
    BY <1>1
  <2>4. p * z \in Nat
    BY <2>1
  <2> HIDE DEF z, y
  <2>5. p * r < p * z + p
    <3>1. 2 * (p * r) <= 2 * (p * z) + p
      BY <1>3, <1>6, <2>2, <2>3, <2>4
    <3> QED  BY <1>6, <2>4, <3>1
  <2>6. r <= z
    BY <1>3, <2>1, <2>5, Cancel
  <2>7. s * e < s * x + s
    <3>1. s * e \in Nat
      BY <1>1, <1>4
    <3> QED  BY <1>1, <1>3, <1>4, <2>1, <2>6, <3>1 DEF z
  <2> QED  BY <1>1, <1>4, <2>7, Cancel
<1>9. l < p * (e + 1)
  <2> SUFFICES ASSUME p * (e + 1) <= l PROVE FALSE
    BY <1>4
  <2> DEFINE z == s * (e + 1)
  <2>1. z \in Nat /\ z = s * e + s /\ p * (e + 1) \in Nat
    BY <1>1, <1>4
  <2>2. s * (p * (e + 1)) <= s * l
    BY <1>1, <2>1, TimesMore
  <2>3. s * (p * (e + 1)) = p * z
    BY <1>1, <1>4
  <2> HIDE DEF z, y
  <2>4. r + 1 <= z
    <3>1. s * e \in Nat
      BY <1>1, <1>4
    <3> QED  BY <1>1, <1>3, <1>4, <2>1, <3>1
  <2>5. p * (r + 1) <= p * z
    BY <1>3, <2>1, <2>4, TimesMore
  <2>6. p * (r + 1) = p * r + p
    BY <1>3
  <2>7. p * z \in Nat
    BY <2>1
  <2> QED  BY <1>3, <1>6, <2>2, <2>3, <2>5, <2>6, <2>7
<1> QED  BY <1>3, <1>4, <1>7, <1>8, <1>9 DEF s, y, r, e

\* What more has been bought with one tick more.
LEMMA BuysNext ==
  ASSUME SerumAssumption, NEW side \in Seq(Tick), NEW amount \in Nat, NEW k \in 1 .. Len(side),
         NEW s \in Part, Buys(side, amount, s, k - 1)
  PROVE  /\ Buys(side, amount, Took(s, side[k], FALSE), k)
         /\ s.got <= Took(s, side[k], FALSE).got
<1> DEFINE t == side[k]
           r == Took(s, t, FALSE)
           p == t.price
           x == t.quantity
           a == Held(side)[k - 1]
           b == Held(side)[k]
           c == Spent(side)[k - 1]
           d == Spent(side)[k]
           l == s.left
           g == s.got \div Scale
           n == r.got \div Scale
           before(q) == Paid(side, q)[k - 1]
           after(q) == Paid(side, q)[k]
<1>0. Scale \in Nat \ {0}
  BY Lots
<1>1. l \in Nat /\ s.got \in Nat /\ g \in Nat
  <2>1. l \in Nat /\ s.got \in Nat
    BY DEF Part
  <2> QED  BY <1>0, <2>1, Quotient
<1>2. /\ t \in Tick /\ p \in Nat /\ x \in Nat /\ (x > 0 => p > 0) /\ a \in Nat /\ b = a + x
      /\ c \in Nat /\ d = c + p * x
  BY TickAt
<1>3. ASSUME NEW q \in Nat
      PROVE  /\ before(q) \in Nat /\ after(q) \in Nat
             /\ q <= a => after(q) = before(q)
             /\ q >= a => before(q) = c
             /\ q >= a /\ q <= b => after(q) = c + p * (q - a)
  <2> DEFINE f == Filled(t, a, q)
  <2>1. before(q) \in Nat /\ after(q) \in Nat /\ after(q) = before(q) + p * f
    <3>1. before(q) \in Nat /\ after(q) \in Nat
      BY TickAt
    <3>2. after(q) = before(q) + p * f
      BY TickAt
    <3> QED  BY <3>1, <3>2
  <2>2. (q <= a => f = 0) /\ (a <= q /\ q <= a + x => f = q - a)
    <3> HIDE DEF t, a, p, b, c, d, l, g, n, r, before, after
    <3>1. q <= a => f = 0
      BY <1>2, FilledIs
    <3>2. a <= q /\ q <= a + x => f = q - a
      BY <1>2, FilledIs
    <3> QED  BY <3>1, <3>2
  <2>3. q >= a => before(q) = c
    <3>1. k - 1 \in 0 .. Len(side)
      OBVIOUS
    <3> QED  BY <3>1, PaidFull
  <2> HIDE DEF f, before, after, t, a, c, p, x, b
  <2>4. q <= a => after(q) = before(q)
    BY <1>2, <2>1, <2>2
  <2>5. q >= a /\ q <= b => after(q) = c + p * (q - a)
    BY <1>2, <2>1, <2>2, <2>3
  <2> QED  BY <2>1, <2>3, <2>4, <2>5
<1>4. /\ r \in Part
      /\ l = 0 => r = s
      /\ l # 0 /\ l <= p * x => p > 0 /\ r.left = 0 /\ r.got = s.got + DivRound(l * Scale, p)
      /\ l > p * x => r.left = l - p * x /\ r.got = s.got + x * Scale
  <2> HIDE DEF t
  <2>1. r \in Part /\ (l = 0 => r = s)
    BY <1>2, TookBuying
  <2>2. l # 0 /\ l <= p * x => p > 0 /\ r.left = 0 /\ r.got = s.got + DivRound(l * Scale, p)
    BY <1>2, TookBuying
  <2>3. l > p * x => r.left = l - p * x /\ r.got = s.got + x * Scale
    BY <1>2, TookBuying
  <2> QED  BY <2>1, <2>2, <2>3
<1>5. /\ g \in 0 .. a /\ Pays(side, g, k - 1, amount)
      /\ l # 0 => s.got = a * Scale /\ l = amount - c
      /\ l = 0 => amount <= c
      /\ l = 0 /\ g # a => before(g + 1) > amount
  BY Zenon DEF Buys
<1>6. Buys(side, amount, r, k) <=>
        /\ n \in 0 .. b /\ Pays(side, n, k, amount)
        /\ r.left # 0 => r.got = b * Scale /\ r.left = amount - d
        /\ r.left = 0 => amount <= d
        /\ r.left = 0 /\ n # b => after(n + 1) > amount
  BY Zenon DEF Buys
<1>7. p * x \in Nat
  BY <1>2
<1>8. ASSUME NEW q \in Nat, after(q) = before(q), Pays(side, q, k - 1, amount)
      PROVE  Pays(side, q, k, amount)
  <2>1. k - 1 \in Nat /\ (k - 1) + 1 = k
    OBVIOUS
  <2>2. Paid(side, q)[(k - 1) + 1] = Paid(side, q)[k - 1]
    BY <1>8, <2>1
  <2> HIDE DEF before, after
  <2>3. Pays(side, q, (k - 1) + 1, amount)
    BY <1>8, <2>1, <2>2, PaysOn
  <2> QED  BY <2>1, <2>3
<1>9. /\ \A q : after(q) <= amount => Pays(side, q, k, amount)
      /\ \A q : 2 * (Scale * after(q)) <= 2 * (Scale * amount) + p => Pays(side, q, k, amount)
  <2>1. k \in 1 .. k
    OBVIOUS
  <2> QED  BY <2>1 DEF Pays
<1> HIDE DEF t, r, p, x, a, b, c, d, l, g, n, before, after
<1>10. CASE l = 0
  <2>1. r = s /\ r.left = 0 /\ n = g
    BY <1>4, <1>10 DEF l, n, g
  <2>2. g \in 0 .. b /\ Pays(side, g, k, amount)
    <3>1. after(g) = before(g) /\ g \in 0 .. b
      BY <1>1, <1>2, <1>3, <1>5
    <3> QED  BY <1>1, <1>5, <1>8, <3>1
  <2>3. amount <= d
    BY <1>2, <1>5, <1>7, <1>10
  <2>4. g # b => after(g + 1) > amount
    <3> SUFFICES ASSUME g # b PROVE after(g + 1) > amount
      OBVIOUS
    <3>1. CASE g = a
      <4>1. g + 1 \in Nat /\ g + 1 >= a /\ g + 1 <= b /\ (g + 1) - a = 1 /\ p > 0
        BY <1>1, <1>2, <2>2, <3>1
      <4>2. after(g + 1) = c + p * ((g + 1) - a)
        BY <1>3, <4>1
      <4>3. after(g + 1) = c + p
        BY <1>2, <4>1, <4>2
      <4> QED  BY <1>2, <1>5, <1>10, <4>1, <4>3
    <3>2. CASE g # a
      <4>1. g + 1 \in Nat /\ g + 1 <= a
        BY <1>1, <1>2, <1>5, <3>2
      <4>2. after(g + 1) = before(g + 1)
        BY <1>3, <4>1
      <4> QED  BY <1>5, <1>10, <3>2, <4>2
    <3> QED  BY <3>1, <3>2
  <2>5. s.got <= r.got
    BY <1>1, <2>1
  <2> QED  BY <1>6, <2>1, <2>2, <2>3, <2>4, <2>5 DEF r, t
<1>11. CASE l # 0 /\ l <= p * x
  <2> DEFINE y == DivRound(l * Scale, p)
             e == y \div Scale
  <2>0. p \in Nat \ {0} /\ r.left = 0 /\ r.got = s.got + y /\ s.got = a * Scale /\ l = amount - c
    BY <1>2, <1>4, <1>5, <1>11
  <2>1. /\ y \in Nat /\ e \in 0 .. x
        /\ 2 * (Scale * (p * e)) <= 2 * (Scale * l) + p /\ l < p * (e + 1)
    BY <1>1, <1>2, <1>11, <2>0, BuysHere
  <2> HIDE DEF y
  <2>2. n = a + e
    <3>1. a \in Nat /\ y \in Nat
      BY <1>2, <2>1
    <3>2. (a * Scale + y) \div Scale = a + y \div Scale
      BY ONLY <1>0, <3>1, QuotientOfSum
    <3> QED  BY <2>0, <3>2 DEF n
  <2> HIDE DEF e
  <2>3. n \in 0 .. b /\ n \in Nat /\ n >= a /\ n - a = e /\ e \in Nat
    BY <1>2, <2>1, <2>2
  <2>4. after(n) = c + p * e
    <3>1. n <= b
      BY <2>3
    <3>2. after(n) = c + p * (n - a)
      BY <1>3, <2>3, <3>1
    <3> QED  BY <2>3, <3>2
  <2>5. p * e \in Nat
    BY <1>2, <2>3
  <2>6. Pays(side, n, k, amount)
    <3> DEFINE w == p * e
    <3>1. w \in Nat /\ amount = c + l
      BY <1>1, <1>2, <2>0, <2>5
    <3> HIDE DEF w
    <3>2. Scale * (c + w) = Scale * c + Scale * w /\ Scale * (c + l) = Scale * c + Scale * l
      BY <1>0, <1>1, <1>2, <3>1
    <3>3. Scale * c \in Nat /\ Scale * w \in Nat /\ Scale * l \in Nat
      BY <1>0, <1>1, <1>2, <3>1
    <3>4. 2 * (Scale * w) <= 2 * (Scale * l) + p
      BY <2>1 DEF w
    <3>5. 2 * (Scale * (c + w)) <= 2 * (Scale * (c + l)) + p
      <4> DEFINE u == Scale * c
                 v == Scale * w
                 z == Scale * l
      <4>1. u \in Nat /\ v \in Nat /\ z \in Nat /\ p \in Nat /\ 2 * v <= 2 * z + p
        BY <1>2, <3>3, <3>4
      <4>2. Scale * (c + w) = u + v /\ Scale * (c + l) = u + z
        BY <3>2
      <4> HIDE DEF u, v, z
      <4>3. 2 * (u + v) <= 2 * (u + z) + p
        BY <4>1
      <4> QED  BY <4>2, <4>3
    <3>6. 2 * (Scale * after(n)) <= 2 * (Scale * amount) + p
      BY <2>4, <3>1, <3>5 DEF w
    <3> QED  BY <1>9, <3>6
  <2>7. amount <= d
    BY <1>1, <1>2, <1>7, <1>11, <2>0
  <2>8. n # b => after(n + 1) > amount
    <3> SUFFICES ASSUME n # b PROVE after(n + 1) > amount
      OBVIOUS
    <3>1. n + 1 \in Nat /\ n + 1 >= a /\ n + 1 <= b /\ (n + 1) - a = e + 1
      <4>1. a \in Nat /\ b \in Nat /\ e \in Nat
        BY <1>2, <2>3
      <4>2. n \in 0 .. b /\ n >= a /\ n - a = e
        BY <2>3
      <4> QED  BY ONLY <4>1, <4>2, n # b
    <3>2. after(n + 1) = c + p * ((n + 1) - a)
      BY <1>3, <3>1
    <3>3. p * (e + 1) \in Nat
      BY <1>2, <2>3
    <3>4. after(n + 1) = c + p * (e + 1)
      BY <3>1, <3>2
    <3> DEFINE w == p * (e + 1)
    <3>5. w \in Nat /\ l < w
      BY <2>1, <3>3
    <3> HIDE DEF w
    <3>6. c + w > amount
      BY <1>1, <1>2, <2>0, <3>5
    <3> QED  BY <3>4, <3>6 DEF w
  <2>9. s.got <= r.got
    BY <1>1, <2>0, <2>1
  <2> QED  BY <1>6, <2>0, <2>3, <2>6, <2>7, <2>8, <2>9 DEF r, t
<1>12. CASE l > p * x
  <2>1. r.left = l - p * x /\ r.got = s.got + x * Scale /\ l # 0
    BY <1>1, <1>4, <1>7, <1>12
  <2>2. s.got = a * Scale /\ l = amount - c
    BY <1>5, <2>1
  <2>3. x * Scale \in Nat /\ a * Scale + x * Scale = b * Scale
    BY <1>0, <1>2
  <2>4. r.got = b * Scale /\ r.left = amount - d /\ r.left # 0 /\ b \in Nat /\ d <= amount
    BY <1>1, <1>2, <1>7, <1>12, <2>1, <2>2, <2>3
  <2>5. after(b) = d
    <3>1. b \in Nat /\ b >= a /\ b <= b /\ b - a = x
      BY <1>2
    <3>2. after(b) = c + p * (b - a)
      BY <1>3, <3>1
    <3> QED  BY <1>2, <3>1, <3>2
  <2>6. n = b
    BY <1>0, <2>4, WholeQuotient DEF n
  <2>7. n \in 0 .. b /\ s.got <= r.got /\ Pays(side, n, k, amount)
    BY <1>1, <1>9, <2>1, <2>3, <2>4, <2>5, <2>6
  <2> QED  BY <1>6, <2>4, <2>6, <2>7 DEF r, t
<1>13. l = 0 \/ (l # 0 /\ l <= p * x) \/ l > p * x
  BY <1>1, <1>7
<1> QED  BY <1>10, <1>11, <1>12, <1>13

\* The loop of Swap1, buying: it buys what the amount pays, it never gives back, and it stops
\* when nothing is left.
Purchasing(f, side, amount) ==
  /\ f \in [0 .. Depth -> Part] /\ Swap1(side, FALSE, amount) = f[Depth].got \div Scale
  /\ \A k \in 0 .. Depth : Buys(side, amount * Scale, f[k], k)
  /\ \A i, j \in 0 .. Depth : i <= j => f[i].got <= f[j].got
  /\ \A i, j \in 0 .. Depth : i <= j /\ f[i].left = 0 => f[j].got = f[i].got

\* The loop of Swap1 for a purchase, tick by tick.
LEMMA PurchaseIs ==
  ASSUME SerumAssumption, NEW side \in Ticked, NEW amount \in Nat
  PROVE  \E f : Purchasing(f, side, amount)
<1> DEFINE n == Len(side)
           whole == amount * Scale
<1>0. side \in Seq(Tick) /\ n = Depth /\ n \in Nat
  BY SideIs
<1>01. Scale \in Nat \ {0} /\ whole \in Nat
  <2>1. Scale \in Nat \ {0}
    BY Lots
  <2> QED  BY <2>1
<1>1. PICK f : Swapping(f, side, FALSE, amount)
  BY SwapRecursion, Zenon
<1>2. /\ f \in [0 .. n -> Part] /\ f[0] = [left |-> amount * Scale, got |-> 0]
      /\ \A k \in 1 .. n : f[k] = Took(f[k - 1], side[k], FALSE)
      /\ Swap1(side, FALSE, amount) = f[n].got \div Scale
  <2> HIDE DEF n
  <2> QED  BY <1>0, <1>1 DEF Swapping
<1> DEFINE T == {k \in 0 .. n : Buys(side, whole, f[k], k)}
<1>3. 0 \in T
  <2>1. f[0].got = 0 /\ f[0].left = whole
    BY <1>2
  <2>2. Held(side)[0] = 0 /\ Spent(side)[0] = 0 /\ Paid(side, 0)[0] = 0
    BY <1>0, HeldIs, PaidIs
  <2>3. Buys(side, whole, f[0], 0)
    <3>1. 0 \div Scale = 0
      <4>1. 0 * Scale = 0 /\ 0 \in Nat
        BY <1>01
      <4>2. (0 * Scale) \div Scale = 0
        BY <1>01, <4>1, WholeQuotient
      <4> QED  BY <4>1, <4>2
    <3> HIDE DEF whole
    <3>2. Pays(side, 0, 0, whole)
      BY <1>01, <2>2 DEF Pays
    <3>3. f[0].left # 0 => f[0].got = 0 * Scale /\ f[0].left = whole - 0
      BY <1>01, <2>1
    <3>4. f[0].left = 0 => whole <= 0
      BY <2>1
    <3> QED  BY <2>1, <2>2, <3>1, <3>2, <3>3, <3>4 DEF Buys
  <2> QED  BY <1>0, <2>3
<1>4. ASSUME NEW k \in 1 .. n
      PROVE  f[k - 1] \in Part /\ f[k] = Took(f[k - 1], side[k], FALSE) /\ k \in 0 .. n /\ k - 1 \in 0 .. n
  <2> HIDE DEF n
  <2>1. k \in 0 .. n /\ k - 1 \in 0 .. n
    BY <1>0
  <2> QED  BY <1>2, <2>1
<1>5. ASSUME NEW k \in 1 .. n, k - 1 \in T PROVE k \in T
  <2>1. Buys(side, whole, f[k - 1], k - 1)
    BY <1>5
  <2>2. Buys(side, whole, Took(f[k - 1], side[k], FALSE), k)
    BY <1>0, <1>01, <1>4, <2>1, BuysNext
  <2> QED  BY <1>4, <2>2
<1>6. \A k \in 0 .. n : k \in T
  <2> HIDE DEF T, n
  <2> QED  BY <1>0, <1>3, <1>5, Upward
<1>7. ASSUME NEW k \in 1 .. n
      PROVE  f[k - 1].got <= f[k].got /\ (f[k - 1].left = 0 => f[k] = f[k - 1])
  <2>1. Buys(side, whole, f[k - 1], k - 1)
    BY <1>4, <1>6
  <2>2. /\ f[k - 1].got <= Took(f[k - 1], side[k], FALSE).got
        /\ f[k - 1].left = 0 => Took(f[k - 1], side[k], FALSE) = f[k - 1]
    <3> DEFINE s == f[k - 1]
    <3>1. side \in Seq(Tick) /\ k \in 1 .. Len(side) /\ s \in Part /\ Buys(side, whole, s, k - 1)
      BY <1>0, <1>4, <2>1
    <3> HIDE DEF s, n, T
    <3>2. s.got <= Took(s, side[k], FALSE).got
      BY <1>01, <3>1, BuysNext
    <3>3. s.left = 0 => Took(s, side[k], FALSE) = s
      <4>1. side[k] \in Tick
        BY <3>1
      <4> QED  BY <3>1, <4>1, TookBuying
    <3> QED  BY <3>2, <3>3 DEF s
  <2> QED  BY <1>4, <2>2
<1> HIDE DEF n, whole
<1>8. \A i, j \in 0 .. n : i <= j => f[i].got <= f[j].got
  <2> DEFINE g == [k \in 0 .. n |-> f[k].got]
  <2>1. \A k \in 0 .. n : f[k].got \in Nat
    BY <1>2 DEF Part
  <2>2. g \in [0 .. n -> Nat] /\ \A k \in 0 .. n : g[k] = f[k].got
    BY <2>1
  <2>3. \A k \in 1 .. n : g[k - 1] <= g[k]
    BY <1>4, <1>7, <2>2
  <2> HIDE DEF g
  <2>4. \A i, j \in 0 .. n : i <= j => g[i] <= g[j]
    BY <1>0, <2>2, <2>3, Rising
  <2> QED  BY <2>2, <2>4
<1>9. ASSUME NEW i \in 0 .. n, f[i].left = 0 PROVE \A j \in 0 .. n : i <= j => f[j].got = f[i].got
  <2> DEFINE U == {j \in 0 .. n : i <= j => f[j] = f[i]}
  <2>1. 0 \in U
    BY <1>0
  <2>2. ASSUME NEW k \in 1 .. n, k - 1 \in U PROVE k \in U
    <3>1. k \in 0 .. n
      OBVIOUS
    <3>2. CASE i = k
      BY <3>1, <3>2
    <3>3. CASE i # k
      <4>1. i <= k => f[k - 1] = f[i]
        BY <2>2, <3>3
      <4>2. i <= k => f[k] = f[i]
        BY <1>7, <1>9, <4>1
      <4> QED  BY <3>1, <4>2
    <3> QED  BY <3>2, <3>3
  <2> HIDE DEF U
  <2>3. \A j \in 0 .. n : j \in U
    BY <1>0, <2>1, <2>2, Upward
  <2> QED  BY <2>3 DEF U
<1>10. \A i, j \in 0 .. n : i <= j /\ f[i].left = 0 => f[j].got = f[i].got
  BY <1>9
<1>11. \A k \in 0 .. n : Buys(side, whole, f[k], k)
  BY <1>6
<1> HIDE DEF T
<1>12. /\ f \in [0 .. Depth -> Part] /\ Swap1(side, FALSE, amount) = f[Depth].got \div Scale
       /\ \A k \in 0 .. Depth : Buys(side, whole, f[k], k)
  BY <1>0, <1>2, <1>11
<1>13. /\ \A i, j \in 0 .. Depth : i <= j => f[i].got <= f[j].got
       /\ \A i, j \in 0 .. Depth : i <= j /\ f[i].left = 0 => f[j].got = f[i].got
  BY <1>0, <1>8, <1>10
<1> QED  BY <1>12, <1>13 DEF Purchasing, whole

\* The first ticks are the best orders, as far as there are any.
Starts(side, t) ==
  /\ t \in Seq(Tick) /\ Len(t) \in 0 .. Depth /\ \A i \in 1 .. Len(t) : side[i] = t[i]
  /\ side[1].quantity = 0 => t = <<>>

\* The first Depth orders, one by one.
LEMMA FirstAre ==
  ASSUME SerumAssumption, NEW best \in Seq(Order)
  PROVE  /\ Top(best) \in Seq(Order) /\ Len(Top(best)) \in 0 .. Depth /\ Len(Top(best)) <= Len(best)
         /\ \A i \in 1 .. Len(Top(best)) : Top(best)[i] = best[i]
         /\ best # <<>> => Top(best) # <<>>
<1> DEFINE t == Top(best)
           n == IF Len(best) > Depth THEN Depth ELSE Len(best)
<1>1. Depth \in Nat \ {0} /\ Len(best) \in Nat /\ DOMAIN best = 1 .. Len(best)
  <2>1. Depth \in Nat \ {0}
    BY DEF SerumAssumption
  <2> QED  BY <2>1
<1>2. t \in Seq(Order) /\ Len(t) = n /\ \A i \in 1 .. n : t[i] = best[i]
  <2>1. CASE Len(best) > Depth
    <3>1. t = SubSeq(best, 1, Depth) /\ n = Depth
      BY <2>1 DEF Top
    <3>2. Depth \in 1 .. Len(best)
      BY <1>1, <2>1
    <3>3. \A i \in 1 .. Depth : best[i] \in Order
      BY <1>1, <3>2
    <3>4. /\ SubSeq(best, 1, Depth) \in Seq(Order)
          /\ Len(SubSeq(best, 1, Depth)) = (IF 1 <= Depth THEN Depth - 1 + 1 ELSE 0)
          /\ \A i \in 1 .. Depth - 1 + 1 : SubSeq(best, 1, Depth)[i] = best[1 + i - 1]
      <4>1. 1 \in Int /\ Depth \in Int
        BY <1>1
      <4> QED  BY <3>3, <4>1, SubSeqProperties
    <3> HIDE DEF t, n
    <3>5. t \in Seq(Order)
      BY <3>1, <3>4
    <3>6. Len(t) = n
      BY <1>1, <3>1, <3>4
    <3>7. \A i \in 1 .. n : t[i] = best[i]
      <4> SUFFICES ASSUME NEW i \in 1 .. n PROVE t[i] = best[i]
        OBVIOUS
      <4>1. i \in 1 .. Depth - 1 + 1 /\ 1 + i - 1 = i
        BY <1>1, <3>1
      <4>2. SubSeq(best, 1, Depth)[i] = best[1 + i - 1]
        BY <3>4, <4>1
      <4> QED  BY <3>1, <4>1, <4>2
    <3> QED  BY <3>5, <3>6, <3>7
  <2>2. CASE ~(Len(best) > Depth)
    <3>1. t = best /\ n = Len(best)
      BY <2>2 DEF Top
    <3> QED  BY <1>1, <3>1
  <2> QED  BY <2>1, <2>2
<1> HIDE DEF t
<1>3. n \in 0 .. Depth /\ n <= Len(best) /\ (best # <<>> => n # 0)
  BY <1>1
<1> HIDE DEF n
<1>4. best # <<>> => t # <<>>
  BY <1>2, <1>3
<1> QED  BY <1>2, <1>3, <1>4 DEF t

\* A side that starts with the best orders has the first Depth of them.
LEMMA TopStarts ==
  ASSUME SerumAssumption, NEW side \in Ticked, NEW best \in Seq(Order), StartsWith(side, Ticks(best))
  PROVE  Starts(side, Ticks(Top(best)))
<1> DEFINE o == Top(best)
           t == Ticks(o)
           n == Len(o)
<1>0. Depth \in Nat \ {0} /\ Len(best) \in Nat
  BY DEF SerumAssumption
<1>1. o \in Seq(Order) /\ n \in 0 .. Depth /\ n <= Len(best) /\ \A i \in 1 .. n : o[i] = best[i]
  BY FirstAre
<1> HIDE DEF o
<1>2. /\ t \in Seq(Positive) /\ Len(t) = n /\ n \in Nat /\ \A i \in 1 .. n : t[i] = TickOf(o[i])
  BY <1>1, TicksAre
<1>3. /\ DOMAIN Ticks(best) = 1 .. Len(best)
      /\ \A i \in 1 .. Len(best) : Ticks(best)[i] = TickOf(best[i])
  BY TicksAre
<1> HIDE DEF t, n
<1>4. \A i \in 1 .. n : side[i] = t[i]
  <2> SUFFICES ASSUME NEW i \in 1 .. n PROVE side[i] = t[i]
    OBVIOUS
  <2>1. i \in 1 .. Depth /\ i \in 1 .. Len(best)
    BY <1>0, <1>1
  <2>2. side[i] = Ticks(best)[i]
    BY <1>3, <2>1 DEF StartsWith
  <2> QED  BY <1>1, <1>2, <1>3, <2>1, <2>2
<1>5. side[1].quantity = 0 => t = <<>>
  <2> SUFFICES ASSUME t # <<>> PROVE side[1].quantity # 0
    OBVIOUS
  <2>1. n # 0
    BY <1>2
  <2>2. 1 \in 1 .. n
    BY <1>1, <2>1
  <2>3. side[1] = t[1] /\ t[1] \in Positive
    BY <1>2, <1>4, <2>2
  <2> QED  BY <2>3 DEF Positive, Tick
<1>6. t \in Seq(Tick)
  BY <1>2 DEF Positive
<1>7. Starts(side, t)
  BY <1>1, <1>2, <1>4, <1>5, <1>6 DEF Starts
<1> QED  BY <1>7 DEF t, o

-----------------------------------------------------------------------------
(***************************************************************************)
(* The exchange: what it counts is what the ticks give, but for rounding.  *)
(***************************************************************************)

\* The orders as the exchange counts, one by one.
LEMMA ExactlyAre ==
  ASSUME SerumAssumption, NEW s \in Seq(Order)
  PROVE  /\ Exactly(s) \in Seq(Tick) /\ Len(Exactly(s)) = Len(s)
         /\ \A i \in 1 .. Len(s) : /\ Exactly(s)[i].price = s[i].price * QuoteLotSize
                                   /\ Exactly(s)[i].quantity = Ticks(s)[i].quantity
<1> DEFINE n == Len(s)
           x == [i \in 1 .. n |-> [price |-> s[i].price * QuoteLotSize,
                                   quantity |-> BaseSizeLotsToNumber(s[i].quantity)]]
<1>1. n \in Nat /\ DOMAIN s = 1 .. n /\ \A i \in 1 .. n : s[i] \in Order
  OBVIOUS
<1>2. Exactly(s) = x
  BY <1>1 DEF Exactly
<1>3. \A i \in 1 .. n : Ticks(s)[i] = TickOf(s[i])
  BY TicksAre
<1> HIDE DEF n
<1>4. ASSUME NEW i \in 1 .. n
      PROVE  /\ x[i] \in Tick /\ x[i].price = s[i].price * QuoteLotSize
             /\ x[i].quantity = Ticks(s)[i].quantity
  <2> DEFINE p == s[i].price
             q == BaseSizeLotsToNumber(s[i].quantity)
             e == p * QuoteLotSize
  <2>1. p \in Nat \ {0} /\ QuoteLotSize \in Nat \ {0}
    BY <1>1, Lots DEF Order
  <2>2. TickOf(s[i]) \in Positive /\ TickOf(s[i]).quantity = q
    <3>1. TickOf(s[i]) \in Positive
      BY <1>1, TickIs
    <3> QED  BY <3>1 DEF TickOf
  <2>3. q \in Nat
    BY <2>2 DEF Positive, Tick
  <2>4. x[i] = [price |-> e, quantity |-> q]
    OBVIOUS
  <2> HIDE DEF p, q, x
  <2>5. e \in Nat /\ e > 0
    BY ONLY <2>1
  <2> HIDE DEF e
  <2>6. x[i] \in Tick /\ x[i].price = e /\ x[i].quantity = q
    BY <2>3, <2>4, <2>5 DEF Tick
  <2> QED  BY <1>3, <2>2, <2>6 DEF e, p
<1>5. x \in Seq(Tick) /\ Len(x) = n
  <2>1. x \in [1 .. n -> Tick]
    BY <1>4
  <2> HIDE DEF x
  <2> QED  BY <1>1, <2>1
<1> QED  BY <1>2, <1>4, <1>5 DEF n

\* Up to each tick there is as much as of the orders.
LEMMA ExactlyHeld ==
  ASSUME SerumAssumption, NEW s \in Seq(Order)
  PROVE  \A k \in 0 .. Len(s) : Held(Exactly(s))[k] = Held(Ticks(s))[k]
<1> DEFINE n == Len(s)
           e == Exactly(s)
           w == Ticks(s)
           T == {k \in 0 .. n : Held(e)[k] = Held(w)[k]}
<1>1. /\ n \in Nat /\ e \in Seq(Tick) /\ Len(e) = n /\ w \in Seq(Tick) /\ Len(w) = n
      /\ \A k \in 1 .. n : e[k].quantity = w[k].quantity
  <2>1. w \in Seq(Positive) /\ Len(w) = n
    BY TicksAre
  <2>2. w \in Seq(Tick)
    BY <2>1 DEF Positive
  <2> QED  BY <2>1, <2>2, ExactlyAre
<1> HIDE DEF e, w, n
<1>2. 0 \in T
  BY <1>1, HeldIs
<1>3. ASSUME NEW k \in 1 .. n, k - 1 \in T PROVE k \in T
  <2>1. Held(e)[k] = Held(e)[k - 1] + e[k].quantity /\ Held(w)[k] = Held(w)[k - 1] + w[k].quantity
    BY <1>1, HeldIs
  <2> QED  BY <1>1, <1>3, <2>1
<1> HIDE DEF T
<1>4. \A k \in 0 .. n : k \in T
  BY <1>1, <1>2, <1>3, Upward
<1> QED  BY <1>4 DEF T, n, e, w

\* Of a quantity, what the first k ticks can take.
Taken(s, q, k) == IF q <= Held(s)[k] THEN q ELSE Held(s)[k]

\* One tick more, of naturals: a price p, half a part away from e exactly, for f units.
LEMMA NearNext ==
  ASSUME NEW b \in Nat, NEW s \in Nat, NEW p \in Nat, NEW e \in Nat, NEW f \in Nat,
         NEW paid \in Nat, NEW exact \in Nat, NEW taken \in Nat,
         2 * (b * p) <= 2 * (e * s) + b, 2 * (e * s) <= 2 * (b * p) + b,
         2 * (b * paid) <= 2 * (s * exact) + b * taken,
         2 * (s * exact) <= 2 * (b * paid) + b * taken
  PROVE  /\ 2 * (b * (paid + p * f)) <= 2 * (s * (exact + e * f)) + b * (taken + f)
         /\ 2 * (s * (exact + e * f)) <= 2 * (b * (paid + p * f)) + b * (taken + f)
<1> DEFINE x == b * p
           y == e * s
           fx == f * x
           fy == f * y
           fb == f * b
           u == b * paid
           v == s * exact
           z == b * taken
<1>1. x \in Nat /\ y \in Nat /\ u \in Nat /\ v \in Nat /\ z \in Nat /\ fb \in Nat
  OBVIOUS
<1>2. b * (paid + p * f) = u + fx /\ s * (exact + e * f) = v + fy /\ b * (taken + f) = z + fb
  OBVIOUS
<1> HIDE DEF x, y, u, v, z
<1>3. f * (2 * x) <= f * (2 * y + b) /\ f * (2 * y) <= f * (2 * x + b)
  <2>1. 2 * x \in Int /\ 2 * y \in Int /\ 2 * y + b \in Int /\ 2 * x + b \in Int
        /\ 2 * x <= 2 * y + b /\ 2 * y <= 2 * x + b
    BY <1>1 DEF x, y
  <2> QED  BY <2>1, TimesMore
<1>4. f * (2 * x) = 2 * fx /\ f * (2 * y) = 2 * fy /\ f * (2 * y + b) = 2 * fy + fb
      /\ f * (2 * x + b) = 2 * fx + fb /\ fx \in Nat /\ fy \in Nat
  BY <1>1
<1> HIDE DEF fx, fy, fb
<1>5. 2 * fx <= 2 * fy + fb /\ 2 * fy <= 2 * fx + fb
  BY <1>3, <1>4
<1>6. 2 * u <= 2 * v + z /\ 2 * v <= 2 * u + z
  BY DEF u, v, z
<1>7. 2 * (u + fx) <= 2 * (v + fy) + (z + fb) /\ 2 * (v + fy) <= 2 * (u + fx) + (z + fb)
  BY <1>1, <1>4, <1>5, <1>6
<1> QED  BY <1>2, <1>7

\* Up to each tick, what is paid is near what the exchange counts.
LEMMA NearPaid ==
  ASSUME SerumAssumption, NEW s \in Seq(Order), NEW q \in Nat
  PROVE  \A k \in 0 .. Len(s) :
           /\ 2 * (BaseLotSize * Paid(Ticks(s), q)[k])
                <= 2 * (Scale * Paid(Exactly(s), q)[k]) + BaseLotSize * Taken(Exactly(s), q, k)
           /\ 2 * (Scale * Paid(Exactly(s), q)[k])
                <= 2 * (BaseLotSize * Paid(Ticks(s), q)[k]) + BaseLotSize * Taken(Exactly(s), q, k)
<1> DEFINE n == Len(s)
           e == Exactly(s)
           w == Ticks(s)
           b == BaseLotSize
           c == Scale
           Near(k) == /\ 2 * (b * Paid(w, q)[k]) <= 2 * (c * Paid(e, q)[k]) + b * Taken(e, q, k)
                      /\ 2 * (c * Paid(e, q)[k]) <= 2 * (b * Paid(w, q)[k]) + b * Taken(e, q, k)
           T == {k \in 0 .. n : Near(k)}
<1>1. /\ n \in Nat /\ e \in Seq(Tick) /\ Len(e) = n /\ w \in Seq(Tick) /\ Len(w) = n
      /\ \A k \in 1 .. n : /\ e[k].quantity = w[k].quantity /\ s[k].price \in Nat
                           /\ e[k].price = s[k].price * QuoteLotSize
                           /\ w[k].price = PriceLotsToNumber(s[k].price)
  <2>1. w \in Seq(Positive) /\ Len(w) = n /\ \A k \in 1 .. n : w[k] = TickOf(s[k])
    BY TicksAre
  <2>2. w \in Seq(Tick)
    BY <2>1 DEF Positive
  <2>3. \A k \in 1 .. n : s[k].price \in Nat
    <3>1. \A k \in 1 .. n : s[k] \in Order
      OBVIOUS
    <3> QED  BY <3>1 DEF Order
  <2>4. ASSUME NEW k \in 1 .. n PROVE w[k].price = PriceLotsToNumber(s[k].price)
    <3>1. w[k] = TickOf(s[k])
      BY <2>1
    <3> HIDE DEF w, n
    <3> QED  BY <3>1 DEF TickOf
  <2>5. e \in Seq(Tick) /\ Len(e) = n
        /\ \A k \in 1 .. n : e[k].quantity = w[k].quantity /\ e[k].price = s[k].price * QuoteLotSize
    BY ExactlyAre
  <2> HIDE DEF e, w
  <2> QED  BY <2>1, <2>2, <2>3, <2>4, <2>5
<1>2. \A k \in 0 .. n : Held(e)[k] = Held(w)[k]
  BY ExactlyHeld
<1>3. b \in Nat \ {0} /\ c \in Nat \ {0}
  BY Lots
<1>4. \A p \in Nat : /\ 2 * (b * PriceLotsToNumber(p)) <= 2 * ((p * QuoteLotSize) * c) + b
                     /\ 2 * ((p * QuoteLotSize) * c) < 2 * (b * PriceLotsToNumber(p)) + b
  BY PriceIs
<1> HIDE DEF n, e, w, b, c
<1>5. 0 \in T
  <2>1. Paid(w, q)[0] = 0 /\ Paid(e, q)[0] = 0 /\ Held(e)[0] = 0
    BY <1>1, PaidIs, HeldIs
  <2>2. Taken(e, q, 0) = 0
    BY <2>1 DEF Taken
  <2>3. b * 0 = 0 /\ c * 0 = 0
    BY <1>3
  <2> QED  BY <1>1, <2>1, <2>2, <2>3
<1>6. ASSUME NEW k \in 1 .. n, k - 1 \in T PROVE k \in T
  <2> DEFINE p == w[k].price
             x == e[k].price
             h == Held(e)[k - 1]
             f == Filled(e[k], h, q)
             paid == Paid(w, q)[k - 1]
             exact == Paid(e, q)[k - 1]
             taken == Taken(e, q, k - 1)
  <2>1. /\ k \in 0 .. n /\ k - 1 \in 0 .. n /\ x \in Nat /\ e[k].quantity \in Nat /\ h \in Nat
        /\ Held(e)[k] = h + e[k].quantity /\ f \in Nat /\ exact \in Nat /\ Paid(e, q)[k] = exact + x * f
        /\ e[k] \in Tick
    <3>1. k \in 1 .. Len(e) /\ e \in Seq(Tick)
      BY <1>1
    <3>2. k \in 0 .. n /\ k - 1 \in 0 .. n /\ x \in Nat /\ e[k].quantity \in Nat /\ e[k] \in Tick
      BY <1>1, <3>1, TickAt
    <3>3. h \in Nat /\ Held(e)[k] = h + e[k].quantity /\ f \in Nat
      <4>0. q \in Nat
        OBVIOUS
      <4>1. h \in Nat /\ f \in Nat
        <5>1. Held(e)[k - 1] \in Nat /\ Filled(e[k], Held(e)[k - 1], q) \in Nat
          BY ONLY <3>1, <4>0, TickAt
        <5> QED  BY <5>1
      <4>2. Held(e)[k] = h + e[k].quantity
        BY ONLY <3>1, <4>0, TickAt
      <4> QED  BY <4>1, <4>2
    <3>4. exact \in Nat
      BY <3>1, TickAt
    <3>5. Paid(e, q)[k] = exact + x * f
      BY <3>1, TickAt
    <3> QED  BY <3>2, <3>3, <3>4, <3>5
  <2>2. p \in Nat /\ paid \in Nat /\ Paid(w, q)[k] = paid + p * Filled(w[k], Held(w)[k - 1], q)
    <3>1. k \in 1 .. Len(w) /\ w \in Seq(Tick)
      BY <1>1
    <3>2. p \in Nat /\ paid \in Nat
      BY <3>1, TickAt
    <3>3. Paid(w, q)[k] = paid + p * Filled(w[k], Held(w)[k - 1], q)
      BY <3>1, TickAt
    <3> QED  BY <3>2, <3>3
  <2>3. Filled(w[k], Held(w)[k - 1], q) = f
    <3>1. Held(w)[k - 1] = h /\ w[k].quantity = e[k].quantity
      BY <1>1, <1>2, <2>1
    <3> QED  BY <3>1 DEF Filled
  <2>4. taken \in Nat /\ Taken(e, q, k) = taken + f
    <3>1. taken = IF q <= h THEN q ELSE h
      BY DEF Taken
    <3>2. Taken(e, q, k) = IF q <= h + e[k].quantity THEN q ELSE h + e[k].quantity
      BY <2>1 DEF Taken
    <3>3. f = IF q <= h THEN 0 ELSE IF q - h < e[k].quantity THEN q - h ELSE e[k].quantity
      BY DEF Filled
    <3> DEFINE y == e[k].quantity
               z == Taken(e, q, k)
    <3>4. h \in Nat /\ y \in Nat /\ q \in Nat
      BY <2>1
    <3> HIDE DEF f, h, taken, y, z
    <3>5. /\ taken = IF q <= h THEN q ELSE h
          /\ z = IF q <= h + y THEN q ELSE h + y
          /\ f = IF q <= h THEN 0 ELSE IF q - h < y THEN q - h ELSE y
      BY <3>1, <3>2, <3>3 DEF y, z
    <3>6. taken \in Nat /\ z = taken + f
      BY ONLY <3>4, <3>5
    <3> QED  BY <3>6 DEF z
  <2>5. 2 * (b * p) <= 2 * (x * c) + b /\ 2 * (x * c) <= 2 * (b * p) + b
    <3>1. s[k].price \in Nat /\ p = PriceLotsToNumber(s[k].price) /\ x = s[k].price * QuoteLotSize
      BY <1>1
    <3>2. 2 * (b * p) <= 2 * (x * c) + b /\ 2 * (x * c) < 2 * (b * p) + b
      BY <1>4, <3>1
    <3> HIDE DEF p, x
    <3>3. 2 * (x * c) \in Int /\ 2 * (b * p) + b \in Int
      BY <1>3, <2>1, <2>2
    <3> QED  BY <3>2, <3>3
  <2>6. /\ 2 * (b * paid) <= 2 * (c * exact) + b * taken
        /\ 2 * (c * exact) <= 2 * (b * paid) + b * taken
    BY <1>6
  <2> HIDE DEF p, x, h, f, paid, exact, taken
  <2>7. /\ 2 * (b * (paid + p * f)) <= 2 * (c * (exact + x * f)) + b * (taken + f)
        /\ 2 * (c * (exact + x * f)) <= 2 * (b * (paid + p * f)) + b * (taken + f)
    <3>1. b \in Nat /\ c \in Nat
      BY <1>3
    <3> QED  BY <2>1, <2>2, <2>4, <2>5, <2>6, <3>1, NearNext
  <2>8. Near(k)
    BY <2>1, <2>2, <2>3, <2>4, <2>7 DEF p, f
  <2> QED  BY <2>1, <2>8
<1> HIDE DEF T
<1>7. \A k \in 0 .. n : k \in T
  BY <1>1, <1>5, <1>6, Upward
<1>8. \A k \in 0 .. n : Near(k)
  BY <1>7 DEF T
<1> QED  BY <1>8 DEF n, e, w, b, c

\* All orders: what the ticks count is near what the exchange counts.
LEMMA NearTotal ==
  ASSUME SerumAssumption, NEW s \in Seq(Order), NEW q \in Nat
  PROVE  /\ Total(Exactly(s), q) \in Nat /\ Total(Ticks(s), q) \in Nat
         /\ Size(Exactly(s)) = Size(Ticks(s)) /\ Size(Ticks(s)) \in Nat
         /\ 2 * (BaseLotSize * Total(Ticks(s), q)) <= 2 * (Scale * Total(Exactly(s), q)) + BaseLotSize * q
         /\ 2 * (Scale * Total(Exactly(s), q)) <= 2 * (BaseLotSize * Total(Ticks(s), q)) + BaseLotSize * q
<1> DEFINE n == Len(s)
           e == Exactly(s)
           w == Ticks(s)
           b == BaseLotSize
           c == Scale
           x == Total(w, q)
           y == Total(e, q)
           r == Taken(e, q, n)
<1>1. n \in Nat /\ n \in 0 .. n /\ e \in Seq(Tick) /\ Len(e) = n /\ w \in Seq(Tick) /\ Len(w) = n
  <2>1. w \in Seq(Positive) /\ Len(w) = n /\ n \in Nat
    BY TicksAre
  <2>2. w \in Seq(Tick)
    BY <2>1 DEF Positive
  <2> QED  BY <2>1, <2>2, ExactlyAre
<1>2. Held(e)[n] = Held(w)[n]
  BY <1>1, ExactlyHeld
<1>3. b \in Nat \ {0} /\ c \in Nat
  BY Lots
<1>4. 2 * (b * Paid(w, q)[n]) <= 2 * (c * Paid(e, q)[n]) + b * r
  BY <1>1, NearPaid
<1>5. 2 * (c * Paid(e, q)[n]) <= 2 * (b * Paid(w, q)[n]) + b * r
  BY <1>1, NearPaid
<1> HIDE DEF n, e, w, b, c
<1>6. x = Paid(w, q)[n] /\ y = Paid(e, q)[n] /\ Size(e) = Held(e)[n] /\ Size(w) = Held(w)[n]
  BY <1>1, TotalIs
<1>7. x \in Nat /\ y \in Nat /\ Held(e)[n] \in Nat
  <2>1. Paid(w, q) \in [0 .. n -> Nat] /\ Paid(e, q) \in [0 .. n -> Nat]
    BY <1>1, PaidIs
  <2>2. Held(e) \in [0 .. n -> Nat]
    BY <1>1, HeldIs
  <2> QED  BY <1>1, <1>6, <2>1, <2>2
<1> HIDE DEF x, y
<1>8. r \in Nat /\ r <= q
  BY <1>7 DEF Taken
<1> HIDE DEF r
<1>9. b * r <= b * q /\ b * r \in Nat /\ b * q \in Nat
  <2>1. b * r <= b * q
    BY <1>3, <1>8, TimesMore
  <2> QED  BY <1>3, <1>8, <2>1
<1>10. 2 * (b * x) <= 2 * (c * y) + b * r /\ 2 * (c * y) <= 2 * (b * x) + b * r
  BY <1>4, <1>5, <1>6
<1>11. b * x \in Nat /\ c * y \in Nat
  BY <1>3, <1>7
<1>12. 2 * (b * x) <= 2 * (c * y) + b * q /\ 2 * (c * y) <= 2 * (b * x) + b * q
  BY <1>9, <1>10, <1>11
<1> QED  BY <1>2, <1>6, <1>7, <1>12 DEF x, y, e, w, b, c

\* The order of the factors in NoMore and NoLess.
LEMMA Factors ==
  ASSUME SerumAssumption, NEW u \in Nat, NEW y \in Nat
  PROVE  /\ 2 * Scale * BaseLotSize * u = 2 * (BaseLotSize * (Scale * u))
         /\ 2 * Scale * y = 2 * (Scale * y)
<1> DEFINE b == BaseLotSize
           c == Scale
<1>1. b \in Nat /\ c \in Nat
  BY Lots
<1> HIDE DEF b, c
<1>2. 2 * c * b * u = 2 * (b * (c * u)) /\ 2 * c * y = 2 * (c * y)
  BY <1>1
<1> QED  BY <1>2 DEF b, c

\* What the ticks count, cut to whole units, is what the exchange counts, but for rounding.
LEMMA CutIsFair ==
  ASSUME SerumAssumption, NEW s \in Seq(Order), NEW q \in Nat
  PROVE  /\ Total(Ticks(s), q) \div Scale \in Nat
         /\ NoMore(Total(Ticks(s), q) \div Scale, s, q)
         /\ \A units \in Nat : Total(Ticks(s), q) \div Scale <= units => NoLess(units, s, q)
<1> DEFINE b == BaseLotSize
           c == Scale
           x == Total(Ticks(s), q)
           y == Total(Exactly(s), q)
           u == x \div c
<1>1. b \in Nat \ {0} /\ c \in Nat \ {0}
  BY Lots
<1>2. /\ x \in Nat /\ y \in Nat
      /\ 2 * (b * x) <= 2 * (c * y) + b * q /\ 2 * (c * y) <= 2 * (b * x) + b * q
  BY NearTotal
<1> HIDE DEF x, y
<1>3. u \in Nat /\ c * u <= x /\ x < c * u + c
  BY <1>1, <1>2, Quotient
<1> HIDE DEF u
<1>4. /\ 2 * Scale * BaseLotSize * u = 2 * (b * (c * u)) /\ 2 * Scale * y = 2 * (c * y)
  BY <1>2, <1>3, Factors
<1>5. c * u \in Nat /\ b * (c * u) \in Nat /\ b * x \in Nat /\ c * y \in Nat /\ b * q \in Nat
  <2>1. c * u \in Nat
    BY <1>1, <1>3
  <2> DEFINE z == c * u
  <2> HIDE DEF z
  <2>2. b * z \in Nat
    BY <1>1, <2>1 DEF z
  <2>3. b * x \in Nat /\ c * y \in Nat /\ b * q \in Nat
    BY <1>1, <1>2
  <2> QED  BY <2>1, <2>2, <2>3 DEF z
<1>6. b * (c * u) <= b * x
  BY <1>1, <1>2, <1>3, <1>5, TimesMore
<1>7. NoMore(u, s, q)
  <2>1. 2 * (b * (c * u)) <= 2 * (c * y) + b * q
    BY <1>2, <1>5, <1>6
  <2> QED  BY <1>4, <2>1 DEF NoMore, y, b
<1>8. ASSUME NEW v \in Nat, u <= v PROVE NoLess(v, s, q)
  <2> DEFINE z == c * (v + 1)
  <2>1. z \in Nat /\ v + 1 \in Nat
    BY <1>1
  <2>2. x + 1 <= z
    <3>1. c * (u + 1) <= c * (v + 1)
      BY <1>1, <1>3, <1>8, TimesMore
    <3>2. c * (u + 1) = c * u + c
      BY <1>1, <1>3
    <3> QED  BY <1>1, <1>2, <1>3, <1>5, <2>1, <3>1, <3>2
  <2>3. 2 * Scale * BaseLotSize * (v + 1) = 2 * (b * z)
    BY <2>1, Factors
  <2> HIDE DEF z
  <2>4. b * (x + 1) <= b * z
    <3> DEFINE v1 == x + 1
    <3>1. b \in Nat /\ v1 \in Int /\ z \in Int /\ v1 <= z
      BY <1>1, <1>2, <2>1, <2>2
    <3> HIDE DEF v1
    <3>2. b * v1 <= b * z
      BY <3>1, TimesMore
    <3> QED  BY <3>2 DEF v1
  <2>5. b * (x + 1) = b * x + b /\ b * z \in Nat
    BY <1>1, <1>2, <2>1
  <2>6. 2 * (c * y) < 2 * (b * z) + b * q
    BY <1>1, <1>2, <1>5, <2>4, <2>5
  <2> QED  BY <1>4, <2>3, <2>6 DEF NoLess, y, b
<1> QED  BY <1>3, <1>7, <1>8 DEF u, x

\* A sale gets what the best orders pay, for an amount they can take, and never less.
LEMMA SaleHonest ==
  ASSUME SerumAssumption, NEW side \in Ticked, NEW orders \in Seq(Order), Starts(side, Ticks(orders)),
         NEW amount \in Nat
  PROVE  FairSale(Swap1(side, TRUE, amount), orders, amount)
<1> DEFINE t == Ticks(orders)
           n == Len(t)
           paid == Paid(side, amount)
           out == Swap1(side, TRUE, amount)
<1>0. Scale \in Nat \ {0}
  BY Lots
<1>1. side \in Seq(Tick) /\ Len(side) = Depth /\ Depth \in Nat
  BY SideIs
<1>2. t \in Seq(Tick) /\ n \in 0 .. Depth /\ \A i \in 1 .. n : side[i] = t[i]
  BY DEF Starts
<1> HIDE DEF t
<1>3. n <= Len(side) /\ n \in 0 .. n /\ n \in 0 .. Len(side) /\ Depth \in 0 .. Len(side) /\ n <= Depth
  BY <1>1, <1>2
<1>4. Held(side)[n] = Held(t)[n] /\ paid[n] = Paid(t, amount)[n]
  BY <1>1, <1>2, <1>3, SamePrefix
<1>5. paid[n] <= paid[Depth]
  BY <1>1, <1>3, TotalsRise
<1>6. amount <= Held(side)[n] => paid[Depth] = paid[n]
  BY <1>1, <1>3, PaidStays
<1>7. out = paid[Depth] \div Scale
  BY Sold
<1>8. Total(t, amount) = Paid(t, amount)[n] /\ Size(t) = Held(t)[n]
  BY TotalIs
<1>9. paid[n] \in Nat /\ paid[Depth] \in Nat
  <2>1. paid \in [0 .. Len(side) -> Nat]
    BY <1>1, PaidIs
  <2> QED  BY <1>3, <2>1
<1>10. /\ NoMore(Total(t, amount) \div Scale, orders, amount)
       /\ \A units \in Nat : Total(t, amount) \div Scale <= units => NoLess(units, orders, amount)
  BY CutIsFair DEF t
<1>11. Size(Exactly(orders)) = Size(t)
  BY NearTotal DEF t
<1> HIDE DEF n, paid, out
<1>12. out \in Nat /\ Total(t, amount) \div Scale <= out
  <2>1. paid[Depth] \div Scale \in Nat
    BY <1>0, <1>9, Quotient
  <2>2. paid[n] \div Scale <= paid[Depth] \div Scale
    BY <1>0, <1>5, <1>9, QuotientRises
  <2> QED  BY <1>4, <1>7, <1>8, <2>1, <2>2
<1>13. amount <= Size(t) => out = Total(t, amount) \div Scale
  BY <1>4, <1>6, <1>7, <1>8
<1> QED  BY <1>10, <1>11, <1>12, <1>13 DEF FairSale, out

\* An amount that the orders can take, but for rounding, the ticks can take.
LEMMA TicksCanTake ==
  ASSUME SerumAssumption, NEW s \in Seq(Order), NEW amount \in Nat,
         2 * Scale * BaseLotSize * amount + BaseLotSize * Size(Exactly(s))
           <= 2 * Scale * Total(Exactly(s), Size(Exactly(s)))
  PROVE  amount * Scale <= Total(Ticks(s), Size(Ticks(s)))
<1> DEFINE b == BaseLotSize
           c == Scale
           z == Size(Ticks(s))
           x == Total(Ticks(s), z)
           y == Total(Exactly(s), z)
           w == c * amount
<1>1. b \in Nat \ {0} /\ c \in Nat \ {0}
  BY Lots
<1>2. Size(Exactly(s)) = z /\ z \in Nat
  <2>1. 0 \in Nat
    OBVIOUS
  <2> QED  BY <2>1, NearTotal
<1>3. x \in Nat /\ y \in Nat /\ 2 * (c * y) <= 2 * (b * x) + b * z
  BY <1>2, NearTotal
<1>4. 2 * Scale * BaseLotSize * amount = 2 * (b * w) /\ 2 * Scale * y = 2 * (c * y)
  BY <1>3, Factors
<1>5. 2 * (b * w) + b * z <= 2 * (c * y)
  BY <1>2, <1>4
<1> HIDE DEF b, c, x, y, z
<1>6. w \in Nat /\ amount * c = w
  BY <1>1
<1> HIDE DEF w
<1>7. b * w \in Nat /\ b * z \in Nat /\ b * x \in Nat /\ c * y \in Nat
  BY <1>1, <1>2, <1>3, <1>6
<1>8. b * w < b * x + b
  BY <1>1, <1>3, <1>5, <1>7
<1>9. w <= x
  BY <1>1, <1>3, <1>6, <1>8, Cancel
<1> QED  BY <1>6, <1>9 DEF c, x, z

\* What the ticks give for more than an amount costs more than it, but for rounding.
LEMMA CostsMore ==
  ASSUME SerumAssumption, NEW s \in Seq(Order), NEW amount \in Nat, NEW q \in Nat,
         Total(Ticks(s), q) > amount * Scale
  PROVE  2 * Scale * BaseLotSize * amount < 2 * Scale * Total(Exactly(s), q) + BaseLotSize * q
<1> DEFINE b == BaseLotSize
           c == Scale
           x == Total(Ticks(s), q)
           y == Total(Exactly(s), q)
           w == c * amount
<1>1. b \in Nat \ {0} /\ c \in Nat \ {0}
  BY Lots
<1>2. x \in Nat /\ y \in Nat /\ 2 * (b * x) <= 2 * (c * y) + b * q
  BY NearTotal
<1>3. 2 * Scale * BaseLotSize * amount = 2 * (b * w) /\ 2 * Scale * y = 2 * (c * y)
  BY <1>2, Factors
<1> HIDE DEF b, x, y
<1>4. w \in Nat /\ amount * c = w
  BY <1>1
<1>5. x > w
  BY <1>4 DEF x
<1> HIDE DEF w, c
<1>6. b * (w + 1) <= b * x
  BY <1>1, <1>2, <1>4, <1>5, TimesMore
<1>7. b * (w + 1) = b * w + b /\ b * w \in Nat /\ b * x \in Nat /\ c * y \in Nat /\ b * q \in Nat
  BY <1>1, <1>2, <1>4
<1>8. 2 * (b * w) < 2 * (c * y) + b * q
  BY <1>1, <1>2, <1>6, <1>7
<1> QED  BY <1>3, <1>8 DEF y, b

\* What the ticks give for an amount, half a part of a unit at a price aside, costs no more
\* than it, but for rounding.
LEMMA CostsNoMore ==
  ASSUME SerumAssumption, NEW s \in Seq(Order), NEW amount \in Nat, NEW q \in Nat, NEW price \in Nat,
         2 * (Scale * Total(Ticks(s), q)) <= 2 * (Scale * (amount * Scale)) + price
  PROVE  2 * Scale * Scale * Total(Exactly(s), q)
           <= BaseLotSize * (2 * Scale * Scale * amount + Scale * q + price)
<1> DEFINE b == BaseLotSize
           c == Scale
           x == Total(Ticks(s), q)
           y == Total(Exactly(s), q)
           v == c * x
           w == c * (amount * c)
<1>1. b \in Nat /\ c \in Nat
  BY Lots
<1>2. x \in Nat /\ y \in Nat /\ 2 * (c * y) <= 2 * (b * x) + b * q
  BY NearTotal
<1>3. 2 * v <= 2 * w + price
  OBVIOUS
<1> HIDE DEF b, c, x, y
<1>4. v \in Nat /\ w \in Nat
  <2>1. v \in Nat
    BY <1>1, <1>2
  <2>2. amount * c \in Nat
    BY <1>1
  <2> DEFINE z == amount * c
  <2> HIDE DEF z
  <2>3. c * z \in Nat
    BY <1>1, <2>2 DEF z
  <2> QED  BY <2>1, <2>3 DEF z
<1>5. c * (2 * (c * y)) <= c * (2 * (b * x) + b * q)
  <2>1. 2 * (c * y) \in Int /\ 2 * (b * x) + b * q \in Int
    BY <1>1, <1>2
  <2> QED  BY <1>1, <1>2, <2>1, TimesMore
<1>6. c * (2 * (c * y)) = 2 * c * c * y /\ c * (2 * (b * x) + b * q) = b * (2 * v) + b * (c * q)
  BY <1>1, <1>2
<1>7. 2 * w = 2 * c * c * amount
  BY <1>1
<1> HIDE DEF v, w
<1>8. b * (2 * v) <= b * (2 * w + price)
  <2>1. 2 * v \in Int /\ 2 * w + price \in Int
    BY <1>4
  <2> QED  BY <1>1, <1>3, <2>1, TimesMore
<1> DEFINE g == c * q
<1>9. g \in Nat
  BY <1>1
<1> HIDE DEF g
<1>10. b * (2 * w + price) + b * g = b * (2 * w + g + price)
  BY <1>1, <1>4, <1>9
<1>11. 2 * c * c * y <= b * (2 * w + g + price)
  <2> DEFINE e1 == 2 * c * c * y
             e2 == b * (2 * v)
             e3 == b * g
             e4 == b * (2 * w + price)
             e5 == b * (2 * w + g + price)
  <2>1. e1 <= e2 + e3 /\ e2 <= e4 /\ e4 + e3 = e5
    BY <1>5, <1>6, <1>8, <1>10 DEF g
  <2>2. e2 \in Nat /\ e3 \in Nat /\ e4 \in Nat
    BY <1>1, <1>4, <1>9
  <2>3. e1 \in Int
    <3>1. c * y \in Nat
      BY <1>1, <1>2
    <3>2. e1 = 2 * (c * (c * y))
      BY <1>1, <1>2
    <3> DEFINE z == c * y
    <3> HIDE DEF z
    <3>3. c * z \in Nat
      BY <1>1, <3>1 DEF z
    <3> QED  BY <3>2, <3>3 DEF z
  <2> HIDE DEF e1, e2, e3, e4, e5
  <2>4. e1 <= e5
    BY <2>1, <2>2, <2>3
  <2> QED  BY <2>4 DEF e1, e5
<1> QED  BY <1>7, <1>11 DEF g, b, c, y

\* A purchase gets the most that the best orders give, for an amount that they can take, and
\* never less, but for rounding.
LEMMA PurchaseHonest ==
  ASSUME SerumAssumption, NEW side \in Ticked, NEW orders \in Seq(Order), Starts(side, Ticks(orders)),
         NEW amount \in Nat \ {0}
  PROVE  FairPurchase(Swap1(side, FALSE, amount), orders, amount)
<1> DEFINE t == Ticks(orders)
           n == Len(t)
           whole == amount * Scale
           out == Swap1(side, FALSE, amount)
           h == Held(t)[n]
<1>0. Scale \in Nat \ {0} /\ whole \in Nat /\ whole > 0 /\ amount \in Nat
  <2>1. Scale \in Nat \ {0}
    BY Lots
  <2> QED  BY <2>1
<1>1. side \in Seq(Tick) /\ Len(side) = Depth /\ Depth \in Nat
  BY SideIs
<1>2. t \in Seq(Tick) /\ n \in 0 .. Depth /\ \A i \in 1 .. n : side[i] = t[i]
  BY DEF Starts
<1>20. DOMAIN orders = 1 .. n /\ \A i \in 1 .. n : t[i].price = PriceLotsToNumber(orders[i].price)
  <2>1. Len(t) = Len(orders) /\ \A i \in 1 .. Len(orders) : t[i] = TickOf(orders[i])
    BY TicksAre
  <2> HIDE DEF t
  <2>2. DOMAIN orders = 1 .. n
    BY <2>1
  <2>3. ASSUME NEW i \in 1 .. n PROVE t[i].price = PriceLotsToNumber(orders[i].price)
    <3>1. t[i] = TickOf(orders[i])
      BY <2>1
    <3> HIDE DEF n
    <3> QED  BY <3>1 DEF TickOf
  <2> QED  BY <2>2, <2>3
<1> HIDE DEF t
<1>3. n <= Len(side) /\ n \in 0 .. n /\ n \in 0 .. Len(side) /\ Depth \in 0 .. Depth /\ n <= Depth
  BY <1>1, <1>2
<1>4. PICK f : Purchasing(f, side, amount)
  BY <1>0, PurchaseIs, Zenon
<1>5. /\ f \in [0 .. Depth -> Part] /\ out = f[Depth].got \div Scale
      /\ Buys(side, whole, f[n], n)
      /\ f[n].got <= f[Depth].got
      /\ f[n].left = 0 => f[Depth].got = f[n].got
  BY <1>2, <1>3, <1>4 DEF Purchasing
<1> DEFINE s == f[n]
           g == f[n].got \div Scale
<1>6. s \in Part /\ f[n].got \in Nat /\ g \in Nat /\ s.left \in Nat /\ f[Depth].got \in Nat
  <2>1. s \in Part /\ f[n].got \in Nat /\ s.left \in Nat /\ f[Depth].got \in Nat
    BY <1>2, <1>3, <1>5 DEF Part
  <2> QED  BY <1>0, <2>1, Quotient
<1>7. ASSUME NEW q \in Nat
      PROVE  /\ Held(side)[n] = h /\ Spent(side)[n] = Spent(t)[n]
             /\ Paid(side, q)[n] = Paid(t, q)[n]
  BY <1>1, <1>2, <1>3, SamePrefix
<1>8. ASSUME NEW q \in Nat PROVE Total(t, q) = Paid(side, q)[n] /\ Total(t, q) \in Nat
  <2>1. Total(t, q) = Paid(t, q)[n]
    BY TotalIs
  <2>2. Paid(t, q) \in [0 .. n -> Nat]
    BY <1>2, PaidIs
  <2> QED  BY <1>3, <1>7, <1>8, <2>1, <2>2
<1>9. /\ Size(t) = h /\ h \in Nat /\ Size(Exactly(orders)) = h
      /\ Spent(side)[n] \in Nat /\ Total(t, h) = Spent(side)[n]
  <2>1. Held(t) \in [0 .. n -> Nat] /\ Spent(t) \in [0 .. n -> Nat]
    BY <1>2, HeldIs
  <2>2. h \in Nat /\ Spent(t)[n] \in Nat
    BY <1>3, <2>1
  <2>3. Paid(t, h)[n] = Spent(t)[n]
    BY <1>2, <1>3, <2>2, PaidFull
  <2>4. Size(t) = h
    BY TotalIs
  <2>5. Size(Exactly(orders)) = Size(t)
    BY <1>0, NearTotal DEF t
  <2> HIDE DEF h
  <2> QED  BY <1>7, <1>8, <2>2, <2>3, <2>4, <2>5
<1>10. /\ g \in 0 .. h /\ Pays(side, g, n, whole)
       /\ s.left # 0 => s.got = h * Scale /\ s.left = whole - Spent(side)[n]
       /\ s.left = 0 /\ g # h => Paid(side, g + 1)[n] > whole
  <2>1. Held(side)[n] = h
    BY <1>6, <1>7
  <2> HIDE DEF h, whole
  <2> QED  BY <1>5, <2>1 DEF Buys
<1>11. /\ out \in Nat /\ g <= out /\ (s.left = 0 => out = g) /\ (s.left # 0 => g = h)
  <2>1. f[Depth].got \div Scale \in Nat
    BY <1>0, <1>6, Quotient
  <2>2. g <= f[Depth].got \div Scale
    BY <1>0, <1>5, <1>6, QuotientRises
  <2>3. s.left # 0 => g = h
    <3> HIDE DEF h
    <3>1. (h * Scale) \div Scale = h
      BY <1>0, <1>9, WholeQuotient
    <3> QED  BY <1>10, <3>1
  <2> QED  BY <1>5, <2>1, <2>2, <2>3
<1> HIDE DEF n, whole, s, g, h, out
<1>12. ASSUME out < h
       PROVE  2 * Scale * BaseLotSize * amount
                < 2 * Scale * Total(Exactly(orders), out + 1) + BaseLotSize * (out + 1)
  <2>1. s.left = 0 /\ out = g /\ g # h
    BY <1>6, <1>9, <1>11, <1>12
  <2>2. Paid(side, g + 1)[n] > whole /\ out + 1 \in Nat
    BY <1>10, <1>11, <2>1
  <2>3. Total(t, out + 1) > amount * Scale
    BY <1>8, <2>1, <2>2 DEF whole
  <2> QED  BY <1>0, <2>2, <2>3, CostsMore DEF t
<1>13. ASSUME 2 * Scale * BaseLotSize * amount + BaseLotSize * h
                <= 2 * Scale * Total(Exactly(orders), h)
       PROVE  /\ out <= h
              /\ \E i \in DOMAIN orders :
                   2 * Scale * Scale * Total(Exactly(orders), out)
                     <= BaseLotSize * (2 * Scale * Scale * amount + Scale * out
                                       + PriceLotsToNumber(orders[i].price))
  <2>1. whole <= Total(t, h)
    BY <1>0, <1>9, <1>13, TicksCanTake DEF t, whole
  <2>2. s.left = 0
    BY <1>0, <1>6, <1>9, <1>10, <2>1 DEF s
  <2>3. out = g /\ out <= h /\ out \in Nat
    BY <1>9, <1>10, <1>11, <2>2
  <2>4. \E i \in 1 .. n : 2 * (Scale * Total(t, out)) <= 2 * (Scale * whole) + t[i].price
    <3>1. Total(t, out) = Paid(side, g)[n] /\ Total(t, out) \in Nat
      BY <1>8, <2>3
    <3>2. CASE Paid(side, g)[n] <= whole
      <4>1. n # 0
        <5> SUFFICES ASSUME n = 0 PROVE FALSE
          OBVIOUS
        <5>1. Spent(side)[0] = 0
          BY <1>1, HeldIs
        <5> QED  BY <1>0, <1>9, <2>1, <5>1
      <4>2. 1 \in 1 .. n /\ t[1].price \in Nat
        <5>1. 1 \in 1 .. n
          BY <1>2, <4>1 DEF n
        <5>2. t[1] \in Tick
          BY <1>2, <5>1 DEF n
        <5> QED  BY <5>1, <5>2 DEF Tick
      <4> DEFINE x == Total(t, out)
      <4>3. x \in Nat /\ x <= whole
        BY <3>1, <3>2
      <4> HIDE DEF x
      <4>4. Scale * x <= Scale * whole
        BY <1>0, <4>3, TimesMore
      <4>5. Scale * x \in Nat /\ Scale * whole \in Nat
        BY <1>0, <4>3
      <4>6. 2 * (Scale * x) <= 2 * (Scale * whole) + t[1].price
        BY <4>2, <4>4, <4>5
      <4> QED  BY <4>2, <4>6 DEF x
    <3>3. CASE ~(Paid(side, g)[n] <= whole)
      <4>1. PICK i \in 1 .. n : 2 * (Scale * Paid(side, g)[n]) <= 2 * (Scale * whole) + side[i].price
        BY <1>10, <3>3 DEF Pays
      <4>2. side[i] = t[i]
        BY <1>2 DEF n
      <4> QED  BY <3>1, <4>1, <4>2
    <3> QED  BY <3>2, <3>3
  <2>5. PICK i \in 1 .. n : 2 * (Scale * Total(t, out)) <= 2 * (Scale * whole) + t[i].price
    BY <2>4
  <2> DEFINE price == t[i].price
  <2>6. price \in Nat /\ i \in DOMAIN orders /\ price = PriceLotsToNumber(orders[i].price)
    <3>1. t[i] \in Tick
      BY <1>2 DEF n
    <3> QED  BY <1>20, <3>1 DEF Tick, n
  <2>7. 2 * (Scale * Total(Ticks(orders), out)) <= 2 * (Scale * (amount * Scale)) + price
    BY <2>5 DEF whole, t
  <2> HIDE DEF price
  <2>8. 2 * Scale * Scale * Total(Exactly(orders), out)
          <= BaseLotSize * (2 * Scale * Scale * amount + Scale * out + price)
    BY <1>0, <2>3, <2>6, <2>7, CostsNoMore
  <2> QED  BY <2>3, <2>6, <2>8
<1>14. FairPurchase(out, orders, amount)
  BY <1>9, <1>12, <1>13, Zenon DEF FairPurchase
<1> QED  BY <1>14 DEF out

\* Local, of a token of the market.
LEMMA SaleIs ==
  ASSUME SerumAssumption, IInv, NEW m \in models, NEW amount \in Amounts
  PROVE  LET sale == Local(m, MarketOf[m].base, amount)
         IN /\ ~sale.ok => ticks[m].ask[1].quantity = 0
            /\ sale.ok => sale.out = Swap1(ticks[m].ask, TRUE, amount)
<1> DEFINE token == MarketOf[m].base
           sale == Local(m, token, amount)
           out == Swap1(ticks[m].ask, TRUE, amount)
<1>1. token \in Pair(m)
  BY DEF Pair
<1>2. Side(m, TRUE) = ticks[m].ask
  BY DEF Side
<1>3. CASE ticks[m].ask[1].quantity = 0
  <2>1. sale = Error
    BY <1>1, <1>2, <1>3 DEF Local, Quoted
  <2> HIDE DEF sale
  <2>2. ~sale.ok
    BY <2>1 DEF Error
  <2> QED  BY <1>3, <2>2 DEF sale
<1>4. CASE ticks[m].ask[1].quantity # 0
  <2>1. sale = [ok |-> TRUE, tokenIn |-> token, tokenOut |-> CHOOSE t \in Pair(m) : t # token,
                in |-> amount, out |-> out, slotIn |-> orderBooks[Model(m).ask].height]
    BY <1>1, <1>2, <1>4 DEF Local, Quoted
  <2> HIDE DEF sale, out
  <2>2. sale.ok /\ sale.out = out
    BY <2>1
  <2> QED  BY <2>2 DEF sale, out
<1> QED  BY <1>3, <1>4

\* Local, of the quote token of the market.
LEMMA PurchaseQuoteIs ==
  ASSUME SerumAssumption, IInv, NEW m \in models, NEW amount \in Amounts
  PROVE  LET purchase == Local(m, MarketOf[m].quote, amount)
         IN /\ ~purchase.ok => ticks[m].bid[1].quantity = 0
            /\ purchase.ok => purchase.out = Swap1(ticks[m].bid, FALSE, amount)
<1> DEFINE token == MarketOf[m].quote
           purchase == Local(m, token, amount)
           out == Swap1(ticks[m].bid, FALSE, amount)
<1>1. token \in Pair(m) /\ token # MarketOf[m].base
  <2>1. m \in Markets
    BY DEF IInv, Nested
  <2> QED  BY <2>1 DEF Pair, SerumAssumption
<1>2. Side(m, FALSE) = ticks[m].bid
  BY DEF Side
<1>3. CASE ticks[m].bid[1].quantity = 0
  <2>1. purchase = Error
    BY <1>1, <1>2, <1>3 DEF Local, Quoted
  <2> HIDE DEF purchase
  <2>2. ~purchase.ok
    BY <2>1 DEF Error
  <2> QED  BY <1>3, <2>2 DEF purchase
<1>4. CASE ticks[m].bid[1].quantity # 0
  <2>1. purchase = [ok |-> TRUE, tokenIn |-> token, tokenOut |-> CHOOSE t \in Pair(m) : t # token,
                    in |-> amount, out |-> out, slotIn |-> orderBooks[Model(m).bid].height]
    BY <1>1, <1>2, <1>4 DEF Local, Quoted
  <2> HIDE DEF purchase, out
  <2>2. purchase.ok /\ purchase.out = out
    BY <2>1
  <2> QED  BY <2>2 DEF purchase, out
<1> QED  BY <1>3, <1>4

\* The quotes of a market of version 2, for one amount.
QuotesTops(m, amount) ==
  LET sale == Local(m, MarketOf[m].base, amount)
      purchase == Local(m, MarketOf[m].quote, amount)
      bids == Top(BestBids(m))
      asks == Top(BestAsks(m))
  IN /\ Current(MarketOf[m].bids) =>
          IF sale.ok THEN FairSale(sale.out, bids, amount) ELSE bids = <<>>
     /\ Current(MarketOf[m].asks) =>
          IF purchase.ok THEN FairPurchase(purchase.out, asks, amount) ELSE asks = <<>>

\* Orders without a tick are none.
LEMMA NoneOf ==
  ASSUME SerumAssumption, NEW side, NEW s \in Seq(Order), Starts(side, Ticks(s)), side[1].quantity = 0
  PROVE  s = <<>>
<1>1. Ticks(s) = <<>>
  BY DEF Starts
<1>2. Len(Ticks(s)) = Len(s)
  BY TicksAre
<1>3. Len(s) = 0
  BY <1>1, <1>2
<1> QED  BY <1>3

\* The quotes of version 2 are those of the first orders of the exchange (QuoteHonest).
LEMMA QuotesAreTops ==
  ASSUME SerumAssumption, IInv, version = "v2", NEW m \in models, NEW amount \in Amounts
  PROVE  QuotesTops(m, amount)
<1> DEFINE sale == Local(m, MarketOf[m].base, amount)
           purchase == Local(m, MarketOf[m].quote, amount)
           bids == Top(BestBids(m))
           asks == Top(BestAsks(m))
<1>1. m \in Markets /\ amount \in Nat \ {0} /\ amount \in Nat
  BY DEF IInv, Nested, SerumAssumption
<1>2. ticks[m].ask \in Ticked /\ ticks[m].bid \in Ticked
  BY <1>1 DEF IInv, Types
<1>3. BestBids(m) \in Seq(Order) /\ BestAsks(m) \in Seq(Order)
  BY <1>1, BestIs
<1>4. /\ ~sale.ok => ticks[m].ask[1].quantity = 0
      /\ sale.ok => sale.out = Swap1(ticks[m].ask, TRUE, amount)
  BY SaleIs
<1>5. /\ ~purchase.ok => ticks[m].bid[1].quantity = 0
      /\ purchase.ok => purchase.out = Swap1(ticks[m].bid, FALSE, amount)
  BY PurchaseQuoteIs
<1>6. ASSUME Current(MarketOf[m].bids)
      PROVE  IF sale.ok THEN FairSale(sale.out, bids, amount) ELSE bids = <<>>
  <2>1. StartsWith(ticks[m].ask, Ticks(BestBids(m)))
    BY <1>6, SidesAre
  <2>2. Starts(ticks[m].ask, Ticks(bids))
    BY <1>2, <1>3, <2>1, TopStarts
  <2>3. bids \in Seq(Order)
    BY <1>3, FirstAre
  <2> HIDE DEF bids, sale
  <2>4. FairSale(Swap1(ticks[m].ask, TRUE, amount), bids, amount)
    BY <1>1, <1>2, <2>2, <2>3, SaleHonest
  <2>5. ticks[m].ask[1].quantity = 0 => bids = <<>>
    BY <2>2, <2>3, NoneOf
  <2> QED  BY <1>4, <2>4, <2>5
<1>7. ASSUME Current(MarketOf[m].asks)
      PROVE  IF purchase.ok THEN FairPurchase(purchase.out, asks, amount) ELSE asks = <<>>
  <2>1. StartsWith(ticks[m].bid, Ticks(BestAsks(m)))
    BY <1>7, SidesAre
  <2>2. Starts(ticks[m].bid, Ticks(asks))
    BY <1>2, <1>3, <2>1, TopStarts
  <2>3. asks \in Seq(Order)
    BY <1>3, FirstAre
  <2> HIDE DEF asks, purchase
  <2>4. FairPurchase(Swap1(ticks[m].bid, FALSE, amount), asks, amount)
    BY <1>1, <1>2, <2>2, <2>3, PurchaseHonest
  <2>5. ticks[m].bid[1].quantity = 0 => asks = <<>>
    BY <2>2, <2>3, NoneOf
  <2> QED  BY <1>5, <2>4, <2>5
<1> HIDE DEF sale, purchase, bids, asks
<1> QED  BY <1>6, <1>7 DEF QuotesTops, sale, purchase, bids, asks

\* What Swap offers, up to one of the ticks (SwapWorth).
Given(side, selling, k) == IF selling THEN Held(side)[k] * Scale ELSE Spent(side)[k]
Enough(side, selling, price) ==
  {i \in 1 .. Depth : WorthOf(Given(side, selling, i), price) > Worth}
Last(side, selling, price) ==
  IF Enough(side, selling, price) = {} THEN Depth
  ELSE CHOOSE i \in Enough(side, selling, price) : \A j \in Enough(side, selling, price) : i <= j
Offers(side, selling, price, k) ==
  LET swap == Swap(side, selling, price)
  IN /\ k \in 1 .. Depth /\ swap.base = Held(side)[k] /\ swap.quote = Spent(side)[k] \div Scale
     /\ WorthOf(Given(side, selling, k), price) > Worth \/ k = Depth

\* Swap stops at one of the ticks.
LEMMA OffersSome ==
  ASSUME SerumAssumption, NEW side \in Ticked, NEW selling \in BOOLEAN, NEW price \in Nat
  PROVE  Offers(side, selling, price, Last(side, selling, price))
<1> DEFINE E == Enough(side, selling, price)
           k == Last(side, selling, price)
           swap == Swap(side, selling, price)
<1>1. swap = [base |-> Held(side)[k], quote |-> Spent(side)[k] \div Scale]
  BY DEF Swap, Held, Spent, Last, Enough, Given
<1>2. Depth \in Nat \ {0}
  BY DEF SerumAssumption
<1> HIDE DEF swap
<1>3. swap.base = Held(side)[k] /\ swap.quote = Spent(side)[k] \div Scale
  BY <1>1
<1>4. CASE E = {}
  <2>1. k = Depth
    BY <1>4 DEF Last
  <2> HIDE DEF k
  <2>2. k \in 1 .. Depth
    BY <1>2, <2>1
  <2> QED  BY <1>3, <2>1, <2>2 DEF Offers, swap, k
<1>5. CASE E # {}
  <2>1. \A i \in E : i \in Nat
    BY <1>2 DEF Enough
  <2>2. \E i \in E : \A j \in E : i <= j
    <3> HIDE DEF E
    <3> QED  BY <1>5, <2>1, LeastNumber
  <2>3. k \in E
    BY <1>5, <2>2 DEF Last
  <2> HIDE DEF k
  <2>4. k \in 1 .. Depth /\ WorthOf(Given(side, selling, k), price) > Worth
    BY <2>3 DEF Enough
  <2> QED  BY <1>3, <2>4 DEF Offers, swap, k
<1> QED  BY <1>4, <1>5

\* What Swap offers for a sale is what Swap1 gives for it, and all that there is unless it is
\* worth enough (SwapWorth).
LEMMA SaleWorth ==
  ASSUME SerumAssumption, NEW side \in Ticked, NEW price \in Nat
  PROVE  LET sale == Swap(side, TRUE, price)
         IN /\ sale.quote = Swap1(side, TRUE, sale.base)
            /\ WorthOf(sale.base * Scale, price) > Worth \/ sale.base = Size(side)
<1> DEFINE sale == Swap(side, TRUE, price)
<1>1. PICK k : Offers(side, TRUE, price, k)
  BY OffersSome
<1>2. /\ k \in 1 .. Depth /\ sale.base = Held(side)[k] /\ sale.quote = Spent(side)[k] \div Scale
      /\ WorthOf(sale.base * Scale, price) > Worth \/ k = Depth
  BY <1>1 DEF Offers, Given
<1> HIDE DEF sale
<1>3. side \in Seq(Tick) /\ Len(side) = Depth /\ Depth \in Nat
  BY SideIs
<1>4. k \in 0 .. Len(side) /\ Depth \in 0 .. Len(side) /\ k <= Depth
  BY <1>2, <1>3
<1>5. Held(side)[k] \in Nat
  BY <1>3, <1>4, HeldAt
<1>6. Paid(side, Held(side)[k])[k] = Spent(side)[k]
  BY <1>3, <1>4, <1>5, PaidFull
<1>7. Paid(side, Held(side)[k])[Depth] = Paid(side, Held(side)[k])[k]
  BY <1>3, <1>4, <1>5, PaidStays
<1>8. Swap1(side, TRUE, Held(side)[k]) = Paid(side, Held(side)[k])[Depth] \div Scale
  BY <1>5, Sold
<1>9. Size(side) = Held(side)[Depth]
  BY <1>3, TotalIs
<1>10. sale.quote = Swap1(side, TRUE, sale.base)
  BY <1>2, <1>6, <1>7, <1>8
<1>11. WorthOf(sale.base * Scale, price) > Worth \/ sale.base = Size(side)
  BY <1>2, <1>9
<1> QED  BY <1>10, <1>11 DEF sale

\* A larger amount is worth no less.
LEMMA WorthRises ==
  ASSUME SerumAssumption, NEW a \in Nat, NEW b \in Nat, NEW price \in Nat, a <= b
  PROVE  WorthOf(a, price) > Worth => WorthOf(b, price) > Worth
<1> DEFINE x == DivRound(a * price, Micro)
           y == DivRound(b * price, Micro)
<1>1. Micro \in Nat \ {0} /\ Scale \in Nat \ {0} /\ Worth \in Nat
  BY Lots
<1>2. a * price \in Nat /\ b * price \in Nat
  OBVIOUS
<1>3. a * price <= b * price
  <2>1. price * a <= price * b
    BY TimesMore
  <2> QED  BY <2>1
<1>4. x <= y
  BY <1>1, <1>2, <1>3, RoundedRises
<1>5. x \in Nat /\ y \in Nat
  BY <1>1, <1>2, Rounded
<1> HIDE DEF x, y
<1>6. x \div Scale <= y \div Scale
  BY <1>1, <1>4, <1>5, QuotientRises
<1>7. x \div Scale \in Int /\ y \div Scale \in Int
  BY <1>1, <1>5
<1>8. WorthOf(a, price) = x \div Scale /\ WorthOf(b, price) = y \div Scale
  BY DEF WorthOf, x, y
<1> QED  BY <1>1, <1>6, <1>7, <1>8

\* Amounts, in parts, on the two sides of what the first k ticks cost, which buy no more and no
\* less than all of these ticks.
LEMMA CostBuys ==
  ASSUME SerumAssumption, NEW side \in Ticked, NEW k \in 1 .. Depth, NEW u \in Nat
  PROVE  /\ u * Scale <= Spent(side)[k] => Swap1(side, FALSE, u) <= Held(side)[k]
         /\ u * Scale > Spent(side)[k] => Swap1(side, FALSE, u) >= Held(side)[k]
<1> DEFINE h == Held(side)[k]
           c == Spent(side)[k]
           whole == u * Scale
<1>1. side \in Seq(Tick) /\ Len(side) = Depth /\ Depth \in Nat /\ Scale \in Nat \ {0}
  BY SideIs, Lots
<1>2. k \in 0 .. Depth /\ k \in 0 .. Len(side) /\ Depth \in 0 .. Depth /\ k <= Depth
  BY <1>1
<1>3. h \in Nat /\ c \in Nat
  BY <1>1, <1>2, HeldAt
<1>4. whole \in Nat
  BY <1>1
<1>5. PICK f : Purchasing(f, side, u)
  BY PurchaseIs, Zenon
<1>6. /\ f \in [0 .. Depth -> Part] /\ Swap1(side, FALSE, u) = f[Depth].got \div Scale
      /\ Buys(side, whole, f[k], k)
  BY <1>2, <1>5 DEF Purchasing
<1>7. f[k].got <= f[Depth].got /\ (f[k].left = 0 => f[Depth].got = f[k].got)
  BY <1>2, <1>5 DEF Purchasing
<1>8. /\ f[k].got \div Scale \in 0 .. h
      /\ f[k].left # 0 => f[k].got = h * Scale /\ f[k].left = whole - c
      /\ f[k].left = 0 => whole <= c
  BY <1>6 DEF Buys
<1>9. f[k].got \in Nat /\ f[k].left \in Nat /\ f[Depth].got \in Nat
  <2>1. f[k] \in Part /\ f[Depth] \in Part
    BY <1>2, <1>6
  <2> QED  BY <2>1 DEF Part
<1> HIDE DEF h, c, whole
<1>10. ASSUME whole <= c PROVE Swap1(side, FALSE, u) <= h
  <2>1. f[k].left = 0
    BY <1>3, <1>4, <1>8, <1>9, <1>10
  <2>2. Swap1(side, FALSE, u) \in 0 .. h
    BY <1>6, <1>7, <1>8, <2>1
  <2> DEFINE v == Swap1(side, FALSE, u)
  <2> HIDE DEF v
  <2>3. v \in 0 .. h
    BY <2>2 DEF v
  <2>4. v <= h
    BY ONLY <1>3, <2>3
  <2> QED  BY <2>4 DEF v
<1>11. ASSUME whole > c PROVE Swap1(side, FALSE, u) >= h
  <2>1. f[k].left # 0
    BY <1>3, <1>4, <1>8, <1>11
  <2>2. f[k].got = h * Scale
    BY <1>8, <2>1
  <2>3. f[k].got \div Scale <= f[Depth].got \div Scale
    BY <1>1, <1>7, <1>9, QuotientRises
  <2>4. f[k].got \div Scale = h
    BY <1>1, <1>3, <2>2, WholeQuotient
  <2>5. f[Depth].got \div Scale \in Int
    BY <1>1, <1>9
  <2> QED  BY <1>3, <1>6, <2>3, <2>4, <2>5
<1> QED  BY <1>10, <1>11 DEF h, c, whole

\* What Swap offers for a purchase, the cut of the amount apart, is what Swap1 gives for it, and
\* all that there is unless it is worth enough (SwapWorth).
LEMMA PurchaseWorth ==
  ASSUME SerumAssumption, NEW side \in Ticked, NEW price \in Nat
  PROVE  LET purchase == Swap(side, FALSE, price)
         IN /\ Swap1(side, FALSE, purchase.quote) <= purchase.base
            /\ Swap1(side, FALSE, purchase.quote + 1) >= purchase.base
            /\ \/ WorthOf((purchase.quote + 1) * Scale, price) > Worth
               \/ purchase.base = Size(side)
<1> DEFINE purchase == Swap(side, FALSE, price)
<1>1. PICK k : Offers(side, FALSE, price, k)
  BY OffersSome
<1>2. /\ k \in 1 .. Depth /\ purchase.base = Held(side)[k]
      /\ purchase.quote = Spent(side)[k] \div Scale
      /\ WorthOf(Spent(side)[k], price) > Worth \/ k = Depth
  BY <1>1 DEF Offers, Given
<1> DEFINE h == Held(side)[k]
           c == Spent(side)[k]
           u == c \div Scale
<1>3. side \in Seq(Tick) /\ Len(side) = Depth /\ Depth \in Nat /\ Scale \in Nat \ {0}
  BY SideIs, Lots
<1>4. h \in Nat /\ c \in Nat
  <2>1. k \in 0 .. Len(side)
    BY <1>2, <1>3
  <2> QED  BY <1>3, <2>1, HeldAt
<1> HIDE DEF purchase, h, c
<1>5. u \in Nat /\ u + 1 \in Nat /\ Scale * u <= c /\ c < Scale * u + Scale
  BY <1>3, <1>4, Quotient
<1> HIDE DEF u
<1>6. u * Scale <= c /\ (u + 1) * Scale > c /\ (u + 1) * Scale \in Nat
  BY <1>3, <1>4, <1>5
<1>7. Swap1(side, FALSE, u) <= h
  BY <1>2, <1>5, <1>6, CostBuys DEF h, c
<1>8. Swap1(side, FALSE, u + 1) >= h
  <2> DEFINE w == u + 1
  <2>1. w \in Nat /\ w * Scale > c
    BY <1>5, <1>6
  <2> HIDE DEF w
  <2>2. Swap1(side, FALSE, w) >= h
    BY <1>2, <2>1, CostBuys DEF h, c
  <2> QED  BY <2>2 DEF w
<1>9. WorthOf(c, price) > Worth => WorthOf((u + 1) * Scale, price) > Worth
  <2> DEFINE v == (u + 1) * Scale
  <2>1. v \in Nat /\ c <= v
    BY <1>4, <1>6
  <2> HIDE DEF v
  <2>2. WorthOf(c, price) > Worth => WorthOf(v, price) > Worth
    BY <1>4, <2>1, WorthRises
  <2> QED  BY <2>2 DEF v
<1>10. Size(side) = Held(side)[Depth]
  BY <1>3, TotalIs
<1>11. purchase.base = h /\ purchase.quote = u
  BY <1>2 DEF h, c, u
<1>12. Swap1(side, FALSE, purchase.quote) <= purchase.base
  BY <1>7, <1>11
<1>13. Swap1(side, FALSE, purchase.quote + 1) >= purchase.base
  BY <1>8, <1>11
<1>14. \/ WorthOf((purchase.quote + 1) * Scale, price) > Worth
       \/ purchase.base = Size(side)
  BY <1>2, <1>9, <1>10, <1>11 DEF h, c
<1> QED  BY <1>12, <1>13, <1>14 DEF purchase

\* Version 1: the best order of a book, out of all of them.
LEMMA BestRead ==
  ASSUME SerumAssumption, NEW orders \in Content, NEW bids \in BOOLEAN,
         Ticks(Items1(orders, bids)) # <<>>
  PROVE  /\ Ticks(Facing(orders, bids)) \in Seq(Positive) /\ Ticks(Facing(orders, bids)) # <<>>
         /\ Ticks(Items1(orders, bids))[1] = Ticks(Facing(orders, bids))[1]
<1> DEFINE s == Items(orders, bids, Len(orders))
           all == Facing(orders, bids)
           n == Len(orders)
<1>1. orders \in Seq(Order) /\ n \in Nat
  BY ContentIs
<1>2. n # 0
  <2> SUFFICES ASSUME n = 0 PROVE FALSE
    OBVIOUS
  <2>1. orders = <<>>
    BY <1>1
  <2>2. s = <<>>
    BY <2>1, Zenon DEF Items
  <2>3. Ticks(s) = <<>>
    <3>1. <<>> \in Seq(Order) /\ Len(<<>>) = 0
      OBVIOUS
    <3> HIDE DEF s
    <3>2. Ticks(s) \in Seq(Positive) /\ Len(Ticks(s)) = 0
      BY <2>2, <3>1, TicksAre
    <3> QED  BY <3>2
  <2> QED  BY <2>3 DEF Items1
<1>3. ItemsOf(orders, bids, n, s)
  <2>1. n \in Nat \ {0}
    BY <1>1, <1>2
  <2> QED  BY <2>1, ItemsAre
<1>4. all \in Seq(Order) /\ Len(all) = n /\ \A i \in 1 .. n : all[i] = Met(orders, i, bids)
  BY FacingIs
<1> HIDE DEF s, all, n
<1>5. s \in Seq(Order) /\ Len(s) = n /\ \A i \in 1 .. Len(s) : s[i] = Met(orders, i, bids)
  BY <1>3 DEF ItemsOf, n
<1>6. 1 \in 1 .. n
  BY <1>1, <1>2
<1>7. s[1] = all[1]
  BY <1>4, <1>5, <1>6
<1>8. Ticks(s)[1] = TickOf(s[1])
  BY <1>5, <1>6, TicksAre
<1>9. Ticks(all) \in Seq(Positive) /\ Len(Ticks(all)) = n /\ Ticks(all)[1] = TickOf(all[1])
  BY <1>4, <1>6, TicksAre
<1>10. Ticks(all) # <<>>
  BY <1>2, <1>9
<1>11. Ticks(Items1(orders, bids))[1] = Ticks(s)[1]
  BY DEF Items1, s, n
<1> QED  BY <1>7, <1>8, <1>9, <1>10, <1>11 DEF all

\* What the best order asks for all of it.
LEMMA BestCosts ==
  ASSUME NEW s \in Seq(Positive), s # <<>>
  PROVE  Total(s, s[1].quantity) = s[1].price * s[1].quantity
<1> DEFINE n == Len(s)
           q == s[1].quantity
<1>1. s \in Seq(Tick) /\ n \in Nat \ {0}
  BY DEF Positive
<1>2. 1 \in 1 .. n /\ 0 \in 0 .. n /\ 1 \in 0 .. n /\ n \in 0 .. n /\ 1 <= n
  BY <1>1
<1>3. q \in Nat /\ s[1].price \in Nat
  BY <1>1, <1>2 DEF Tick
<1>4. Held(s)[0] = 0 /\ Spent(s)[0] = 0
  BY <1>1, HeldIs
<1>5. Held(s)[1] = Held(s)[1 - 1] + q /\ Spent(s)[1] = Spent(s)[1 - 1] + s[1].price * q
  BY <1>1, <1>2, HeldIs
<1>6. Held(s)[1] = q /\ Spent(s)[1] = s[1].price * q
  <2> DEFINE cost == s[1].price * q
  <2>1. cost \in Nat
    BY <1>3
  <2> HIDE DEF cost, q
  <2> QED  BY <1>3, <1>4, <1>5, <2>1 DEF cost
<1> HIDE DEF n, q
<1>7. Paid(s, q)[1] = Spent(s)[1]
  BY <1>1, <1>2, <1>3, <1>6, PaidFull DEF n
<1>8. Paid(s, q)[n] = Paid(s, q)[1]
  BY <1>1, <1>2, <1>3, <1>6, PaidStays DEF n
<1>9. Total(s, q) = Paid(s, q)[n]
  BY TotalIs DEF n
<1> QED  BY <1>6, <1>7, <1>8, <1>9 DEF q

\* The quotes of version 1 are the best orders (BestOrderQuoted).
BestQuoted(m) ==
  LET sale == Local1(m, MarketOf[m].base)
      purchase == Local1(m, MarketOf[m].quote)
  IN /\ (Current(MarketOf[m].bids) /\ sale.ok) =>
          NoMore(sale.out, BestBids(m), sale.in) /\ NoLess(sale.out, BestBids(m), sale.in)
     /\ (Current(MarketOf[m].asks) /\ purchase.ok) =>
          /\ NoMore(purchase.in, BestAsks(m), purchase.out)
          /\ NoLess(purchase.in, BestAsks(m), purchase.out)

\* So they are, for every model.
LEMMA BestAreQuoted ==
  ASSUME SerumAssumption, IInv, NEW m \in models
  PROVE  BestQuoted(m)
<1> DEFINE sale == Local1(m, MarketOf[m].base)
           purchase == Local1(m, MarketOf[m].quote)
<1>1. m \in Markets
  BY DEF IInv, Nested
<1>2. /\ MarketOf[m].bids \in Books /\ MarketOf[m].asks \in Books
      /\ MarketOf[m].base # MarketOf[m].quote
  BY <1>1 DEF SerumAssumption
<1>3. ASSUME Current(MarketOf[m].bids), sale.ok
      PROVE  NoMore(sale.out, BestBids(m), sale.in) /\ NoLess(sale.out, BestBids(m), sale.in)
  <2> DEFINE orders == chain[MarketOf[m].bids].orders
             facing == Facing(orders, FALSE)
             best == Ticks(Items1(orders, FALSE))
             b == best[1]
             units == (b.price * b.quantity) \div Scale
  <2>1. orderBooks[MarketOf[m].bids].slab = orders /\ orders \in Content
    BY <1>2, <1>3, CurrentIs
  <2>2. sale = IF best = <<>> THEN Error ELSE [ok |-> TRUE, in |-> b.quantity, out |-> units]
    <3>1. sale = BestOrder(m, TRUE)
      BY DEF Local1, Pair
    <3>2. Model(m).ask = MarketOf[m].bids
      BY DEF Model
    <3>3. best = Ticks(Items1(orderBooks[Model(m).ask].slab, FALSE))
      BY <2>1, <3>2
    <3> HIDE DEF sale, best
    <3>4. BestOrder(m, TRUE) = IF best = <<>> THEN Error ELSE [ok |-> TRUE, in |-> b.quantity, out |-> units]
      BY <3>3, Zenon DEF BestOrder
    <3> QED  BY <3>1, <3>4
  <2>3. BestBids(m) = facing /\ BestBids(m) \in Seq(Order)
    BY <1>1, BestIs DEF Facing
  <2> HIDE DEF best, orders, sale, units, facing
  <2>4. best # <<>>
    BY <1>3, <2>2 DEF Error
  <2>5. Ticks(facing) \in Seq(Positive) /\ Ticks(facing) # <<>> /\ b = Ticks(facing)[1]
    <3>1. Ticks(Items1(orders, FALSE)) # <<>> /\ b = Ticks(Items1(orders, FALSE))[1]
      BY <2>4 DEF best
    <3>2. FALSE \in BOOLEAN
      OBVIOUS
    <3> HIDE DEF best
    <3>3. /\ Ticks(Facing(orders, FALSE)) \in Seq(Positive) /\ Ticks(Facing(orders, FALSE)) # <<>>
          /\ Ticks(Items1(orders, FALSE))[1] = Ticks(Facing(orders, FALSE))[1]
      BY <2>1, <3>1, <3>2, BestRead
    <3> QED  BY <3>1, <3>3 DEF facing
  <2>6. Total(Ticks(facing), b.quantity) = b.price * b.quantity
    BY <2>5, BestCosts
  <2>7. sale = [ok |-> TRUE, in |-> b.quantity, out |-> units]
    BY <2>2, <2>4
  <2>8. sale.in = b.quantity /\ sale.out = units
    BY <2>7
  <2>9. b.quantity \in Nat
    <3> HIDE DEF b
    <3>1. 1 \in 1 .. Len(Ticks(facing))
      BY <2>5
    <3>2. b \in Positive
      BY <2>5, <3>1
    <3> QED  BY <3>2 DEF Positive, Tick
  <2>10. units = Total(Ticks(facing), b.quantity) \div Scale
    BY <2>6 DEF units
  <2>11. NoMore(units, facing, b.quantity) /\ NoLess(units, facing, b.quantity)
    <3> DEFINE q == b.quantity
               x == Total(Ticks(facing), q) \div Scale
    <3>1. q \in Nat /\ facing \in Seq(Order)
      BY <2>3, <2>9
    <3> HIDE DEF q
    <3>2. x \in Nat /\ NoMore(x, facing, q) /\ \A u \in Nat : x <= u => NoLess(u, facing, q)
      BY <3>1, CutIsFair
    <3> HIDE DEF x
    <3>3. NoLess(x, facing, q)
      BY <3>2
    <3>4. units = x
      BY <2>10 DEF x, q
    <3> QED  BY <3>2, <3>3, <3>4 DEF q
  <2> QED  BY <2>3, <2>8, <2>11
<1>4. ASSUME Current(MarketOf[m].asks), purchase.ok
      PROVE  NoMore(purchase.in, BestAsks(m), purchase.out) /\ NoLess(purchase.in, BestAsks(m), purchase.out)
  <2> DEFINE orders == chain[MarketOf[m].asks].orders
             facing == Facing(orders, TRUE)
             best == Ticks(Items1(orders, TRUE))
             b == best[1]
             units == (b.price * b.quantity) \div Scale
  <2>1. orderBooks[MarketOf[m].asks].slab = orders /\ orders \in Content
    BY <1>2, <1>4, CurrentIs
  <2>2. purchase = IF best = <<>> THEN Error ELSE [ok |-> TRUE, in |-> units, out |-> b.quantity]
    <3>1. purchase = BestOrder(m, FALSE)
      BY <1>2 DEF Local1, Pair
    <3>2. Model(m).bid = MarketOf[m].asks
      BY DEF Model
    <3>3. best = Ticks(Items1(orderBooks[Model(m).bid].slab, TRUE))
      BY <2>1, <3>2
    <3> HIDE DEF purchase, best
    <3>4. BestOrder(m, FALSE) = IF best = <<>> THEN Error ELSE [ok |-> TRUE, in |-> units, out |-> b.quantity]
      BY <3>3, Zenon DEF BestOrder
    <3> QED  BY <3>1, <3>4
  <2>3. BestAsks(m) = facing /\ BestAsks(m) \in Seq(Order)
    BY <1>1, BestIs DEF Facing
  <2> HIDE DEF best, orders, purchase, units, facing
  <2>4. best # <<>>
    BY <1>4, <2>2 DEF Error
  <2>5. Ticks(facing) \in Seq(Positive) /\ Ticks(facing) # <<>> /\ b = Ticks(facing)[1]
    <3>1. Ticks(Items1(orders, TRUE)) # <<>> /\ b = Ticks(Items1(orders, TRUE))[1]
      BY <2>4 DEF best
    <3>2. TRUE \in BOOLEAN
      OBVIOUS
    <3> HIDE DEF best
    <3>3. /\ Ticks(Facing(orders, TRUE)) \in Seq(Positive) /\ Ticks(Facing(orders, TRUE)) # <<>>
          /\ Ticks(Items1(orders, TRUE))[1] = Ticks(Facing(orders, TRUE))[1]
      BY <2>1, <3>1, <3>2, BestRead
    <3> QED  BY <3>1, <3>3 DEF facing
  <2>6. Total(Ticks(facing), b.quantity) = b.price * b.quantity
    BY <2>5, BestCosts
  <2>7. purchase = [ok |-> TRUE, in |-> units, out |-> b.quantity]
    BY <2>2, <2>4
  <2>8. purchase.out = b.quantity /\ purchase.in = units
    BY <2>7
  <2>9. b.quantity \in Nat
    <3> HIDE DEF b
    <3>1. 1 \in 1 .. Len(Ticks(facing))
      BY <2>5
    <3>2. b \in Positive
      BY <2>5, <3>1
    <3> QED  BY <3>2 DEF Positive, Tick
  <2>10. units = Total(Ticks(facing), b.quantity) \div Scale
    BY <2>6 DEF units
  <2>11. NoMore(units, facing, b.quantity) /\ NoLess(units, facing, b.quantity)
    <3> DEFINE q == b.quantity
               x == Total(Ticks(facing), q) \div Scale
    <3>1. q \in Nat /\ facing \in Seq(Order)
      BY <2>3, <2>9
    <3> HIDE DEF q
    <3>2. x \in Nat /\ NoMore(x, facing, q) /\ \A u \in Nat : x <= u => NoLess(u, facing, q)
      BY <3>1, CutIsFair
    <3> HIDE DEF x
    <3>3. NoLess(x, facing, q)
      BY <3>2
    <3>4. units = x
      BY <2>10 DEF x, q
    <3> QED  BY <3>2, <3>3, <3>4 DEF q
  <2> QED  BY <2>3, <2>8, <2>11
<1> HIDE DEF sale, purchase
<1> QED  BY <1>3, <1>4 DEF BestQuoted, sale, purchase

\* What Swap offers for the ticks of a market, at one price (SwapWorth).
WorthQuoted(m, price) ==
  LET sale == Swap(ticks[m].ask, TRUE, price)
      purchase == Swap(ticks[m].bid, FALSE, price)
  IN /\ sale.quote = Swap1(ticks[m].ask, TRUE, sale.base)
     /\ WorthOf(sale.base * Scale, price) > Worth \/ sale.base = Size(ticks[m].ask)
     /\ Swap1(ticks[m].bid, FALSE, purchase.quote) <= purchase.base
     /\ Swap1(ticks[m].bid, FALSE, purchase.quote + 1) >= purchase.base
     /\ \/ WorthOf((purchase.quote + 1) * Scale, price) > Worth
        \/ purchase.base = Size(ticks[m].bid)

\* Every quote is what the orders give, but for the rounding of the decimals: a quote of
\* version 2 from books that are known is what the exchange gives for its first orders, if
\* they can take the amount, and never less; that of version 1 is the best order; and what
\* Swap offers to the calculator is what Swap1 gives, up to one unit of the amount of a
\* purchase (Swap1, Swap, Local of serumv2, Swap of serumv1).
THEOREM QuotesAreSound == Spec => []QuotesSound
<1>1. IInv => QuotesSound
  <2> SUFFICES ASSUME IInv PROVE QuotesSound
    OBVIOUS
  <2>1. QuoteHonest
    <3> SUFFICES ASSUME version = "v2", NEW m \in models, NEW amount \in Amounts
                 PROVE  QuotesTops(m, amount)
      BY Zenon DEF QuoteHonest, QuotesTops
    <3> QED  BY SerumAssumption, QuotesAreTops
  <2>2. BestOrderQuoted
    <3> SUFFICES ASSUME NEW m \in models PROVE BestQuoted(m)
      BY Zenon DEF BestOrderQuoted, BestQuoted
    <3> QED  BY SerumAssumption, BestAreQuoted
  <2>3. SwapWorth
    <3> SUFFICES ASSUME NEW m \in models, NEW price \in Amounts PROVE WorthQuoted(m, price)
      BY Zenon DEF SwapWorth, WorthQuoted
    <3>1. m \in Markets /\ price \in Nat
      BY SerumAssumption DEF IInv, Nested, SerumAssumption
    <3> DEFINE ask == ticks[m].ask
               bid == ticks[m].bid
    <3>2. ask \in Ticked /\ bid \in Ticked
      BY <3>1 DEF IInv, Types
    <3> HIDE DEF ask, bid
    <3>3. LET sale == Swap(ask, TRUE, price)
          IN /\ sale.quote = Swap1(ask, TRUE, sale.base)
             /\ WorthOf(sale.base * Scale, price) > Worth \/ sale.base = Size(ask)
      BY SerumAssumption, <3>1, <3>2, SaleWorth
    <3>4. LET purchase == Swap(bid, FALSE, price)
          IN /\ Swap1(bid, FALSE, purchase.quote) <= purchase.base
             /\ Swap1(bid, FALSE, purchase.quote + 1) >= purchase.base
             /\ \/ WorthOf((purchase.quote + 1) * Scale, price) > Worth
                \/ purchase.base = Size(bid)
      BY SerumAssumption, <3>1, <3>2, PurchaseWorth
    <3> QED  BY <3>3, <3>4 DEF ask, bid, WorthQuoted
  <2> QED  BY <2>1, <2>2, <2>3 DEF QuotesSound
<1> QED  BY <1>1, Invariant, PTL
=============================================================================
