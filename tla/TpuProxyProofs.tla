---------------------------- MODULE TpuProxyProofs ----------------------------
(***************************************************************************)
(* Proofs about the proxies: the tables are well-formed and what is        *)
(* subscribed to is cached; the service lets a transaction go for a reason *)
(* only; from a round whose leaders are known, the next one finds all of   *)
(* its own.                                                                *)
(*                                                                         *)
(* The leaders.  What the schedule was asked for last begins no later than *)
(* the window of some round (Fetched), because a round asks for its own    *)
(* slots only (Asked).  If the window of the last round lies before the    *)
(* check point, what follows it is therefore known for Upcoming slots      *)
(* more, and what it has itself is known by assumption; as slots come in   *)
(* their order (Forward), the next round looks at nothing else (Met).      *)
(*                                                                         *)
(* The cache.  What send() looks at ends with the MaxUnsent-th that waits, *)
(* and what it keeps of that reaches from the first to the last in time:   *)
(* so what is lost was out of time or comes after MaxUnsent that wait.     *)
(***************************************************************************)
EXTENDS TpuProxy, WellFoundedInduction, FiniteSetTheorems, TLAPS

\* The transactions on their way and in the cache were committed.
Counted ==
  /\ \A i \in DOMAIN transactions : transactions[i].n <= commands
  /\ \A i \in DOMAIN cache : cache[i].n <= commands

\* No slot that waits is older than the round, or newer than the newest.
Forward ==
  /\ curSlot <= slot
  /\ \A i \in DOMAIN latest : curSlot <= latest[i] /\ latest[i] <= slot

\* A round looks at slots of its window; the first one starts with a real slot.
Within ==
  round # Idle => /\ FirstSlot <= curSlot
                  /\ curSlot - Past <= round.at /\ round.at <= curSlot + Upcoming

\* What may be asked for: slots of a round, past the first check point.
Askable(s) == 2 * Upcoming < s /\ s <= curSlot + Upcoming - 1

Asked ==
  /\ \A i \in DOMAIN newFresh : Askable(newFresh[i])
  /\ asking # None => Askable(asking)

\* What was asked for last has come as a whole, and from a round's window on.
Fetched ==
  firstSlot # 0 => /\ firstSlot + Past <= curSlot + Upcoming - 1
                   /\ firstSlot .. firstSlot + 3 * Upcoming - 1 \subseteq known

\* A settled round knows all of its window.
Met == settled => missed = {} /\ Window(curSlot) \subseteq known

IInv ==
  /\ TypeOK /\ Counted /\ Forward /\ Within /\ Asked /\ Fetched /\ Met
  /\ SubscribedIsCached

-----------------------------------------------------------------------------
(* Smallest and largest elements, and what send() looks at and keeps.      *)

\* A set of naturals that is not empty has a smallest element, which MinOf chooses.
LEMMA MinExists ==
  ASSUME NEW S \in SUBSET Nat, S # {}
  PROVE  MinOf(S) \in S /\ \A y \in S : MinOf(S) <= y
<1> DEFINE R == {ss \in Nat \X Nat : ss[1] < ss[2]}
<1>0. R = OpToRel(<, Nat)
  BY DEF OpToRel
<1>1. IsWellFoundedOn(R, Nat)
  BY <1>0, NatLessThanWellFounded
<1>2. \E x \in S : \A y \in S : <<y, x>> \notin R
  BY <1>1, WFMin, Zenon
<1>3. \A x, y \in Nat : <<y, x>> \notin R => ~(y < x)
  OBVIOUS
<1>4. \A x, y \in Nat : ~(y < x) => x <= y
  OBVIOUS
<1> HIDE DEF R
<1>5. \A x, y \in S : x \in Nat /\ y \in Nat
  OBVIOUS
<1>6. \E x \in S : \A y \in S : x <= y
  BY <1>2, <1>3, <1>4, <1>5, Zenon
<1> QED
  BY <1>6, Zenon DEF MinOf

\* One that has a bound has a largest element, which MaxOf chooses.
LEMMA MaxExists ==
  ASSUME NEW S \in SUBSET Nat, S # {}, NEW n \in Nat, \A x \in S : x <= n
  PROVE  MaxOf(S) \in S /\ \A y \in S : y <= MaxOf(S)
<1> DEFINE T == {m \in 0 .. n : n - m \in S}
<1>1. T \in SUBSET Nat
  OBVIOUS
<1>2. T # {}
  <2>1. PICK x \in S : TRUE
    OBVIOUS
  <2>2. x \in Nat /\ x <= n
    OBVIOUS
  <2>3. n - x \in 0 .. n /\ n - (n - x) = x
    BY <2>2
  <2> QED
    BY <2>3, <2>1
<1>3. PICK m \in T : \A k \in T : m <= k
  BY <1>1, <1>2, MinExists, Zenon
<1>4. m \in 0 .. n /\ n - m \in S
  BY <1>3
<1>5. ASSUME NEW y \in S PROVE y <= n - m
  <2>1. y \in Nat /\ y <= n /\ m \in Nat
    BY <1>4
  <2>2. n - y \in 0 .. n /\ n - (n - y) = y
    BY <2>1
  <2>3. m <= n - y
    BY <1>3, <2>2
  <2> QED
    BY <2>1, <2>3
<1>6. \E x \in S : \A y \in S : y <= x
  BY <1>4, <1>5
<1> QED
  BY <1>6, Zenon DEF MaxOf

\* What send() looks at is a beginning of the cache; it leaves out nothing that fewer
\* than MaxUnsent waiting ones come before.
LEMMA LookedIs ==
  ASSUME NEW c, NEW C, c \in Seq(C)
  PROVE  /\ Looked(c) \subseteq DOMAIN c
         /\ \A i \in DOMAIN c \ Looked(c) : Cardinality({j \in Waiting(c) : j < i}) >= MaxUnsent
<1> DEFINE full == {i \in Waiting(c) : Cardinality({j \in Waiting(c) : j <= i}) = MaxUnsent}
           m == MinOf(full)
<1>1. Len(c) \in Nat /\ DOMAIN c = 1 .. Len(c)
  OBVIOUS
<1>2. Waiting(c) \subseteq 1 .. Len(c)
  BY <1>1 DEF Waiting
<1>3. CASE full = {}
  <2>1. Looked(c) = DOMAIN c
    BY <1>3 DEF Looked
  <2> QED
    BY <2>1
<1>4. CASE full # {}
  <2>1. full \in SUBSET Nat
    BY <1>1, <1>2
  <2>2. m \in full
    BY <2>1, <1>4, MinExists, Zenon
  <2>3. Looked(c) = 1 .. m
    BY <1>4 DEF Looked
  <2>4. m \in 1 .. Len(c) /\ Cardinality({j \in Waiting(c) : j <= m}) = MaxUnsent
    BY <1>2, <2>2
  <2> HIDE DEF full, m
  <2>5. Looked(c) \subseteq DOMAIN c
    BY <1>1, <2>3, <2>4
  <2>6. ASSUME NEW i \in DOMAIN c \ Looked(c)
        PROVE  Cardinality({j \in Waiting(c) : j < i}) >= MaxUnsent
    <3> DEFINE few == {j \in Waiting(c) : j <= m}
               more == {j \in Waiting(c) : j < i}
    <3>1. i \in Nat /\ m \in Nat /\ m < i
      BY <1>1, <2>3, <2>4
    <3>2. few \in SUBSET more
      BY <1>2, <3>1
    <3>3. IsFiniteSet(more)
      <4>1. IsFiniteSet(1 .. Len(c))
        BY <1>1, FS_Interval
      <4>2. more \in SUBSET (1 .. Len(c))
        BY <1>2
      <4> QED
        BY <4>1, <4>2, FS_Subset, Zenon
    <3> HIDE DEF few, more
    <3>4. Cardinality(few) <= Cardinality(more) /\ Cardinality(few) \in Nat /\ Cardinality(more) \in Nat
      BY <3>2, <3>3, FS_Subset, FS_CardinalityType
    <3>5. Cardinality(few) = MaxUnsent
      BY <2>4 DEF few
    <3>6. Cardinality(more) >= MaxUnsent
      BY <3>4, <3>5
    <3> QED
      BY <3>6 DEF more
  <2> QED
    BY <2>5, <2>6
<1> QED
  BY <1>3, <1>4

\* What it keeps is a part of the cache, with all that it looks at and that is in time.
LEMMA KeptIs ==
  ASSUME NEW c, NEW C, c \in Seq(C)
  PROVE  /\ Kept(c) \in Seq(C)
         /\ \A i \in DOMAIN Kept(c) : \E j \in DOMAIN c : Kept(c)[i] = c[j]
         /\ \A i \in Looked(c) : InTime(c[i]) => \E j \in DOMAIN Kept(c) : Kept(c)[j] = c[i]
<1> DEFINE young == {i \in Looked(c) : InTime(c[i])}
           a == MinOf(young)
           b == MaxOf(young)
<1>1. Len(c) \in Nat /\ DOMAIN c = 1 .. Len(c)
  OBVIOUS
<1>2. young \subseteq 1 .. Len(c)
  BY <1>1, LookedIs
<1>3. CASE young = {}
  <2>1. Kept(c) = <<>>
    BY <1>3 DEF Kept
  <2> QED
    BY <2>1, <1>3
<1>4. CASE young # {}
  <2>1. young \in SUBSET Nat /\ \A x \in young : x <= Len(c)
    BY <1>1, <1>2
  <2>2. a \in young /\ \A y \in young : a <= y
    BY <2>1, <1>4, MinExists, Zenon
  <2>3. b \in young /\ \A y \in young : y <= b
    BY <2>1, <1>4, <1>1, MaxExists, Zenon
  <2>4. Kept(c) = SubSeq(c, a, b)
    BY <1>4 DEF Kept
  <2>5. \A i \in Looked(c) : InTime(c[i]) => i \in young
    OBVIOUS
  <2>6. a \in 1 .. Len(c) /\ b \in 1 .. Len(c) /\ a <= b
    BY <1>2, <2>2, <2>3
  <2> HIDE DEF young, a, b
  <2>7. /\ SubSeq(c, a, b) \in Seq(C) /\ Len(SubSeq(c, a, b)) = b - a + 1
        /\ \A k \in 1 .. b - a + 1 : SubSeq(c, a, b)[k] = c[a + k - 1]
    BY <1>1, <2>6
  <2>8. DOMAIN SubSeq(c, a, b) = 1 .. b - a + 1
    BY <2>7
  <2>9. \A i \in 1 .. b - a + 1 : a + i - 1 \in DOMAIN c
    BY <1>1, <2>6
  <2>10. ASSUME NEW i \in young
         PROVE  \E j \in DOMAIN SubSeq(c, a, b) : SubSeq(c, a, b)[j] = c[i]
    <3>1. i \in Nat /\ a \in Nat /\ b \in Nat /\ a <= i /\ i <= b
      BY <2>1, <2>2, <2>3, <2>6
    <3>2. i - a + 1 \in 1 .. b - a + 1 /\ a + (i - a + 1) - 1 = i
      BY <3>1
    <3> QED
      BY <3>2, <2>7, <2>8
  <2> QED
    BY <2>4, <2>5, <2>7, <2>8, <2>9, <2>10
<1> QED
  BY <1>3, <1>4

-----------------------------------------------------------------------------
(* Type correctness.                                                       *)

\* The transactions that may be committed stay the same: the kind of proxy does.
LEMMA KindStays ==
  ASSUME [Next]_vars
  PROVE  kind' = kind /\ Commands' = Commands
<1>1. kind' = kind
  BY DEF Next, vars, RefreshConnection, RefreshSlotLeaders, SendTransaction, NewSlot, StartRound, Lookup,
         Connect, TakeFresh, FetchLeaders, FetchFails, FetchAvailableNodes, CommitTransaction, Tick,
         TakeTx, SendRound, Send, Landed
<1> QED
  BY <1>1 DEF Commands

\* What the bounds are, for the proxy it is.
LEMMA BoundsAre ==
  ASSUME kind \in Kinds
  PROVE  /\ LastSlot[kind] \in Nat /\ LastTime[kind] \in Nat /\ MaxCommands[kind] \in Nat
         /\ FirstSlot <= LastSlot[kind] /\ 0 .. LastSlot[kind] + Upcoming \subseteq Slots
<1>1. /\ LastSlot[kind] \in Nat /\ LastTime[kind] \in Nat /\ MaxCommands[kind] \in Nat
      /\ FirstSlot <= LastSlot[kind] /\ Upcoming \in Nat
  BY TpuAssumption
<1>2. LastSlot["Proxy1"] \in Nat /\ LastSlot["Proxy"] \in Nat
  BY TpuAssumption DEF Kinds
<1>3. kind = "Proxy1" \/ kind = "Proxy"
  BY DEF Kinds
<1>4. LastSlot[kind] <= LastSlot["Proxy1"] + LastSlot["Proxy"]
  BY <1>2, <1>3
<1> QED
  BY <1>1, <1>2, <1>4 DEF Slots

\* The proxy begins with its invariant.
LEMMA Initially == Init => IInv
<1> SUFFICES ASSUME Init PROVE IInv
  OBVIOUS
<1> USE TpuAssumption
<1>1. /\ LastSlot[kind] \in Nat /\ LastTime[kind] \in Nat /\ MaxCommands[kind] \in Nat
      /\ FirstSlot <= LastSlot[kind]
  BY BoundsAre DEF Init
<1>2. TypeOK
  <2>1. slot \in FirstSlot .. LastSlot[kind] /\ now \in 0 .. LastTime[kind] /\ commands \in 0 .. MaxCommands[kind]
    BY <1>1 DEF Init
  <2>2. latest \in Seq(FirstSlot .. LastSlot[kind]) /\ newFresh \in Seq(Nat) /\ Len(newFresh) <= FreshCap
    BY DEF Init
  <2>3. transactions \in Seq(Commands) /\ cache \in Seq(Commands)
    BY DEF Init
  <2> QED
    BY <2>1, <2>2, <2>3 DEF Init, TypeOK
<1>3. Counted /\ Forward /\ SubscribedIsCached
  BY DEF Init, Counted, Forward, SubscribedIsCached
<1>4. Within /\ Asked /\ Fetched /\ Met
  BY DEF Init, Within, Asked, Fetched, Met, None
<1> QED
  BY <1>2, <1>3, <1>4 DEF IInv

\* The part of the types that is about slots, connections and the schedule is kept.
LEMMA SlotTypes ==
  ASSUME IInv, [Next]_vars
  PROVE  /\ (slot \in FirstSlot .. LastSlot[kind] /\ latest \in Seq(FirstSlot .. LastSlot[kind]))'
         /\ (curSlot \in {0} \cup FirstSlot .. LastSlot[kind])'
         /\ (round \in {Idle} \cup [at : Nat, found : SUBSET Leaders])'
         /\ (missed \subseteq Nat /\ settled \in BOOLEAN)'
         /\ (nodes \in SUBSET Leaders /\ tpuConns \in SUBSET nodes)'
         /\ (known \subseteq Nat /\ firstSlot \in Nat)'
         /\ (newFresh \in Seq(Nat) /\ Len(newFresh) <= FreshCap /\ asking \in Nat \cup {None})'
<1> USE TpuAssumption
<1>t. /\ kind \in Kinds
      /\ slot \in FirstSlot .. LastSlot[kind] /\ latest \in Seq(FirstSlot .. LastSlot[kind])
      /\ curSlot \in {0} \cup FirstSlot .. LastSlot[kind]
      /\ round \in {Idle} \cup [at : Nat, found : SUBSET Leaders]
      /\ missed \subseteq Nat /\ settled \in BOOLEAN
      /\ nodes \in SUBSET Leaders /\ tpuConns \in SUBSET nodes
      /\ known \subseteq Nat /\ firstSlot \in Nat
      /\ newFresh \in Seq(Nat) /\ Len(newFresh) <= FreshCap /\ asking \in Nat \cup {None}
  BY DEF IInv, TypeOK
<1>b. /\ LastSlot[kind] \in Nat /\ FirstSlot <= LastSlot[kind] /\ 0 .. LastSlot[kind] + Upcoming \subseteq Slots
  BY <1>t, BoundsAre
<1>k. kind' = kind
  BY KindStays
<1> USE <1>t, <1>k
<1>1. CASE NewSlot
  <2>1. slot' \in FirstSlot .. LastSlot[kind]
    BY <1>1, <1>b DEF NewSlot
  <2>2. latest' \in Seq(FirstSlot .. LastSlot[kind])
    <3>1. Append(latest, slot') \in Seq(FirstSlot .. LastSlot[kind])
      BY <2>1, <1>b
    <3>2. latest' = Append(latest, slot') \/ latest' = latest
      BY ONLY <1>1 DEF NewSlot
    <3> QED
      BY <3>1, <3>2
  <2> QED
    BY <1>1, <2>1, <2>2 DEF NewSlot, refreshing, schedule
<1>2. CASE StartRound
  <2>1. latest[Len(latest)] \in FirstSlot .. LastSlot[kind]
    BY <1>2, SMTT(30) DEF StartRound
  <2>2. latest[Len(latest)] - Past \in Nat
    BY <2>1, SMTT(30)
  <2>3. [at |-> latest[Len(latest)] - Past, found |-> {}] \in [at : Nat, found : SUBSET Leaders]
    BY <2>2
  <2>4. curSlot' \in {0} \cup FirstSlot .. LastSlot[kind] /\ round' \in {Idle} \cup [at : Nat, found : SUBSET Leaders]
    BY <1>2, <2>1, <2>3 DEF StartRound
  <2>5. missed' \subseteq Nat /\ settled' \in BOOLEAN
    BY <1>2 DEF StartRound
  <2>6. latest' \in Seq(FirstSlot .. LastSlot[kind])
    BY <1>2 DEF StartRound
  <2> QED
    BY <1>2, <2>4, <2>5, <2>6 DEF StartRound, schedule
<1>3. CASE Lookup
  <2>1. round \in [at : Nat, found : SUBSET Leaders] /\ round.at < curSlot + Upcoming
    BY <1>3 DEF Lookup
  <2>2. round.at \in Slots
    BY <2>1, <1>b
  <2>3. Schedule[round.at] \in Leaders
    BY <2>2
  <2>r. round.at \in Nat /\ round.at + 1 \in Nat /\ round.found \in SUBSET Leaders
    BY <2>1
  <2>4. round' \in [at : Nat, found : SUBSET Leaders] /\ missed' \subseteq Nat
    BY <1>3, <2>r, <2>3 DEF Lookup
  <2>5. newFresh' \in Seq(Nat) /\ Len(newFresh') <= FreshCap
    BY <1>3, <2>1 DEF Lookup
  <2> QED
    BY <1>3, <2>4, <2>5 DEF Lookup
<1>4. CASE Connect
  BY <1>4 DEF Connect, schedule
<1>5. CASE TakeFresh
  <2> DEFINE all == {newFresh[i] : i \in DOMAIN newFresh}
  <2>0. Len(newFresh) \in Nat \ {0} /\ DOMAIN newFresh = 1 .. Len(newFresh)
    BY <1>5 DEF TakeFresh
  <2>1. all \in SUBSET Nat /\ all # {}
    <3>0. 1 \in DOMAIN newFresh
      BY ONLY <2>0
    <3>1. newFresh[1] \in all
      BY ONLY <3>0, Zenon
    <3>2. \A i \in DOMAIN newFresh : newFresh[i] \in Nat
      BY <2>0
    <3>3. all \in SUBSET Nat
      BY ONLY <3>2
    <3> QED
      BY ONLY <3>1, <3>3
  <2>2. MinOf(all) \in Nat
    BY <2>1, MinExists
  <2>3. asking' \in Nat /\ newFresh' = <<>>
    BY <1>5, <2>2 DEF TakeFresh
  <2> QED
    BY <1>5, <2>3 DEF TakeFresh, refreshing
<1>6. CASE FetchLeaders
  <2>1. asking \in Nat /\ asking - Past \in Nat
    BY <1>6 DEF IInv, FetchLeaders, Asked, Askable
  <2>2. known' \subseteq Nat /\ firstSlot' \in Nat
    BY <1>6, <2>1 DEF FetchLeaders
  <2> QED
    BY <1>6, <2>2 DEF FetchLeaders, refreshing
<1>7. CASE FetchFails
  BY <1>7 DEF FetchFails, refreshing
<1>8. CASE FetchAvailableNodes
  BY <1>8 DEF FetchAvailableNodes, refreshing, schedule
<1>9. CASE UNCHANGED <<slot, latest, refreshing, schedule, nodes>>
  BY <1>9, <1>k DEF refreshing, schedule
<1>10. /\ CommitTransaction \/ Tick \/ Send \/ (\E w \in 1 .. NWorkers : SendTransaction(w)) \/ UNCHANGED vars
          \/ (\E n \in 1 .. commands : Landed(n))
       => UNCHANGED <<slot, latest, refreshing, schedule, nodes>>
  BY DEF CommitTransaction, Tick, Send, SendTransaction, TakeTx, SendRound, Landed, vars, refreshing, schedule
<1> QED
  BY <1>1, <1>2, <1>3, <1>4, <1>5, <1>6, <1>7, <1>8, <1>9, <1>10, <1>k
     DEF Next, RefreshConnection, RefreshSlotLeaders

\* The part of the types that is about time and transactions is kept, with the
\* numbers of what is on its way and in the cache.
LEMMA TransactionTypes ==
  ASSUME IInv, [Next]_vars
  PROVE  /\ (now \in 0 .. LastTime[kind] /\ commands \in 0 .. MaxCommands[kind])'
         /\ (transactions \in Seq(Commands) /\ cache \in Seq(Commands))'
         /\ (worker \in [1 .. NWorkers -> {Idle} \cup [tx : Commands, to : SUBSET Leaders, again : 0 .. Bomb]])'
         /\ (status \subseteq 1 .. commands /\ txSub \subseteq 1 .. commands /\ cut \subseteq 1 .. commands)'
         /\ Counted'
<1> DEFINE Cs == Commands
           Ws == {Idle} \cup [tx : Cs, to : SUBSET Leaders, again : 0 .. Bomb]
<1>a. /\ LastTime[kind] \in Nat /\ MaxCommands[kind] \in Nat /\ Skew \in Nat /\ Bomb \in Nat
  BY BoundsAre, TpuAssumption DEF IInv, TypeOK
<1>t. /\ now \in 0 .. LastTime[kind] /\ commands \in 0 .. MaxCommands[kind]
      /\ transactions \in Seq(Cs) /\ cache \in Seq(Cs)
      /\ worker \in [1 .. NWorkers -> Ws]
      /\ status \subseteq 1 .. commands /\ txSub \subseteq 1 .. commands /\ cut \subseteq 1 .. commands
      /\ nodes \in SUBSET Leaders /\ tpuConns \in SUBSET nodes
  BY DEF IInv, TypeOK
<1>c. Counted
  BY DEF IInv
<1>k. kind' = kind /\ Commands' = Cs
  BY KindStays
<1>n. \A c \in Cs : c.n \in Nat /\ c.n >= 1 /\ c.n <= MaxCommands[kind]
  BY <1>a DEF Commands
<1> HIDE DEF Cs
<1> DEFINE Goal == /\ now' \in 0 .. LastTime[kind] /\ commands' \in 0 .. MaxCommands[kind]
                   /\ transactions' \in Seq(Cs) /\ cache' \in Seq(Cs)
                   /\ worker' \in [1 .. NWorkers -> Ws]
                   /\ status' \subseteq 1 .. commands' /\ txSub' \subseteq 1 .. commands' /\ cut' \subseteq 1 .. commands'
                   /\ \A i \in DOMAIN transactions' : transactions'[i].n <= commands'
                   /\ \A i \in DOMAIN cache' : cache'[i].n <= commands'
<1>g. SUFFICES Goal
  BY <1>k DEF Goal, Counted
<1>1. CASE CommitTransaction
  <2>1. commands' = commands + 1 /\ commands' \in 0 .. MaxCommands[kind] /\ 1 .. commands \subseteq 1 .. commands'
    BY <1>1, <1>t, <1>a DEF CommitTransaction
  <2>2. PICK id \in 0 .. now + Skew : transactions' = Append(transactions, [n |-> commands + 1, id |-> id])
    BY <1>1 DEF CommitTransaction
  <2>3. commands + 1 \in 1 .. MaxCommands[kind] /\ id \in 0 .. LastTime[kind] + Skew
    BY <2>1, <1>t, <1>a
  <2>4. [n |-> commands + 1, id |-> id] \in Cs
    BY <2>3 DEF Cs, Commands
  <2>5. transactions' \in Seq(Cs)
    BY <2>2, <2>4, <1>t
  <2>6. \A i \in DOMAIN transactions' : transactions'[i].n <= commands'
    <3> SUFFICES ASSUME NEW i \in DOMAIN transactions' PROVE transactions'[i].n <= commands'
      OBVIOUS
    <3>1. \/ i \in DOMAIN transactions /\ transactions'[i] = transactions[i]
          \/ transactions'[i] = [n |-> commands + 1, id |-> id]
      BY <2>2, <1>t
    <3>2. CASE transactions'[i] = [n |-> commands + 1, id |-> id]
      BY <3>2, <2>1, <1>t
    <3>3. CASE i \in DOMAIN transactions /\ transactions'[i] = transactions[i]
      <4>1. transactions[i].n <= commands /\ transactions[i].n \in Nat
        BY <3>3, <1>c, <1>t, <1>n DEF Counted
      <4> QED
        BY <3>3, <4>1, <2>1, <1>t
    <3> QED
      BY <3>1, <3>2, <3>3
  <2>7. UNCHANGED <<now, worker, cache, status, txSub, cut>>
    BY <1>1 DEF CommitTransaction, cached
  <2>8. \A i \in DOMAIN cache' : cache'[i].n <= commands'
    <3> SUFFICES ASSUME NEW i \in DOMAIN cache PROVE cache[i].n <= commands'
      BY <2>7
    <3>1. cache[i].n <= commands /\ cache[i].n \in Nat
      BY <1>c, <1>t, <1>n DEF Counted
    <3> QED
      BY <3>1, <2>1, <1>t
  <2>9. status' \subseteq 1 .. commands' /\ txSub' \subseteq 1 .. commands' /\ cut' \subseteq 1 .. commands'
    BY <2>1, <2>7, <1>t
  <2> HIDE DEF Ws
  <2> QED
    BY ONLY <2>1, <2>5, <2>6, <2>7, <2>8, <2>9, <1>t
<1>2. CASE Tick
  <2>1. now' \in 0 .. LastTime[kind]
    BY <1>2, <1>t, <1>a DEF Tick
  <2>2. UNCHANGED <<commands, transactions, worker, cache, status, txSub, cut>>
    BY <1>2 DEF Tick, cached
  <2>3. /\ \A i \in DOMAIN transactions' : transactions'[i].n <= commands'
        /\ \A i \in DOMAIN cache' : cache'[i].n <= commands'
    BY <2>2, <1>c DEF Counted
  <2> HIDE DEF Ws
  <2> QED
    BY ONLY <2>1, <2>2, <2>3, <1>t
<1>3. ASSUME NEW w \in 1 .. NWorkers, TakeTx(w) PROVE Goal
  <2>1. transactions # <<>> /\ transactions' = Tail(transactions)
    BY <1>3 DEF TakeTx
  <2>2. Head(transactions) \in Cs /\ transactions' \in Seq(Cs)
    BY <2>1, <1>t
  <2>3. \A i \in DOMAIN transactions' : i + 1 \in DOMAIN transactions /\ transactions'[i] = transactions[i + 1]
    BY <2>1, <1>t
  <2>4. [tx |-> Head(transactions), to |-> tpuConns, again |-> Bomb] \in Ws
    <3>1. tpuConns \in SUBSET Leaders
      BY <1>t
    <3> QED
      BY <2>2, <3>1, <1>a
  <2>5. worker' \in [1 .. NWorkers -> Ws]
    BY <1>3, <1>t, <2>4 DEF TakeTx
  <2> QED
    BY <1>3, <2>2, <2>3, <2>5, <1>t, <1>c DEF TakeTx, cached, Counted
<1>4. ASSUME NEW w \in 1 .. NWorkers, SendRound(w) PROVE Goal
  <2>1. worker[w] \in [tx : Cs, to : SUBSET Leaders, again : 0 .. Bomb]
    BY <1>4, <1>t DEF SendRound
  <2>2. \A r \in [tx : Cs, to : SUBSET Leaders, again : 0 .. Bomb] :
          r.again # 0 => [r EXCEPT !.again = r.again - 1] \in Ws
    BY <1>a
  <2>3. (IF worker[w].again = 0 THEN Idle ELSE [worker[w] EXCEPT !.again = worker[w].again - 1]) \in Ws
    BY <2>1, <2>2
  <2>4. worker' \in [1 .. NWorkers -> Ws]
    BY <1>4, <1>t, <2>3 DEF SendRound
  <2> QED
    BY <1>4, <2>4, <1>t, <1>c DEF SendRound, cached, Counted
<1>5. CASE Send
  <2> DEFINE all == cache \o transactions
             kept == Kept(all)
             due == {kept[i].n : i \in Waiting(kept)}
  <2>1. all \in Seq(Cs)
    BY <1>t
  <2>2. \A i \in DOMAIN all : all[i].n \in 1 .. commands
    <3> SUFFICES ASSUME NEW i \in DOMAIN all PROVE all[i].n \in 1 .. commands
      OBVIOUS
    <3>1. all[i] \in Cs
      BY <2>1
    <3>2. \/ i \in DOMAIN cache /\ all[i] = cache[i]
          \/ i - Len(cache) \in DOMAIN transactions /\ all[i] = transactions[i - Len(cache)]
      BY <1>t
    <3>3. all[i].n <= commands
      BY <3>2, <1>c DEF Counted
    <3> QED
      BY <3>1, <3>3, <1>n, <1>t
  <2>3. /\ kept \in Seq(Cs)
        /\ \A i \in DOMAIN kept : \E j \in DOMAIN all : kept[i] = all[j]
    BY <2>1, KeptIs
  <2>4. /\ transactions' = <<>> /\ cache' = kept
        /\ \E refused \in {{}, due} : txSub' = (txSub \ Expired(all)) \cup (due \ refused)
        /\ cut' = cut \cup {all[i].n : i \in DOMAIN all \ Looked(all)}
        /\ UNCHANGED <<now, commands, worker, status>>
    BY <1>5 DEF Send
  <2> HIDE DEF all, kept
  <2>5. \A i \in DOMAIN kept : kept[i].n \in 1 .. commands
    BY <2>2, <2>3
  <2>6. due \subseteq 1 .. commands
    <3>1. Waiting(kept) \subseteq DOMAIN kept
      BY DEF Waiting
    <3> QED
      BY <3>1, <2>5
  <2>7. txSub' \subseteq 1 .. commands
    BY <2>4, <2>6, <1>t
  <2>8. cut' \subseteq 1 .. commands
    BY <2>4, <2>2, <1>t
  <2>9. \A i \in DOMAIN cache' : cache'[i].n <= commands
    BY <2>4, <2>5, <1>t
  <2>10. transactions' \in Seq(Cs) /\ \A i \in DOMAIN transactions' : transactions'[i].n <= commands
    BY <2>4
  <2>11. UNCHANGED <<now, commands, worker, status>> /\ cache' \in Seq(Cs)
    BY <2>3, <2>4
  <2> HIDE DEF Ws
  <2> QED
    BY ONLY <2>7, <2>8, <2>9, <2>10, <2>11, <1>t
<1>6. ASSUME NEW n \in 1 .. commands, Landed(n) PROVE Goal
  <2>1. UNCHANGED <<now, commands, transactions, worker, cache, txSub, cut>> /\ status' = status \cup {n}
    BY <1>6 DEF Landed
  <2>2. /\ \A i \in DOMAIN transactions' : transactions'[i].n <= commands'
        /\ \A i \in DOMAIN cache' : cache'[i].n <= commands'
    BY <2>1, <1>c DEF Counted
  <2>3. status' \subseteq 1 .. commands'
    BY <2>1, <1>6, <1>t
  <2> HIDE DEF Ws
  <2> QED
    BY ONLY <2>1, <2>2, <2>3, <1>t
<1>7. CASE UNCHANGED sendings
  BY <1>7, <1>t, <1>c DEF sendings, cached, Counted
<1>8. NewSlot \/ RefreshConnection \/ RefreshSlotLeaders \/ FetchAvailableNodes \/ UNCHANGED vars => UNCHANGED sendings
  BY DEF NewSlot, RefreshConnection, StartRound, Lookup, Connect, RefreshSlotLeaders, TakeFresh, FetchLeaders,
         FetchFails, FetchAvailableNodes, vars, sendings, cached
<1> HIDE DEF Goal
<1> QED
  BY <1>1, <1>2, <1>3, <1>4, <1>5, <1>6, <1>7, <1>8 DEF Next, SendTransaction

\* The types are kept.
LEMMA TypeStep ==
  ASSUME IInv, [Next]_vars
  PROVE  TypeOK'
<1>1. kind' \in Kinds
  BY KindStays DEF IInv, TypeOK
<1> QED
  BY <1>1, SlotTypes, TransactionTypes, Zenon DEF TypeOK

-----------------------------------------------------------------------------
(* The rounds and the schedule.                                            *)

\* The numbers the proofs about rounds reckon with.
LEMMA SlotsAre ==
  ASSUME TypeOK
  PROVE  /\ Past \in Nat /\ Upcoming \in Nat /\ Past < Upcoming
         /\ FirstSlot \in Nat /\ FirstSlot > 2 * Upcoming
         /\ slot \in Nat /\ FirstSlot <= slot /\ firstSlot \in Nat /\ asking \in Nat \cup {None}
         /\ curSlot \in Nat /\ (curSlot # 0 => FirstSlot <= curSlot)
         /\ \A i \in DOMAIN latest : latest[i] \in Nat /\ FirstSlot <= latest[i]
         /\ latest \in Seq(Nat) /\ newFresh \in Seq(Nat)
         /\ round # Idle => round \in [at : Nat, found : SUBSET Leaders]
<1>1. LastSlot[kind] \in Nat /\ FirstSlot \in Nat
  BY BoundsAre, TpuAssumption DEF TypeOK
<1>2. FirstSlot .. LastSlot[kind] \subseteq Nat
  BY <1>1
<1>3. latest \in Seq(FirstSlot .. LastSlot[kind])
  BY DEF TypeOK
<1>4. \A S : latest \in Seq(S) => \A i \in DOMAIN latest : latest[i] \in S
  OBVIOUS
<1>5. \A i \in DOMAIN latest : latest[i] \in FirstSlot .. LastSlot[kind]
  BY <1>3, <1>4, Zenon
<1>6. \A S, T : S \subseteq T /\ latest \in Seq(S) => latest \in Seq(T)
  OBVIOUS
<1>7. latest \in Seq(Nat)
  BY <1>2, <1>3, <1>6, Zenon
<1> QED
  BY <1>1, <1>5, <1>7, TpuAssumption DEF TypeOK

\* What a new round is about.
LEMMA RoundStarts ==
  ASSUME IInv, StartRound
  PROVE  \E s \in Nat :
           /\ FirstSlot <= s /\ curSlot <= s /\ s <= slot /\ latest' = <<>>
           /\ \/ UNCHANGED <<curSlot, missed, settled>> /\ round' = Idle
              \/ /\ curSlot' = s /\ missed' = {} /\ round' = [at |-> s - Past, found |-> {}]
                 /\ settled' => /\ curSlot # 0 /\ Window(curSlot) \subseteq known
                                /\ curSlot + Upcoming - 1 <= GetCheckPoint
                                /\ s - curSlot < Upcoming
<1> DEFINE s == latest[Len(latest)]
<1>1. latest \in Seq(Nat) /\ latest # <<>>
  BY SlotsAre DEF IInv, StartRound
<1>2. Len(latest) \in DOMAIN latest
  BY <1>1
<1>3. s \in Nat /\ FirstSlot <= s /\ curSlot <= s /\ s <= slot
  BY <1>2, SlotsAre DEF IInv, Forward
<1>4. /\ latest' = <<>>
      /\ \/ UNCHANGED <<curSlot, missed, settled>> /\ round' = Idle
         \/ /\ curSlot' = s /\ missed' = {} /\ round' = [at |-> s - Past, found |-> {}]
            /\ settled' => /\ curSlot # 0 /\ Window(curSlot) \subseteq known
                           /\ curSlot + Upcoming - 1 <= GetCheckPoint
                           /\ s - curSlot < Upcoming
  BY Zenon DEF StartRound
<1> HIDE DEF s
<1> QED
  BY <1>3, <1>4, Zenon

\* The steps that are none of a round's or the schedule's.
LEMMA OtherSteps ==
  ASSUME [Next]_vars
  PROVE  \/ NewSlot \/ StartRound \/ Lookup \/ Connect \/ TakeFresh \/ FetchLeaders \/ FetchFails
         \/ UNCHANGED <<slot, latest, refreshing, schedule>>
<1>1. /\ FetchAvailableNodes \/ CommitTransaction \/ Tick \/ Send \/ (\E w \in 1 .. NWorkers : SendTransaction(w))
           \/ (\E n \in 1 .. commands : Landed(n)) \/ UNCHANGED vars
         => UNCHANGED <<slot, latest, refreshing, schedule>>
  BY DEF FetchAvailableNodes, CommitTransaction, Tick, Send, SendTransaction, TakeTx, SendRound, Landed, vars,
         refreshing, schedule
<1> QED
  BY <1>1 DEF Next, RefreshConnection, RefreshSlotLeaders

\* Slots come in their order, and a round looks at its window from its beginning.
LEMMA RoundStep ==
  ASSUME IInv, [Next]_vars
  PROVE  Forward' /\ Within'
<1>n. /\ Past \in Nat /\ Upcoming \in Nat /\ FirstSlot \in Nat /\ slot \in Nat /\ curSlot \in Nat /\ FirstSlot <= slot
      /\ latest \in Seq(Nat)
      /\ round # Idle => round \in [at : Nat, found : SUBSET Leaders]
  BY SlotsAre DEF IInv
<1>i. /\ curSlot <= slot /\ \A i \in DOMAIN latest : curSlot <= latest[i] /\ latest[i] <= slot
  BY DEF IInv, Forward
<1>j. round # Idle => /\ FirstSlot <= curSlot
                      /\ curSlot - Past <= round.at /\ round.at <= curSlot + Upcoming
  BY DEF IInv, Within
<1>1. CASE NewSlot
  <2>1. slot' = slot + 1 /\ UNCHANGED <<curSlot, round>> /\ (latest' = latest \/ latest' = Append(latest, slot + 1))
    BY <1>1 DEF NewSlot, refreshing
  <2>2. \A i \in DOMAIN latest' : (i \in DOMAIN latest /\ latest'[i] = latest[i]) \/ latest'[i] = slot + 1
    BY <2>1, <1>n
  <2>3. \A i \in DOMAIN latest : latest[i] \in Nat
    BY <1>n
  <2>4. \A i \in DOMAIN latest' : curSlot' <= latest'[i] /\ latest'[i] <= slot'
    BY <2>1, <2>2, <2>3, <1>i, <1>n
  <2>5. curSlot' <= slot'
    BY <2>1, <1>i, <1>n
  <2> QED
    BY <2>1, <2>4, <2>5, <1>j DEF Forward, Within
<1>2. CASE StartRound
  <2>1. PICK s \in Nat :
           /\ FirstSlot <= s /\ curSlot <= s /\ s <= slot /\ latest' = <<>>
           /\ \/ UNCHANGED curSlot /\ round' = Idle
              \/ curSlot' = s /\ round' = [at |-> s - Past, found |-> {}]
    BY <1>2, RoundStarts
  <2>2. slot' = slot
    BY <1>2 DEF StartRound
  <2>3. Forward'
    BY <2>1, <2>2, <1>i DEF Forward
  <2>4. Within'
    BY <2>1, <1>n DEF Within
  <2> QED
    BY <2>3, <2>4
<1>3. CASE Lookup
  <2>1. /\ UNCHANGED <<slot, latest, curSlot>> /\ round # Idle /\ round'.at = round.at + 1
        /\ round.at < curSlot + Upcoming
    BY <1>3 DEF Lookup
  <2>2. round.at \in Nat
    BY <2>1, <1>n
  <2> QED
    BY <2>1, <2>2, <1>i, <1>j, <1>n DEF Forward, Within
<1>4. CASE Connect
  BY <1>4, <1>i DEF Connect, Forward, Within
<1>5. CASE UNCHANGED <<slot, latest, refreshing>>
  BY <1>5, <1>i, <1>j DEF refreshing, Forward, Within
<1>6. TakeFresh \/ FetchLeaders \/ FetchFails => UNCHANGED <<slot, latest, refreshing>>
  BY DEF TakeFresh, FetchLeaders, FetchFails
<1> QED
  BY <1>1, <1>2, <1>3, <1>4, <1>5, <1>6, OtherSteps

\* What is asked for belongs to a round.
LEMMA AskedStep ==
  ASSUME IInv, [Next]_vars
  PROVE  Asked'
<1> DEFINE Ok(s) == 2 * Upcoming < s /\ s <= curSlot + Upcoming - 1
           OkThen(s) == 2 * Upcoming < s /\ s <= curSlot' + Upcoming - 1
<1>n. /\ Past \in Nat /\ Upcoming \in Nat /\ curSlot \in Nat /\ firstSlot \in Nat
      /\ newFresh \in Seq(Nat) /\ asking \in Nat \cup {None}
      /\ round # Idle => round \in [at : Nat, found : SUBSET Leaders]
  BY SlotsAre DEF IInv
<1>i. /\ \A i \in DOMAIN newFresh : Ok(newFresh[i])
      /\ asking # None => Ok(asking)
  BY DEF IInv, Asked, Askable
<1>g. SUFFICES /\ \A i \in DOMAIN newFresh' : OkThen(newFresh'[i])
               /\ asking' # None => OkThen(asking')
  BY DEF Asked, Askable
<1>f. \A i \in DOMAIN newFresh : newFresh[i] \in Nat
  BY <1>n
<1>1. CASE StartRound
  <2>1. UNCHANGED <<newFresh, asking>>
    BY <1>1 DEF StartRound, schedule
  <2>2. curSlot' \in Nat /\ curSlot <= curSlot'
    BY <1>1, RoundStarts, <1>n
  <2>n. Upcoming \in Nat /\ curSlot \in Nat
    BY <1>n
  <2>a. \A a, b, c, u \in Nat : a <= b + u - 1 /\ b <= c => a <= c + u - 1
    OBVIOUS
  <2>3. \A s \in Nat : Ok(s) => OkThen(s)
    BY ONLY <2>2, <2>n, <2>a, Zenon
  <2>4. asking # None => asking \in Nat
    BY <1>n
  <2>5. \A i \in DOMAIN newFresh : OkThen(newFresh[i])
    BY ONLY <2>3, <1>i, <1>f, Zenon
  <2>6. asking # None => OkThen(asking)
    BY ONLY <2>3, <2>4, <1>i, Zenon
  <2> QED
    BY ONLY <2>1, <2>5, <2>6
<1>2. CASE Lookup
  <2>1. /\ UNCHANGED <<curSlot, asking>> /\ round # Idle /\ round.at < curSlot + Upcoming
        /\ \/ newFresh' = newFresh
           \/ round.at > firstSlot + 2 * Upcoming /\ newFresh' = Append(newFresh, round.at)
    BY <1>2 DEF Lookup, GetCheckPoint
  <2>2. round.at \in Nat
    BY <2>1, <1>n
  <2>3. CASE newFresh' = newFresh
    BY <2>1, <2>3, <1>i
  <2>4. CASE round.at > firstSlot + 2 * Upcoming /\ newFresh' = Append(newFresh, round.at)
    <3>1. OkThen(round.at)
      BY <2>1, <2>2, <2>4, <1>n
    <3>2. \A i \in DOMAIN newFresh' : (i \in DOMAIN newFresh /\ newFresh'[i] = newFresh[i]) \/ newFresh'[i] = round.at
      BY <2>2, <2>4, <1>n
    <3> HIDE DEF Ok, OkThen
    <3>3. \A i \in DOMAIN newFresh : OkThen(newFresh[i])
      BY <2>1, <1>i DEF Ok, OkThen
    <3>4. asking' # None => OkThen(asking')
      BY <2>1, <1>i DEF Ok, OkThen
    <3> QED
      BY <3>1, <3>2, <3>3, <3>4
  <2> QED
    BY <2>1, <2>3, <2>4
<1>3. CASE TakeFresh
  <2> DEFINE all == {newFresh[i] : i \in DOMAIN newFresh}
  <2>0. 1 \in DOMAIN newFresh /\ newFresh' = <<>> /\ asking' = MinOf(all) /\ curSlot' = curSlot
    BY <1>3, <1>n DEF TakeFresh, refreshing
  <2>1. newFresh[1] \in all /\ all \in SUBSET Nat
    BY ONLY <2>0, <1>f, Zenon
  <2>2. MinOf(all) \in all
    BY ONLY <2>1, MinExists, Zenon
  <2>3. \A s \in all : Ok(s)
    BY ONLY <1>i
  <2> HIDE DEF all
  <2> QED
    BY <2>0, <2>2, <2>3
<1>4. CASE FetchLeaders \/ FetchFails
  BY <1>4, <1>i DEF FetchLeaders, FetchFails, refreshing
<1>5. CASE UNCHANGED <<curSlot, newFresh, asking>>
  BY <1>5, <1>i
<1>6. NewSlot \/ Connect \/ UNCHANGED <<slot, latest, refreshing, schedule>> => UNCHANGED <<curSlot, newFresh, asking>>
  BY DEF NewSlot, Connect, refreshing, schedule
<1> QED
  BY <1>1, <1>2, <1>3, <1>4, <1>5, <1>6, OtherSteps

\* What was fetched last begins in or before the window of a round, and is known as a
\* whole.
LEMMA FetchedStep ==
  ASSUME IInv, [Next]_vars
  PROVE  Fetched'
<1>n. /\ Past \in Nat /\ Upcoming \in Nat /\ curSlot \in Nat /\ firstSlot \in Nat /\ asking \in Nat \cup {None}
  BY SlotsAre DEF IInv
<1>i. firstSlot # 0 => /\ firstSlot + Past <= curSlot + Upcoming - 1
                       /\ firstSlot .. firstSlot + 3 * Upcoming - 1 \subseteq known
  BY DEF IInv, Fetched
<1>1. CASE StartRound
  <2>1. UNCHANGED <<known, firstSlot>>
    BY <1>1 DEF StartRound, schedule
  <2>2. curSlot' \in Nat /\ curSlot <= curSlot'
    BY <1>1, RoundStarts, <1>n
  <2>a. \A a, b, c, u \in Nat : a <= b + u - 1 /\ b <= c => a <= c + u - 1
    OBVIOUS
  <2>b. firstSlot + Past \in Nat
    BY <1>n
  <2>3. firstSlot + Past <= curSlot + Upcoming - 1 => firstSlot + Past <= curSlot' + Upcoming - 1
    BY ONLY <2>2, <1>n, <2>a, <2>b, Zenon
  <2> QED
    BY <2>1, <2>3, <1>i DEF Fetched
<1>2. CASE FetchLeaders
  <2>1. asking \in Nat /\ asking <= curSlot + Upcoming - 1
    BY <1>2, <1>n DEF IInv, Asked, Askable, FetchLeaders
  <2>2. /\ firstSlot' = asking - Past /\ curSlot' = curSlot
        /\ known' = known \cup (asking - Past .. asking - Past + 3 * Upcoming - 1)
    BY <1>2 DEF FetchLeaders, refreshing
  <2>3. firstSlot' + Past = asking
    BY <2>1, <2>2, <1>n
  <2>4. firstSlot' .. firstSlot' + 3 * Upcoming - 1 \subseteq known'
    BY <2>2
  <2> QED
    BY <2>1, <2>2, <2>3, <2>4 DEF Fetched
<1>3. CASE UNCHANGED <<curSlot, known, firstSlot>>
  BY <1>3, <1>i DEF Fetched
<1>4. /\ NewSlot \/ Connect \/ Lookup \/ TakeFresh \/ FetchFails \/ UNCHANGED <<slot, latest, refreshing, schedule>>
      => UNCHANGED <<curSlot, known, firstSlot>>
  BY DEF NewSlot, Connect, Lookup, TakeFresh, FetchFails, refreshing, schedule
<1> QED
  BY <1>1, <1>2, <1>3, <1>4, OtherSteps

\* From a round whose leaders are known, and that the check point does not cut, the
\* next one knows all of its own if it is less than Upcoming further.
LEMMA WindowKnown ==
  ASSUME IInv, NEW s \in Nat, curSlot # 0, curSlot <= s, s - curSlot < Upcoming,
         Window(curSlot) \subseteq known, curSlot + Upcoming - 1 <= GetCheckPoint
  PROVE  Window(s) \subseteq known
<1>n. /\ Past \in Nat /\ Upcoming \in Nat /\ Past < Upcoming
      /\ FirstSlot \in Nat /\ FirstSlot > 2 * Upcoming /\ FirstSlot <= curSlot
      /\ firstSlot \in Nat /\ curSlot \in Nat
  BY SlotsAre DEF IInv
<1>1. firstSlot # 0
  BY <1>n DEF GetCheckPoint
<1>2. /\ firstSlot + Past <= curSlot + Upcoming - 1
      /\ firstSlot .. firstSlot + 3 * Upcoming - 1 \subseteq known
  BY <1>1 DEF IInv, Fetched
<1>3. \A t \in Window(s) : t \in Window(curSlot) \/ t \in firstSlot .. firstSlot + 3 * Upcoming - 1
  <2>c. curSlot + Upcoming - 1 <= firstSlot + 2 * Upcoming
    BY DEF GetCheckPoint
  <2> SUFFICES ASSUME NEW t \in s - Past .. s + Upcoming - 1,
                      t \notin curSlot - Past .. curSlot + Upcoming - 1
               PROVE  t \in firstSlot .. firstSlot + 3 * Upcoming - 1
    BY DEF Window
  <2>1. t \in Int /\ t >= s - Past /\ t <= s + Upcoming - 1
    BY <1>n
  <2>2. t > curSlot + Upcoming - 1
    BY <2>1, <1>n
  <2>3. t >= firstSlot
    BY <2>1, <2>2, <1>2, <1>n
  <2>4. t <= firstSlot + 3 * Upcoming - 1
    BY <2>1, <2>c, <1>n
  <2> QED
    BY <2>1, <2>3, <2>4, <1>n
<1> QED
  BY <1>2, <1>3

\* A settled round knows its window and misses nothing of it.
LEMMA MetStep ==
  ASSUME IInv, [Next]_vars
  PROVE  Met'
<1>n. /\ Past \in Nat /\ Upcoming \in Nat /\ curSlot \in Nat
      /\ round # Idle => round \in [at : Nat, found : SUBSET Leaders]
  BY SlotsAre DEF IInv
<1>i. settled => missed = {} /\ Window(curSlot) \subseteq known
  BY DEF IInv, Met
<1>1. CASE StartRound
  <2>1. PICK s \in Nat :
           /\ curSlot <= s
           /\ \/ UNCHANGED <<curSlot, missed, settled>>
              \/ /\ curSlot' = s /\ missed' = {}
                 /\ settled' => /\ curSlot # 0 /\ Window(curSlot) \subseteq known
                                /\ curSlot + Upcoming - 1 <= GetCheckPoint
                                /\ s - curSlot < Upcoming
    BY <1>1, RoundStarts
  <2>2. known' = known
    BY <1>1 DEF StartRound, schedule
  <2>3. CASE UNCHANGED <<curSlot, missed, settled>>
    BY <2>2, <2>3, <1>i DEF Met, Window
  <2>4. CASE /\ curSlot' = s /\ missed' = {}
             /\ settled' => /\ curSlot # 0 /\ Window(curSlot) \subseteq known
                            /\ curSlot + Upcoming - 1 <= GetCheckPoint
                            /\ s - curSlot < Upcoming
    <3>1. settled' => Window(s) \subseteq known
      BY <2>1, <2>4, WindowKnown
    <3> QED
      BY <3>1, <2>2, <2>4 DEF Met, Window
  <2> QED
    BY <2>1, <2>3, <2>4
<1>2. CASE Lookup
  <2>1. /\ UNCHANGED <<curSlot, settled, known>> /\ round # Idle /\ round.at < curSlot + Upcoming
        /\ round.at \in known => missed' = missed
    BY <1>2 DEF Lookup
  <2>2. curSlot - Past <= round.at /\ round.at \in Nat
    BY <2>1, <1>n DEF IInv, Within
  <2>3. round.at \in Window(curSlot)
    BY <2>1, <2>2, <1>n DEF Window
  <2> QED
    BY <2>1, <2>3, <1>i DEF Met, Window
<1>3. CASE FetchLeaders
  <2>1. known \subseteq known' /\ UNCHANGED <<curSlot, settled, missed>>
    BY <1>3 DEF FetchLeaders, refreshing
  <2> QED
    BY <2>1, <1>i DEF Met, Window
<1>4. CASE UNCHANGED <<curSlot, settled, missed, known>>
  BY <1>4, <1>i DEF Met, Window
<1>5. /\ NewSlot \/ Connect \/ TakeFresh \/ FetchFails \/ UNCHANGED <<slot, latest, refreshing, schedule>>
      => UNCHANGED <<curSlot, settled, missed, known>>
  BY DEF NewSlot, Connect, TakeFresh, FetchFails, refreshing, schedule
<1> QED
  BY <1>1, <1>2, <1>3, <1>4, <1>5, OtherSteps

-----------------------------------------------------------------------------
(* The cache of the service.                                               *)

\* What a send does to the cache, the transactions of which are followed one by one.
LEMMA SendIs ==
  ASSUME TypeOK, Send
  PROVE  \E all :
           /\ all = cache \o transactions
           /\ \A i \in DOMAIN all :
                \/ all[i].n \in Numbers(cache')
                \/ i \in Looked(all) /\ ~InTime(all[i]) /\ all[i].n \in Expired(all)
                \/ /\ i \notin Looked(all) /\ all[i].n \in cut'
                   /\ Cardinality({j \in Waiting(all) : j < i}) >= MaxUnsent
           /\ \A n \in txSub' : n \in Numbers(cache') \/ (n \in txSub /\ n \notin Expired(all))
           /\ cut \subseteq cut' /\ transactions' = <<>>
<1> DEFINE all == cache \o transactions
           kept == Kept(all)
           due == {kept[i].n : i \in Waiting(kept)}
<1>1. all \in Seq(Commands)
  BY DEF TypeOK
<1>2. /\ transactions' = <<>> /\ cache' = kept
      /\ \E refused \in {{}, due} : txSub' = (txSub \ Expired(all)) \cup (due \ refused)
      /\ cut' = cut \cup {all[i].n : i \in DOMAIN all \ Looked(all)}
  BY DEF Send
<1> SUFFICES /\ \A i \in DOMAIN all :
                  \/ all[i].n \in Numbers(cache')
                  \/ i \in Looked(all) /\ ~InTime(all[i]) /\ all[i].n \in Expired(all)
                  \/ /\ i \notin Looked(all) /\ all[i].n \in cut'
                     /\ Cardinality({j \in Waiting(all) : j < i}) >= MaxUnsent
             /\ \A n \in txSub' : n \in Numbers(cache') \/ (n \in txSub /\ n \notin Expired(all))
             /\ cut \subseteq cut' /\ transactions' = <<>>
  OBVIOUS
<1> HIDE DEF all
<1>3. ASSUME NEW i \in DOMAIN all
      PROVE  \/ all[i].n \in Numbers(cache')
             \/ i \in Looked(all) /\ ~InTime(all[i]) /\ all[i].n \in Expired(all)
             \/ /\ i \notin Looked(all) /\ all[i].n \in cut'
                /\ Cardinality({j \in Waiting(all) : j < i}) >= MaxUnsent
  <2>1. CASE i \notin Looked(all)
    BY <2>1, <1>1, <1>2, <1>3, LookedIs
  <2>2. CASE i \in Looked(all) /\ InTime(all[i])
    <3>1. PICK j \in DOMAIN kept : kept[j] = all[i]
      BY <2>2, <1>1, KeptIs
    <3> QED
      BY <3>1, <1>2 DEF Numbers
  <2>3. CASE i \in Looked(all) /\ ~InTime(all[i])
    BY <2>3 DEF Expired
  <2> QED
    BY <2>1, <2>2, <2>3
<1>4. ASSUME NEW n \in txSub' PROVE n \in Numbers(cache') \/ (n \in txSub /\ n \notin Expired(all))
  <2>1. due \subseteq Numbers(cache')
    BY <1>2, Zenon DEF Numbers, Waiting
  <2> HIDE DEF due, kept
  <2> QED
    BY <2>1, <1>2
<1> QED
  BY <1>2, <1>3, <1>4

\* What is subscribed to stays in the cache until it is let go.
LEMMA SubscribedStep ==
  ASSUME IInv, [Next]_vars
  PROVE  SubscribedIsCached'
<1>i. \A n \in txSub : n \in Numbers(cache) \/ n \in cut
  BY DEF IInv, SubscribedIsCached
<1>t. TypeOK
  BY DEF IInv
<1>1. CASE Send
  <2>1. PICK all :
           /\ all = cache \o transactions
           /\ \A i \in DOMAIN all :
                \/ all[i].n \in Numbers(cache')
                \/ i \in Looked(all) /\ ~InTime(all[i]) /\ all[i].n \in Expired(all)
                \/ /\ i \notin Looked(all) /\ all[i].n \in cut'
                   /\ Cardinality({j \in Waiting(all) : j < i}) >= MaxUnsent
           /\ \A n \in txSub' : n \in Numbers(cache') \/ (n \in txSub /\ n \notin Expired(all))
           /\ cut \subseteq cut' /\ transactions' = <<>>
    BY <1>1, <1>t, SendIs
  <2>2. ASSUME NEW n \in txSub' PROVE n \in Numbers(cache') \/ n \in cut'
    <3>1. CASE n \in txSub /\ n \notin Expired(all) /\ n \in Numbers(cache)
      <4>1. PICK i \in DOMAIN cache : cache[i].n = n
        BY <3>1 DEF Numbers
      <4>2. i \in DOMAIN all /\ all[i] = cache[i]
        BY <2>1, <1>t DEF TypeOK
      <4> QED
        BY <3>1, <4>1, <4>2, <2>1
    <3> QED
      BY <3>1, <2>1, <1>i
  <2> QED
    BY <2>2 DEF SubscribedIsCached
<1>2. CASE UNCHANGED <<cache, txSub, cut>>
  BY <1>2, <1>i DEF SubscribedIsCached, Numbers
<1>3. /\ NewSlot \/ RefreshConnection \/ RefreshSlotLeaders \/ FetchAvailableNodes \/ CommitTransaction \/ Tick
           \/ (\E w \in 1 .. NWorkers : SendTransaction(w)) \/ (\E n \in 1 .. commands : Landed(n)) \/ UNCHANGED vars
      => UNCHANGED <<cache, txSub, cut>>
  BY DEF NewSlot, RefreshConnection, StartRound, Lookup, Connect, RefreshSlotLeaders, TakeFresh, FetchLeaders,
         FetchFails, FetchAvailableNodes, CommitTransaction, Tick, SendTransaction, TakeTx, SendRound, Landed,
         vars, sendings, cached
<1> QED
  BY <1>1, <1>2, <1>3 DEF Next

-----------------------------------------------------------------------------
(* The theorems.                                                           *)

\* The invariant holds in all behaviours.
THEOREM Invariant == SafeSpec => []IInv
<1>1. IInv /\ [Next]_vars => IInv'
  <2> SUFFICES ASSUME IInv, [Next]_vars PROVE IInv'
    OBVIOUS
  <2> QED
    BY TypeStep, TransactionTypes, RoundStep, AskedStep, FetchedStep, MetStep, SubscribedStep, Zenon DEF IInv
<1> QED
  BY Initially, <1>1, PTL DEF SafeSpec

\* The tables of the proxy are well-formed, and what is subscribed to is in its cache or
\* fell out of it because others wait.
THEOREM CacheSoundAlways == SafeSpec => []CacheSound
<1>1. IInv => CacheSound
  BY DEF IInv, CacheSound
<1> QED
  BY <1>1, Invariant, PTL

\* A settled round finds the leaders of all the slots it looks at.
THEOREM NoLeaderMissedAlways == SafeSpec => []NoLeaderMissed
<1>1. IInv => NoLeaderMissed
  BY DEF IInv, Met, NoLeaderMissed
<1> QED
  BY <1>1, Invariant, PTL

\* The service lets a transaction go because it landed, because of its time, or
\* because MaxUnsent that came before it wait.
THEOREM LeavesForReasonAlways == SafeSpec => LeavesForReason
<1> DEFINE Reason ==
      kind = "Proxy" =>
        LET all == cache \o transactions
        IN \A i \in DOMAIN all :
             all[i].n \notin Numbers(cache' \o transactions') =>
               \/ all[i].n \in status \/ ~InTime(all[i])
               \/ Cardinality({j \in Waiting(all) : j < i}) >= MaxUnsent
<1>1. ASSUME IInv, [Next]_vars PROVE Reason
  <2>t. TypeOK
    BY <1>1 DEF IInv
  <2>s. cache \in Seq(Commands) /\ transactions \in Seq(Commands)
    BY <2>t DEF TypeOK
  <2>1. CASE Send
    <3>1. PICK all :
             /\ all = cache \o transactions
             /\ \A i \in DOMAIN all :
                  \/ all[i].n \in Numbers(cache')
                  \/ i \in Looked(all) /\ ~InTime(all[i]) /\ all[i].n \in Expired(all)
                  \/ /\ i \notin Looked(all) /\ all[i].n \in cut'
                     /\ Cardinality({j \in Waiting(all) : j < i}) >= MaxUnsent
             /\ \A n \in txSub' : n \in Numbers(cache') \/ (n \in txSub /\ n \notin Expired(all))
             /\ cut \subseteq cut' /\ transactions' = <<>>
      BY <2>1, <2>t, SendIs
    <3>2. cache' \in Seq(Commands')
      BY <1>1, TypeStep DEF TypeOK
    <3>3. cache' \o transactions' = cache'
      BY <3>1, <3>2
    <3> QED
      BY <3>1, <3>3
  <2>2. CASE CommitTransaction
    <3>1. PICK x : transactions' = Append(transactions, x) /\ cache' = cache
      BY <2>2 DEF CommitTransaction, cached
    <3>2. \A i \in DOMAIN (cache \o transactions) :
            i \in DOMAIN (cache' \o transactions') /\ (cache \o transactions)[i] = (cache' \o transactions')[i]
      BY <3>1, <2>s
    <3> QED
      BY <3>2, Zenon DEF Numbers
  <2>3. CASE kind # "Proxy" \/ UNCHANGED <<cache, transactions>>
    BY <2>3, Zenon DEF Numbers
  <2>4. CASE \E w \in 1 .. NWorkers : SendTransaction(w)
    <3>1. kind # "Proxy" \/ UNCHANGED <<cache, transactions>>
      BY <2>4 DEF SendTransaction, TakeTx, SendRound, cached
    <3> QED
      BY <3>1, <2>3
  <2>5. /\ NewSlot \/ RefreshConnection \/ RefreshSlotLeaders \/ FetchAvailableNodes \/ Tick
             \/ (\E n \in 1 .. commands : Landed(n)) \/ UNCHANGED vars
        => UNCHANGED <<cache, transactions>>
    BY DEF NewSlot, RefreshConnection, StartRound, Lookup, Connect, RefreshSlotLeaders, TakeFresh, FetchLeaders,
           FetchFails, FetchAvailableNodes, Tick, Landed, vars, sendings, cached
  <2> QED
    BY <1>1, <2>1, <2>2, <2>3, <2>4, <2>5 DEF Next
<1>2. IInv /\ [Next]_vars => [Reason]_vars
  BY <1>1
<1> QED
  BY <1>2, Invariant, PTL DEF SafeSpec, LeavesForReason
=============================================================================
