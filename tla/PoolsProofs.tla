----------------------------- MODULE PoolsProofs -----------------------------
(***************************************************************************)
(* Proofs about Pools for any accounts, curves, fees, token accounts and   *)
(* number of slots: that the programs know the vaults of the pools in use  *)
(* as the chain has them, that a quote of one slot is what the pool paid   *)
(* then unless it was disturbed, that an instruction does what was quoted, and that the pools of   *)
(* constant product give back no more than was given, up to rounding.      *)
(***************************************************************************)
EXTENDS Pools, SequenceTheorems, TLAPS

User == [amount : Nat, height : Nat]
Held == [amount : Nat \ {0}, height : Nat]   \* what a vault holds on the chain
Message == [vault : Vaults, user : User]

Types ==
  /\ program \in Programs
  /\ phase \in {"new", "listed", "built", "flashed", "failed"}
  /\ users \in [Vaults -> User]
  /\ chain \in Seq([Vaults -> Held]) /\ Slot \in 1 .. MaxSlot
  /\ updates \in Seq(Message) /\ Len(updates) <= 2 * (Slot - 1)
  /\ missed \subseteq Vaults /\ half \in BOOLEAN

\* The calculators use what was announced, which has a model, which was read.
Nested ==
  /\ used \subseteq announced /\ announced \subseteq models /\ models \subseteq swaps
  /\ swaps \subseteq {k \in Keys : Parsed(k)}
  /\ program \in {"orca", "tokenswap"} => \A k \in announced : Accounts[k].curve = "product"

\* What there is in each phase.
Phases ==
  /\ phase \in {"new", "listed", "failed"} => models = {}
  /\ subscribed = IF phase = "flashed" THEN Wanted ELSE {}
  /\ phase # "flashed" => updates = <<>>

\* A user of height h is the vault as it was after slot h.
At(v, user) == user.height \in 1 .. Slot /\ user.amount = chain[user.height][v].amount

\* What is known of the vaults of a model, and what is on its way, was true at its height, but
\* for a vault of which the amount is stored and the height is not.
Real ==
  /\ \A v \in Vaults : users[v].height <= Slot
  /\ \A k \in models : \A v \in VaultsOf(k) :
       At(v, users[v]) \/ (half /\ Head(updates).vault = v)
  /\ \A i \in DOMAIN updates : At(updates[i].vault, updates[i].user)

\* That vault has the amount of the message.
Halved == half => updates # <<>> /\ users[Head(updates).vault].amount = Head(updates).user.amount

\* A quote that is being calculated: whose it is, and that the amounts it has seen were true
\* at some slot.
Readings == [pool : Keys, token : UNION {Pair(k) : k \in Keys}, seen : Seq(Nat), calm : BOOLEAN]
Asked ==
  /\ reading \in Readings /\ Len(reading.seen) \in 1 .. 4
  /\ reading.pool \in models /\ reading.token \in Pair(reading.pool)
Was(c, v, amount) == amount \in Nat \ {0} /\ \E h \in DOMAIN c : c[h][v].amount = amount
SeenReal ==
  /\ Was(chain, Read2.src, reading.seen[1])
  /\ Len(reading.seen) >= 3 => Was(chain, Read2.dst, reading.seen[3])

\* When no message about its pool was worked on, it has seen what is still known.
Quiet(k) == ~(half /\ Head(updates).vault \in VaultsOf(k))
SeenCalm ==
  reading.calm => /\ Quiet(reading.pool)
                  /\ \A i \in 1 .. Len(reading.seen) :
                       reading.seen[i] = Words(reading.pool, reading.token)[i]
ReadRight == reading = NoQuote \/ (Asked /\ SeenReal /\ SeenCalm)

\* Once the messages us are worked off, the amount known of vault v, now known, is goal.
Told(us, v, known, goal) ==
  \/ known = goal /\ \A i \in DOMAIN us : us[i].vault # v
  \/ \E i \in DOMAIN us : /\ us[i].vault = v /\ us[i].user.amount = goal
                          /\ \A j \in DOMAIN us : us[j].vault = v => j <= i

\* The last word on a vault is the chain's.
Follows ==
  phase \in {"built", "flashed"} =>
    \A k \in used : \A v \in VaultsOf(k) \ missed :
      Told(updates, v, users[v].amount, chain[Slot][v].amount)

IInv == Types /\ Nested /\ Phases /\ Real /\ Halved /\ ReadRight /\ Follows

-----------------------------------------------------------------------------
(***************************************************************************)
(* Messages.                                                               *)
(***************************************************************************)

\* The message of a vault goes to the end of the queue.
LEMMA MessageAppended ==
  ASSUME NEW S, NEW us \in Seq(S), NEW m \in S
  PROVE  /\ us \o <<m>> \in Seq(S) /\ Len(us \o <<m>>) = Len(us) + 1
         /\ \A i \in 1 .. Len(us) : (us \o <<m>>)[i] = us[i]
         /\ (us \o <<m>>)[Len(us) + 1] = m
<1>1. us \o <<m>> = Append(us, m)
  BY AppendProperties, ConcatProperties, SMTT(30)
<1> QED  BY <1>1, AppendProperties

\* What has been told stays told when the message of another vault comes, and that of the
\* vault itself tells its amount.
Tells(us, more, w, goal) ==
  /\ \A v, known, g : Told(us, v, known, g) /\ v # w => Told(more, v, known, g)
  /\ \A known : Told(more, w, known, goal)

\* One message more leaves told what was, and tells of its vault (OnAccountUpdate).
LEMMA MessageTells ==
  ASSUME NEW us \in Seq(Message), NEW m \in Message
  PROVE  Tells(us, us \o <<m>>, m.vault, m.user.amount)
<1> DEFINE more == us \o <<m>>
           n == Len(us)
<1>1. /\ more \in Seq(Message) /\ Len(more) = n + 1 /\ n \in Nat
      /\ \A i \in 1 .. n : more[i] = us[i]
      /\ more[n + 1] = m
  BY MessageAppended
<1>2. DOMAIN us = 1 .. n /\ DOMAIN more = 1 .. n + 1
  BY <1>1
<1> HIDE DEF more, n
<1>3. ASSUME NEW v, NEW known, NEW g, Told(us, v, known, g), v # m.vault
      PROVE  Told(more, v, known, g)
  <2>1. \A j \in DOMAIN more : more[j].vault = v => j \in 1 .. n /\ us[j].vault = v
    BY <1>1, <1>2, <1>3
  <2>2. CASE known = g /\ \A i \in DOMAIN us : us[i].vault # v
    BY <1>2, <2>1, <2>2 DEF Told
  <2>3. CASE \E i \in DOMAIN us : /\ us[i].vault = v /\ us[i].user.amount = g
                                  /\ \A j \in DOMAIN us : us[j].vault = v => j <= i
    <3>1. PICK i \in DOMAIN us : /\ us[i].vault = v /\ us[i].user.amount = g
                                 /\ \A j \in DOMAIN us : us[j].vault = v => j <= i
      BY <2>3
    <3>2. i \in DOMAIN more /\ more[i] = us[i]
      BY <1>1, <1>2
    <3>3. \A j \in DOMAIN more : more[j].vault = v => j <= i
      BY <1>2, <2>1, <3>1
    <3> QED  BY <3>1, <3>2, <3>3 DEF Told
  <2> QED  BY <1>3, <2>2, <2>3 DEF Told
<1>4. ASSUME NEW known PROVE Told(more, m.vault, known, m.user.amount)
  <2>1. n + 1 \in DOMAIN more /\ \A j \in DOMAIN more : j <= n + 1
    BY <1>1, <1>2
  <2> QED  BY <1>1, <2>1 DEF Told
<1> QED  BY <1>3, <1>4 DEF Tells, more

\* The same of the feed, which has a message for a vault that is subscribed to.
Fed(us, more, now, w) ==
  /\ more \in Seq(Message) /\ Len(more) <= Len(us) + 1
  /\ \A i \in DOMAIN more :
       (i \in DOMAIN us /\ more[i] = us[i]) \/ more[i] = [vault |-> w, user |-> now[w]]
  /\ \A i \in DOMAIN us : i \in DOMAIN more /\ more[i] = us[i]
  /\ \A v, known, g : Told(us, v, known, g) /\ v # w => Told(more, v, known, g)
  /\ w \in subscribed => \A known : Told(more, w, known, now[w].amount)
  /\ subscribed = {} => more = us

\* What the feed adds about a vault, which is nothing unless there is a subscription.
LEMMA HeardTells ==
  ASSUME NEW us \in Seq(Message), NEW now \in [Vaults -> Held], NEW w \in Vaults
  PROVE  Fed(us, us \o Heard(now, w), now, w)
<1> DEFINE m == [vault |-> w, user |-> now[w]]
           more == us \o Heard(now, w)
<1>1. CASE w \in subscribed
  <2>1. m \in Message /\ m.vault = w /\ m.user.amount = now[w].amount
    BY DEF Message, Held, User
  <2>2. more = us \o <<m>>
    BY <1>1 DEF Heard
  <2> HIDE DEF m, more
  <2>3. /\ more \in Seq(Message) /\ Len(more) = Len(us) + 1 /\ Len(us) \in Nat
        /\ \A i \in 1 .. Len(us) : more[i] = us[i]
        /\ more[Len(us) + 1] = m
    BY <2>1, <2>2, MessageAppended
  <2>4. DOMAIN more = 1 .. Len(us) + 1 /\ DOMAIN us = 1 .. Len(us)
    BY <2>3
  <2>5. \A i \in DOMAIN more : (i \in DOMAIN us /\ more[i] = us[i]) \/ more[i] = m
    BY <2>3, <2>4
  <2>6. Tells(us, more, w, now[w].amount)
    BY <2>1, <2>2, MessageTells
  <2>7. Len(more) <= Len(us) + 1
    BY <2>3
  <2>8. subscribed # {}
    BY <1>1
  <2>9. \A i \in DOMAIN us : i \in DOMAIN more /\ more[i] = us[i]
    BY <2>3, <2>4
  <2> QED  BY <2>3, <2>5, <2>6, <2>7, <2>8, <2>9 DEF Tells, Fed, more, m
<1>2. CASE w \notin subscribed
  <2>1. more = us
    BY <1>2, ConcatEmptySeq DEF Heard
  <2>2. Len(us) \in Nat
    OBVIOUS
  <2> QED  BY <1>2, <2>1, <2>2 DEF Fed
<1> QED  BY <1>1, <1>2

\* Working off the first message tells no less.
LEMMA WorkedOff ==
  ASSUME NEW us \in Seq(Message), us # <<>>, NEW v, NEW known, NEW goal,
         Told(us, v, known, goal)
  PROVE  Told(Tail(us), v, IF Head(us).vault = v THEN Head(us).user.amount ELSE known, goal)
<1> DEFINE rest == Tail(us)
           n == Len(us)
           heard == IF Head(us).vault = v THEN Head(us).user.amount ELSE known
<1>1. /\ n \in Nat \ {0} /\ Len(rest) = n - 1 /\ rest \in Seq(Message)
      /\ \A i \in 1 .. n - 1 : rest[i] = us[i + 1]
      /\ Head(us) = us[1]
  BY HeadTailProperties
<1>2. DOMAIN us = 1 .. n /\ DOMAIN rest = 1 .. n - 1
  BY <1>1
<1> HIDE DEF rest, n
<1>3. CASE known = goal /\ \A i \in DOMAIN us : us[i].vault # v
  <2>1. heard = goal
    BY <1>1, <1>2, <1>3
  <2>2. \A i \in DOMAIN rest : rest[i].vault # v
    BY <1>1, <1>2, <1>3, SMTT(30)
  <2> QED  BY <2>1, <2>2 DEF Told, rest
<1>4. CASE \E i \in DOMAIN us : /\ us[i].vault = v /\ us[i].user.amount = goal
                                /\ \A j \in DOMAIN us : us[j].vault = v => j <= i
  <2>1. PICK i \in DOMAIN us : /\ us[i].vault = v /\ us[i].user.amount = goal
                               /\ \A j \in DOMAIN us : us[j].vault = v => j <= i
    BY <1>4
  <2>2. CASE i = 1
    <3>1. heard = goal
      BY <1>1, <2>1, <2>2
    <3>2. ASSUME NEW j \in DOMAIN rest, rest[j].vault = v PROVE FALSE
      <4>1. j + 1 \in DOMAIN us /\ us[j + 1].vault = v /\ j \in Nat \ {0}
        BY <1>1, <1>2, <3>2
      <4>2. j + 1 <= i
        BY <2>1, <4>1
      <4> QED  BY <2>2, <4>1, <4>2
    <3> QED  BY <3>1, <3>2 DEF Told, rest
  <2>3. CASE i # 1
    <3>1. i - 1 \in DOMAIN rest /\ rest[i - 1] = us[i]
      BY <1>1, <1>2, <2>3
    <3>2. ASSUME NEW j \in DOMAIN rest, rest[j].vault = v PROVE j <= i - 1
      <4>1. j + 1 \in DOMAIN us /\ us[j + 1].vault = v /\ j \in Nat /\ i \in Nat
        BY <1>1, <1>2, <3>2
      <4>2. j + 1 <= i
        BY <2>1, <4>1
      <4> QED  BY <4>1, <4>2
    <3> QED  BY <2>1, <3>1, <3>2 DEF Told, rest
  <2> QED  BY <2>2, <2>3
<1> QED  BY <1>3, <1>4 DEF Told

-----------------------------------------------------------------------------
(***************************************************************************)
(* The steps.                                                              *)
(***************************************************************************)

\* Nothing is known when the program is new.
LEMMA InvInit == ASSUME PoolsAssumption, Init PROVE IInv
<1>1. ASSUME NEW v \in Vaults
      PROVE  LET k == CHOOSE l \in Keys : v \in VaultsOf(l)
             IN Before[k][IF v = Accounts[k].swapA THEN 1 ELSE 2] \in Nat \ {0}
  <2>1. \E l \in Keys : v \in VaultsOf(l)
    BY DEF Vaults
  <2> DEFINE k == CHOOSE l \in Keys : v \in VaultsOf(l)
  <2>2. k \in Keys
    BY <2>1
  <2> HIDE DEF k
  <2>3. Before[k] \in ReservesOf[k] /\ Before[k][1] \in Nat \ {0} /\ Before[k][2] \in Nat \ {0}
    BY <2>2 DEF PoolsAssumption
  <2> QED  BY <2>3 DEF k
<1>2. Slot = 1 /\ chain \in Seq([Vaults -> Held])
  <2> DEFINE first == [v \in Vaults |->
                  LET k == CHOOSE l \in Keys : v \in VaultsOf(l)
                  IN [amount |-> Before[k][IF v = Accounts[k].swapA THEN 1 ELSE 2], height |-> 1]]
  <2>1. first \in [Vaults -> Held]
    BY <1>1 DEF Held
  <2>2. chain = <<first>>
    BY DEF Init
  <2> HIDE DEF first
  <2> QED  BY <2>1, <2>2 DEF Slot
<1>3. Types
  <2>1. updates = <<>> /\ half \in BOOLEAN
    BY DEF Init
  <2>2. updates \in Seq(Message) /\ Len(updates) = 0
    BY <2>1
  <2> QED  BY <1>2, <2>1, <2>2 DEF Init, Types, User, Unread, PoolsAssumption
<1>4. Nested /\ Phases /\ Follows /\ Halved /\ ReadRight
  BY DEF Init, Nested, Phases, Follows, Halved, ReadRight
<1>5. Real
  BY <1>2 DEF Init, Real, Unread
<1> QED  BY <1>3, <1>4, <1>5 DEF IInv

\* Start reads the accounts, or fails.
LEMMA ListStep == ASSUME PoolsAssumption, IInv, List \/ Fail PROVE IInv'
<1> USE DEF List, Fail
<1>0. Types /\ Nested /\ Phases /\ Real /\ Halved /\ ReadRight /\ Follows /\ models = {}
  BY DEF IInv, Phases
<1>1. UNCHANGED <<program, models, announced, used, users, subscribed, chain, updates, missed, half, reading>>
  BY DEF world
<1>2. Types'
  BY <1>0, <1>1 DEF Types, Slot
<1>3. Nested'
  BY <1>0, <1>1 DEF Nested, Parsed
<1>4. Phases'
  BY <1>0, <1>1 DEF Phases, Wanted
<1>5. Real'
  BY <1>0, <1>1 DEF Real, At, Slot
<1>6. Follows'
  BY DEF Follows
<1>7. Halved' /\ ReadRight'
  BY <1>0, <1>1 DEF Halved, ReadRight, Asked
<1> QED  BY <1>2, <1>3, <1>4, <1>5, <1>6, <1>7 DEF IInv

\* The models are built of vaults that were read, as they are.
LEMMA BuildStep == ASSUME PoolsAssumption, IInv, Build PROVE IInv'
<1>0. Types /\ Nested /\ Phases /\ Real /\ Halved /\ ReadRight /\ phase = "listed" /\ phase' = "built"
  BY DEF IInv, Build
<1>1. UNCHANGED <<program, swaps, subscribed, chain, updates, missed, half, reading>>
  BY DEF Build, world
<1>2. /\ Slot \in 1 .. MaxSlot /\ chain[Slot] \in [Vaults -> Held] /\ Slot' = Slot
      /\ MaxSlot \in Nat
  BY <1>0, <1>1 DEF Types, Slot, PoolsAssumption
<1>3. users' \in [Vaults -> User]
  BY <1>0, <1>2, SMTT(30) DEF Build, RetrieveUsers, Types, User, Held
<1>4. ASSUME NEW k \in models', NEW v \in VaultsOf(k)
      PROVE  v \in Vaults /\ users'[v] = [amount |-> chain[Slot][v].amount, height |-> Slot]
  <2>1. k \in swaps /\ k \in Keys /\ v \notin Lost
    BY <1>0, <1>4 DEF Build, Nested
  <2>2. v \in Vaults
    BY <2>1 DEF Vaults
  <2> QED  BY <1>4, <2>1, <2>2 DEF Build, RetrieveUsers
<1>5. updates = <<>> /\ subscribed = {} /\ half = FALSE /\ reading = NoQuote
  BY <1>0 DEF Phases, Halved, ReadRight, Asked, Types
<1>6. Types'
  BY <1>0, <1>1, <1>2, <1>3 DEF Types, Slot
<1>7. Nested'
  BY <1>0, <1>1 DEF Build, Nested, Parsed, CallbackProduct, CallbackAll
<1>8. Phases'
  BY <1>0, <1>1, <1>5 DEF Phases
<1>9. Real'
  <2>1. \A v \in Vaults : users'[v].height <= Slot'
    BY <1>0, <1>2 DEF Build, RetrieveUsers, Real
  <2>2. ASSUME NEW k \in models', NEW v \in VaultsOf(k)  PROVE At(v, users[v])'
    <3>1. users'[v] = [amount |-> chain[Slot][v].amount, height |-> Slot]
      BY <1>4, <2>2
    <3>2. users'[v].height = Slot /\ users'[v].amount = chain[Slot][v].amount
      BY <3>1
    <3>3. Slot \in 1 .. Slot
      BY <1>2
    <3> QED  BY <1>1, <1>2, <3>2, <3>3 DEF At
  <2>3. DOMAIN updates' = {}
    BY <1>1, <1>5
  <2> QED  BY <2>1, <2>2, <2>3 DEF Real, VaultsOf
<1>10. Follows'
  <2>1. used' \subseteq models'
    BY <1>7 DEF Nested
  <2>2. ASSUME NEW k \in used', NEW v \in VaultsOf(k)
        PROVE  Told(updates', v, users'[v].amount, chain'[Slot'][v].amount)
    <3>0. k \in models'
      BY <2>1, <2>2
    <3>1. users'[v].amount = chain[Slot][v].amount
      <4>1. users'[v] = [amount |-> chain[Slot][v].amount, height |-> Slot]
        BY <1>4, <2>2, <3>0
      <4> QED  BY <4>1
    <3>2. DOMAIN updates' = {}
      BY <1>1, <1>5
    <3> QED  BY <1>1, <1>2, <3>1, <3>2 DEF Told
  <2> QED  BY <2>2 DEF Follows, VaultsOf
<1>11. Halved' /\ ReadRight'
  BY <1>1, <1>5 DEF Halved, ReadRight
<1> QED  BY <1>6, <1>7, <1>8, <1>9, <1>10, <1>11 DEF IInv

\* Flash subscribes to the vaults of the pools in use.
LEMMA FlashStep == ASSUME PoolsAssumption, IInv, Flash PROVE IInv'
<1> USE DEF Flash
<1>0. Types /\ Nested /\ Phases /\ Real /\ Halved /\ ReadRight /\ Follows
  BY DEF IInv
<1>1. UNCHANGED <<program, swaps, models, announced, used, users, chain, updates, missed, half, reading>>
  BY DEF world
<1>2. Types'
  BY <1>0, <1>1 DEF Types, Slot
<1>3. Nested'
  BY <1>0, <1>1 DEF Nested, Parsed
<1>4. Phases'
  BY <1>0, <1>1 DEF Phases, Wanted
<1>5. Real'
  BY <1>0, <1>1 DEF Real, At, Slot
<1>6. Follows'
  BY <1>0, <1>1 DEF Follows, Slot
<1>7. Halved' /\ ReadRight'
  <2>1. Halved'
    BY <1>0, <1>1 DEF Halved
  <2>2. Asked => Asked'
    BY <1>1 DEF Asked
  <2>3. SeenReal => SeenReal'
    BY <1>1 DEF SeenReal, Read2, Sold
  <2>4. SeenCalm => SeenCalm'
    <3>1. Words(reading.pool, reading.token)' = Words(reading.pool, reading.token)
      BY <1>1 DEF Words, Sold
    <3> QED  BY <1>1, <3>1 DEF SeenCalm, Quiet
  <2> QED  BY <1>0, <1>1, <2>1, <2>2, <2>3, <2>4 DEF ReadRight
<1> QED  BY <1>2, <1>3, <1>4, <1>5, <1>6, <1>7 DEF IInv

\* The direction of a swap is between the two vaults of the pool.
LEMMA Directed ==
  ASSUME NEW k, NEW token
  PROVE  LET d == Direction(k, token) IN d.src \in VaultsOf(k) /\ d.dst \in VaultsOf(k)
BY DEF Direction, VaultsOf

\* What is known of a vault of a model was its amount at some slot.
LEMMA AmountReal ==
  ASSUME PoolsAssumption, Types, Nested, Real, Halved, NEW k \in models, NEW v \in VaultsOf(k)
  PROVE  v \in Vaults /\ Was(chain, v, users[v].amount)
<1>1. k \in Keys /\ v \in Vaults
  BY DEF Nested, Vaults
<1>2. ASSUME NEW user, At(v, user) PROVE Was(chain, v, user.amount)
  <2>1. chain[user.height] \in [Vaults -> Held]
    BY <1>2 DEF At, Types, Slot
  <2>2. chain[user.height][v] \in Held
    BY <1>1, <2>1
  <2>3. DOMAIN chain = 1 .. Slot
    BY DEF Types, Slot
  <2> QED  BY <1>2, <2>2, <2>3 DEF At, Was, Held
<1>3. CASE At(v, users[v])
  BY <1>1, <1>2, <1>3
<1>4. CASE half /\ Head(updates).vault = v
  <2>1. updates # <<>> /\ users[v].amount = Head(updates).user.amount
    BY <1>4 DEF Halved
  <2>2. 1 \in DOMAIN updates /\ Head(updates) = updates[1]
    BY <2>1, HeadTailProperties DEF Types
  <2>3. At(v, Head(updates).user)
    BY <1>4, <2>2 DEF Real
  <2> QED  BY <1>1, <1>2, <2>1, <2>3
<1> QED  BY <1>3, <1>4 DEF Real

\* The words that a quote reads.
LEMMA WordsAre ==
  ASSUME Types, Nested, NEW k \in models, NEW token
  PROVE  LET d == Direction(k, Sold(k, token))
             words == Words(k, token)
         IN /\ d.src \in VaultsOf(k) /\ d.dst \in VaultsOf(k)
            /\ d.src \in Vaults /\ d.dst \in Vaults
            /\ words[1] = users[d.src].amount /\ words[2] = users[d.src].height
            /\ words[3] = users[d.dst].amount /\ words[4] = users[d.dst].height
            /\ \A i \in 1 .. 4 : words[i] \in Nat
<1> DEFINE d == Direction(k, Sold(k, token))
           words == Words(k, token)
<1>1. d.src \in VaultsOf(k) /\ d.dst \in VaultsOf(k)
  BY Directed
<1>2. d.src \in Vaults /\ d.dst \in Vaults
  BY <1>1 DEF Nested, Vaults
<1>3. words = <<users[d.src].amount, users[d.src].height, users[d.dst].amount, users[d.dst].height>>
  BY DEF Words
<1> HIDE DEF d, words
<1>4. users[d.src] \in User /\ users[d.dst] \in User
  BY <1>2 DEF Types
<1>5. /\ words[1] = users[d.src].amount /\ words[2] = users[d.src].height
      /\ words[3] = users[d.dst].amount /\ words[4] = users[d.dst].height
  BY <1>3
<1>6. /\ users[d.src].amount \in Nat /\ users[d.src].height \in Nat
      /\ users[d.dst].amount \in Nat /\ users[d.dst].height \in Nat
  BY <1>4 DEF User
<1>7. ASSUME NEW i \in 1 .. 4 PROVE words[i] \in Nat
  <2>1. i = 1 \/ i = 2 \/ i = 3 \/ i = 4
    OBVIOUS
  <2> QED  BY <1>5, <1>6, <2>1
<1> QED  BY <1>1, <1>2, <1>5, <1>7 DEF d, words

\* Nothing is being read where there is no model; a quote that is, is typed.
LEMMA ReadTyped ==
  ASSUME ReadRight, reading # NoQuote
  PROVE  /\ Asked /\ SeenReal /\ SeenCalm
         /\ reading.seen \in Seq(Nat) /\ Len(reading.seen) \in 1 .. 4 /\ reading.pool \in models
BY DEF ReadRight, Asked, Readings

\* The words of a pool are known as before when the vaults of the pool are.
LEMMA WordsStay ==
  ASSUME program' = program, NEW k, NEW token, \A v \in VaultsOf(k) : users'[v] = users[v]
  PROVE  Words(k, token)' = Words(k, token)
<1>1. Direction(k, Sold(k, token)).src \in VaultsOf(k) /\ Direction(k, Sold(k, token)).dst \in VaultsOf(k)
  BY Directed
<1>2. Sold(k, token)' = Sold(k, token)
  BY DEF Sold
<1> QED  BY <1>1, <1>2 DEF Words

\* The SPL token program stores the amount of a message.
LEMMA SplUpdateStep == ASSUME PoolsAssumption, IInv, SplUpdate PROVE IInv'
<1> DEFINE w == Head(updates).vault
           user == Head(updates).user
<1>0. Types /\ Nested /\ Phases /\ Real /\ Halved /\ ReadRight /\ Follows /\ half = FALSE
  BY DEF IInv, SplUpdate, Types
<1>1. UNCHANGED <<program, phase, swaps, models, announced, used, subscribed, chain, updates, missed>>
  BY DEF SplUpdate, starting, world
<1>2. /\ updates \in Seq(Message) /\ updates # <<>> /\ half' = TRUE
      /\ users' = [users EXCEPT ![w].amount = user.amount]
      /\ users \in [Vaults -> User] /\ Slot' = Slot
  BY <1>0, <1>1 DEF SplUpdate, Types, Slot
<1>3. /\ 1 \in DOMAIN updates /\ Head(updates) = updates[1] /\ Head(updates) \in Message
  BY <1>2, HeadTailProperties
<1>4. /\ w \in Vaults /\ user \in User
  BY <1>3 DEF Message
<1>5. reading' = IF reading # NoQuote /\ w \in VaultsOf(reading.pool)
                 THEN [reading EXCEPT !.calm = FALSE] ELSE reading
  BY DEF SplUpdate
<1>6. Head(updates').vault = w /\ Head(updates').user = user /\ updates'[1].vault = w
  BY <1>1, <1>3
<1>7. updates[1].vault = w
  BY <1>3
<1> HIDE DEF w, user
<1>8. /\ \A v \in Vaults \ {w} : users'[v] = users[v]
      /\ users'[w].amount = user.amount /\ users'[w].height = users[w].height
      /\ users' \in [Vaults -> User]
  <2>1. users[w] \in User
    BY <1>2, <1>4
  <2>2. users'[w] = [users[w] EXCEPT !.amount = user.amount]
    BY <1>2, <1>4
  <2>3. users'[w] \in User /\ users'[w].amount = user.amount /\ users'[w].height = users[w].height
    BY <1>4, <2>1, <2>2 DEF User
  <2> QED  BY <1>2, <1>4, <2>3
<1>9. Types'
  BY <1>0, <1>1, <1>2, <1>8 DEF Types, Slot
<1>10. Nested'
  BY <1>0, <1>1 DEF Nested, Parsed
<1>11. Phases'
  BY <1>0, <1>1, <1>2 DEF Phases, Wanted
<1>12. Real'
  <2>1. \A v \in Vaults : users'[v].height <= Slot'
    BY <1>0, <1>2, <1>4, <1>8 DEF Real
  <2>2. ASSUME NEW k \in models, NEW v \in VaultsOf(k), v # w  PROVE At(v, users[v])'
    <3>1. v \in Vaults
      BY <1>0, <2>2 DEF Nested, Vaults
    <3>2. At(v, users[v])
      BY <1>0, <2>2 DEF Real
    <3> QED  BY <1>1, <1>2, <1>8, <2>2, <3>1, <3>2 DEF At
  <2>3. ASSUME NEW i \in DOMAIN updates'  PROVE At(updates[i].vault, updates[i].user)'
    BY <1>0, <1>1, <1>2, <2>3 DEF Real, At
  <2> QED  BY <1>1, <1>2, <1>6, <2>1, <2>2, <2>3 DEF Real, VaultsOf
<1>13. Halved'
  BY <1>1, <1>2, <1>6, <1>8 DEF Halved
<1>14. ReadRight'
  <2>1. CASE reading = NoQuote
    BY <1>5, <2>1 DEF ReadRight
  <2>2. CASE reading # NoQuote
    <3>1. Asked /\ SeenReal /\ SeenCalm
      BY <1>0, <2>2, ReadTyped
    <3>2. /\ reading' \in Readings /\ reading'.pool = reading.pool /\ reading'.token = reading.token
          /\ reading'.seen = reading.seen
          /\ reading'.calm => reading.calm /\ w \notin VaultsOf(reading.pool)
      BY <1>5, <2>2, <3>1 DEF Asked, Readings
    <3>3. Asked'
      BY <1>1, <3>1, <3>2 DEF Asked
    <3>4. SeenReal'
      BY <1>1, <3>1, <3>2 DEF SeenReal, Read2, Sold
    <3>5. SeenCalm'
      <4> SUFFICES ASSUME reading'.calm
                   PROVE  /\ Quiet(reading.pool)'
                          /\ \A i \in 1 .. Len(reading'.seen) :
                               reading'.seen[i] = Words(reading.pool, reading.token)'[i]
        BY DEF SeenCalm
      <4>1. reading.calm /\ w \notin VaultsOf(reading.pool) /\ reading.pool \in models
        BY <3>1, <3>2 DEF Asked
      <4>2. \A v \in VaultsOf(reading.pool) : users'[v] = users[v]
        BY <1>0, <1>8, <4>1 DEF Nested, Vaults
      <4>3. Words(reading.pool, reading.token)' = Words(reading.pool, reading.token)
        <5>1. PICK k, token : k = reading.pool /\ token = reading.token
          OBVIOUS
        <5>2. Words(k, token)' = Words(k, token)
          BY <1>1, <4>2, <5>1, WordsStay
        <5> QED  BY <3>2, <5>1, <5>2 DEF Words, Sold, Direction
      <4> QED  BY <1>6, <3>1, <3>2, <4>1, <4>3 DEF SeenCalm, Quiet, VaultsOf
    <3> QED  BY <3>3, <3>4, <3>5 DEF ReadRight
  <2> QED  BY <2>1, <2>2
<1>15. Follows'
  <2>1. ASSUME NEW k \in used, NEW v \in VaultsOf(k) \ missed, phase \in {"built", "flashed"}
        PROVE  Told(updates, v, users'[v].amount, chain[Slot][v].amount)
    <3>1. v \in Vaults
      BY <1>0, <2>1 DEF Nested, Vaults
    <3>2. Told(updates, v, users[v].amount, chain[Slot][v].amount)
      BY <1>0, <2>1 DEF Follows
    <3>3. v # w => users'[v] = users[v]
      BY <1>8, <3>1
    <3> QED  BY <1>3, <1>7, <3>2, <3>3 DEF Told
  <2> QED  BY <1>1, <1>2, <2>1 DEF Follows, VaultsOf
<1> QED  BY <1>9, <1>10, <1>11, <1>12, <1>13, <1>14, <1>15 DEF IInv

\* The SPL token program stores the height of a message, and is through with it.
LEMMA SplHeightStep == ASSUME PoolsAssumption, IInv, SplHeight PROVE IInv'
<1> DEFINE w == Head(updates).vault
           user == Head(updates).user
<1>0. Types /\ Nested /\ Phases /\ Real /\ Halved /\ ReadRight /\ Follows /\ half
  BY DEF IInv, SplHeight
<1>1. UNCHANGED <<program, phase, swaps, models, announced, used, subscribed, chain, missed, reading>>
  BY DEF SplHeight, starting, world
<1>2. /\ updates \in Seq(Message) /\ updates # <<>> /\ half' = FALSE
      /\ users' = [users EXCEPT ![w].height = user.height]
      /\ updates' = Tail(updates) /\ users \in [Vaults -> User] /\ Slot' = Slot
      /\ users[w].amount = user.amount
  BY <1>0, <1>1 DEF SplHeight, Types, Slot, Halved
<1>3. /\ Len(updates) \in Nat \ {0} /\ updates' \in Seq(Message) /\ Len(updates') = Len(updates) - 1
      /\ \A i \in 1 .. Len(updates) - 1 : updates'[i] = updates[i + 1]
      /\ Head(updates) = updates[1] /\ Head(updates) \in Message
  BY <1>2, HeadTailProperties
<1>4. /\ w \in Vaults /\ user \in User /\ At(w, user)
  <2>1. 1 \in DOMAIN updates
    BY <1>2, <1>3
  <2> QED  BY <1>0, <1>3, <2>1 DEF Message, Real
<1> HIDE DEF w, user
<1>5. \A v \in Vaults : /\ v # w => users'[v] = users[v]
                        /\ users'[v].amount = users[v].amount
                        /\ v = w => users'[v].height = user.height
                        /\ users'[v] \in User
  <2>1. users[w] \in User
    BY <1>2, <1>4
  <2>2. users'[w] = [users[w] EXCEPT !.height = user.height]
    BY <1>2, <1>4
  <2>3. users'[w] \in User /\ users'[w].amount = users[w].amount /\ users'[w].height = user.height
    BY <1>4, <2>1, <2>2 DEF User
  <2> QED  BY <1>2, <1>4, <2>3
<1>6. Types'
  <2>1. users' \in [Vaults -> User]
    BY <1>2, <1>4, <1>5
  <2>2. Len(updates') <= 2 * (Slot - 1)
    BY <1>0, <1>3 DEF Types, Slot, PoolsAssumption
  <2> QED  BY <1>0, <1>1, <1>2, <1>3, <2>1, <2>2 DEF Types, Slot
<1>7. Nested'
  BY <1>0, <1>1 DEF Nested, Parsed
<1>8. Phases'
  BY <1>0, <1>1, <1>2 DEF Phases, Wanted
<1>9. Real'
  <2>1. \A v \in Vaults : users'[v].height <= Slot'
    <3>1. user.height <= Slot
      BY <1>4 DEF At
    <3> QED  BY <1>0, <1>2, <1>5, <3>1 DEF Real
  <2>2. ASSUME NEW k \in models, NEW v \in VaultsOf(k)  PROVE At(v, users[v])'
    <3>1. v \in Vaults
      BY <1>0, <2>2 DEF Nested, Vaults
    <3>2. CASE v = w
      BY <1>1, <1>2, <1>4, <1>5, <3>1, <3>2 DEF At
    <3>3. CASE v # w
      <4>1. At(v, users[v])
        BY <1>0, <2>2, <3>3 DEF Real, w
      <4> QED  BY <1>1, <1>2, <1>5, <3>1, <3>3, <4>1 DEF At
    <3> QED  BY <3>2, <3>3
  <2>3. ASSUME NEW i \in DOMAIN updates'  PROVE At(updates[i].vault, updates[i].user)'
    <3>1. i + 1 \in DOMAIN updates /\ updates'[i] = updates[i + 1]
      BY <1>2, <1>3
    <3> QED  BY <1>0, <1>1, <1>2, <3>1 DEF Real, At
  <2> QED  BY <1>1, <2>1, <2>2, <2>3 DEF Real, VaultsOf
<1>10. Halved'
  BY <1>2 DEF Halved
<1>11. ReadRight'
  <2>1. CASE reading = NoQuote
    BY <1>1, <2>1 DEF ReadRight
  <2>2. CASE reading # NoQuote
    <3>1. Asked /\ SeenReal /\ SeenCalm /\ reading.pool \in models
      BY <1>0, <2>2, ReadTyped
    <3>2. Asked' /\ SeenReal'
      BY <1>1, <3>1 DEF Asked, SeenReal, Read2, Sold
    <3>3. SeenCalm'
      <4> SUFFICES ASSUME reading.calm
                   PROVE  /\ Quiet(reading.pool)'
                          /\ \A i \in 1 .. Len(reading.seen) :
                               reading.seen[i] = Words(reading.pool, reading.token)'[i]
        BY <1>1 DEF SeenCalm
      <4>1. w \notin VaultsOf(reading.pool)
        BY <1>0, <3>1 DEF SeenCalm, Quiet, w
      <4>2. \A v \in VaultsOf(reading.pool) : users'[v] = users[v]
        BY <1>0, <1>5, <3>1, <4>1 DEF Nested, Vaults
      <4>3. Words(reading.pool, reading.token)' = Words(reading.pool, reading.token)
        <5>1. PICK k, token : k = reading.pool /\ token = reading.token
          OBVIOUS
        <5>2. Words(k, token)' = Words(k, token)
          BY <1>1, <4>2, <5>1, WordsStay
        <5> QED  BY <1>1, <5>1, <5>2 DEF Words, Sold, Direction
      <4> QED  BY <1>2, <3>1, <4>3 DEF SeenCalm, Quiet
    <3> QED  BY <3>2, <3>3 DEF ReadRight
  <2> QED  BY <2>1, <2>2
<1>12. Follows'
  <2>1. ASSUME NEW k \in used, NEW v \in VaultsOf(k) \ missed, phase \in {"built", "flashed"}
        PROVE  Told(updates', v, users'[v].amount, chain[Slot][v].amount)
    <3>1. v \in Vaults
      BY <1>0, <2>1 DEF Nested, Vaults
    <3>2. Told(updates, v, users[v].amount, chain[Slot][v].amount)
      BY <1>0, <2>1 DEF Follows
    <3>3. users'[v].amount = IF w = v THEN user.amount ELSE users[v].amount
      BY <1>2, <1>5, <3>1
    <3>4. Told(Tail(updates), v, IF Head(updates).vault = v THEN Head(updates).user.amount
                                 ELSE users[v].amount, chain[Slot][v].amount)
      BY <1>2, <3>2, WorkedOff
    <3> QED  BY <1>2, <3>3, <3>4 DEF w, user
  <2> QED  BY <1>1, <1>2, <2>1 DEF Follows, VaultsOf
<1> QED  BY <1>6, <1>7, <1>8, <1>9, <1>10, <1>11, <1>12 DEF IInv

\* A quote reads a word, or returns.
LEMMA QuotingStep == ASSUME PoolsAssumption, IInv, Quoting PROVE IInv'
<1>0. Types /\ Nested /\ Phases /\ Real /\ Halved /\ ReadRight /\ Follows
  BY DEF IInv
<1>1. UNCHANGED <<program, phase, swaps, models, announced, used, users, subscribed, chain, updates,
                  half, missed>>
  BY DEF Quoting, Ask, Read, Return, starting, world
<1>2. Types' /\ Nested' /\ Phases' /\ Real' /\ Halved' /\ Follows'
  BY <1>0, <1>1 DEF Types, Nested, Phases, Real, Follows, Slot, Parsed, Wanted, At, Halved
<1>3. chain' = chain
  BY <1>1
<1>4. ASSUME NEW k \in models, NEW token \in Pair(k), Ask(k, token) PROVE ReadRight'
  <2> DEFINE words == Words(k, token)
             d == Direction(k, Sold(k, token))
             calm == ~(half /\ Head(updates).vault \in VaultsOf(k))
  <2>1. /\ d.src \in VaultsOf(k) /\ d.dst \in VaultsOf(k) /\ words[1] = users[d.src].amount
        /\ words[1] \in Nat
    BY <1>0, WordsAre
  <2>2. reading' = [pool |-> k, token |-> token, seen |-> <<words[1]>>, calm |-> calm]
    BY <1>4 DEF Ask
  <2>3. Was(chain, d.src, words[1])
    BY <1>0, <2>1, AmountReal
  <2>4. words' = words /\ d' = d
    BY <1>1 DEF Words, Sold
  <2>5. calm \in BOOLEAN /\ calm' = calm /\ (calm => Quiet(k)')
    BY <1>1 DEF Quiet
  <2> HIDE DEF words, d, calm
  <2>6. /\ reading'.pool = k /\ reading'.token = token /\ reading'.seen = <<words[1]>>
        /\ reading'.calm = calm
    BY <2>2
  <2>7. <<words[1]>> \in Seq(Nat) /\ Len(<<words[1]>>) = 1 /\ <<words[1]>>[1] = words[1]
    BY <2>1
  <2>8. k \in Keys /\ token \in UNION {Pair(l) : l \in Keys}
    BY <1>0 DEF Nested
  <2>9. Asked'
    <3>1. reading' \in Readings
      BY <2>2, <2>5, <2>7, <2>8 DEF Readings
    <3> QED  BY <1>1, <2>6, <2>7, <3>1 DEF Asked
  <2>10. SeenReal'
    <3>1. Read2'.src = d.src
      BY <2>4, <2>6 DEF Read2, d, Sold
    <3>2. Len(reading'.seen) = 1 /\ reading'.seen[1] = words[1]
      BY <2>6, <2>7
    <3> QED  BY <1>3, <2>3, <3>1, <3>2 DEF SeenReal
  <2>11. SeenCalm'
    <3>1. Words(k, token)' = words
      BY <2>4 DEF words
    <3>2. Words(reading.pool, reading.token)' = words
      BY <2>6, <3>1 DEF Words, Sold, Direction
    <3> QED  BY <2>5, <2>6, <2>7, <3>2 DEF SeenCalm, Quiet
  <2> QED  BY <2>9, <2>10, <2>11 DEF ReadRight
<1>5. ASSUME Read PROVE ReadRight'
  <2>00. /\ Asked /\ SeenReal /\ SeenCalm /\ reading.seen \in Seq(Nat)
         /\ Len(reading.seen) \in 1 .. 4 /\ reading.pool \in models /\ Len(reading.seen) < 4
    BY <1>0, <1>5, ReadTyped DEF Read
  <2>01. PICK s \in Seq(Nat), n \in 1 .. 4 : s = reading.seen /\ n = Len(s) /\ n < 4
    BY <2>00
  <2>010. n < 4
    BY ONLY <2>01
  <2>02. n \in 1 .. 3 /\ n \in Nat /\ (n = 1 \/ n = 2 \/ n = 3)
    BY ONLY <2>010, n \in 1 .. 4
  <2>03. Len(reading.seen) = n /\ reading.seen = s
    BY ONLY <2>01
  <2> DEFINE k == reading.pool
             token == reading.token
             words == Words(k, token)
             next == Append(s, words[n + 1])
  <2>1. reading' = [reading EXCEPT !.seen = next]
    BY <1>5, <2>03 DEF Read
  <2>2. /\ \A i \in 1 .. 4 : words[i] \in Nat
        /\ Read2.dst \in VaultsOf(k) /\ words[3] = users[Read2.dst].amount
    BY <1>0, <2>00, WordsAre DEF Read2
  <2>3. Was(chain, Read2.dst, words[3])
    BY <1>0, <2>00, <2>2, AmountReal
  <2> HIDE DEF words
  <2>4. /\ next \in Seq(Nat) /\ Len(next) = n + 1 /\ next[n + 1] = words[n + 1]
        /\ \A i \in 1 .. n : next[i] = s[i]
    <3>1. words[n + 1] \in Nat
      BY <2>2, <2>02
    <3>2. PICK e \in Nat : e = words[n + 1]
      BY <3>1
    <3>4. /\ Append(s, e) \in Seq(Nat) /\ Len(Append(s, e)) = Len(s) + 1
          /\ Append(s, e)[Len(s) + 1] = e /\ \A i \in 1 .. Len(s) : Append(s, e)[i] = s[i]
      BY AppendProperties
    <3> QED  BY <2>01, <3>2, <3>4
  <2> HIDE DEF next
  <2>5. /\ reading'.pool = k /\ reading'.token = token /\ reading'.seen = next
        /\ reading'.calm = reading.calm /\ reading' \in Readings
    BY <2>00, <2>1, <2>4 DEF Asked, Readings
  <2>50. n + 1 \in 1 .. 4
    BY ONLY <2>02
  <2>51. Len(next) \in 1 .. 4
    BY <2>50, <2>4, Zenon
  <2>6. Asked'
    BY <1>1, <2>00, <2>51, <2>5 DEF Asked
  <2>7. SeenReal'
    <3>1. Read2' = Read2
      BY <1>1, <2>5 DEF Read2, Sold
    <3>2. next[1] = reading.seen[1]
      BY <2>02, <2>03, <2>4
    <3>3. Len(next) >= 3 => Was(chain, Read2.dst, next[3])
      <4>1. CASE n = 1
        <5>1. Len(next) = 2
          BY <2>4, <4>1
        <5> QED  BY <5>1
      <4>2. CASE n = 2
        <5>1. next[3] = words[3]
          BY <2>4, <4>2
        <5> QED  BY <2>3, <5>1
      <4>3. CASE n = 3
        <5>1. next[3] = s[3]
          BY <2>4, <4>3
        <5>2. Len(reading.seen) >= 3
          BY <2>03, <4>3
        <5> QED  BY <2>00, <2>03, <5>1, <5>2 DEF SeenReal
      <4> QED  BY <2>02, <4>1, <4>2, <4>3
    <3>4. Was(chain, Read2.src, next[1])
      BY <2>00, <3>2 DEF SeenReal
    <3> QED  BY <1>3, <2>5, <3>1, <3>3, <3>4 DEF SeenReal
  <2>8. SeenCalm'
    <3>1. Words(reading.pool, reading.token)' = words
      BY <1>1, <2>5 DEF Words, Sold, Direction, words
    <3>2. reading.calm => \A i \in 1 .. n + 1 : next[i] = words[i]
      <4> SUFFICES ASSUME reading.calm, NEW i \in 1 .. n + 1 PROVE next[i] = words[i]
        OBVIOUS
      <4>1. CASE i = n + 1
        BY <2>4, <4>1
      <4>2. CASE i # n + 1
        <5>1. i \in 1 .. n
          BY ONLY <2>02, <4>2, i \in 1 .. n + 1
        <5>2. s[i] = words[i]
          BY <2>00, <2>03, <5>1 DEF SeenCalm, words
        <5> QED  BY <2>4, <5>1, <5>2
      <4> QED  BY <4>1, <4>2
    <3>3. reading.calm => Quiet(reading.pool)'
      BY <1>1, <2>00, <2>5 DEF SeenCalm, Quiet
    <3> QED  BY <2>4, <2>5, <3>1, <3>2, <3>3 DEF SeenCalm, Quiet
  <2> QED  BY <2>6, <2>7, <2>8 DEF ReadRight
<1>6. ASSUME Return PROVE ReadRight'
  BY <1>6 DEF Return, ReadRight
<1>7. ReadRight'
  BY <1>4, <1>5, <1>6 DEF Quoting
<1> QED  BY <1>2, <1>7 DEF IInv

\* A trade: what is known stays true of its slot, and the feed tells of both vaults.
LEMMA TradeStep ==
  ASSUME PoolsAssumption, IInv,
         NEW k \in Keys, NEW r \in ReservesOf[k], NEW first \in {"a", "b"}, Trade(k, r, first)
  PROVE  IInv'
<1>0. Types /\ Nested /\ Phases /\ Real /\ Halved /\ ReadRight /\ Follows
  BY DEF IInv
<1>1. UNCHANGED <<program, phase, swaps, models, announced, used, users, subscribed, half, reading>>
  BY DEF Trade, starting
<1> DEFINE vA == Accounts[k].swapA
           vB == Accounts[k].swapB
           now == [chain[Slot] EXCEPT ![vA] = [amount |-> r[1], height |-> Slot + 1],
                                      ![vB] = [amount |-> r[2], height |-> Slot + 1]]
           w == IF first = "a" THEN vA ELSE vB
           x == IF first = "a" THEN vB ELSE vA
<1>2. /\ Slot < MaxSlot
      /\ chain' = Append(chain, now)
      /\ updates' = updates \o Heard(now, w) \o Heard(now, x)
      /\ missed' = IF phase \in {"new", "listed"} THEN missed
                   ELSE IF phase = "flashed" /\ k \in used THEN missed \ {vA, vB}
                   ELSE missed \cup {vA, vB}
  <2>1. CASE first = "a"
    BY <2>1 DEF Trade
  <2>2. CASE first = "b"
    BY <2>2 DEF Trade
  <2> QED  BY <2>1, <2>2
<1>3. /\ now \in [Vaults -> Held]
      /\ \A v \in Vaults \ VaultsOf(k) : now[v] = chain[Slot][v]
      /\ now[vA].height = Slot + 1 /\ now[vB].height = Slot + 1
      /\ w # x /\ w \in {vA, vB} /\ x \in {vA, vB}
  <2>1. r[1] \in Nat \ {0} /\ r[2] \in Nat \ {0} /\ vA # vB /\ vA \in Vaults /\ vB \in Vaults
    BY DEF PoolsAssumption, Vaults, VaultsOf
  <2>2. chain[Slot] \in [Vaults -> Held] /\ Slot + 1 \in Nat
    BY <1>0 DEF Types, Slot, PoolsAssumption
  <2>3. w # x /\ w \in {vA, vB} /\ x \in {vA, vB}
    BY <2>1
  <2>4. now \in [Vaults -> Held]
    BY <2>1, <2>2 DEF Held
  <2>5. \A v \in Vaults \ VaultsOf(k) : now[v] = chain[Slot][v]
    BY <2>1, <2>2 DEF VaultsOf
  <2>6. now[vA].height = Slot + 1 /\ now[vB].height = Slot + 1
    BY <2>1, <2>2
  <2> QED  BY <2>3, <2>4, <2>5, <2>6
<1> HIDE DEF now, w, x, vA, vB
<1>4. k \in Keys /\ VaultsOf(k) = {vA, vB} /\ VaultsOf(k) \subseteq Vaults
  BY DEF VaultsOf, vA, vB, Vaults
<1>5. /\ Slot \in Nat \ {0} /\ MaxSlot \in Nat /\ Slot' = Slot + 1 /\ chain' \in Seq([Vaults -> Held])
      /\ chain'[Slot + 1] = now /\ \A h \in 1 .. Slot : chain'[h] = chain[h]
  BY <1>0, <1>2, <1>3, AppendProperties DEF Types, Slot, PoolsAssumption
<1>6. \A v, user : At(v, user) => user.height \in 1 .. Slot' /\ user.amount = chain'[user.height][v].amount
  BY <1>5 DEF At
<1> DEFINE once == updates \o Heard(now, w)
<1>7. /\ updates \in Seq(Message) /\ Len(updates) <= 2 * (Slot - 1) /\ w \in Vaults /\ x \in Vaults
  BY <1>0, <1>3, <1>4 DEF Types
<1>8. Fed(updates, once, now, w)
  BY <1>3, <1>7, HeardTells
<1>9. updates' = once \o Heard(now, x)
  BY <1>2
<1> HIDE DEF once
<1>10. Fed(once, updates', now, x)
  <2>1. once \in Seq(Message)
    BY <1>8 DEF Fed
  <2> QED  BY <1>3, <1>7, <1>9, <2>1, HeardTells
<1>17. half => /\ updates # <<>> /\ updates' # <<>> /\ 1 \in DOMAIN updates
                 /\ updates'[1] = updates[1] /\ Head(updates') = Head(updates)
  <2> SUFFICES ASSUME half PROVE /\ updates # <<>> /\ updates' # <<>> /\ 1 \in DOMAIN updates
                                 /\ updates'[1] = updates[1] /\ Head(updates') = Head(updates)
    OBVIOUS
  <2>1. updates # <<>> /\ 1 \in DOMAIN updates
    BY <1>0, <1>7, HeadTailProperties DEF Halved
  <2>2. 1 \in DOMAIN updates' /\ updates'[1] = updates[1]
    BY <1>8, <1>10, <2>1 DEF Fed
  <2>3. updates' \in Seq(Message) /\ updates' # <<>>
    BY <1>10, <2>2 DEF Fed
  <2> QED  BY <1>7, <2>1, <2>2, <2>3, HeadTailProperties
<1>11. Types'
  <2>1. Len(updates') <= 2 * (Slot' - 1)
    <3>1. Len(updates) \in Nat /\ Len(once) \in Nat /\ Len(updates') \in Nat
      BY <1>7, <1>8, <1>10 DEF Fed
    <3>2. Len(once) <= Len(updates) + 1 /\ Len(updates') <= Len(once) + 1
      BY <1>8, <1>10 DEF Fed
    <3>3. Len(updates) <= 2 * (Slot - 1) /\ Slot' = Slot + 1 /\ Slot \in Nat
      BY <1>5, <1>7
    <3> QED  BY ONLY <3>1, <3>2, <3>3
  <2>2. Slot' \in 1 .. MaxSlot
    BY <1>2, <1>5
  <2>3. missed' \subseteq Vaults
    BY <1>0, <1>2, <1>4 DEF Types
  <2> QED  BY <1>0, <1>1, <1>5, <1>10, <2>1, <2>2, <2>3 DEF Types, Slot, Fed
<1>12. Nested'
  BY <1>0, <1>1 DEF Nested, Parsed
<1>13. Phases'
  BY <1>0, <1>1, <1>8, <1>10 DEF Phases, Wanted, Fed
<1>14. \A v \in VaultsOf(k) : now[v].height \in 1 .. Slot' /\ now[v].amount = chain'[now[v].height][v].amount
  <2>1. Slot + 1 \in 1 .. Slot'
    BY <1>5
  <2>2. \A v \in VaultsOf(k) : now[v].height = Slot + 1
    BY <1>3, <1>4
  <2> QED  BY <1>5, <2>1, <2>2
<1>15. Real'
  <2>1. \A v \in Vaults : users'[v].height <= Slot'
    <3>1. \A v \in Vaults : users[v].height <= Slot /\ users[v].height \in Nat
      BY <1>0 DEF Real, Types, User
    <3> QED  BY <1>1, <1>5, <3>1
  <2>2. ASSUME NEW l \in models, NEW v \in VaultsOf(l)
        PROVE  \/ /\ users'[v].height \in 1 .. Slot'
                  /\ users'[v].amount = chain'[users'[v].height][v].amount
               \/ half' /\ Head(updates').vault = v
    <3>1. At(v, users[v]) \/ (half /\ Head(updates).vault = v)
      BY <1>0, <2>2 DEF Real
    <3> QED  BY <1>1, <1>6, <1>17, <3>1
  <2>3. ASSUME NEW i \in DOMAIN updates'
        PROVE  LET m == updates'[i]
               IN m.user.height \in 1 .. Slot' /\ m.user.amount = chain'[m.user.height][m.vault].amount
    <3>1. \/ i \in DOMAIN updates /\ updates'[i] = updates[i]
          \/ \E v \in VaultsOf(k) : updates'[i] = [vault |-> v, user |-> now[v]]
      BY <1>3, <1>4, <1>8, <1>10, <2>3 DEF Fed
    <3>2. CASE i \in DOMAIN updates /\ updates'[i] = updates[i]
      <4>1. At(updates[i].vault, updates[i].user)
        BY <1>0, <3>2 DEF Real
      <4> QED  BY <1>6, <3>2, <4>1
    <3>3. CASE \E v \in VaultsOf(k) : updates'[i] = [vault |-> v, user |-> now[v]]
      BY <1>14, <3>3
    <3> QED  BY <3>1, <3>2, <3>3
  <2> QED  BY <1>1, <2>1, <2>2, <2>3 DEF Real, At, VaultsOf
<1>16. Follows'
  <2>1. ASSUME NEW l \in used, NEW v \in VaultsOf(l), v \notin missed', phase \in {"built", "flashed"}
        PROVE  Told(updates', v, users[v].amount, now[v].amount)
    <3>0. l \in Keys /\ v \in Vaults
      BY <1>0, <2>1 DEF Nested, Vaults
    <3>1. CASE v \in VaultsOf(k)
      <4>1. l = k
        BY <1>4, <2>1, <3>0, <3>1 DEF PoolsAssumption
      <4>2. phase = "flashed"
        BY <1>2, <1>4, <2>1, <3>1
      <4>3. w \in subscribed /\ x \in subscribed
        BY <1>0, <1>3, <1>4, <2>1, <4>1, <4>2 DEF Phases, Wanted
      <4>4. CASE v = x
        BY <1>10, <4>3, <4>4 DEF Fed
      <4>5. CASE v = w
        <5>1. Told(once, v, users[v].amount, now[v].amount)
          BY <1>8, <4>3, <4>5 DEF Fed
        <5> QED  BY <1>3, <1>10, <4>5, <5>1 DEF Fed
      <4> QED  BY <1>3, <1>4, <3>1, <4>4, <4>5
    <3>2. CASE v \notin VaultsOf(k)
      <4>1. v # w /\ v # x /\ v \notin missed
        BY <1>2, <1>3, <1>4, <2>1, <3>2
      <4>2. Told(updates, v, users[v].amount, chain[Slot][v].amount)
        BY <1>0, <2>1, <4>1 DEF Follows
      <4>3. now[v] = chain[Slot][v]
        BY <1>3, <3>0, <3>2
      <4>4. Told(once, v, users[v].amount, now[v].amount)
        BY <1>8, <4>1, <4>2, <4>3 DEF Fed
      <4> QED  BY <1>10, <4>1, <4>4 DEF Fed
    <3> QED  BY <3>1, <3>2
  <2>2. chain'[Slot'] = now
    BY <1>5
  <2> QED  BY <1>1, <2>1, <2>2 DEF Follows, VaultsOf
<1>18. Halved'
  BY <1>0, <1>1, <1>17 DEF Halved
<1>19. ReadRight'
  <2>1. \A v, amount : Was(chain, v, amount) => Was(chain', v, amount)
    <3>1. \A h \in DOMAIN chain : h \in DOMAIN chain' /\ chain'[h] = chain[h]
      <4>1. DOMAIN chain = 1 .. Slot /\ DOMAIN chain' = 1 .. Slot'
        BY <1>0, <1>5 DEF Types, Slot
      <4> QED  BY <1>5, <4>1
    <3> QED  BY <3>1 DEF Was
  <2>2. Read2' = Read2 /\ reading' = reading /\ models' = models
    BY <1>1 DEF Read2, Sold
  <2>3. SeenReal => SeenReal'
    BY <2>1, <2>2 DEF SeenReal
  <2>4. Words(reading.pool, reading.token)' = Words(reading.pool, reading.token)
    BY <1>1 DEF Words, Sold
  <2>5. SeenCalm => SeenCalm'
    BY <1>1, <1>17, <2>4 DEF SeenCalm, Quiet
  <2> QED  BY <1>0, <2>2, <2>3, <2>5 DEF ReadRight, Asked
<1> QED  BY <1>11, <1>12, <1>13, <1>15, <1>16, <1>18, <1>19 DEF IInv

\* Every step keeps the invariant.
LEMMA InvStep == ASSUME PoolsAssumption, IInv, [Next]_vars PROVE IInv'
<1>1. CASE UNCHANGED vars
  <2>1. UNCHANGED <<program, phase, swaps, models, announced, used, users, subscribed, chain, updates,
                    half, reading, missed>>
    BY <1>1 DEF vars, starting, world
  <2>2. Types' /\ Nested' /\ Phases' /\ Real' /\ Halved' /\ Follows'
    BY <2>1 DEF IInv, Types, Nested, Phases, Real, Follows, Slot, Parsed, Wanted, At, Halved
  <2>3. Asked => Asked'
    BY <2>1 DEF Asked
  <2>4. SeenReal => SeenReal'
    BY <2>1 DEF SeenReal, Read2, Sold
  <2>5. SeenCalm => SeenCalm'
    <3>1. Words(reading.pool, reading.token)' = Words(reading.pool, reading.token)
      BY <2>1 DEF Words, Sold
    <3> QED  BY <2>1, <3>1 DEF SeenCalm, Quiet
  <2>6. ReadRight'
    BY <2>1, <2>3, <2>4, <2>5 DEF IInv, ReadRight
  <2> QED  BY <2>2, <2>6 DEF IInv
<1>2. CASE Trades
  BY <1>2, TradeStep DEF Trades
<1> QED  BY <1>1, <1>2, ListStep, BuildStep, FlashStep, SplUpdateStep, SplHeightStep, QuotingStep DEF Next

-----------------------------------------------------------------------------
(***************************************************************************)
(* The curve of constant product.                                          *)
(***************************************************************************)

\* A product grows with its factors.
LEMMA TimesMore ==
  ASSUME NEW a \in Nat, NEW b \in Nat, NEW c \in Nat, a <= b
  PROVE  a * c <= b * c /\ c * a <= c * b
<1>1. (b - a) * c \in Nat
  OBVIOUS
<1>2. b * c - a * c = (b - a) * c
  OBVIOUS
<1> QED  BY <1>1, <1>2

\* A quotient, rounded down, and its remainder.
LEMMA Quotient ==
  ASSUME NEW a \in Nat, NEW b \in Nat \ {0}
  PROVE  /\ a \div b \in Nat
         /\ b * (a \div b) <= a /\ a < b * (a \div b) + b
OBVIOUS

\* The quotient is the greatest number that goes so often.
LEMMA QuotientLeast ==
  ASSUME NEW a \in Nat, NEW b \in Nat \ {0}, NEW q \in Int, b * q <= a
  PROVE  q <= a \div b
<1> DEFINE d == a \div b
<1>1. d \in Nat /\ a < b * d + b
  BY Quotient
<1> HIDE DEF d
<1>2. SUFFICES ASSUME d + 1 <= q PROVE FALSE
  BY <1>1 DEF d
<1>3. q \in Nat
  BY <1>1, <1>2
<1>4. b * (d + 1) <= b * q
  BY <1>1, <1>2, <1>3, TimesMore
<1>5. b * (d + 1) = b * d + b
  BY <1>1
<1> QED  BY <1>1, <1>4, <1>5

\* A quotient falls with its divisor.
LEMMA Falls ==
  ASSUME NEW p \in Nat, NEW b \in Nat \ {0}, NEW c \in Nat \ {0}, b <= c
  PROVE  p \div c <= p \div b
<1> DEFINE w == p \div c
<1>1. w \in Nat /\ c * w <= p
  BY Quotient
<1> HIDE DEF w
<1>2. b * w <= c * w
  BY <1>1, TimesMore
<1>3. b * w <= p
  BY <1>1, <1>2
<1> QED  BY <1>1, <1>3, QuotientLeast DEF w

\* What is paid is there, and more is paid for more.
LEMMA ProductPays ==
  ASSUME NEW x \in Nat, NEW y \in Nat, NEW a \in Nat \ {0}
  PROVE  /\ ConstantProduct(x, y, a) \in 0 .. y
         /\ \A b \in Nat \ {0} : b <= a => ConstantProduct(x, y, b) <= ConstantProduct(x, y, a)
<1>1. x * y \in Nat /\ x + a \in Nat \ {0}
  OBVIOUS
<1> DEFINE w == (x * y) \div (x + a)
<1>2. w \in Nat /\ (x + a) * w <= x * y
  BY <1>1, Quotient
<1>3. w <= y
  <2> SUFFICES ASSUME y + 1 <= w PROVE FALSE
    BY <1>2
  <2>1. (x + a) * (y + 1) <= (x + a) * w
    BY <1>1, <1>2, TimesMore
  <2>2. x * y < (x + a) * (y + 1)
    <3>1. (x + a) * (y + 1) = x * y + x + a * y + a
      OBVIOUS
    <3>2. a * y \in Nat
      OBVIOUS
    <3> QED  BY <1>1, <3>1, <3>2
  <2>3. (x + a) * w \in Nat /\ (x + a) * (y + 1) \in Nat
    BY <1>1, <1>2
  <2> QED  BY <1>1, <1>2, <2>1, <2>2, <2>3
<1>4. ASSUME NEW b \in Nat \ {0}, b <= a
      PROVE  ConstantProduct(x, y, b) <= ConstantProduct(x, y, a)
  <2>1. x + b \in Nat \ {0} /\ x + b <= x + a
    BY <1>4
  <2>2. (x * y) \div (x + a) <= (x * y) \div (x + b)
    BY <1>1, <2>1, Falls
  <2>3. (x * y) \div (x + b) \in Nat
    BY <1>1, <2>1, Quotient
  <2> QED  BY <1>2, <2>2, <2>3 DEF ConstantProduct
<1>5. ConstantProduct(x, y, a) = y - w
  BY DEF ConstantProduct
<1> HIDE DEF w
<1> QED  BY <1>2, <1>3, <1>4, <1>5

\* There and back: of reserves x and y, a pays out, and out pays no more than a but for one
\* unit and the price of a unit of out.
LEMMA ProductReturns ==
  ASSUME NEW x \in Nat \ {0}, NEW y \in Nat \ {0}, NEW a \in Nat \ {0},
         NEW out \in Nat, out = ConstantProduct(x, y, a), out <= y
  PROVE  ConstantProduct(y - out, x + a, out) <= a + 1 + (x + a) \div y
<1> DEFINE X == x + a
           Y == y - out
           u == (Y * X) \div y
           v == X \div y
<1>1. X \in Nat \ {0} /\ Y \in Nat /\ x * y \in Nat /\ Y * X \in Nat /\ Y + out = y
  OBVIOUS
<1>2. Y = (x * y) \div X
  <2>1. (x * y) \div X \in Nat
    BY <1>1, Quotient
  <2> QED  BY <2>1 DEF ConstantProduct
<1>3. x * y < X * Y + X
  BY <1>1, <1>2, Quotient
<1>4. u \in Nat /\ Y * X < y * u + y
  BY <1>1, Quotient
<1>5. v \in Nat /\ X < y * v + y
  BY <1>1, Quotient
<1>6. ConstantProduct(Y, X, out) = X - u
  BY <1>1 DEF ConstantProduct
<1>7. X = x + a
  OBVIOUS
<1>8. X * Y = Y * X
  BY <1>1
<1> HIDE DEF X, Y, u, v
<1>9. x * y < y * u + y + y * v + y
  BY <1>1, <1>3, <1>4, <1>5, <1>8
<1>10. y * u + y + y * v + y = (u + v + 2) * y
  BY <1>4, <1>5
<1>11. x < u + v + 2
  <2> SUFFICES ASSUME u + v + 2 <= x PROVE FALSE
    BY <1>4, <1>5
  <2>1. (u + v + 2) * y <= x * y
    BY <1>4, <1>5, TimesMore
  <2>2. (u + v + 2) * y \in Nat
    BY <1>4, <1>5
  <2> QED  BY <1>1, <1>9, <1>10, <2>1, <2>2
<1>12. X - u <= a + 1 + v
  BY <1>4, <1>5, <1>7, <1>11
<1> QED  BY <1>6, <1>12 DEF X, Y, v

-----------------------------------------------------------------------------
(***************************************************************************)
(* The theorems.                                                           *)
(***************************************************************************)

\* The invariant holds in every state of the four programs.
THEOREM Invariant == Spec => []IInv
<1>1. Init => IInv
  BY InvInit, PoolsAssumption
<1>2. IInv /\ [Next]_vars => IInv'
  BY InvStep, PoolsAssumption
<1> QED  BY <1>1, <1>2, PTL DEF Spec

\* Every variable keeps its type, and the messages never outnumber the changes.
LEMMA TypesGood == ASSUME PoolsAssumption, IInv PROVE TypeOK
<1>1. Types /\ Nested /\ Phases /\ Real
  BY DEF IInv
<1>2. swaps \subseteq Keys /\ used \subseteq announced /\ announced \subseteq models /\ models \subseteq swaps
  BY <1>1 DEF Nested
<1>3. subscribed \subseteq Vaults
  BY <1>1, <1>2 DEF Phases, Wanted, Vaults
<1>4. \A v \in Vaults : users[v].amount \in Nat /\ users[v].height \in 0 .. Slot
  BY <1>1 DEF Types, Real, User, Slot, PoolsAssumption
<1>5. Len(updates) <= 2 * MaxSlot
  BY <1>1 DEF Types, Slot, PoolsAssumption
<1>6. reading = NoQuote \/ Asked
  BY DEF IInv, ReadRight
<1>7. Asked => /\ DOMAIN reading = {"pool", "token", "seen", "calm"}
               /\ reading.pool \in models /\ reading.token \in Pair(reading.pool)
               /\ reading.seen \in Seq(Nat) /\ Len(reading.seen) \in 1 .. 4 /\ reading.calm \in BOOLEAN
  BY DEF Asked, Readings
<1> QED  BY <1>1, <1>2, <1>3, <1>4, <1>5, <1>6, <1>7 DEF TypeOK, Types

\* The last word of the chain on a vault.
LEMMA FollowsGood == ASSUME IInv PROVE VaultsFollow
<1> SUFFICES ASSUME updates = <<>>, phase = "flashed",
                    NEW k \in used, NEW v \in VaultsOf(k) \ missed
             PROVE  users[v].amount = chain[Slot][v].amount
  BY DEF VaultsFollow
<1>1. Told(updates, v, users[v].amount, chain[Slot][v].amount)
  BY DEF IInv, Follows
<1>2. DOMAIN updates = {}
  OBVIOUS
<1> QED  BY <1>1, <1>2 DEF Told

\* What a quote tells: the token that is sold, what the curve pays of the amounts that were
\* seen, and the slots that were seen, or none.
QuoteOf(k, token, seen, amount, q) ==
  LET sold == Sold(k, token)
  IN /\ k \in models /\ token \in Pair(k)
     /\ q.tokenIn = sold /\ q.tokenOut = Direction(k, sold).tokenOut
     /\ Pays(k, token, seen[1], seen[3], amount).ok
     /\ q.out = Pays(k, token, seen[1], seen[3], amount).out
     /\ \/ q.slotIn = 0 /\ q.slotOut = 0
        \/ q.slotIn = seen[2] /\ q.slotOut = seen[4]

\* A quote is what the curve pays of the two vaults as they were seen (Local).
LEMMA Quoted ==
  ASSUME PoolsAssumption, IInv, NEW k, NEW token, NEW seen, NEW amount,
         Quote(k, token, seen, amount).ok
  PROVE  QuoteOf(k, token, seen, amount, Quote(k, token, seen, amount)) /\ program # "raydium"
<1> DEFINE q == Local(k, token, seen, amount)
           sold == Sold(k, token)
           pays == Pays(k, token, seen[1], seen[3], amount)
           silent == program = "tokenswap" \/ Accounts[k].curve \in {"price", "stable"}
<1>1. program \in {"orca", "tokenswap", "saber", "raydium"}
  BY DEF IInv, Types, PoolsAssumption
<1>2. program # "raydium"
  BY DEF Quote, LocalRaydium, Error, Crash
<1>3. Quote(k, token, seen, amount) = q
  BY <1>1, <1>2 DEF Quote, LocalSaber, Error
<1>4. q # Error
  BY <1>3 DEF Error
<1>5. /\ k \in models /\ token \in Pair(k) /\ pays.ok
      /\ q = [ok |-> TRUE, tokenIn |-> sold, tokenOut |-> Direction(k, sold).tokenOut,
              in |-> amount, out |-> pays.out,
              slotIn |-> IF silent THEN 0 ELSE seen[2], slotOut |-> IF silent THEN 0 ELSE seen[4]]
  BY <1>4 DEF Local
<1> HIDE DEF q, sold, pays, silent
<1>6. /\ q.tokenIn = sold /\ q.tokenOut = Direction(k, sold).tokenOut /\ q.out = pays.out
      /\ q.slotIn = IF silent THEN 0 ELSE seen[2]
      /\ q.slotOut = IF silent THEN 0 ELSE seen[4]
  BY <1>5
<1>7. (q.slotIn = 0 /\ q.slotOut = 0) \/ (q.slotIn = seen[2] /\ q.slotOut = seen[4])
  BY <1>6
<1> QED  BY <1>2, <1>3, <1>5, <1>6, <1>7 DEF QuoteOf, sold, pays

\* Whoever has seen everything has asked.
LEMMA AnsweredAsked ==
  ASSUME IInv, Answered
  PROVE  Asked /\ SeenReal /\ SeenCalm /\ reading # NoQuote /\ Len(reading.seen) = 4
<1>1. reading # NoQuote
  BY DEF Answered, NoQuote
<1> QED  BY <1>1, ReadTyped DEF IInv, Answered

\* A quote whose two slots are one is of what the vaults held then, if it was not disturbed.
LEMMA OneSlotGood == ASSUME PoolsAssumption, IInv PROVE OneSlotIsReal
<1> SUFFICES ASSUME Answered PROVE OneSlotIsReal
  BY DEF OneSlotIsReal
<1> DEFINE k == reading.pool
           token == reading.token
           d == Read2
<1>1. Asked /\ SeenReal /\ SeenCalm /\ Len(reading.seen) = 4 /\ k \in models
  BY AnsweredAsked DEF Asked
<1>2. /\ \E h \in 1 .. Slot : chain[h][d.src].amount = reading.seen[1]
      /\ \E h \in 1 .. Slot : chain[h][d.dst].amount = reading.seen[3]
  <2>1. DOMAIN chain = 1 .. Slot
    BY DEF IInv, Types, Slot
  <2> QED  BY <1>1, <2>1 DEF SeenReal, Was
<1>3. ASSUME NEW amount \in Amounts, Quote(k, token, reading.seen, amount).ok, reading.calm,
             Quote(k, token, reading.seen, amount).slotIn # 0,
             Quote(k, token, reading.seen, amount).slotIn = Quote(k, token, reading.seen, amount).slotOut
      PROVE  LET q == Quote(k, token, reading.seen, amount)
             IN q.out = Pays(k, token, chain[q.slotIn][d.src].amount, chain[q.slotIn][d.dst].amount,
                             amount).out
  <2> DEFINE q == Quote(k, token, reading.seen, amount)
             words == Words(k, token)
  <2>1. QuoteOf(k, token, reading.seen, amount, q)
    BY <1>3, Quoted
  <2>2. /\ d.src \in VaultsOf(k) /\ d.dst \in VaultsOf(k)
        /\ words[1] = users[d.src].amount /\ words[2] = users[d.src].height
        /\ words[3] = users[d.dst].amount /\ words[4] = users[d.dst].height
    BY <1>1, WordsAre DEF IInv, Read2
  <2>3. \A i \in 1 .. 4 : reading.seen[i] = words[i]
    BY <1>1, <1>3 DEF SeenCalm
  <2>4. At(d.src, users[d.src]) /\ At(d.dst, users[d.dst])
    BY <1>1, <1>3, <2>2 DEF SeenCalm, Quiet, IInv, Real
  <2> HIDE DEF words, d
  <2>5. /\ reading.seen[1] = users[d.src].amount /\ reading.seen[2] = users[d.src].height
        /\ reading.seen[3] = users[d.dst].amount /\ reading.seen[4] = users[d.dst].height
    BY <2>2, <2>3
  <2>6. /\ q.slotIn = reading.seen[2] /\ q.slotOut = reading.seen[4]
        /\ q.out = Pays(k, token, reading.seen[1], reading.seen[3], amount).out
    BY <1>3, <2>1 DEF QuoteOf
  <2>7. q.slotIn = q.slotOut
    BY <1>3
  <2> HIDE DEF q
  <2>8. /\ reading.seen[1] = chain[q.slotIn][d.src].amount
        /\ reading.seen[3] = chain[q.slotIn][d.dst].amount
    BY <2>4, <2>5, <2>6, <2>7 DEF At
  <2>9. q.out = Pays(k, token, chain[q.slotIn][d.src].amount, chain[q.slotIn][d.dst].amount, amount).out
    BY <2>6, <2>8
  <2> QED  BY <2>9 DEF q
<1>4. \A amount \in Amounts : Answers[amount] = Quote(k, token, reading.seen, amount)
  BY DEF Answers
<1> HIDE DEF k, token, d
<1>5. \A amount \in Amounts :
        LET q == Answers[amount]
        IN (q.ok /\ reading.calm /\ q.slotIn # 0 /\ q.slotIn = q.slotOut) =>
             q.out = Pays(k, token, chain[q.slotIn][d.src].amount, chain[q.slotIn][d.dst].amount,
                          amount).out
  <2> SUFFICES ASSUME NEW amount \in Amounts, Answers[amount].ok, reading.calm,
                      Answers[amount].slotIn # 0, Answers[amount].slotIn = Answers[amount].slotOut
               PROVE  Answers[amount].out
                        = Pays(k, token, chain[Answers[amount].slotIn][d.src].amount,
                               chain[Answers[amount].slotIn][d.dst].amount, amount).out
    OBVIOUS
  <2>1. Answers[amount] = Quote(k, token, reading.seen, amount)
    BY <1>4
  <2> QED  BY <1>3, <2>1
<1> QED  BY <1>2, <1>5 DEF OneSlotIsReal, k, token, d

\* The programs know the vaults of the pools in use as the chain has them, once the messages
\* are worked off and but for changes between Start and Flash; each amount of a quote was its
\* vault's at some slot; and a quote of one slot that no message disturbed is what the pool
\* paid at that slot (buildModels, subscribeUpdate, upsertUser, Local).
THEOREM KnowsVaults == Spec => []VaultsKnown
<1>1. IInv => VaultsKnown
  BY PoolsAssumption, TypesGood, FollowsGood, OneSlotGood DEF VaultsKnown
<1> QED  BY <1>1, Invariant, PTL

\* What a step does for a quote q of a pool k.
Carries(k, step, q) ==
  /\ step.ok = (\A t \in Pair(k) : UserOf[t] # NoUser)
  /\ step.ok => /\ step.userSrc = UserOf[q.tokenIn] /\ step.userDst = UserOf[q.tokenOut]
                /\ step.swapSrc = Read2.src /\ step.swapDst = Read2.dst
                /\ step.admin = IF q.tokenOut = Accounts[k].tokenA
                                THEN Accounts[k].adminA ELSE Accounts[k].adminB

\* Whatever is quoted can be carried out as it was quoted, with the vaults that were read, in
\* their direction, and the fee account of the token that is paid (getSwapAccounts).
THEOREM StepIsQuoted == Spec => []StepFollowsQuote
<1>1. ASSUME IInv, Answered, reading.pool \in announced, program # "tokenswap",
             NEW amount \in Amounts, Quote(reading.pool, reading.token, reading.seen, amount).ok
      PROVE  Carries(reading.pool,
                     ArbitrageStep(reading.pool, reading.token, amount, 0, 0).step,
                     Quote(reading.pool, reading.token, reading.seen, amount))
  <2> DEFINE k == reading.pool
             token == reading.token
             q == Quote(k, token, reading.seen, amount)
             step == ArbitrageStep(k, token, amount, 0, 0).step
             d == Direction(k, token)
             funded == \A t \in Pair(k) : UserOf[t] # NoUser
  <2>1. QuoteOf(k, token, reading.seen, amount, q) /\ program # "raydium"
    BY <1>1, Quoted, PoolsAssumption
  <2>2. program \in {"orca", "saber"} /\ k \in models /\ token \in Pair(k) /\ k \in Keys
    <3>1. program \in {"orca", "tokenswap", "saber", "raydium"}
      BY <1>1, PoolsAssumption DEF IInv, Types, PoolsAssumption
    <3>2. k \in models /\ k \in Keys
      BY <1>1 DEF IInv, Nested
    <3>3. token \in Pair(k)
      BY <2>1 DEF QuoteOf
    <3> QED  BY <1>1, <2>1, <3>1, <3>2, <3>3
  <2>3. \E kind \in {0, 1} : step = Instruction(k, token, amount, kind)
    BY <2>2 DEF ArbitrageStep, OrcaStep, SaberStep
  <2>4. PICK kind \in {0, 1} : step = Instruction(k, token, amount, kind)
    BY <2>3
  <2>5. SwapAccounts(k, token) = d
    BY DEF SwapAccounts, Direction
  <2>6. Pair(k) = {token, d.tokenOut}
    BY <2>2 DEF Pair, Direction
  <2>7. d.admin = IF d.tokenOut = Accounts[k].tokenA THEN Accounts[k].adminA ELSE Accounts[k].adminB
    <3>1. Accounts[k].tokenA # Accounts[k].tokenB
      BY <2>2, PoolsAssumption DEF PoolsAssumption
    <3>2. CASE token = Accounts[k].tokenB
      BY <3>1, <3>2 DEF Direction
    <3>3. CASE token # Accounts[k].tokenB
      BY <3>1, <3>3 DEF Direction
    <3> QED  BY <3>2, <3>3
  <2>8. Sold(k, token) = token /\ Read2 = d
    <3>1. program = "orca" => Accounts[k].curve # "price"
      BY <1>1 DEF IInv, Nested
    <3>2. Sold(k, token) = token
      BY <3>1 DEF Sold
    <3> QED  BY <3>2 DEF Read2
  <2>9. q.tokenIn = token /\ q.tokenOut = d.tokenOut
    BY <2>1, <2>8 DEF QuoteOf
  <2> HIDE DEF q, d, step
  <2>10. funded <=> NoUser \notin {UserOf[token], UserOf[d.tokenOut]}
    BY <2>6
  <2>11. CASE funded
    <3>1. step = [ok |-> TRUE, kind |-> kind, amount |-> amount, userSrc |-> UserOf[token],
                  swapSrc |-> d.src, swapDst |-> d.dst, userDst |-> UserOf[d.tokenOut],
                  admin |-> d.admin]
      BY <2>2, <2>4, <2>5, <2>10, <2>11 DEF Instruction
    <3>2. /\ step.ok = TRUE /\ step.userSrc = UserOf[token] /\ step.userDst = UserOf[d.tokenOut]
          /\ step.swapSrc = d.src /\ step.swapDst = d.dst /\ step.admin = d.admin
      BY <3>1
    <3>3. step.ok = funded
      BY <2>11, <3>2
    <3> QED  BY <2>7, <2>8, <2>9, <3>2, <3>3 DEF Carries, q, step
  <2>12. CASE ~funded
    <3>1. step = Error
      BY <2>2, <2>4, <2>5, <2>10, <2>12 DEF Instruction
    <3>2. step.ok = FALSE
      BY <3>1 DEF Error
    <3> QED  BY <2>12, <3>2 DEF Carries, step
  <2> QED  BY <2>11, <2>12
<1>2. IInv => StepFollowsQuote
  <2> SUFFICES ASSUME IInv, Answered, reading.pool \in announced, program # "tokenswap",
                      NEW amount \in Amounts, Answers[amount].ok
               PROVE  Carries(reading.pool,
                              ArbitrageStep(reading.pool, reading.token, amount, 0, 0).step,
                              Answers[amount])
    BY DEF StepFollowsQuote, Carries
  <2>1. Answers[amount] = Quote(reading.pool, reading.token, reading.seen, amount)
    BY DEF Answers
  <2> QED  BY <1>1, <2>1
<1> QED  BY <1>2, Invariant, PTL

\* The fees take nothing more than a share.
LEMMA FeesTake ==
  ASSUME PoolsAssumption, NEW amount \in Nat
  PROVE  LessFees(amount) \in Int /\ LessFees(amount) <= amount
<1>1. TradeFee \in Nat /\ OwnerFee \in Nat
  BY DEF PoolsAssumption
<1>2. ASSUME NEW f \in Nat PROVE Fee(amount, f) \in Nat
  BY <1>2, Quotient DEF Fee
<1>3. Fee(amount, TradeFee) \in Nat /\ Fee(amount, OwnerFee) \in Nat
  BY <1>1, <1>2
<1> QED  BY <1>3 DEF LessFees

\* What a pool of constant product pays.
LEMMA ProductPaid ==
  ASSUME NEW k, Accounts[k].curve = "product", NEW token, NEW x, NEW y, NEW amount,
         Pays(k, token, x, y, amount).ok, LessFees(amount) \in Int
  PROVE  /\ LessFees(amount) \in Nat \ {0}
         /\ Pays(k, token, x, y, amount).out = ConstantProduct(x, y, LessFees(amount))
<1>1. Pays(k, token, x, y, amount)
        = IF LessFees(amount) <= 0 THEN Error
          ELSE [ok |-> TRUE, out |-> ConstantProduct(x, y, LessFees(amount))]
  BY DEF Pays
<1>2. ~(LessFees(amount) <= 0)
  BY <1>1 DEF Error
<1> QED  BY <1>1, <1>2

\* A quote of such a pool is what it pays of the amounts that were seen, which are not 0.
LEMMA ProductQuoted ==
  ASSUME PoolsAssumption, IInv, Answered, Accounts[reading.pool].curve = "product",
         NEW amount \in Nat, Quote(reading.pool, reading.token, reading.seen, amount).ok
  PROVE  LET x == reading.seen[1]
             y == reading.seen[3]
         IN /\ x \in Nat \ {0} /\ y \in Nat \ {0}
            /\ LessFees(amount) \in Nat \ {0}
            /\ Quote(reading.pool, reading.token, reading.seen, amount).out
                 = ConstantProduct(x, y, LessFees(amount))
<1> DEFINE x == reading.seen[1]
           y == reading.seen[3]
           q == Quote(reading.pool, reading.token, reading.seen, amount)
<1>1. QuoteOf(reading.pool, reading.token, reading.seen, amount, q)
  BY Quoted
<1>2. x \in Nat \ {0} /\ y \in Nat \ {0}
  BY AnsweredAsked DEF SeenReal, Was
<1>3. LessFees(amount) \in Int
  BY FeesTake
<1> HIDE DEF q, x, y
<1>4. /\ Pays(reading.pool, reading.token, x, y, amount).ok
      /\ q.out = Pays(reading.pool, reading.token, x, y, amount).out
  BY <1>1 DEF QuoteOf, x, y
<1>5. LessFees(amount) \in Nat \ {0} /\ q.out = ConstantProduct(x, y, LessFees(amount))
  BY <1>3, <1>4, ProductPaid
<1> QED  BY <1>2, <1>5 DEF q, x, y

\* The pools of constant product, for all reserves, fees and amounts, and whatever slots the
\* two reserves are of: no quote pays more than there is, or less for more, and a swap and the
\* swap back gain no more than the two roundings (Local, swapWithoutFeesConstantProduct).
THEOREM ProductsFair == Spec => []ProductFair
<1>1. ASSUME IInv, Answered, Accounts[reading.pool].curve = "product", NEW amount \in Amounts
      PROVE  Fair(reading.pool, reading.seen[1], reading.seen[3], LessFees(amount), Answers[amount],
                  Answers)
  <2> DEFINE k == reading.pool
             x == reading.seen[1]
             y == reading.seen[3]
             q == Answers[amount]
             kept == LessFees(amount)
             back == Pays(k, q.tokenOut, y - q.out, x + kept, q.out)
  <2> SUFFICES ASSUME q.ok PROVE Fair(k, x, y, kept, q, Answers)
    BY DEF Fair
  <2>0. amount \in Nat /\ \A less \in Amounts : less \in Nat
    BY PoolsAssumption DEF PoolsAssumption
  <2>00. \A less \in Amounts : Answers[less] = Quote(reading.pool, reading.token, reading.seen, less)
    BY DEF Answers
  <2>1. /\ x \in Nat \ {0} /\ y \in Nat \ {0} /\ kept \in Nat \ {0}
        /\ q.out = ConstantProduct(x, y, kept)
    BY <1>1, <2>0, <2>00, ProductQuoted, PoolsAssumption
  <2>2. ASSUME NEW less \in Amounts, Answers[less].ok
        PROVE  /\ LessFees(less) \in Nat \ {0}
               /\ Answers[less].out = ConstantProduct(x, y, LessFees(less))
    BY <1>1, <2>0, <2>00, <2>2, ProductQuoted, PoolsAssumption
  <2>3. ASSUME q.out \in Nat, back.ok
        PROVE  /\ back.out = ConstantProduct(y - q.out, x + kept, LessFees(q.out))
               /\ LessFees(q.out) \in Nat \ {0} /\ LessFees(q.out) <= q.out
    <3>1. LessFees(q.out) \in Int /\ LessFees(q.out) <= q.out
      BY <2>3, FeesTake, PoolsAssumption
    <3> QED  BY <1>1, <2>3, <3>1, ProductPaid
  <2> HIDE DEF q, x, y, kept, back
  <2>4. q.out \in 0 .. y
    BY <2>1, ProductPays
  <2>5. ASSUME NEW less \in Amounts, LessFees(less) <= kept
        PROVE  AtMost(Answers[less], q.out)
    BY <2>1, <2>2, <2>5, ProductPays, ZenonT(30) DEF AtMost
  <2>6. ASSUME back.ok PROVE back.out <= kept + 1 + (x + kept) \div y
    <3>0. q.out \in Nat /\ y - q.out \in Nat /\ x + kept \in Nat
      BY <2>1, <2>4
    <3>1. /\ LessFees(q.out) \in Nat \ {0} /\ LessFees(q.out) <= q.out /\ q.out \in Nat \ {0}
          /\ back.out = ConstantProduct(y - q.out, x + kept, LessFees(q.out))
      BY <2>3, <2>6, <3>0
    <3>2. back.out <= ConstantProduct(y - q.out, x + kept, q.out)
      BY <3>0, <3>1, ProductPays
    <3>3. ConstantProduct(y - q.out, x + kept, q.out) <= kept + 1 + (x + kept) \div y
      BY <2>1, <2>4, <3>1, ProductReturns
    <3>4. back.out \in Int /\ ConstantProduct(y - q.out, x + kept, q.out) \in Int
      <4>1. \A a \in Nat \ {0} : ConstantProduct(y - q.out, x + kept, a) \in 0 .. x + kept
        BY <3>0, ProductPays
      <4>2. ConstantProduct(y - q.out, x + kept, q.out) \in 0 .. x + kept
        BY <3>1, <4>1
      <4>3. back.out \in 0 .. x + kept
        BY <3>1, <4>1
      <4> QED  BY <3>0, <4>2, <4>3
    <3>5. (x + kept) \div y \in Nat
      BY <2>1, <3>0, Quotient
    <3> QED  BY <2>1, <3>2, <3>3, <3>4, <3>5
  <2>7. AtMost(back, kept + 1 + (x + kept) \div y)
    BY <2>6 DEF AtMost
  <2> QED  BY <2>4, <2>5, <2>7 DEF Fair, back
<1>2. IInv => ProductFair
  BY <1>1 DEF ProductFair
<1> QED  BY <1>2, Invariant, PTL
=============================================================================
