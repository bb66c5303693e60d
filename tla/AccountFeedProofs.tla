-------------------------- MODULE AccountFeedProofs --------------------------
(***************************************************************************)
(* Proofs about AccountFeed for any accounts, clients, slices, contents    *)
(* that do not parse and capacities of the channel: its types, that the    *)
(* height of an entry tells the truth, that an entry is behind only from   *)
(* the start, and that it goes back only when its source changes.          *)
(***************************************************************************)
EXTENDS AccountFeed, SequenceTheorems, WellFoundedInduction, TLAPS

\* The notification that update() works on and has not written yet.
Working == update.at \in {"parse", "write"}

\* The contents of account a that client c has sent and that are not written.
Waiting(c, a) ==
  {stream[c][a][i].content : i \in DOMAIN stream[c][a]}
  \cup {queue[i].content : i \in {j \in DOMAIN queue : queue[j].from = c /\ queue[j].acct = a}}
  \cup {w \in Slots : Working /\ update.what.from = c /\ update.what.acct = a
                      /\ w = update.what.content}

\* The contents that the node of client c has sent since the subscription.
Announced(c, a) == {s \in changed[a] : since[c][a] # Never /\ since[c][a] < s /\ s <= node[c]}

\* Nothing is newer than the chain.
Grounded ==
  /\ \A a \in Accounts : 0 \in changed[a] /\ \A v \in changed[a] : v <= now
  /\ \A c \in Clients : node[c] <= now
  /\ \A i \in DOMAIN fetched : fetched[i] <= now
  /\ \A c \in Clients, a \in Accounts : since[c][a] <= node[c]

\* Flash subscribes to accounts in the table, and to each once.
Begins ==
  /\ main = "fetch" => /\ todo = {}
                       /\ \A a \in Accounts : ~Known(a) /\ \A c \in Clients : since[c][a] = Never
  /\ \A c \in Clients, a \in Accounts :
       /\ <<c, a>> \in todo => Known(a) /\ since[c][a] = Never
       /\ since[c][a] # Never => Known(a)

\* What is on its way was announced, and tells its content by its height.
Proper == {n \in Notes : n.content = n.height /\ n.content \in Announced(n.from, n.acct)}
OnItsWay ==
  /\ \A c \in Clients, a \in Accounts : \A i \in DOMAIN stream[c][a] :
       stream[c][a][i] \in Proper /\ stream[c][a][i].from = c /\ stream[c][a][i].acct = a
  /\ \A i \in DOMAIN queue : queue[i] \in Proper
  /\ update.at # "select" => update.what \in Proper
  /\ update.at \in {"write", "height", "trigger"} => Readable(update.what.content)

\* What a client says of an account stays in its order.
InOrder ==
  /\ \A c \in Clients, a \in Accounts : \A i, j \in DOMAIN stream[c][a] :
       i < j => stream[c][a][i].content < stream[c][a][j].content
  /\ \A i, j \in DOMAIN queue :
       i < j /\ queue[i].from = queue[j].from /\ queue[i].acct = queue[j].acct
         => queue[i].content < queue[j].content
  /\ \A i \in DOMAIN queue : \A j \in DOMAIN stream[queue[i].from][queue[i].acct] :
       queue[i].content < stream[queue[i].from][queue[i].acct][j].content
  /\ Working =>
       LET n == update.what
       IN /\ \A i \in DOMAIN queue :
               queue[i].from = n.from /\ queue[i].acct = n.acct => n.content < queue[i].content
          /\ \A j \in DOMAIN stream[n.from][n.acct] : n.content < stream[n.from][n.acct][j].content

\* An entry is of the chain; if it came from a client, it was announced by it and
\* whatever that client says next is newer.
Current ==
  \A a \in Accounts : Known(a) =>
    LET e == users[a]
    IN /\ e.content \in changed[a] /\ Readable(e.content) /\ e.height <= now
       /\ \A c \in Clients : e.from = c => /\ e.content \in Announced(c, a)
                                           /\ \A w \in Waiting(c, a) : e.content < w
       /\ Torn(a) => e.content = update.what.content

\* What was announced is still to be written, or it was followed: by nothing older of
\* that client, and if it could be read, by an entry of a client, by one not older
\* if it is of that client.
Complete ==
  \A c \in Clients, a \in Accounts : \A s \in Announced(c, a) :
    \/ s \in Waiting(c, a)
    \/ /\ \A w \in Waiting(c, a) : s < w
       /\ Readable(s) => /\ users[a].from # "fetch"
                         /\ users[a].from = c => s <= users[a].content

IInv == TypeOK /\ HeightTells /\ Grounded /\ Begins /\ OnItsWay /\ InOrder /\ Current /\ Complete

-----------------------------------------------------------------------------
USE FeedAssumption

\* The fields of a notification, from Notes.
LEMMA NotesAre ==
  ASSUME NEW n \in Notes
  PROVE  n.acct \in Accounts /\ n.content \in Slots /\ n.height \in Slots /\ n.from \in Clients
BY DEF Notes

\* Channels of notifications: what an append and a tail leave.
LEMMA Appended ==
  ASSUME NEW S, NEW q \in Seq(S), NEW e \in S
  PROVE  /\ Append(q, e) \in Seq(S) /\ Len(Append(q, e)) = Len(q) + 1
         /\ \A i \in DOMAIN Append(q, e) :
              (i \in DOMAIN q /\ Append(q, e)[i] = q[i]) \/ (i = Len(q) + 1 /\ Append(q, e)[i] = e)
         /\ \A i \in DOMAIN q : i \in DOMAIN Append(q, e) /\ Append(q, e)[i] = q[i]
         /\ Len(q) + 1 \in DOMAIN Append(q, e) /\ Append(q, e)[Len(q) + 1] = e
         /\ DOMAIN q = 1 .. Len(q) /\ Len(q) \in Nat
BY AppendProperties, LenProperties

\* What is left of a sequence after its head is taken (the select and the receive of a
\* subscription).
LEMMA Tailed ==
  ASSUME NEW S, NEW q \in Seq(S), q # <<>>
  PROVE  /\ Tail(q) \in Seq(S) /\ Len(Tail(q)) = Len(q) - 1 /\ Head(q) \in S
         /\ 1 \in DOMAIN q /\ Head(q) = q[1]
         /\ \A i \in DOMAIN Tail(q) : i + 1 \in DOMAIN q /\ Tail(q)[i] = q[i + 1]
         /\ \A i \in DOMAIN q : i = 1 \/ (i - 1 \in DOMAIN Tail(q) /\ Tail(q)[i - 1] = q[i])
         /\ DOMAIN q = 1 .. Len(q) /\ DOMAIN Tail(q) = 1 .. Len(q) - 1 /\ Len(q) \in Nat
BY HeadTailProperties, LenProperties, EmptySeq

\* The newest of the changes up to a slot: it is the only one ...
LEMMA NewestIs ==
  ASSUME NEW S \in SUBSET Int, NEW s \in Int,
         NEW v \in S, v <= s, \A w \in S : w <= s => w <= v
  PROVE  (CHOOSE x \in S : x <= s /\ \A w \in S : w <= s => w <= x) = v
<1> DEFINE Newest(x) == x <= s /\ \A w \in S : w <= s => w <= x
           n == CHOOSE x \in S : Newest(x)
<1>1. n \in S /\ Newest(n)
  <2>1. Newest(v)  OBVIOUS
  <2> HIDE DEF Newest
  <2> QED  BY <2>1
<1>2. n = v
  <2> HIDE DEF n
  <2> QED  BY <1>1
<1> QED  BY <1>2

\* Every nonempty set of naturals has a least member: the first slot at which something is so.
LEMMA LeastNumber ==
  ASSUME NEW T, T \subseteq Nat, T # {}
  PROVE  \E x \in T : \A y \in T : x <= y
<1>1. PICK x \in T : \A y \in T : <<y, x>> \notin OpToRel(<, Nat)
  BY NatLessThanWellFounded, WFMin
<1>2. ASSUME NEW y \in T  PROVE x <= y
  <2>1. <<y, x>> \notin {ss \in Nat \X Nat : ss[1] < ss[2]}  BY <1>1 DEF OpToRel
  <2> QED  BY <2>1
<1> QED  BY <1>2

\* ... and there is one.
LEMMA NewestExists ==
  ASSUME NEW S \in SUBSET Nat, NEW s \in Nat, 0 \in S
  PROVE  \E v \in S : v <= s /\ \A w \in S : w <= s => w <= v
<1> DEFINE gaps == {s - v : v \in {w \in S : w <= s}}
<1>1. gaps \in SUBSET Nat /\ gaps # {}
  OBVIOUS
<1>2. PICK n \in gaps : \A m \in gaps : n <= m
  BY <1>1, LeastNumber
<1>3. PICK v \in S : v <= s /\ n = s - v
  OBVIOUS
<1>4. ASSUME NEW w \in S, w <= s PROVE w <= v
  <2>1. s - w \in gaps  BY <1>4
  <2>2. s - v <= s - w  BY <1>2, <1>3, <2>1
  <2> QED  BY <1>3, <2>2
<1> QED  BY <1>3, <1>4

\* While update() works, the record of its work holds a notification, and moving on keeps it.
LEMMA UpdateTyped ==
  ASSUME TypeOK, update.at # "select"
  PROVE  /\ update.what \in Notes
         /\ update = [at |-> update.at, what |-> update.what]
         /\ \A v \in STRING : [update EXCEPT !.at = v] = [at |-> v, what |-> update.what]
<1>1. update \in [at : {"parse", "write", "height", "trigger"}, what : Notes]
  BY DEF TypeOK, NoUpdate
<1> QED  BY <1>1

\* No step breaks the type invariant.
LEMMA TypeStep == ASSUME IInv, [Next]_vars PROVE TypeOK'
<1> USE DEF TypeOK, chain, starting
<1>0. TypeOK BY DEF IInv
<1>1. CASE NewSlot
  BY <1>0, <1>1 DEF NewSlot, Slots
<1>2. ASSUME NEW c \in Clients, NodeAdvances(c) PROVE TypeOK'
  <2> DEFINE s == node[c] + 1
             Note(a) == [acct |-> a, content |-> s, height |-> s, from |-> c]
  <2>1. s \in Slots /\ node' \in [Clients -> Slots]
    BY <1>0, <1>2 DEF NodeAdvances, Slots
  <2>2. ASSUME NEW a \in Accounts PROVE Append(stream[c][a], Note(a)) \in Seq(Notes)
    <3>1. Note(a) \in Notes
      BY <2>1 DEF Notes
    <3>2. stream[c][a] \in Seq(Notes)
      BY <1>0
    <3> HIDE DEF Note
    <3> QED  BY <3>1, <3>2, Appended
  <2>3. stream' \in [Clients -> [Accounts -> Seq(Notes)]]
    BY <1>0, <1>2, <2>2 DEF NodeAdvances
  <2> QED  BY <1>0, <1>2, <2>1, <2>3 DEF NodeAdvances
<1>3. CASE FetchSlice
  <2>1. PICK s \in 0 .. now : fetched' = Append(fetched, s)
    BY <1>3 DEF FetchSlice
  <2>2. s \in Slots
    BY <1>0 DEF Slots
  <2> QED  BY <1>0, <1>3, <2>1, <2>2, Appended DEF FetchSlice
<1>4. CASE FetchFails
  BY <1>0, <1>4 DEF FetchFails
<1>5. CASE Retrieved
  <2>1. ASSUME NEW a \in Accounts
        PROVE  fetched[Slice[a]] \in Slots /\ Version(a, fetched[Slice[a]]) \in Slots
    <3>1. fetched[Slice[a]] \in Slots
      BY <1>0, <1>5, ElementOfSeq DEF Retrieved
    <3>2. changed[a] \in SUBSET Nat /\ 0 \in changed[a] /\ fetched[Slice[a]] \in Nat
      BY <1>0, <3>1 DEF IInv, Grounded, Slots
    <3>3. Version(a, fetched[Slice[a]]) \in changed[a]
      BY <3>2, NewestExists DEF Version
    <3> QED  BY <1>0, <3>1, <3>3
  <2>2. users' \in [Accounts -> Entries]
    BY <1>5, <2>1 DEF Retrieved, Entries, Entry
  <2> QED  BY <1>0, <1>5, <2>2 DEF Retrieved
<1>6. ASSUME NEW c \in Clients, NEW a \in Accounts, Subscribe(c, a) PROVE TypeOK'
  BY <1>0, <1>6 DEF Subscribe
<1>7. ASSUME NEW c \in Clients, NEW a \in Accounts, SubscribeFails(c, a) PROVE TypeOK'
  BY <1>0, <1>7 DEF SubscribeFails
<1>8. CASE Flashed
  BY <1>0, <1>8 DEF Flashed
<1>9. ASSUME NEW c \in Clients, NEW a \in Accounts, RecvAccount(c, a) PROVE TypeOK'
  <2>1. stream[c][a] \in Seq(Notes) /\ stream[c][a] # <<>>
    BY <1>0, <1>9 DEF RecvAccount
  <2>2. Tail(stream[c][a]) \in Seq(Notes) /\ Head(stream[c][a]) \in Notes
    BY <2>1, Tailed
  <2>3. queue' \in Seq(Notes) /\ Len(queue') = Len(queue) + 1 /\ Len(queue) \in Nat
    BY <1>0, <1>9, <2>2, Appended DEF RecvAccount
  <2>4. stream' \in [Clients -> [Accounts -> Seq(Notes)]]
    BY <1>0, <1>9, <2>2 DEF RecvAccount
  <2> QED  BY <1>0, <1>9, <2>3, <2>4 DEF RecvAccount
<1>10. CASE Select
  <2>1. Head(queue) \in Notes /\ queue' \in Seq(Notes) /\ Len(queue') = Len(queue) - 1
        /\ Len(queue) \in Nat
    BY <1>0, <1>10, Tailed DEF Select
  <2> QED  BY <1>0, <1>10, <2>1 DEF Select
<1>11. CASE Parse
  <2>1. update' \in [at : {"write"}, what : Notes] \/ update' = NoUpdate
    BY <1>0, <1>11, UpdateTyped DEF Parse
  <2> QED  BY <1>0, <1>11, <2>1 DEF Parse
<1>12. CASE WriteLayout
  <2>1. update.what \in Notes /\ update.what \in Proper
        /\ update' = [at |-> "height", what |-> update.what]
    BY <1>0, <1>12, UpdateTyped DEF WriteLayout, IInv, OnItsWay
  <2>2. Known(update.what.acct)
    BY <1>0, <2>1, NotesAre DEF IInv, Proper, Announced, Begins
  <2>3. users[update.what.acct] \in [content : Slots, height : Slots, from : {"fetch"} \cup Clients]
    BY <1>0, <2>1, <2>2, NotesAre DEF Known, Entries
  <2>4. Entry(update.what.content, users[update.what.acct].height, update.what.from) \in Entries
    BY <2>1, <2>3, NotesAre DEF Entry, Entries
  <2>5. users' \in [Accounts -> Entries]
    BY <1>0, <1>12, <2>4 DEF WriteLayout
  <2> QED  BY <1>0, <1>12, <2>1, <2>5 DEF WriteLayout
<1>13. CASE WriteHeight
  <2>1. update.what \in Notes /\ update.what \in Proper
        /\ update' = [at |-> "trigger", what |-> update.what]
    BY <1>0, <1>13, UpdateTyped DEF WriteHeight, IInv, OnItsWay
  <2>2. Known(update.what.acct)
    BY <1>0, <2>1, NotesAre DEF IInv, Proper, Announced, Begins
  <2>3. users[update.what.acct] \in [content : Slots, height : Slots, from : {"fetch"} \cup Clients]
    BY <1>0, <2>1, <2>2, NotesAre DEF Known, Entries
  <2>4. [users[update.what.acct] EXCEPT !.height = update.what.height] \in Entries
    BY <2>1, <2>3, NotesAre DEF Entries
  <2>5. users' \in [Accounts -> Entries]
    BY <1>0, <1>13, <2>4 DEF WriteHeight
  <2> QED  BY <1>0, <1>13, <2>1, <2>5 DEF WriteHeight
<1>14. CASE Trigger
  BY <1>0, <1>14 DEF Trigger
<1>15. CASE Ended \/ UNCHANGED vars
  BY <1>0, <1>15 DEF Ended, vars
<1> QED
  BY <1>1, <1>2, <1>3, <1>4, <1>5, <1>6, <1>7, <1>8, <1>9, <1>10, <1>11, <1>12, <1>13, <1>14, <1>15
     DEF Next, Start, Flash, Updates

-----------------------------------------------------------------------------
(* The chain, the subscriptions and the table.                             *)

\* Contents come from slots at which the account changed, and no client is ahead of the chain.
LEMMA GroundedStep == ASSUME IInv, [Next]_vars PROVE Grounded'
<1> USE DEF Grounded, chain, starting
<1>0. TypeOK /\ Grounded /\ TypeOK'
  BY TypeStep DEF IInv
<1>1. CASE NewSlot
  <2>1. PICK S \in SUBSET Accounts :
          changed' = [a \in Accounts |-> IF a \in S THEN changed[a] \cup {now + 1} ELSE changed[a]]
    BY <1>1 DEF NewSlot
  <2>2. now' = now + 1 /\ now \in Nat /\ UNCHANGED <<node, fetched, since>>
    BY <1>0, <1>1 DEF NewSlot, TypeOK, Slots
  <2>3. ASSUME NEW a \in Accounts PROVE 0 \in changed'[a] /\ \A v \in changed'[a] : v <= now'
    BY <1>0, <2>1, <2>2 DEF TypeOK, Slots
  <2>4. \A c \in Clients : node'[c] <= now'
    BY <1>0, <2>2 DEF TypeOK, Slots
  <2>5. \A i \in DOMAIN fetched' : fetched'[i] <= now'
    BY <1>0, <2>2, ElementOfSeq, LenProperties DEF TypeOK, Slots
  <2> QED  BY <1>0, <2>2, <2>3, <2>4, <2>5
<1>2. ASSUME NEW c \in Clients, NodeAdvances(c) PROVE Grounded'
  <2>1. UNCHANGED <<now, changed, fetched, since>>
    BY <1>2 DEF NodeAdvances
  <2>2. ASSUME NEW d \in Clients
        PROVE  node'[d] <= now /\ node[d] <= node'[d] /\ node[d] \in Nat /\ node'[d] \in Nat
    BY <1>0, <1>2 DEF NodeAdvances, TypeOK, Slots
  <2>3. ASSUME NEW d \in Clients, NEW a \in Accounts PROVE since[d][a] <= node'[d]
    <3>1. since \in [Clients -> [Accounts -> Slots \cup {Never}]]
      BY <1>0 DEF TypeOK
    <3>2. since[d][a] \in Slots \cup {Never}
      BY <3>1
    <3>3. since[d][a] \in Int
      BY ONLY <3>2 DEF Slots, Never
    <3>4. since[d][a] <= node[d]
      BY <1>0
    <3> QED  BY ONLY <2>2, <3>3, <3>4, d \in Clients
  <2> QED  BY <1>0, <2>1, <2>2, <2>3
<1>3. CASE FetchSlice
  <2>1. PICK s \in 0 .. now : fetched' = Append(fetched, s)
    BY <1>3 DEF FetchSlice
  <2>2. \A i \in DOMAIN fetched' : fetched'[i] = s \/ (i \in DOMAIN fetched /\ fetched'[i] = fetched[i])
    BY <1>0, <2>1, Appended DEF TypeOK, Slots
  <2> QED  BY <1>0, <1>3, <2>1, <2>2 DEF FetchSlice, TypeOK, Slots
<1>4. ASSUME NEW c \in Clients, NEW a \in Accounts, Subscribe(c, a) PROVE Grounded'
  BY <1>0, <1>4 DEF Subscribe, TypeOK, Slots
<1>5. CASE UNCHANGED <<now, changed, node, fetched, since>>
  BY <1>0, <1>5
<1> QED
  BY <1>1, <1>2, <1>3, <1>4, <1>5
     DEF Next, Start, Flash, Updates, FetchFails, Retrieved, SubscribeFails, Flashed, RecvAccount,
         Select, Parse, WriteLayout, WriteHeight, Trigger, Ended, vars

\* What is in the table stays there.
LEMMA KnownStep ==
  ASSUME IInv, [Next]_vars, NEW a \in Accounts, Known(a)
  PROVE  Known(a)'
<1> USE DEF Known, chain, starting
<1>0. TypeOK /\ Begins /\ OnItsWay
  BY DEF IInv
<1>1. CASE Retrieved
  BY <1>0, <1>1 DEF Begins, Retrieved
<1>2. CASE WriteLayout
  <2>1. update.what \in Notes
    BY <1>0, <1>2, UpdateTyped DEF WriteLayout
  <2>2. update.what.content # Never
    BY <2>1 DEF Notes, Slots, Never
  <2> QED  BY <1>0, <1>2, <2>1, <2>2 DEF WriteLayout, TypeOK, Entry, NoEntry
<1>3. CASE WriteHeight
  <2>1. update.what \in Notes
    BY <1>0, <1>3, UpdateTyped DEF WriteHeight
  <2>2. update.what.height # Never
    BY <2>1 DEF Notes, Slots, Never
  <2>3. users[a] \in Entries
    BY <1>0 DEF TypeOK
  <2> QED  BY <1>0, <1>3, <2>1, <2>2, <2>3 DEF WriteHeight, TypeOK, Entry, NoEntry, Entries
<1>4. CASE UNCHANGED users
  BY <1>4
<1> QED
  BY <1>1, <1>2, <1>3, <1>4
     DEF Next, Start, Flash, Updates, NewSlot, NodeAdvances, FetchSlice, FetchFails, Subscribe,
         SubscribeFails, Flashed, RecvAccount, Select, Parse, Trigger, Ended, vars

\* A client's stream begins with the account as the table was filled, or later.
LEMMA BeginsStep == ASSUME IInv, [Next]_vars PROVE Begins'
<1> USE DEF Begins, chain, starting
<1>0. TypeOK /\ Begins
  BY DEF IInv
<1>1. CASE Retrieved
  <2>1. ASSUME NEW a \in Accounts, NEW c \in Clients, <<c, a>> \in todo' PROVE Known(a)'
    <3>1. a \in {b \in Accounts : Readable(Version(b, fetched[Slice[b]]))}
      BY <1>1, <2>1 DEF Retrieved
    <3>2. users'[a].from = "fetch"
      BY <1>1, <3>1 DEF Retrieved, Entry
    <3> QED  BY <3>2 DEF Known, NoEntry, Entry
  <2>2. \A a \in Accounts, c \in Clients : since'[c][a] = Never
    BY <1>0, <1>1 DEF Retrieved
  <2>3. main' # "fetch"
    BY <1>1 DEF Retrieved
  <2> QED  BY <2>1, <2>2, <2>3
<1>2. ASSUME NEW c \in Clients, NEW a \in Accounts, Subscribe(c, a) PROVE Begins'
  <2>1. main' # "fetch" /\ UNCHANGED users
    BY <1>2 DEF Subscribe
  <2>2. ASSUME NEW d \in Clients, NEW b \in Accounts
        PROVE  /\ <<d, b>> \in todo' => <<d, b>> \in todo /\ <<d, b>> # <<c, a>>
               /\ <<d, b>> # <<c, a>> => since'[d][b] = since[d][b]
    BY <1>0, <1>2 DEF Subscribe, TypeOK
  <2>3. Known(a)
    BY <1>0, <1>2 DEF Subscribe
  <2> QED  BY <1>0, <2>1, <2>2, <2>3 DEF Known
<1>3. ASSUME NEW c \in Clients, NEW a \in Accounts, SubscribeFails(c, a) PROVE Begins'
  BY <1>0, <1>3 DEF SubscribeFails, Known
<1>4. CASE FetchFails \/ Flashed
  BY <1>0, <1>4 DEF FetchFails, Flashed, Known
<1>5. CASE UNCHANGED <<main, todo, since, users>>
  BY <1>0, <1>5 DEF Known
<1>6. CASE WriteLayout \/ WriteHeight
  <2>1. update.at # "select" /\ OnItsWay
    BY <1>6 DEF WriteLayout, WriteHeight, IInv
  <2>2. update.what \in Notes /\ since[update.what.from][update.what.acct] # Never
    BY <1>0, <2>1, UpdateTyped DEF OnItsWay, Proper, Announced
  <2>3. main # "fetch"
    BY <1>0, <2>2, NotesAre
  <2>4. \A a \in Accounts : Known(a) => Known(a)'
    BY <1>6, KnownStep
  <2> QED  BY <1>0, <1>6, <2>3, <2>4 DEF WriteLayout, WriteHeight
<1> QED
  BY <1>1, <1>2, <1>3, <1>4, <1>5, <1>6
     DEF Next, Start, Flash, Updates, NewSlot, NodeAdvances, FetchSlice, RecvAccount,
         Select, Parse, Trigger, Ended, vars

\* What a client has announced of an account grows by the slot its node gets next.
LEMMA AnnouncedStep ==
  ASSUME IInv, [Next]_vars, NEW c \in Clients, NEW a \in Accounts
  PROVE  \/ Announced(c, a)' = Announced(c, a)
         \/ /\ NodeAdvances(c) /\ since[c][a] # Never /\ node[c] + 1 \in changed[a]
            /\ Announced(c, a)' = Announced(c, a) \cup {node[c] + 1}
<1> USE DEF Announced, chain, starting
<1>0. TypeOK /\ Grounded /\ Begins
  BY DEF IInv
<1>1. CASE NewSlot
  <2>1. changed'[a] = changed[a] \/ changed'[a] = changed[a] \cup {now + 1}
    BY <1>0, <1>1 DEF NewSlot, TypeOK
  <2>2. node[c] <= now /\ node[c] \in Int /\ now \in Int /\ UNCHANGED <<since, node>>
    BY <1>0, <1>1 DEF NewSlot, Grounded, TypeOK, Slots
  <2> QED  BY <2>1, <2>2
<1>2. CASE NodeAdvances(c)
  <2>1. node'[c] = node[c] + 1 /\ UNCHANGED <<since, changed>>
    BY <1>0, <1>2 DEF NodeAdvances, TypeOK
  <2>2. node[c] \in Nat /\ changed[a] \subseteq Nat /\ (since[c][a] # Never => since[c][a] \in Nat)
        /\ since[c][a] <= node[c]
    BY <1>0 DEF TypeOK, Slots, Grounded, Never
  <2> QED  BY <1>2, <2>1, <2>2
<1>3. ASSUME NEW d \in Clients, d # c, NodeAdvances(d) PROVE Announced(c, a)' = Announced(c, a)
  BY <1>0, <1>3 DEF NodeAdvances, TypeOK
<1>4. ASSUME NEW d \in Clients, NEW b \in Accounts, Subscribe(d, b)
      PROVE  Announced(c, a)' = Announced(c, a)
  <2>1. CASE d = c /\ b = a
    <3>1. since[c][a] = Never /\ since'[c][a] = node[c] /\ UNCHANGED <<node, changed>>
      BY <1>0, <1>4, <2>1 DEF Subscribe, TypeOK, Begins
    <3>2. node[c] \in Nat /\ changed[a] \subseteq Nat
      BY <1>0 DEF TypeOK, Slots
    <3> QED  BY <3>1, <3>2
  <2>2. CASE ~(d = c /\ b = a)
    BY <1>0, <1>4, <2>2 DEF Subscribe, TypeOK
  <2> QED  BY <2>1, <2>2
<1>5. CASE UNCHANGED <<changed, node, since>>
  BY <1>5
<1> QED
  BY <1>1, <1>2, <1>3, <1>4, <1>5
     DEF Next, Start, Flash, Updates, FetchSlice, FetchFails, Retrieved, SubscribeFails, Flashed,
         RecvAccount, Select, Parse, WriteLayout, WriteHeight, Trigger, Ended, vars

-----------------------------------------------------------------------------
(* What is on its way, and its order.                                      *)

\* A notification that was proper stays so.
LEMMA ProperStep ==
  ASSUME IInv, [Next]_vars
  PROVE  Proper \subseteq Proper'
BY AnnouncedStep, NotesAre DEF Proper

\* What the steps do to the notifications on their way.
LEMMA AdvanceStep ==
  ASSUME IInv, NEW c \in Clients, NodeAdvances(c), NEW d \in Clients, NEW a \in Accounts
  PROVE  LET n == [acct |-> a, content |-> node[c] + 1, height |-> node[c] + 1, from |-> c]
         IN /\ n \in Notes /\ UNCHANGED <<queue, update, users, since>>
            /\ d = c /\ since[c][a] # Never /\ node[c] + 1 \in changed[a]
                 => stream'[d][a] = Append(stream[d][a], n)
            /\ ~(d = c /\ since[c][a] # Never /\ node[c] + 1 \in changed[a])
                 => stream'[d][a] = stream[d][a]
<1>1. TypeOK
  BY DEF IInv
<1>2. node[c] + 1 \in Slots
  BY <1>1 DEF NodeAdvances, TypeOK, Slots
<1> QED  BY <1>1, <1>2 DEF NodeAdvances, TypeOK, Notes

\* What RecvAccount does: the head of one client's stream becomes the last of the queue.
LEMMA RecvStep ==
  ASSUME IInv, NEW c \in Clients, NEW a \in Accounts, RecvAccount(c, a)
  PROVE  /\ stream[c][a] \in Seq(Notes) /\ stream[c][a] # <<>> /\ stream[c][a][1] \in Notes
         /\ queue \in Seq(Notes) /\ queue' = Append(queue, stream[c][a][1])
         /\ stream'[c][a] = Tail(stream[c][a])
         /\ \A d \in Clients, b \in Accounts : d # c \/ b # a => stream'[d][b] = stream[d][b]
         /\ UNCHANGED <<update, users, since>>
<1>1. stream[c][a] \in Seq(Notes) /\ stream[c][a] # <<>> /\ queue \in Seq(Notes)
      /\ stream \in [Clients -> [Accounts -> Seq(Notes)]]
  BY DEF IInv, TypeOK, RecvAccount
<1>2. Head(stream[c][a]) = stream[c][a][1] /\ Head(stream[c][a]) \in Notes
  BY <1>1, Tailed
<1> QED  BY <1>1, <1>2 DEF RecvAccount

\* What Select does: the head of the queue becomes the work of update().
LEMMA SelectStep ==
  ASSUME IInv, Select
  PROVE  /\ queue \in Seq(Notes) /\ queue # <<>> /\ queue[1] \in Notes /\ 1 \in DOMAIN queue
         /\ queue' = Tail(queue) /\ update' = [at |-> "parse", what |-> queue[1]]
         /\ update.at = "select" /\ UNCHANGED <<stream, users, since>>
BY Tailed DEF IInv, TypeOK, Select

\* The steps that leave all of it alone.
Aside ==
  \/ NewSlot \/ Start \/ Flashed \/ Ended
  \/ \E c \in Clients, a \in Accounts : Subscribe(c, a) \/ SubscribeFails(c, a)
  \/ UNCHANGED vars

\* The steps of Start and of the chain leave the way from a client to the table alone.
LEMMA AsideStep == ASSUME Aside PROVE UNCHANGED <<stream, queue, update>>
BY DEF Aside, Start, NewSlot, FetchSlice, FetchFails, Retrieved, Subscribe, SubscribeFails, Flashed,
       Ended, vars

\* Every step is one of the ways a notification moves, or leaves them all alone.
LEMMA StepKinds ==
  ASSUME [Next]_vars
  PROVE  \/ Aside \/ (\E c \in Clients : NodeAdvances(c))
         \/ (\E c \in Clients, a \in Accounts : RecvAccount(c, a))
         \/ Select \/ Parse \/ WriteLayout \/ WriteHeight \/ Trigger
BY DEF Aside, Next, Flash, Updates

\* Whatever is on its way, in a stream, in the queue or in update()'s hand, was announced by
\* its client.
LEMMA OnItsWayStep == ASSUME IInv, [Next]_vars PROVE OnItsWay'
<1>0. TypeOK /\ OnItsWay
  BY DEF IInv
<1>a. Proper \subseteq Proper'
  BY ProperStep
<1>b. /\ \A c \in Clients, a \in Accounts : stream[c][a] \in Seq(Notes)
      /\ queue \in Seq(Notes)
  BY <1>0 DEF TypeOK
<1> USE DEF OnItsWay
<1>1. CASE Aside
  BY <1>0, <1>a, <1>b, <1>1, AsideStep
<1>2. ASSUME NEW c \in Clients, NodeAdvances(c) PROVE OnItsWay'
  <2>1. UNCHANGED <<queue, update>>
    BY <1>2 DEF NodeAdvances
  <2>2. ASSUME NEW d \in Clients, NEW a \in Accounts, NEW i \in DOMAIN stream'[d][a]
        PROVE  /\ stream'[d][a][i].from = d /\ stream'[d][a][i].acct = a
               /\ stream'[d][a][i] \in Proper'
    <3> DEFINE n == [acct |-> a, content |-> node[c] + 1, height |-> node[c] + 1, from |-> c]
    <3>1. CASE d = c /\ since[c][a] # Never /\ node[c] + 1 \in changed[a]
      <4>1. n \in Notes /\ stream'[d][a] = Append(stream[d][a], n)
        BY <1>2, <3>1, AdvanceStep
      <4>2. n \in Proper'
        <5>1. since[c][a] <= node[c] /\ node[c] \in Nat /\ since[c][a] \in Nat
          BY <1>0, <3>1 DEF TypeOK, Grounded, IInv, Slots
        <5>2. node'[c] = node[c] + 1 /\ UNCHANGED <<since, changed>>
          BY <1>0, <1>2 DEF NodeAdvances, TypeOK, chain
        <5>3. n.content \in Announced(c, a)'
          BY <3>1, <5>1, <5>2 DEF Announced
        <5> QED  BY <4>1, <5>3 DEF Proper
      <4>3. (i \in DOMAIN stream[d][a] /\ stream'[d][a][i] = stream[d][a][i]) \/ stream'[d][a][i] = n
        BY <1>b, <4>1, Appended
      <4> QED  BY <1>0, <1>a, <1>b, <3>1, <4>2, <4>3
    <3>2. CASE ~(d = c /\ since[c][a] # Never /\ node[c] + 1 \in changed[a])
      <4>1. stream'[d][a] = stream[d][a]
        BY <1>2, <3>2, AdvanceStep
      <4> QED  BY <1>0, <1>a, <4>1
    <3> QED  BY <3>1, <3>2
  <2> QED  BY <1>0, <1>a, <1>b, <2>1, <2>2
<1>3. ASSUME NEW c \in Clients, NEW a \in Accounts, RecvAccount(c, a) PROVE OnItsWay'
  <2>1. /\ queue' = Append(queue, stream[c][a][1]) /\ stream'[c][a] = Tail(stream[c][a])
        /\ \A d \in Clients, b \in Accounts : d # c \/ b # a => stream'[d][b] = stream[d][b]
        /\ UNCHANGED update /\ stream[c][a][1] \in Notes /\ 1 \in DOMAIN stream[c][a]
    BY <1>3, RecvStep, Tailed
  <2>2. \A i \in DOMAIN queue' :
          (i \in DOMAIN queue /\ queue'[i] = queue[i]) \/ queue'[i] = stream[c][a][1]
    BY <1>b, <2>1, Appended
  <2>3. \A i \in DOMAIN stream'[c][a] :
          i + 1 \in DOMAIN stream[c][a] /\ stream'[c][a][i] = stream[c][a][i + 1]
    BY <1>3, <2>1, RecvStep, Tailed
  <2>4. ASSUME NEW d \in Clients, NEW b \in Accounts, NEW i \in DOMAIN stream'[d][b]
        PROVE  /\ stream'[d][b][i].from = d /\ stream'[d][b][i].acct = b
               /\ stream'[d][b][i] \in Proper'
    <3>1. CASE d = c /\ b = a
      BY <1>0, <1>a, <2>3, <3>1
    <3>2. CASE d # c \/ b # a
      BY <1>0, <1>a, <2>1, <3>2
    <3> QED  BY <3>1, <3>2
  <2>5. \A i \in DOMAIN queue' : queue'[i] \in Proper'
    BY <1>0, <1>a, <2>1, <2>2
  <2>6. (update.at # "select" => update.what \in Proper')
    BY <1>0, <1>a
  <2> QED  BY <1>0, <2>1, <2>4, <2>5, <2>6
<1>4. CASE Select
  <2>1. \A i \in DOMAIN queue' : i + 1 \in DOMAIN queue /\ queue'[i] = queue[i + 1]
    BY <1>4, SelectStep, Tailed
  <2>2. update' = [at |-> "parse", what |-> queue[1]] /\ 1 \in DOMAIN queue /\ UNCHANGED stream
    BY <1>4, SelectStep
  <2> QED  BY <1>0, <1>a, <1>b, <2>1, <2>2
<1>5. CASE Parse
  <2>1. UNCHANGED <<stream, queue>>
    BY <1>5 DEF Parse
  <2>2. \/ update' = NoUpdate
        \/ Readable(update.what.content) /\ update' = [at |-> "write", what |-> update.what]
    BY <1>0, <1>5, UpdateTyped DEF Parse
  <2> QED  BY <1>0, <1>5, <1>a, <1>b, <2>1, <2>2 DEF NoUpdate, Parse, Readable
<1>6. CASE WriteLayout \/ WriteHeight
  <2>1. UNCHANGED <<stream, queue>> /\ update.at \in {"write", "height"}
    BY <1>6 DEF WriteLayout, WriteHeight
  <2>2. update'.what = update.what /\ update'.at \in {"height", "trigger"}
    BY <1>0, <1>6, UpdateTyped DEF WriteLayout, WriteHeight
  <2> QED  BY <1>0, <1>a, <1>b, <2>1, <2>2 DEF Readable
<1>7. CASE Trigger
  BY <1>0, <1>7, <1>a, <1>b DEF Trigger, NoUpdate
<1> QED  BY <1>1, <1>2, <1>3, <1>4, <1>5, <1>6, <1>7, StepKinds

\* What one client announced of one account stays in the order of the chain, over all three
\* places.
LEMMA InOrderStep == ASSUME IInv, [Next]_vars PROVE InOrder'
<1>0. TypeOK /\ OnItsWay /\ InOrder
  BY DEF IInv
<1>b. /\ \A c \in Clients, a \in Accounts : stream[c][a] \in Seq(Notes)
      /\ queue \in Seq(Notes)
      /\ \A n \in Proper : n \in Notes /\ n.from \in Clients /\ n.acct \in Accounts
                           /\ n.content \in Nat /\ n.content <= node[n.from]
  BY <1>0, NotesAre DEF TypeOK, Proper, Announced, Slots
<1> USE DEF InOrder, Working
<1>1. CASE Aside
  BY <1>0, <1>1, AsideStep
<1>2. ASSUME NEW c \in Clients, NodeAdvances(c) PROVE InOrder'
  <2> DEFINE Sent(d, a) == d = c /\ since[c][a] # Never /\ node[c] + 1 \in changed[a]
  <2>1. UNCHANGED <<queue, update>>
    BY <1>2 DEF NodeAdvances
  <2>2. ASSUME NEW d \in Clients, NEW a \in Accounts, ~Sent(d, a)
        PROVE  stream'[d][a] = stream[d][a]
    BY <1>2, <2>2, AdvanceStep
  <2>3. ASSUME NEW a \in Accounts, Sent(c, a)
        PROVE  \A i \in DOMAIN stream'[c][a] :
                 \/ i \in DOMAIN stream[c][a] /\ stream'[c][a][i] = stream[c][a][i]
                 \/ i = Len(stream[c][a]) + 1 /\ stream'[c][a][i].content = node[c] + 1
    <3> DEFINE n == [acct |-> a, content |-> node[c] + 1, height |-> node[c] + 1, from |-> c]
    <3>1. n \in Notes /\ stream'[c][a] = Append(stream[c][a], n) /\ n.content = node[c] + 1
      BY <1>2, <2>3, AdvanceStep
    <3> HIDE DEF n
    <3> QED  BY <1>b, <3>1, Appended
  <2> HIDE DEF Sent
  <2>4. node[c] \in Nat
    BY <1>0 DEF TypeOK, Slots
  <2>5. ASSUME NEW d \in Clients, NEW a \in Accounts,
               NEW i \in DOMAIN stream'[d][a], NEW j \in DOMAIN stream'[d][a], i < j
        PROVE  stream'[d][a][i].content < stream'[d][a][j].content
    <3>1. CASE Sent(d, a)
      <4>1. d = c /\ DOMAIN stream[c][a] = 1 .. Len(stream[c][a]) /\ Len(stream[c][a]) \in Nat
        BY <1>b, <3>1, LenProperties DEF Sent
      <4>2. i \in DOMAIN stream[c][a] /\ stream'[c][a][i] = stream[c][a][i]
        BY <2>3, <2>5, <3>1, <4>1
      <4>3. stream[c][a][i].content <= node[c] /\ stream[c][a][i].content \in Nat
        BY <1>0, <1>b, <4>2, SMTT(30) DEF OnItsWay
      <4>4. \/ j \in DOMAIN stream[c][a] /\ stream'[c][a][j] = stream[c][a][j]
            \/ stream'[c][a][j].content = node[c] + 1
        BY <2>3, <2>5, <3>1, <4>1
      <4>5. CASE j \in DOMAIN stream[c][a] /\ stream'[c][a][j] = stream[c][a][j]
        BY <1>0, <2>5, <4>1, <4>2, <4>5
      <4>6. CASE stream'[c][a][j].content = node[c] + 1
        BY <2>4, <4>1, <4>2, <4>3, <4>6
      <4> QED  BY <4>4, <4>5, <4>6
    <3>2. CASE ~Sent(d, a)
      BY <1>0, <2>2, <2>5, <3>2
    <3> QED  BY <3>1, <3>2
  <2>6. ASSUME NEW n \in Proper, NEW j \in DOMAIN stream'[n.from][n.acct],
               \A k \in DOMAIN stream[n.from][n.acct] :
                 n.content < stream[n.from][n.acct][k].content
        PROVE  n.content < stream'[n.from][n.acct][j].content
    <3>1. n.from \in Clients /\ n.acct \in Accounts /\ n.content \in Nat /\ n.content <= node[n.from]
      BY <1>b
    <3>2. CASE Sent(n.from, n.acct)
      <4>1. n.from = c
        BY <3>2 DEF Sent
      <4> QED  BY <2>3, <2>4, <2>6, <3>1, <3>2, <4>1
    <3>3. CASE ~Sent(n.from, n.acct)
      BY <2>2, <2>6, <3>1, <3>3
    <3> QED  BY <3>2, <3>3
  <2> QED  BY <1>0, <2>1, <2>5, <2>6, ZenonT(30) DEF OnItsWay
<1>3. ASSUME NEW c \in Clients, NEW a \in Accounts, RecvAccount(c, a) PROVE InOrder'
  <2> DEFINE n == stream[c][a][1]
  <2>1. /\ queue' = Append(queue, n) /\ stream'[c][a] = Tail(stream[c][a])
        /\ \A d \in Clients, b \in Accounts : d # c \/ b # a => stream'[d][b] = stream[d][b]
        /\ UNCHANGED update /\ n \in Notes /\ 1 \in DOMAIN stream[c][a] /\ n.from = c /\ n.acct = a
    BY <1>0, <1>3, RecvStep, Tailed DEF OnItsWay
  <2>2. /\ \A i \in DOMAIN queue' :
             (i \in DOMAIN queue /\ queue'[i] = queue[i]) \/ (i = Len(queue) + 1 /\ queue'[i] = n)
        /\ DOMAIN queue = 1 .. Len(queue) /\ Len(queue) \in Nat
    BY <1>b, <2>1, Appended
  <2>3. \A i \in DOMAIN stream'[c][a] :
          i + 1 \in DOMAIN stream[c][a] /\ stream'[c][a][i] = stream[c][a][i + 1] /\ i \in Nat \ {0}
    BY <1>3, <2>1, RecvStep, Tailed
  <2>4. \A j \in DOMAIN stream'[c][a] : n.content < stream'[c][a][j].content
    BY <1>0, <2>1, <2>3
  <2> HIDE DEF n
  <2>5. ASSUME NEW d \in Clients, NEW b \in Accounts
        PROVE  \A i, j \in DOMAIN stream'[d][b] :
                 i < j => stream'[d][b][i].content < stream'[d][b][j].content
    <3>1. CASE d = c /\ b = a
      <4>1. SUFFICES ASSUME NEW i \in DOMAIN stream'[c][a], NEW j \in DOMAIN stream'[c][a], i < j
                     PROVE  stream'[c][a][i].content < stream'[c][a][j].content
        BY <3>1
      <4>2. i + 1 \in DOMAIN stream[c][a] /\ j + 1 \in DOMAIN stream[c][a] /\ i + 1 < j + 1
        BY <2>3, <4>1
      <4>3. stream[c][a][i + 1].content < stream[c][a][j + 1].content
        BY <1>0, <4>2
      <4>4. stream'[c][a][i] = stream[c][a][i + 1] /\ stream'[c][a][j] = stream[c][a][j + 1]
        BY <2>3, <4>1
      <4> QED  BY <4>3, <4>4
    <3>2. CASE d # c \/ b # a
      BY <1>0, <2>1, <3>2
    <3> QED  BY <3>1, <3>2
  <2>6. \A i, j \in DOMAIN queue' :
          i < j /\ queue'[i].from = queue'[j].from /\ queue'[i].acct = queue'[j].acct
            => queue'[i].content < queue'[j].content
    <3>1. ASSUME NEW i \in DOMAIN queue, queue[i].from = n.from, queue[i].acct = n.acct
          PROVE  queue[i].content < n.content
      <4>1. queue[i].from = c /\ queue[i].acct = a /\ 1 \in DOMAIN stream[queue[i].from][queue[i].acct]
        BY <2>1, <3>1
      <4>2. queue[i].content < stream[queue[i].from][queue[i].acct][1].content
        BY <1>0, <4>1
      <4> QED  BY <4>1, <4>2 DEF n
    <3>2. ASSUME NEW i \in DOMAIN queue', NEW j \in DOMAIN queue', i < j,
                 queue'[i].from = queue'[j].from, queue'[i].acct = queue'[j].acct
          PROVE  queue'[i].content < queue'[j].content
      <4>1. i \in DOMAIN queue /\ queue'[i] = queue[i]
        <5>1. j \in 1 .. Len(queue) \/ j = Len(queue) + 1
          BY <2>2
        <5>2. i \in 1 .. Len(queue) \/ i = Len(queue) + 1
          BY <2>2
        <5>3. i # Len(queue) + 1
          BY <2>2, <3>2, <5>1, <5>2
        <5> QED  BY <2>2, <5>3
      <4>2. CASE j \in DOMAIN queue /\ queue'[j] = queue[j]
        BY <1>0, <3>2, <4>1, <4>2
      <4>3. CASE queue'[j] = n
        BY <3>1, <3>2, <4>1, <4>3
      <4> QED  BY <2>2, <4>2, <4>3
    <3> QED  BY <3>2
  <2>7. ASSUME NEW m \in Proper, NEW j \in DOMAIN stream'[m.from][m.acct],
               \A k \in DOMAIN stream[m.from][m.acct] :
                 m.content < stream[m.from][m.acct][k].content
        PROVE  m.content < stream'[m.from][m.acct][j].content
    <3>1. m.from \in Clients /\ m.acct \in Accounts
      BY <1>b
    <3>2. CASE m.from = c /\ m.acct = a
      BY <2>3, <2>7, <3>2
    <3>3. CASE m.from # c \/ m.acct # a
      BY <2>1, <2>7, <3>1, <3>3
    <3> QED  BY <3>2, <3>3
  <2>8. \A i \in DOMAIN queue' : \A j \in DOMAIN stream'[queue'[i].from][queue'[i].acct] :
          queue'[i].content < stream'[queue'[i].from][queue'[i].acct][j].content
    <3>1. ASSUME NEW i \in DOMAIN queue, NEW j \in DOMAIN stream'[queue[i].from][queue[i].acct]
          PROVE  queue[i].content < stream'[queue[i].from][queue[i].acct][j].content
      <4>1. queue[i] \in Proper
        BY <1>0 DEF OnItsWay
      <4>2. \A k \in DOMAIN stream[queue[i].from][queue[i].acct] :
              queue[i].content < stream[queue[i].from][queue[i].acct][k].content
        BY <1>0
      <4> QED  BY <2>7, <4>1, <4>2
    <3>2. \A j \in DOMAIN stream'[n.from][n.acct] : n.content < stream'[n.from][n.acct][j].content
      BY <2>1, <2>4
    <3> QED  BY <2>2, <3>1, <3>2
  <2>9. ASSUME Working
        PROVE  /\ \A i \in DOMAIN queue' :
                    queue'[i].from = update.what.from /\ queue'[i].acct = update.what.acct
                      => update.what.content < queue'[i].content
               /\ \A j \in DOMAIN stream'[update.what.from][update.what.acct] :
                    update.what.content < stream'[update.what.from][update.what.acct][j].content
    <3>1. update.what \in Proper
      BY <1>0, <2>9 DEF OnItsWay
    <3>2. n.from = update.what.from /\ n.acct = update.what.acct => update.what.content < n.content
      BY <1>0, <2>1, <2>9, ZenonT(30) DEF n
    <3> QED  BY <1>0, <2>2, <2>7, <2>9, <3>1, <3>2
  <2> QED  BY <2>1, <2>5, <2>6, <2>8, <2>9
<1>4. CASE Select
  <2>1. \A i \in DOMAIN queue' : i + 1 \in DOMAIN queue /\ queue'[i] = queue[i + 1] /\ i \in Nat \ {0}
    BY <1>4, SelectStep, Tailed
  <2>2. update'.what = queue[1] /\ 1 \in DOMAIN queue /\ UNCHANGED stream
    BY <1>4, SelectStep
  <2>3. \A i, j \in DOMAIN queue' :
          i < j /\ queue'[i].from = queue'[j].from /\ queue'[i].acct = queue'[j].acct
            => queue'[i].content < queue'[j].content
    <3>1. SUFFICES ASSUME NEW i \in DOMAIN queue', NEW j \in DOMAIN queue', i < j,
                          queue'[i].from = queue'[j].from, queue'[i].acct = queue'[j].acct
                   PROVE  queue'[i].content < queue'[j].content
      OBVIOUS
    <3>2. i + 1 \in DOMAIN queue /\ j + 1 \in DOMAIN queue /\ i + 1 < j + 1
      BY <2>1, <3>1
    <3> QED  BY <1>0, <2>1, <3>1, <3>2
  <2>4. \A i \in DOMAIN queue' : \A j \in DOMAIN stream'[queue'[i].from][queue'[i].acct] :
          queue'[i].content < stream'[queue'[i].from][queue'[i].acct][j].content
    BY <1>0, <2>1, <2>2
  <2>5. \A i \in DOMAIN queue' : queue'[i].from = queue[1].from /\ queue'[i].acct = queue[1].acct
                               => queue[1].content < queue'[i].content
    <3>1. SUFFICES ASSUME NEW i \in DOMAIN queue', queue'[i].from = queue[1].from,
                          queue'[i].acct = queue[1].acct
                   PROVE  queue[1].content < queue'[i].content
      OBVIOUS
    <3>2. i + 1 \in DOMAIN queue /\ 1 < i + 1 /\ queue'[i] = queue[i + 1]
      BY <2>1
    <3> QED  BY <1>0, <2>2, <3>1, <3>2
  <2>6. \A j \in DOMAIN stream'[queue[1].from][queue[1].acct] :
          queue[1].content < stream'[queue[1].from][queue[1].acct][j].content
    BY <1>0, <2>2
  <2> QED  BY <1>0, <2>2, <2>3, <2>4, <2>5, <2>6
<1>5. CASE Parse
  <2>1. UNCHANGED <<stream, queue>> /\ update.at = "parse"
    BY <1>5 DEF Parse
  <2>2. update'.at = "select" \/ (update'.at = "write" /\ update'.what = update.what)
    BY <1>0, <1>5, UpdateTyped DEF Parse, NoUpdate
  <2> QED  BY <1>0, <2>1, <2>2
<1>6. CASE WriteLayout \/ WriteHeight \/ Trigger
  <2>1. UNCHANGED <<stream, queue>> /\ update'.at \in {"height", "trigger", "select"}
    BY <1>0, <1>6, UpdateTyped DEF WriteLayout, WriteHeight, Trigger, NoUpdate
  <2> QED  BY <1>0, <2>1
<1> QED  BY <1>1, <1>2, <1>3, <1>4, <1>5, <1>6, StepKinds

-----------------------------------------------------------------------------
(* What is waiting to be written.                                          *)

\* The notification in the hands of update() is proper, and of an account in the table.
LEMMA InHands ==
  ASSUME IInv, update.at # "select"
  PROVE  /\ update.what \in Notes /\ update.what.acct \in Accounts /\ update.what.from \in Clients
         /\ update.what.content \in Slots /\ update.what.height = update.what.content
         /\ update.what.content \in Announced(update.what.from, update.what.acct)
         /\ Known(update.what.acct) /\ main # "fetch"
<1>1. update.what \in Notes /\ update.what \in Proper /\ Begins
  BY UpdateTyped DEF IInv, OnItsWay
<1>2. update.what.content \in Announced(update.what.from, update.what.acct)
      /\ update.what.height = update.what.content
  BY <1>1 DEF Proper
<1>3. since[update.what.from][update.what.acct] # Never
  BY <1>2 DEF Announced
<1> QED  BY <1>1, <1>2, <1>3, NotesAre DEF Begins

\* A content waits in a stream, in the channel or in the hands of update().
InStream(c, a, w) == \E i \in DOMAIN stream[c][a] : stream[c][a][i].content = w
InQueue(c, a, w) ==
  \E i \in DOMAIN queue : queue[i].from = c /\ queue[i].acct = a /\ queue[i].content = w
InHand(c, a, w) ==
  w \in Slots /\ Working /\ update.what.from = c /\ update.what.acct = a /\ w = update.what.content

\* What waits of a client and an account is in its stream, in the queue or in update()'s hand.
LEMMA WaitingIs ==
  ASSUME NEW c, NEW a
  PROVE  /\ \A w : w \in Waiting(c, a) <=> InStream(c, a, w) \/ InQueue(c, a, w) \/ InHand(c, a, w)
         /\ \A w : w \in Waiting(c, a)' <=>
                     InStream(c, a, w)' \/ InQueue(c, a, w)' \/ InHand(c, a, w)'
BY DEF Waiting, InStream, InQueue, InHand

\* The goroutines of the clients and update() pass contents on ...
LEMMA PassedOn ==
  ASSUME IInv, [Next]_vars, NEW c \in Clients, NEW a \in Accounts,
         \/ Aside \/ Select \/ WriteHeight \/ Trigger
         \/ Parse /\ Readable(update.what.content)
         \/ \E d \in Clients, b \in Accounts : RecvAccount(d, b)
  PROVE  Waiting(c, a)' = Waiting(c, a)
<1>0. TypeOK /\ OnItsWay
  BY DEF IInv
<1>1. CASE Aside
  BY <1>1, AsideStep DEF Waiting, Working
<1>2. CASE WriteHeight \/ Trigger
  <2>1. UNCHANGED <<stream, queue>> /\ ~Working /\ ~Working'
    BY <1>0, <1>2, UpdateTyped DEF WriteHeight, Trigger, Working, NoUpdate
  <2> QED  BY <2>1 DEF Waiting
<1>3. CASE Parse /\ Readable(update.what.content)
  <2>1. UNCHANGED <<stream, queue>> /\ Working /\ Working' /\ update'.what = update.what
    BY <1>0, <1>3, UpdateTyped DEF Parse, Working
  <2> QED  BY <2>1 DEF Waiting
<1>4. CASE Select
  <2>1. /\ \A i \in DOMAIN queue' : i + 1 \in DOMAIN queue /\ queue'[i] = queue[i + 1]
        /\ \A i \in DOMAIN queue : i = 1 \/ (i - 1 \in DOMAIN queue' /\ queue'[i - 1] = queue[i])
    BY <1>4, SelectStep, Tailed
  <2>2. /\ update'.what = queue[1] /\ 1 \in DOMAIN queue /\ queue[1] \in Notes /\ UNCHANGED stream
        /\ Working' /\ ~Working
    BY <1>4, SelectStep DEF Working
  <2>3. \A w : InStream(c, a, w)' <=> InStream(c, a, w)
    BY <2>2 DEF InStream
  <2>4. ASSUME NEW w PROVE InQueue(c, a, w) <=> InQueue(c, a, w)' \/ InHand(c, a, w)'
    <3>1. ASSUME InQueue(c, a, w) PROVE InQueue(c, a, w)' \/ InHand(c, a, w)'
      <4>1. PICK i \in DOMAIN queue : queue[i].from = c /\ queue[i].acct = a /\ queue[i].content = w
        BY <3>1 DEF InQueue
      <4>2. CASE i = 1
        BY <2>2, <4>1, <4>2, NotesAre DEF InHand
      <4>3. CASE i - 1 \in DOMAIN queue' /\ queue'[i - 1] = queue[i]
        BY <4>1, <4>3 DEF InQueue
      <4> QED  BY <2>1, <4>2, <4>3
    <3>2. InQueue(c, a, w)' => InQueue(c, a, w)
      BY <2>1 DEF InQueue
    <3>3. InHand(c, a, w)' => InQueue(c, a, w)
      BY <2>2 DEF InHand, InQueue
    <3> QED  BY <3>1, <3>2, <3>3
  <2>5. \A w : ~InHand(c, a, w)
    BY <2>2 DEF InHand
  <2> QED  BY <2>3, <2>4, <2>5, WaitingIs
<1>5. ASSUME NEW d \in Clients, NEW b \in Accounts, RecvAccount(d, b)
      PROVE  Waiting(c, a)' = Waiting(c, a)
  <2> DEFINE n == stream[d][b][1]
  <2>1. /\ queue' = Append(queue, n) /\ stream'[d][b] = Tail(stream[d][b])
        /\ \A e \in Clients, g \in Accounts : e # d \/ g # b => stream'[e][g] = stream[e][g]
        /\ UNCHANGED update /\ n \in Notes /\ 1 \in DOMAIN stream[d][b] /\ n.from = d /\ n.acct = b
        /\ queue \in Seq(Notes)
    BY <1>0, <1>5, RecvStep, Tailed DEF OnItsWay
  <2>2. /\ \A i \in DOMAIN stream'[d][b] :
             i + 1 \in DOMAIN stream[d][b] /\ stream'[d][b][i] = stream[d][b][i + 1]
        /\ \A i \in DOMAIN stream[d][b] :
             i = 1 \/ (i - 1 \in DOMAIN stream'[d][b] /\ stream'[d][b][i - 1] = stream[d][b][i])
    <3> DEFINE q == stream[d][b]
    <3>1. q \in Seq(Notes) /\ q # <<>> /\ stream'[d][b] = Tail(q)
      BY <1>5, RecvStep
    <3> HIDE DEF q
    <3>2. /\ \A i \in DOMAIN Tail(q) : i + 1 \in DOMAIN q /\ Tail(q)[i] = q[i + 1]
          /\ \A i \in DOMAIN q : i = 1 \/ (i - 1 \in DOMAIN Tail(q) /\ Tail(q)[i - 1] = q[i])
      BY <3>1, Tailed
    <3> QED  BY <3>1, <3>2 DEF q
  <2>3. \A w : InStream(d, b, w) <=> InStream(d, b, w)' \/ w = n.content
    <3>1. \A w : InStream(d, b, w)' => InStream(d, b, w)
      BY <2>2 DEF InStream
    <3>2. \A w : w = n.content => InStream(d, b, w)
      BY <2>1 DEF InStream
    <3>3. \A w : InStream(d, b, w) => InStream(d, b, w)' \/ w = n.content
      BY <2>2 DEF InStream
    <3> QED  BY <3>1, <3>2, <3>3
  <2> HIDE DEF n
  <2>4. /\ \A i \in DOMAIN queue' : (i \in DOMAIN queue /\ queue'[i] = queue[i]) \/ queue'[i] = n
        /\ \A i \in DOMAIN queue : i \in DOMAIN queue' /\ queue'[i] = queue[i]
        /\ Len(queue) + 1 \in DOMAIN queue' /\ queue'[Len(queue) + 1] = n
    BY <2>1, Appended
  <2>5. \A w : InQueue(c, a, w)' <=> InQueue(c, a, w) \/ (d = c /\ b = a /\ w = n.content)
    <3>1. \A w : InQueue(c, a, w)' => InQueue(c, a, w) \/ (d = c /\ b = a /\ w = n.content)
      BY <2>1, <2>4 DEF InQueue
    <3>2. \A w : InQueue(c, a, w) => InQueue(c, a, w)'
      BY <2>4 DEF InQueue
    <3>3. \A w : d = c /\ b = a /\ w = n.content => InQueue(c, a, w)'
      BY <2>1, <2>4 DEF InQueue
    <3> QED  BY <3>1, <3>2, <3>3
  <2>6. d # c \/ b # a => \A w : InStream(c, a, w)' <=> InStream(c, a, w)
    BY <2>1 DEF InStream
  <2>7. \A w : InHand(c, a, w)' <=> InHand(c, a, w)
    BY <2>1 DEF InHand, Working
  <2>8. ASSUME NEW w PROVE w \in Waiting(c, a)' <=> w \in Waiting(c, a)
    <3>1. CASE d = c /\ b = a
      BY <2>3, <2>5, <2>7, <3>1, WaitingIs
    <3>2. CASE d # c \/ b # a
      BY <2>5, <2>6, <2>7, <3>2, WaitingIs
    <3> QED  BY <3>1, <3>2
  <2> QED  BY <2>8
<1> QED  BY <1>1, <1>2, <1>3, <1>4, <1>5

\* ... a node adds the slot it gets, if it notifies ...
LEMMA NotifiedMore ==
  ASSUME IInv, NEW d \in Clients, NodeAdvances(d), NEW c \in Clients, NEW a \in Accounts
  PROVE  \/ Waiting(c, a)' = Waiting(c, a) /\ Announced(c, a)' = Announced(c, a)
         \/ /\ d = c /\ Waiting(c, a)' = Waiting(c, a) \cup {node[c] + 1}
            /\ Announced(c, a)' = Announced(c, a) \cup {node[c] + 1}
<1>0. TypeOK /\ Grounded
  BY DEF IInv
<1>1. UNCHANGED <<queue, update>>
  BY DEF NodeAdvances
<1>2. CASE d = c /\ since[c][a] # Never /\ node[c] + 1 \in changed[a]
  <2> DEFINE n == [acct |-> a, content |-> node[c] + 1, height |-> node[c] + 1, from |-> c]
  <2>1. stream'[c][a] = Append(stream[c][a], n) /\ n \in Notes /\ n.content = node[c] + 1
        /\ stream[c][a] \in Seq(Notes)
    BY <1>0, <1>2, AdvanceStep DEF TypeOK
  <2> HIDE DEF n
  <2>2. /\ \A i \in DOMAIN stream'[c][a] :
             (i \in DOMAIN stream[c][a] /\ stream'[c][a][i] = stream[c][a][i]) \/ stream'[c][a][i] = n
        /\ \A i \in DOMAIN stream[c][a] : i \in DOMAIN stream'[c][a] /\ stream'[c][a][i] = stream[c][a][i]
        /\ Len(stream[c][a]) + 1 \in DOMAIN stream'[c][a]
        /\ stream'[c][a][Len(stream[c][a]) + 1] = n
    BY <2>1, Appended
  <2>3. \A w : InStream(c, a, w)' <=> InStream(c, a, w) \/ w = node[c] + 1
    BY <2>1, <2>2 DEF InStream
  <2>4. \A w : (InQueue(c, a, w)' <=> InQueue(c, a, w)) /\ (InHand(c, a, w)' <=> InHand(c, a, w))
    BY <1>1 DEF InQueue, InHand, Working
  <2>5. Waiting(c, a)' = Waiting(c, a) \cup {node[c] + 1}
    BY <2>3, <2>4, WaitingIs
  <2>6. Announced(c, a)' = Announced(c, a) \cup {node[c] + 1}
    <3>1. node'[c] = node[c] + 1 /\ UNCHANGED <<since, changed>>
      BY <1>0, <1>2 DEF NodeAdvances, TypeOK, chain
    <3>2. node[c] \in Nat /\ changed[a] \subseteq Nat /\ since[c][a] \in Nat /\ since[c][a] <= node[c]
      BY <1>0, <1>2 DEF TypeOK, Slots, Grounded
    <3> QED  BY <1>2, <3>1, <3>2 DEF Announced
  <2> QED  BY <1>2, <2>5, <2>6
<1>3. CASE ~(d = c /\ since[c][a] # Never /\ node[c] + 1 \in changed[a])
  <2>1. stream'[c][a] = stream[c][a]
    BY <1>3, AdvanceStep
  <2>2. Waiting(c, a)' = Waiting(c, a)
    BY <1>1, <2>1 DEF Waiting, Working
  <2>3. NodeAdvances(d) => [Next]_vars
    BY DEF Next
  <2>4. ~(NodeAdvances(c) /\ since[c][a] # Never /\ node[c] + 1 \in changed[a])
    <3>1. d # c => ~NodeAdvances(c)
      BY <1>0 DEF NodeAdvances, TypeOK, Slots
    <3> QED  BY <1>3, <3>1
  <2> QED  BY <2>2, <2>3, <2>4, AnnouncedStep
<1> QED  BY <1>2, <1>3

\* ... and update() takes out what it writes or cannot read, the oldest of its client.
LEMMA TakenOut ==
  ASSUME IInv, WriteLayout \/ (Parse /\ ~Readable(update.what.content)),
         NEW c \in Clients, NEW a \in Accounts
  PROVE  /\ update.what.from = c /\ update.what.acct = a =>
              /\ update.what.content \in Waiting(c, a)
              /\ Waiting(c, a)' = Waiting(c, a) \ {update.what.content}
              /\ \A w \in Waiting(c, a)' : update.what.content < w
         /\ update.what.from # c \/ update.what.acct # a => Waiting(c, a)' = Waiting(c, a)
<1>0. TypeOK /\ InOrder /\ OnItsWay /\ update.at # "select"
  BY DEF IInv, WriteLayout, Parse
<1>1. UNCHANGED <<stream, queue>> /\ Working /\ ~Working'
  BY <1>0, UpdateTyped DEF WriteLayout, Parse, Working, NoUpdate
<1>2. \A w : /\ InStream(c, a, w)' <=> InStream(c, a, w)
             /\ InQueue(c, a, w)' <=> InQueue(c, a, w)
             /\ ~InHand(c, a, w)'
  BY <1>1 DEF InStream, InQueue, InHand
<1>3. CASE update.what.from = c /\ update.what.acct = a
  <2>1. \A w : InHand(c, a, w) <=> w = update.what.content
    BY <1>0, <1>1, <1>3, InHands DEF InHand
  <2>2. \A w : InStream(c, a, w) \/ InQueue(c, a, w) => update.what.content < w
    <3>1. \A j \in DOMAIN stream[c][a] : update.what.content < stream[c][a][j].content
      BY <1>0, <1>1, <1>3 DEF InOrder
    <3>2. \A i \in DOMAIN queue :
            queue[i].from = c /\ queue[i].acct = a => update.what.content < queue[i].content
      BY <1>0, <1>1, <1>3 DEF InOrder
    <3> QED  BY <3>1, <3>2 DEF InStream, InQueue
  <2>3. \A w : w \in Waiting(c, a)' <=> InStream(c, a, w) \/ InQueue(c, a, w)
    BY <1>2, WaitingIs
  <2>4. \A w : w \in Waiting(c, a) <=> w \in Waiting(c, a)' \/ w = update.what.content
    BY <2>1, <2>3, WaitingIs
  <2>5. \A w \in Waiting(c, a)' : update.what.content < w
    BY <2>2, <2>3
  <2>6. update.what.content \notin Waiting(c, a)'
    BY <1>0, <2>5, InHands DEF Slots
  <2> QED  BY <1>3, <2>4, <2>5, <2>6
<1>4. CASE update.what.from # c \/ update.what.acct # a
  <2>1. \A w : ~InHand(c, a, w)
    BY <1>4 DEF InHand
  <2> QED  BY <1>2, <1>4, <2>1, WaitingIs
<1> QED  BY <1>3, <1>4

-----------------------------------------------------------------------------
(* The entries of the table.                                               *)

\* The chain only grows, and what was announced stays announced.
LEMMA Grows ==
  ASSUME IInv, [Next]_vars
  PROVE  /\ now' >= now /\ now \in Nat /\ now' \in Nat
         /\ \A a \in Accounts :
              /\ changed[a] \subseteq changed'[a] /\ changed[a] \in SUBSET Nat /\ changed'[a] \in SUBSET Nat
              /\ \A v \in changed'[a] : v \in changed[a] \/ v > now
         /\ \A c \in Clients, a \in Accounts : Announced(c, a) \subseteq Announced(c, a)'
<1>0. TypeOK /\ TypeOK'
  BY TypeStep DEF IInv
<1>1. now \in Nat /\ now' \in Nat
      /\ \A a \in Accounts : changed[a] \in SUBSET Nat /\ changed'[a] \in SUBSET Nat
  BY <1>0 DEF TypeOK, Slots
<1>2. \A c \in Clients, a \in Accounts : Announced(c, a) \subseteq Announced(c, a)'
  <2> SUFFICES ASSUME NEW c \in Clients, NEW a \in Accounts
               PROVE  Announced(c, a) \subseteq Announced(c, a)'
    OBVIOUS
  <2>1. Announced(c, a)' = Announced(c, a) \/ Announced(c, a)' = Announced(c, a) \cup {node[c] + 1}
    BY AnnouncedStep
  <2> QED  BY <2>1
<1>3. CASE NewSlot
  <2>1. now' = now + 1
    BY <1>3 DEF NewSlot
  <2>2. \A a \in Accounts : changed'[a] = changed[a] \/ changed'[a] = changed[a] \cup {now + 1}
    BY <1>0, <1>3 DEF NewSlot, TypeOK
  <2>3. now + 1 > now /\ now' >= now
    BY <1>1, <2>1
  <2> QED  BY <1>1, <1>2, <2>2, <2>3
<1>4. CASE UNCHANGED <<now, changed>>
  BY <1>1, <1>2, <1>4
<1> QED
  BY <1>3, <1>4
     DEF Next, Start, Flash, Updates, NodeAdvances, FetchSlice, FetchFails, Retrieved, Subscribe,
         SubscribeFails, Flashed, RecvAccount, Select, Parse, WriteLayout, WriteHeight, Trigger, Ended,
         vars, chain

\* The kinds of steps again, those that write the table apart.
Still ==
  \/ NewSlot \/ FetchSlice \/ FetchFails \/ Flashed \/ Ended \/ UNCHANGED vars
  \/ \E c \in Clients, a \in Accounts : Subscribe(c, a) \/ SubscribeFails(c, a)
  \/ \E c \in Clients, a \in Accounts : RecvAccount(c, a)
  \/ Select \/ Trigger \/ (Parse /\ Readable(update.what.content))

\* Every step either leaves table, waiting and announced contents alone, or is one of the five
\* that do not.
LEMMA TableKinds ==
  ASSUME [Next]_vars
  PROVE  \/ Still \/ Retrieved \/ (\E c \in Clients : NodeAdvances(c))
         \/ (Parse /\ ~Readable(update.what.content)) \/ WriteLayout \/ WriteHeight
BY DEF Still, Next, Start, Flash, Updates

\* What such a step leaves alone.
LEMMA StillStep ==
  ASSUME IInv, [Next]_vars, Still
  PROVE  /\ users' = users
         /\ \A c \in Clients, a \in Accounts :
              Waiting(c, a)' = Waiting(c, a) /\ Announced(c, a)' = Announced(c, a)
         /\ \A a \in Accounts : Torn(a)' => Torn(a) /\ update' = update
         /\ \A a \in Accounts : Torn(a) => Torn(a)' /\ update' = update
<1>0. TypeOK
  BY DEF IInv
<1>1. users' = users
  BY DEF Still, NewSlot, FetchSlice, FetchFails, Flashed, Ended, vars, Subscribe, SubscribeFails,
         RecvAccount, Select, Trigger, Parse
<1>2. \A c \in Clients, a \in Accounts : Waiting(c, a)' = Waiting(c, a)
  BY PassedOn DEF Still, Aside, Start
<1>3. \A c \in Clients : ~NodeAdvances(c) \/ node' = node
  BY <1>0 DEF Still, NewSlot, FetchSlice, FetchFails, Flashed, Ended, vars, Subscribe, SubscribeFails,
         RecvAccount, Select, Trigger, Parse, starting
<1>4. \A c \in Clients : NodeAdvances(c) => node'[c] # node[c]
  BY <1>0 DEF NodeAdvances, TypeOK, Slots
<1>5. \A c \in Clients, a \in Accounts : Announced(c, a)' = Announced(c, a)
  BY <1>3, <1>4, AnnouncedStep
<1>6. update' = update \/ (update.at # "height" /\ update'.at # "height")
  <2>1. CASE Select \/ Trigger \/ Parse
    BY <1>0, <2>1, UpdateTyped DEF Select, Trigger, Parse, NoUpdate
  <2>2. CASE ~(Select \/ Trigger \/ Parse)
    BY <2>2 DEF Still, NewSlot, FetchSlice, FetchFails, Flashed, Ended, vars, Subscribe,
         SubscribeFails, RecvAccount
  <2> QED  BY <2>1, <2>2
<1> QED  BY <1>1, <1>2, <1>5, <1>6 DEF Torn

\* What the two writes of upsertUser do.
LEMMA LayoutStep ==
  ASSUME IInv, WriteLayout
  PROVE  LET n == update.what
         IN /\ \A a \in Accounts \ {n.acct} : users'[a] = users[a] /\ ~Torn(a) /\ ~Torn(a)'
            /\ users'[n.acct] = Entry(n.content, users[n.acct].height, n.from)
            /\ Torn(n.acct)' /\ update' = [at |-> "height", what |-> n]
            /\ Readable(n.content)
BY InHands, UpdateTyped DEF WriteLayout, IInv, TypeOK, OnItsWay, Torn

\* What the second assignment of update() writes: the height of the notification it works on.
LEMMA HeightStep ==
  ASSUME IInv, WriteHeight
  PROVE  LET n == update.what
         IN /\ \A a \in Accounts \ {n.acct} : users'[a] = users[a]
            /\ Known(n.acct)
            /\ users'[n.acct] = Entry(users[n.acct].content, n.height, users[n.acct].from)
            /\ Torn(n.acct) /\ \A a \in Accounts : ~Torn(a)'
<1>1. TypeOK /\ update.at # "select" /\ update.at = "height"
  BY DEF IInv, WriteHeight
<1>2. Known(update.what.acct) /\ update.what.acct \in Accounts
  BY <1>1, InHands
<1>3. users[update.what.acct] \in [content : Slots, height : Slots, from : {"fetch"} \cup Clients]
  BY <1>1, <1>2 DEF TypeOK, Entries, Known
<1>4. update'.at = "trigger"
  BY <1>1, UpdateTyped DEF WriteHeight
<1> QED  BY <1>1, <1>2, <1>3, <1>4 DEF WriteHeight, Entry, TypeOK, Torn

\* What Retrieved enters.
LEMMA RetrievedStep ==
  ASSUME IInv, Retrieved, NEW a \in Accounts, Known(a)'
  PROVE  /\ users'[a].content = Version(a, users'[a].height) /\ Readable(users'[a].content)
         /\ users'[a].from = "fetch" /\ users'[a].height <= now /\ users'[a].height \in Nat
         /\ update.at = "select" /\ update' = update /\ changed' = changed
<1>0. TypeOK /\ Grounded /\ Begins
  BY DEF IInv
<1> DEFINE h == fetched[Slice[a]]
<1>1. h \in Nat /\ h <= now
  <2>1. Slice[a] \in DOMAIN fetched
    BY <1>0, LenProperties DEF Retrieved, TypeOK
  <2> QED  BY <1>0, <2>1, ElementOfSeq DEF Grounded, TypeOK, Slots
<1>2. users'[a] = Entry(Version(a, h), h, "fetch") /\ Readable(Version(a, h))
  BY DEF Retrieved, Known
<1>3. update.at = "select"
  BY InHands DEF Retrieved
<1> QED  BY <1>1, <1>2, <1>3 DEF Entry, Retrieved, chain

\* The newest of some changes up to a slot, said without a choice.
IsNewest(S, h, v) == v \in S /\ v <= h /\ \A w \in S : w <= h => w <= v

\* The account's content at a height, said with <= only.
LEMMA NewestTells ==
  ASSUME NEW S \in SUBSET Nat, 0 \in S, NEW h \in Nat, NEW u
  PROVE  u = (CHOOSE x \in S : x <= h /\ \A w \in S : w <= h => w <= x) <=> IsNewest(S, h, u)
<1> DEFINE n == CHOOSE x \in S : x <= h /\ \A w \in S : w <= h => w <= x
<1>0. S \in SUBSET Nat /\ 0 \in S /\ h \in Nat
  OBVIOUS
<1>1. \E y \in S : y <= h /\ \A w \in S : w <= h => w <= y
  BY ONLY <1>0, NewestExists
<1>2. PICK y \in S : y <= h /\ \A w \in S : w <= h => w <= y
  BY <1>1
<1>3. n = y
  BY <1>2, NewestIs
<1> HIDE DEF n
<1>4. IsNewest(S, h, y)
  BY <1>2 DEF IsNewest
<1>5. IsNewest(S, h, u) => u \in S /\ u <= y /\ y <= u
  BY <1>2 DEF IsNewest
<1>6. ASSUME IsNewest(S, h, u) PROVE u = y
  <2>1. u \in Nat /\ y \in Nat /\ u <= y /\ y <= u
    BY <1>5, <1>6
  <2> QED  BY <2>1
<1>7. u = n <=> IsNewest(S, h, u)
  BY <1>3, <1>4, <1>6
<1> QED  BY <1>7 DEF n

\* An entry that is not being written holds the content of the account at its height.
LEMMA HeightTellsStep == ASSUME IInv, [Next]_vars PROVE HeightTells'
<1>0. TypeOK /\ HeightTells /\ Current /\ Grounded /\ TypeOK' /\ Grounded'
  BY TypeStep, GroundedStep DEF IInv
<1> SUFFICES ASSUME NEW a \in Accounts, Known(a)', ~Torn(a)'
             PROVE  (users[a].content = Version(a, users[a].height))'
  BY DEF HeightTells
<1>a. /\ users'[a].height \in Nat /\ changed'[a] \in SUBSET Nat /\ 0 \in changed'[a]
  BY <1>0 DEF TypeOK, Entries, Known, Slots, Grounded
<1>b. ASSUME IsNewest(changed'[a], users'[a].height, users'[a].content)
      PROVE  (users[a].content = Version(a, users[a].height))'
  <2>1. users'[a].content = (CHOOSE x \in changed'[a] : x <= users'[a].height
                               /\ \A w \in changed'[a] : w <= users'[a].height => w <= x)
    BY <1>a, <1>b, NewestTells
  <2> QED  BY <2>1 DEF Version
<1> SUFFICES IsNewest(changed'[a], users'[a].height, users'[a].content)
  BY <1>b
<1>1. ASSUME NEW h \in Nat, h <= now, NEW v, IsNewest(changed[a], h, v)
      PROVE  IsNewest(changed'[a], h, v)
  BY <1>1, Grows DEF IsNewest
<1>2. ASSUME users'[a] = users[a], ~Torn(a)
      PROVE  IsNewest(changed'[a], users'[a].height, users'[a].content)
  <2>1. Known(a)
    BY <1>2 DEF Known
  <2>2. users[a].height \in Nat /\ users[a].height <= now /\ changed[a] \in SUBSET Nat /\ 0 \in changed[a]
    BY <1>0, <2>1 DEF TypeOK, Entries, Known, Slots, Current, Grounded
  <2>3. users[a].content = Version(a, users[a].height)
    BY <1>0, <1>2, <2>1 DEF HeightTells
  <2>4. IsNewest(changed[a], users[a].height, users[a].content)
    BY <2>2, <2>3, NewestTells DEF Version
  <2> QED  BY <1>1, <1>2, <2>2, <2>4
<1>3. CASE Still
  BY <1>2, <1>3, StillStep
<1>4. CASE Retrieved
  <2>1. /\ users'[a].content = Version(a, users'[a].height) /\ changed' = changed
        /\ users'[a].height <= now /\ users'[a].height \in Nat
    BY <1>4, RetrievedStep
  <2>2. changed[a] \in SUBSET Nat /\ 0 \in changed[a]
    BY <1>0 DEF TypeOK, Slots, Grounded
  <2>3. IsNewest(changed[a], users'[a].height, users'[a].content)
    BY <2>1, <2>2, NewestTells DEF Version
  <2> QED  BY <2>1, <2>3
<1>5. CASE (\E c \in Clients : NodeAdvances(c)) \/ (Parse /\ ~Readable(update.what.content))
  <2>1. UNCHANGED users
    BY <1>5 DEF NodeAdvances, Parse
  <2>2. ~Torn(a)
    <3>1. CASE \E c \in Clients : NodeAdvances(c)
      BY <3>1 DEF NodeAdvances, Torn
    <3>2. CASE Parse
      BY <3>2 DEF Parse, Torn
    <3> QED  BY <1>5, <3>1, <3>2
  <2> QED  BY <1>2, <2>1, <2>2
<1>6. CASE WriteLayout
  BY <1>2, <1>6, LayoutStep
<1>7. CASE WriteHeight
  <2>1. CASE a = update.what.acct
    <3>1. /\ users'[a].content = users[a].content /\ users'[a].height = update.what.height
          /\ Torn(a) /\ Known(a)
      BY <1>7, <2>1, HeightStep DEF Entry
    <3>2. users[a].content = update.what.content /\ users[a].content \in changed[a]
      BY <1>0, <3>1 DEF Current
    <3>3. update.what.content \in Nat /\ update.what.height = update.what.content
      BY <1>7, InHands DEF WriteHeight, Slots
    <3>4. IsNewest(changed[a], users'[a].height, users'[a].content) /\ update.what.content <= now
      BY <1>0, <3>1, <3>2, <3>3 DEF Grounded, IsNewest
    <3> QED  BY <1>1, <3>1, <3>3, <3>4
  <2>2. CASE a # update.what.acct
    BY <1>2, <1>7, <2>2, HeightStep DEF Torn
  <2> QED  BY <2>1, <2>2
<1> QED  BY <1>3, <1>4, <1>5, <1>6, <1>7, TableKinds

\* What waits is a set of naturals, after the step too.
LEMMA WaitingTyped ==
  ASSUME IInv, [Next]_vars, NEW c \in Clients, NEW a \in Accounts
  PROVE  Waiting(c, a)' \subseteq Nat
<1>1. TypeOK' /\ OnItsWay'
  BY TypeStep, OnItsWayStep
<1>2. /\ \A i \in DOMAIN stream'[c][a] : stream'[c][a][i] \in Notes
      /\ \A i \in DOMAIN queue' : queue'[i] \in Notes
  BY <1>1 DEF OnItsWay, Proper
<1> QED  BY <1>2, NotesAre DEF Waiting, Slots

\* What update() writes is never older than what the table holds from the same client.
LEMMA CurrentStep == ASSUME IInv, [Next]_vars PROVE Current'
<1>0. TypeOK /\ Current /\ Grounded /\ Grounded' /\ TypeOK'
  BY TypeStep, GroundedStep DEF IInv
<1>a. /\ now' >= now /\ now \in Nat /\ now' \in Nat
      /\ \A a \in Accounts : changed[a] \subseteq changed'[a]
      /\ \A c \in Clients, a \in Accounts : Announced(c, a) \subseteq Announced(c, a)'
  BY Grows
<1> SUFFICES ASSUME NEW a \in Accounts, Known(a)'
             PROVE  /\ users'[a].content \in changed'[a] /\ Readable(users'[a].content)
                    /\ users'[a].height <= now'
                    /\ \A c \in Clients : users'[a].from = c =>
                         /\ users'[a].content \in Announced(c, a)'
                         /\ \A w \in Waiting(c, a)' : users'[a].content < w
                    /\ Torn(a)' => users'[a].content = update'.what.content
  BY DEF Current, Readable

\* An entry that nobody touches, while nothing older is on its way than before.
<1>b. ASSUME users'[a] = users[a], Torn(a)' => Torn(a) /\ update' = update,
             \A c \in Clients : \A w \in Waiting(c, a)' : w \in Waiting(c, a) \/ w > node[c]
      PROVE  /\ users'[a].content \in changed'[a] /\ Readable(users'[a].content)
             /\ users'[a].height <= now'
             /\ \A c \in Clients : users'[a].from = c =>
                  /\ users'[a].content \in Announced(c, a)'
                  /\ \A w \in Waiting(c, a)' : users'[a].content < w
             /\ Torn(a)' => users'[a].content = update'.what.content
  <2>1. Known(a)
    BY <1>b DEF Known
  <2>2. users[a].height \in Nat /\ users[a].content \in Nat
    BY <1>0, <2>1 DEF TypeOK, Entries, Known, Slots
  <2>3. /\ users[a].content \in changed[a] /\ Readable(users[a].content) /\ users[a].height <= now
        /\ Torn(a) => users[a].content = update.what.content
    BY <1>0, <2>1 DEF Current
  <2>4. ASSUME NEW c \in Clients, users[a].from = c
        PROVE  users[a].content \in Announced(c, a)' /\ \A w \in Waiting(c, a)' : users[a].content < w
    <3>1. users[a].content \in Announced(c, a) /\ \A w \in Waiting(c, a) : users[a].content < w
      BY <1>0, <2>1, <2>4 DEF Current
    <3>2. users[a].content <= node[c] /\ node[c] \in Nat
      BY <1>0, <3>1 DEF Announced, TypeOK, Slots
    <3>3. Waiting(c, a)' \subseteq Nat
      BY WaitingTyped
    <3> QED  BY <1>a, <1>b, <2>2, <3>1, <3>2, <3>3
  <2>5. users[a].height <= now'
    BY <1>a, <2>2, <2>3
  <2>6. users[a].content \in changed'[a]
    BY <1>a, <2>3
  <2>7. Torn(a)' => users[a].content = update'.what.content
    BY <1>b, <2>3
  <2> QED  BY <1>b, <2>3, <2>4, <2>5, <2>6, <2>7
<1>1. CASE Still
  BY <1>b, <1>1, StillStep
<1>2. CASE Retrieved
  <2>1. /\ users'[a].content = Version(a, users'[a].height) /\ Readable(users'[a].content)
        /\ users'[a].from = "fetch" /\ users'[a].height <= now /\ users'[a].height \in Nat
        /\ update.at = "select" /\ update' = update /\ changed' = changed
    BY <1>2, RetrievedStep
  <2>2. changed[a] \in SUBSET Nat /\ 0 \in changed[a]
    BY <1>0 DEF TypeOK, Slots, Grounded
  <2>3. IsNewest(changed[a], users'[a].height, users'[a].content)
    BY <2>1, <2>2, NewestTells DEF Version
  <2>4. users'[a].height <= now'
    BY <1>a, <2>1
  <2>5. ~Torn(a)'
    BY <2>1 DEF Torn
  <2> QED  BY <2>1, <2>3, <2>4, <2>5 DEF IsNewest
<1>3. ASSUME NEW d \in Clients, NodeAdvances(d)
      PROVE  /\ users'[a] = users[a]
             /\ Torn(a)' => Torn(a) /\ update' = update
             /\ \A c \in Clients : \A w \in Waiting(c, a)' : w \in Waiting(c, a) \/ w > node[c]
  <2>1. UNCHANGED <<users, update>>
    BY <1>3 DEF NodeAdvances
  <2>2. ASSUME NEW c \in Clients, NEW w \in Waiting(c, a)' PROVE w \in Waiting(c, a) \/ w > node[c]
    <3>1. Waiting(c, a)' = Waiting(c, a) \/ Waiting(c, a)' = Waiting(c, a) \cup {node[c] + 1}
      BY <1>3, NotifiedMore
    <3>2. node[c] \in Nat
      BY <1>0 DEF TypeOK, Slots
    <3> QED  BY <3>1, <3>2
  <2> QED  BY <2>1, <2>2 DEF Torn
<1>4. CASE Parse /\ ~Readable(update.what.content)
  <2>1. UNCHANGED users /\ ~Torn(a)'
    BY <1>4 DEF Parse, Torn, NoUpdate
  <2>2. \A c \in Clients : Waiting(c, a)' \subseteq Waiting(c, a)
    BY <1>4, TakenOut
  <2> QED  BY <1>b, <2>1, <2>2
<1>5. CASE WriteLayout
  <2>1. CASE a # update.what.acct
    <3>1. users'[a] = users[a] /\ ~Torn(a)'
      BY <1>5, <2>1, LayoutStep
    <3>2. \A c \in Clients : Waiting(c, a)' \subseteq Waiting(c, a)
      BY <1>5, <2>1, TakenOut
    <3> QED  BY <1>b, <3>1, <3>2
  <2>2. CASE a = update.what.acct
    <3> DEFINE n == update.what
    <3>1. /\ users'[a] = Entry(n.content, users[a].height, n.from) /\ update'.what = n
          /\ Readable(n.content)
      BY <1>5, <2>2, LayoutStep
    <3>2. n.from \in Clients /\ Known(a) /\ n.content \in Announced(n.from, a)
      <4>1. update.at # "select"
        BY <1>5 DEF WriteLayout
      <4> QED  BY <2>2, <4>1, InHands
    <3>3. users[a].height \in Nat /\ users[a].height <= now
      BY <1>0, <3>2 DEF Current, TypeOK, Entries, Known, Slots
    <3>4. n.content \in changed'[a] /\ users[a].height <= now'
      BY <1>a, <3>2, <3>3 DEF Announced
    <3>5. ASSUME NEW c \in Clients, n.from = c
          PROVE  n.content \in Announced(c, a)' /\ \A w \in Waiting(c, a)' : n.content < w
      <4>1. n.content \in Announced(c, a)
        BY <3>2, <3>5
      <4>2. \A w \in Waiting(c, a)' : n.content < w
        BY <1>5, <2>2, <3>5, TakenOut
      <4> QED  BY <1>a, <4>1, <4>2
    <3> HIDE DEF n
    <3> QED  BY <3>1, <3>4, <3>5 DEF Entry
  <2> QED  BY <2>1, <2>2
<1>6. CASE WriteHeight
  <2>0. \A c \in Clients : Waiting(c, a)' = Waiting(c, a)
    BY <1>6, PassedOn
  <2>1. CASE a # update.what.acct
    <3>1. users'[a] = users[a] /\ ~Torn(a)'
      BY <1>6, <2>1, HeightStep
    <3> QED  BY <1>b, <2>0, <3>1
  <2>2. CASE a = update.what.acct
    <3>1. /\ users'[a] = Entry(users[a].content, update.what.height, users[a].from)
          /\ Known(a) /\ Torn(a) /\ ~Torn(a)'
      BY <1>6, <2>2, HeightStep
    <3>2. /\ users[a].content \in changed[a] /\ Readable(users[a].content)
          /\ users[a].content = update.what.content
          /\ \A c \in Clients : users[a].from = c =>
               /\ users[a].content \in Announced(c, a)
               /\ \A w \in Waiting(c, a) : users[a].content < w
      BY <1>0, <3>1 DEF Current
    <3>3. update.what.height <= now' /\ users[a].content \in changed'[a]
      <4>1. update.what.height = users[a].content /\ users[a].content <= now /\ users[a].content \in Nat
        BY <1>0, <1>6, <3>2, InHands DEF WriteHeight, Grounded, Slots
      <4> QED  BY <1>a, <3>2, <4>1
    <3>4. users'[a].content = users[a].content /\ users'[a].from = users[a].from
          /\ users'[a].height = update.what.height
      BY <3>1 DEF Entry
    <3>5. \A c \in Clients : users'[a].from = c =>
            /\ users'[a].content \in Announced(c, a)'
            /\ \A w \in Waiting(c, a)' : users'[a].content < w
      BY <1>a, <2>0, <3>2, <3>4
    <3>6. ~Torn(a)'
      BY <3>1
    <3>7. /\ users'[a].content \in changed'[a] /\ Readable(users'[a].content)
          /\ users'[a].height <= now'
      BY <3>2, <3>3, <3>4
    <3> QED  BY <3>5, <3>6, <3>7
  <2> QED  BY <2>1, <2>2
<1>7. CASE \E d \in Clients : NodeAdvances(d)
  <2>1. /\ users'[a] = users[a]
        /\ Torn(a)' => Torn(a) /\ update' = update
        /\ \A c \in Clients : \A w \in Waiting(c, a)' : w \in Waiting(c, a) \/ w > node[c]
    BY <1>3, <1>7
  <2> QED  BY <1>b, <2>1
<1> QED  BY <1>1, <1>2, <1>4, <1>5, <1>6, <1>7, TableKinds

\* An announced change is waiting, unreadable, or in the table, from its client or a newer one.
LEMMA CompleteStep == ASSUME IInv, [Next]_vars PROVE Complete'
<1>0. TypeOK /\ Complete /\ Begins
  BY DEF IInv
<1> SUFFICES ASSUME NEW c \in Clients, NEW a \in Accounts, NEW s \in Announced(c, a)'
             PROVE  \/ s \in Waiting(c, a)'
                    \/ /\ \A w \in Waiting(c, a)' : s < w
                       /\ Readable(s) => /\ users'[a].from # "fetch"
                                         /\ users'[a].from = c => s <= users'[a].content
  BY DEF Complete, Readable
<1>a. ASSUME users'[a] = users[a], s \in Announced(c, a), Waiting(c, a)' = Waiting(c, a)
      PROVE  \/ s \in Waiting(c, a)'
             \/ /\ \A w \in Waiting(c, a)' : s < w
                /\ Readable(s) => /\ users'[a].from # "fetch"
                                  /\ users'[a].from = c => s <= users'[a].content
  BY <1>0, <1>a DEF Complete
<1>b. (\A d \in Clients : ~NodeAdvances(d)) => s \in Announced(c, a)
  BY AnnouncedStep
<1>1. CASE Still
  BY <1>a, <1>1, StillStep
<1>2. CASE Retrieved
  <2>1. since'[c][a] = Never
    BY <1>0, <1>2 DEF Retrieved, Begins
  <2> QED  BY <2>1 DEF Announced
<1>3. ASSUME NEW d \in Clients, NodeAdvances(d)
      PROVE  \/ s \in Waiting(c, a)'
             \/ /\ \A w \in Waiting(c, a)' : s < w
                /\ Readable(s) => /\ users'[a].from # "fetch"
                                  /\ users'[a].from = c => s <= users'[a].content
  <2>1. UNCHANGED users
    BY <1>3 DEF NodeAdvances
  <2>2. CASE Waiting(c, a)' = Waiting(c, a) /\ Announced(c, a)' = Announced(c, a)
    BY <1>a, <2>1, <2>2
  <2>3. CASE /\ Waiting(c, a)' = Waiting(c, a) \cup {node[c] + 1}
             /\ Announced(c, a)' = Announced(c, a) \cup {node[c] + 1}
    <3>1. CASE s = node[c] + 1
      BY <2>3, <3>1
    <3>2. CASE s \in Announced(c, a)
      <4>1. s <= node[c] /\ s \in Nat /\ node[c] \in Nat
        BY <1>0, <3>2 DEF Announced, TypeOK, Slots
      <4>2. s < node[c] + 1
        BY <4>1
      <4> QED  BY <1>0, <2>1, <2>3, <3>2, <4>2 DEF Complete
    <3> QED  BY <2>3, <3>1, <3>2
  <2> QED  BY <1>3, <2>2, <2>3, NotifiedMore
<1>4. CASE (Parse /\ ~Readable(update.what.content)) \/ WriteLayout
  <2> DEFINE n == update.what
  <2>1. s \in Announced(c, a)
    <3>1. \A d \in Clients : ~NodeAdvances(d)
      BY <1>0, <1>4 DEF Parse, WriteLayout, NodeAdvances, TypeOK, Slots, chain
    <3> QED  BY <1>b, <3>1
  <2>2. CASE n.from = c /\ n.acct = a
    <3>1. /\ n.content \in Waiting(c, a) /\ Waiting(c, a)' = Waiting(c, a) \ {n.content}
          /\ \A w \in Waiting(c, a)' : n.content < w
      BY <1>4, <2>2, TakenOut
    <3>2. CASE Parse /\ ~Readable(n.content)
      <4>1. UNCHANGED users
        BY <3>2 DEF Parse
      <4>2. CASE s = n.content
        BY <3>1, <3>2, <4>2
      <4>3. CASE s # n.content
        BY <1>0, <2>1, <3>1, <4>1, <4>3 DEF Complete
      <4> QED  BY <4>2, <4>3
    <3>3. CASE WriteLayout
      <4>1. users'[a].content = n.content /\ users'[a].from = c /\ n.content \in Nat
        BY <2>2, <3>3, LayoutStep, InHands DEF Entry, WriteLayout, Slots
      <4>2. c # "fetch"
        OBVIOUS
      <4>3. CASE s = n.content
        BY <3>1, <4>1, <4>2, <4>3
      <4>4. CASE s # n.content
        <5>1. CASE s \in Waiting(c, a)
          BY <3>1, <4>4, <5>1
        <5>2. CASE \A w \in Waiting(c, a) : s < w
          <6>1. s < n.content /\ s \in Nat
            BY <1>0, <2>1, <3>1, <5>2 DEF Announced, TypeOK, Slots
          <6>2. s <= n.content
            BY <4>1, <6>1
          <6> QED  BY <3>1, <4>1, <4>2, <5>2, <6>2
        <5> QED  BY <1>0, <2>1, <5>1, <5>2 DEF Complete
      <4> QED  BY <4>3, <4>4
    <3> QED  BY <1>4, <3>2, <3>3
  <2>3. CASE n.from # c \/ n.acct # a
    <3>1. Waiting(c, a)' = Waiting(c, a)
      BY <1>4, <2>3, TakenOut
    <3>2. CASE WriteLayout /\ n.acct = a
      <4>1. users'[a].from = n.from /\ n.from \in Clients
        BY <3>2, LayoutStep, InHands DEF Entry, WriteLayout
      <4>2. users'[a].from # c /\ users'[a].from # "fetch"
        BY <2>3, <3>2, <4>1
      <4> QED  BY <1>0, <2>1, <3>1, <4>2 DEF Complete
    <3>3. CASE Parse \/ (WriteLayout /\ n.acct # a)
      <4>1. users'[a] = users[a]
        BY <3>3, LayoutStep DEF Parse
      <4> QED  BY <1>a, <2>1, <3>1, <4>1
    <3> QED  BY <1>4, <3>2, <3>3
  <2> QED  BY <2>2, <2>3
<1>5. CASE WriteHeight
  <2>1. Waiting(c, a)' = Waiting(c, a)
    BY <1>5, PassedOn
  <2>2. users'[a].content = users[a].content /\ users'[a].from = users[a].from
    BY <1>5, HeightStep DEF Entry
  <2>3. s \in Announced(c, a)
    <3>1. \A d \in Clients : ~NodeAdvances(d)
      BY <1>0, <1>5 DEF WriteHeight, NodeAdvances, TypeOK, Slots
    <3> QED  BY <1>b, <3>1
  <2> QED  BY <1>0, <2>1, <2>2, <2>3 DEF Complete
<1> QED  BY <1>1, <1>2, <1>3, <1>4, <1>5, TableKinds

-----------------------------------------------------------------------------
(* The theorems.                                                           *)

\* The conjunction below is inductive: it holds at the start and no step of the feed breaks it.
THEOREM Invariant == SafeSpec => []IInv
<1>1. Init => IInv
  <2> SUFFICES ASSUME Init PROVE IInv
    OBVIOUS
  <2> USE DEF Init
  <2>1. TypeOK
    <3>1. \A S : <<>> \in Seq(S)
      BY EmptySeq
    <3>2. users \in [Accounts -> Entries]
      BY DEF Entries
    <3>3. \A S : Len(<<>>) = 0
      OBVIOUS
    <3> QED  BY <3>1, <3>2, <3>3 DEF TypeOK, Slots
  <2>2. Grounded
    BY DEF Grounded, Never
  <2>3. \A a \in Accounts : ~Known(a)
    BY DEF Known
  <2>4. Begins /\ HeightTells /\ Current
    BY <2>3 DEF Begins, HeightTells, Current
  <2>5. OnItsWay /\ InOrder
    BY DEF OnItsWay, InOrder, Working, NoUpdate
  <2>6. Complete
    BY DEF Complete, Announced
  <2> QED  BY <2>1, <2>2, <2>4, <2>5, <2>6 DEF IInv
<1>2. IInv /\ [Next]_vars => IInv'
  BY TypeStep, GroundedStep, BeginsStep, OnItsWayStep, InOrderStep, HeightTellsStep, CurrentStep,
     CompleteStep DEF IInv
<1> QED  BY <1>1, <1>2, PTL DEF SafeSpec

\* The table is well-formed, and an entry that is not between the two writes of
\* upsertUser has a height at which the account had its content.
THEOREM TableSoundAlways == SafeSpec => []TableSound
<1>1. IInv => TableSound
  BY DEF IInv, TableSound
<1> QED  BY <1>1, Invariant, PTL

\* A bounded nonempty set of naturals has a greatest member: the last change announced.
LEMMA GreatestNumber ==
  ASSUME NEW T, T \subseteq Nat, T # {}, NEW m \in Nat, \A t \in T : t <= m
  PROVE  \E x \in T : \A y \in T : y <= x
<1> DEFINE gaps == {m - t : t \in T}
<1>a. \A t \in T : m - t \in Nat
  OBVIOUS
<1>b. PICK t \in T : TRUE
  OBVIOUS
<1>1. gaps \subseteq Nat /\ gaps # {}
  BY <1>a, <1>b
<1>2. PICK n \in gaps : \A k \in gaps : n <= k
  BY <1>1, LeastNumber
<1>3. PICK x \in T : n = m - x
  OBVIOUS
<1>4. ASSUME NEW y \in T PROVE y <= x
  <2>1. m - x <= m - y
    BY <1>2, <1>3
  <2> QED  BY <2>1
<1> QED  BY <1>4

\* There is a last change that can be read, if there is one at all.
LEMMA LastExists ==
  ASSUME TypeOK, Grounded, NEW a \in Accounts, NEW v \in changed[a], Readable(v)
  PROVE  /\ LastReadable(a) \in changed[a] /\ Readable(LastReadable(a))
         /\ \A w \in changed[a] : Readable(w) => w <= LastReadable(a)
<1> DEFINE T == {w \in changed[a] : Readable(w)}
<1>1. T \subseteq Nat /\ v \in T /\ now \in Nat /\ \A t \in T : t <= now
  BY DEF TypeOK, Slots, Grounded
<1>2. PICK x \in T : \A y \in T : y <= x
  BY <1>1, GreatestNumber
<1> DEFINE Last(u) == Readable(u) /\ \A w \in changed[a] : Readable(w) => w <= u
<1>3. Last(x) /\ x \in changed[a]
  BY <1>2
<1>4. LastReadable(a) = CHOOSE u \in changed[a] : Last(u)
  BY DEF LastReadable
<1> HIDE DEF Last
<1>5. LastReadable(a) \in changed[a] /\ Last(LastReadable(a))
  BY <1>3, <1>4
<1> QED  BY <1>5 DEF Last

\* An entry of an account that is quiet has its last content that can be read, unless
\* that content is from between the fetch of Start and every subscription of Flash.
THEOREM BehindOnlyFromStartAlways == SafeSpec => []BehindOnlyFromStart
<1>1. ASSUME IInv, NEW a \in Accounts, Known(a), Quiet(a), ~Missed(a)
      PROVE  users[a].content = LastReadable(a)
  <2> DEFINE e == users[a]
  <2>0. TypeOK /\ Grounded /\ Current /\ Complete
    BY <1>1 DEF IInv
  <2>1. e.content \in changed[a] /\ Readable(e.content) /\ changed[a] \in SUBSET Nat
    BY <1>1, <2>0 DEF Current, TypeOK, Slots
  <2>2. /\ LastReadable(a) \in changed[a] /\ Readable(LastReadable(a))
        /\ \A w \in changed[a] : Readable(w) => w <= LastReadable(a)
    BY <2>0, <2>1, LastExists
  <2>3. \A c \in Clients : Waiting(c, a) = {}
    BY <1>1 DEF Quiet, Waiting, Working
  <2>4. ASSUME NEW c \in Clients, since[c][a] # Never, since[c][a] < LastReadable(a)
        PROVE  LastReadable(a) \in Announced(c, a)
    <3>1. node[c] = now
      BY <1>1, <2>4 DEF Quiet
    <3>2. LastReadable(a) <= now
      BY <2>0, <2>2 DEF Grounded
    <3> QED  BY <2>2, <2>4, <3>1, <3>2 DEF Announced
  <2>5. PICK c \in Clients : since[c][a] # Never /\ ~(LastReadable(a) <= since[c][a])
    BY <1>1 DEF Missed
  <2>6. since[c][a] < LastReadable(a)
    BY <2>0, <2>1, <2>2, <2>5 DEF TypeOK, Slots
  <2>7. e.from # "fetch"
    BY <2>0, <2>2, <2>3, <2>4, <2>5, <2>6 DEF Complete
  <2>8. e.from \in Clients
    BY <1>1, <2>0, <2>7 DEF TypeOK, Entries, Known
  <2>9. e.content \in Announced(e.from, a)
    BY <1>1, <2>0, <2>8 DEF Current
  <2>10. since[e.from][a] # Never /\ since[e.from][a] < LastReadable(a)
    <3>1. since[e.from][a] # Never /\ since[e.from][a] < e.content
      BY <2>9 DEF Announced
    <3>2. e.content <= LastReadable(a) /\ since[e.from][a] \in Nat
      BY <2>0, <2>1, <2>2, <2>8, <3>1 DEF TypeOK, Slots
    <3> QED  BY <2>1, <2>2, <3>1, <3>2
  <2>11. LastReadable(a) <= e.content
    BY <2>0, <2>2, <2>3, <2>4, <2>8, <2>10 DEF Complete
  <2>12. e.content <= LastReadable(a)
    BY <2>1, <2>2
  <2> QED  BY <2>1, <2>2, <2>11, <2>12
<1>2. IInv => BehindOnlyFromStart
  BY <1>1 DEF BehindOnlyFromStart
<1> QED  BY <1>2, Invariant, PTL

\* An entry goes back to an older content only when its source changes.
THEOREM BackOnlyByOtherAlways == SafeSpec => BackOnlyByOther
<1>1. ASSUME IInv, [Next]_vars, NEW a \in Accounts, Known(a), users'[a].content < users[a].content
      PROVE  users'[a].from # users[a].from
  <2>0. TypeOK /\ Current /\ Begins
    BY <1>1 DEF IInv
  <2>1. users[a].content \in Nat
    BY <1>1, <2>0 DEF TypeOK, Entries, Known, Slots
  <2>2. users'[a].content # users[a].content
    BY <1>1, <2>1
  <2>3. CASE WriteLayout
    <3>1. a = update.what.acct
      BY <1>1, <2>2, <2>3, LayoutStep
    <3>2. users'[a].content = update.what.content /\ users'[a].from = update.what.from
      BY <1>1, <2>3, <3>1, LayoutStep DEF Entry
    <3>3. update.what.from \in Clients /\ update.what.content \in Nat
      BY <1>1, <2>3, InHands DEF WriteLayout, Slots
    <3>4. update.what.content \in Waiting(update.what.from, a)
      BY <1>1, <2>3, <3>1, <3>3, TakenOut
    <3>5. users[a].from = update.what.from => users[a].content < update.what.content
      BY <1>1, <2>0, <3>3, <3>4 DEF Current
    <3> QED  BY <1>1, <2>1, <3>2, <3>3, <3>5
  <2>4. CASE WriteHeight
    <3>1. users'[a].content = users[a].content
      BY <1>1, <2>4, HeightStep DEF Entry
    <3> QED  BY <2>2, <3>1
  <2>5. CASE Retrieved
    BY <1>1, <2>0, <2>5 DEF Retrieved, Begins
  <2>6. CASE Still
    BY <1>1, <2>2, <2>6, StillStep
  <2>7. CASE (\E c \in Clients : NodeAdvances(c)) \/ (Parse /\ ~Readable(update.what.content))
    BY <2>2, <2>7 DEF NodeAdvances, Parse
  <2> QED  BY <1>1, <2>3, <2>4, <2>5, <2>6, <2>7, TableKinds
<1>2. ASSUME IInv, [Next]_vars
      PROVE  [\A a \in Accounts :
                Known(a) /\ users'[a].content < users[a].content => users'[a].from # users[a].from]_vars
  BY <1>1, <1>2
<1> QED  BY <1>2, Invariant, PTL DEF SafeSpec, BackOnlyByOther
=============================================================================
