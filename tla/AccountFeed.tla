----------------------------- MODULE AccountFeed -----------------------------
(***************************************************************************)
(* How the table of token accounts follows the chain: Start of a pool      *)
(* program fetches the accounts of its pools (RetrieveUsers), Flash        *)
(* subscribes to them later (SubscribeUsers), a goroutine per client and   *)
(* account receives the changes (RecvAccount) and queues them, and         *)
(* update() of spltoken/program.go writes them into the table.             *)
(*                                                                         *)
(* The content of an account is named by the slot of the change that made  *)
(* it; 0 is the content before the first slot.  A node is at some slot and *)
(* serves the contents of that slot.                                       *)
(***************************************************************************)
EXTENDS Integers, Sequences, FiniteSets

CONSTANTS
  Accounts,   \* the token accounts of the pools
  Clients,    \* the websocket clients
  NSlices, Slice,  \* RetrieveUsers asks for the accounts slice by slice
  Unreadable, \* slots whose changes leave what parseUser refuses
  QueueCap,   \* capacity of updateAccounts (1024)
  MaxSlot     \* bound: the chain stops there

ASSUME FeedAssumption ==
  /\ NSlices \in Nat \ {0} /\ Slice \in [Accounts -> 1 .. NSlices]
  /\ QueueCap \in Nat \ {0} /\ MaxSlot \in Nat
  /\ Unreadable \subseteq 1 .. MaxSlot
  /\ "fetch" \notin Clients

Slots == 0 .. MaxSlot
Never == -1

VARIABLES
  now,      \* the newest slot
  changed,  \* per account: the slots in which it changed
  node,     \* per client: the slot of its node
  main,     \* what Start and Flash do: fetch, subscribe or serve
  fetched,  \* the slots of the responses, by slice
  todo,     \* the subscriptions that are still to be asked for
  since,    \* per client and account: the slot it is subscribed since, or Never
  stream,   \* per client and account: the notifications on their way
  queue,    \* updateAccounts
  update,   \* what update() does, and the notification it works on
  users     \* p.users

vars == <<now, changed, node, main, fetched, todo, since, stream, queue, update, users>>
chain == <<now, changed>>
starting == <<main, fetched, todo>>

Readable(s) == s \notin Unreadable

\* The content of account a at slot s, and the last that can be read.
Version(a, s) == CHOOSE v \in changed[a] : v <= s /\ \A w \in changed[a] : w <= s => w <= v
LastReadable(a) ==
  CHOOSE v \in changed[a] : Readable(v) /\ \A w \in changed[a] : Readable(w) => w <= v

\* An entry of p.users.  `from` is a history variable: who it came from last.
Entry(v, height, from) == [content |-> v, height |-> height, from |-> from]
NoEntry == Entry(Never, Never, "nobody")
Known(a) == users[a] # NoEntry
NoUpdate == [at |-> "select"]

-----------------------------------------------------------------------------
(* Faulty variants of some of the actions below, which show that the       *)
(* properties tell them from the code.  No specification uses them.        *)

\* A full channel drops the notification.
RecvDrops(c, a) ==
  /\ stream[c][a] # <<>>
  /\ queue' = IF Len(queue) < QueueCap THEN Append(queue, Head(stream[c][a])) ELSE queue
  /\ stream' = [stream EXCEPT ![c][a] = Tail(@)]
  /\ UNCHANGED <<chain, node, starting, since, update, users>>

\* Every notification gets a goroutine of its own.
RecvSpawns(c, a) ==
  /\ Len(queue) < QueueCap
  /\ \E i \in DOMAIN stream[c][a] :
       /\ queue' = Append(queue, stream[c][a][i])
       /\ stream' = [stream EXCEPT ![c][a] = SubSeq(@, 1, i-1) \o SubSeq(@, i+1, Len(@))]
  /\ UNCHANGED <<chain, node, starting, since, update, users>>

\* The height is left out, as in upsertMarket of serumv2/program.go.
WriteHeightNot ==
  /\ update.at = "height"
  /\ update' = [update EXCEPT !.at = "trigger"]
  /\ UNCHANGED <<chain, node, starting, since, stream, queue, users>>

-----------------------------------------------------------------------------
Init ==
  /\ now = 0
  /\ changed = [a \in Accounts |-> {0}]
  /\ node = [c \in Clients |-> 0]
  /\ main = "fetch"
  /\ fetched = <<>>
  /\ todo = {}
  /\ since = [c \in Clients |-> [a \in Accounts |-> Never]]
  /\ stream = [c \in Clients |-> [a \in Accounts |-> <<>>]]
  /\ queue = <<>>
  /\ update = NoUpdate
  /\ users = [a \in Accounts |-> NoEntry]

-----------------------------------------------------------------------------
(* The chain and its nodes.                                                *)

\* A slot in which some of the accounts change.
NewSlot ==
  /\ now < MaxSlot
  /\ now' = now + 1
  /\ \E S \in SUBSET Accounts :
       changed' = [a \in Accounts |-> IF a \in S THEN changed[a] \cup {now + 1} ELSE changed[a]]
  /\ UNCHANGED <<node, starting, since, stream, queue, update, users>>

\* The node of client c gets the next slot and notifies the subscriptions of the
\* accounts that changed.
NodeAdvances(c) ==
  /\ node[c] < now
  /\ LET s == node[c] + 1
         Note(a) == [acct |-> a, content |-> s, height |-> s, from |-> c]
     IN /\ node' = [node EXCEPT ![c] = s]
        /\ stream' = [stream EXCEPT ![c] =
                        [a \in Accounts |-> IF since[c][a] # Never /\ s \in changed[a]
                                            THEN Append(@[a], Note(a)) ELSE @[a]]]
  /\ UNCHANGED <<chain, starting, since, queue, update, users>>

-----------------------------------------------------------------------------
(* Start: RetrieveUsers, called by buildModels.                            *)

\* The next slice is answered by a node at slot s.
FetchSlice ==
  /\ main = "fetch" /\ Len(fetched) < NSlices
  /\ \E s \in 0 .. now : fetched' = Append(fetched, s)
  /\ UNCHANGED <<chain, node, main, todo, since, stream, queue, update, users>>

\* A slice fails: Start returns, the program has no models and subscribes to
\* nothing.
FetchFails ==
  /\ main = "fetch" /\ Len(fetched) < NSlices
  /\ main' = "serve"
  /\ UNCHANGED <<chain, node, fetched, todo, since, stream, queue, update, users>>

\* Once all slices are there, the accounts that parse are entered.  Flash
\* subscribes those, in the order of a map.
Retrieved ==
  LET v(a) == Version(a, fetched[Slice[a]])
      found == {a \in Accounts : Readable(v(a))}
  IN /\ main = "fetch" /\ Len(fetched) = NSlices
     /\ main' = "subscribe"
     /\ users' = [a \in Accounts |->
                    IF a \in found THEN Entry(v(a), fetched[Slice[a]], "fetch") ELSE NoEntry]
     /\ todo' = Clients \X found
     /\ UNCHANGED <<chain, node, fetched, since, stream, queue, update>>

-----------------------------------------------------------------------------
(* Flash: SubscribeUsers and SubscribeAccount.                             *)

\* One account after the other.
Turn(a) ==
  \A b \in Accounts \ {a} : todo \cap (Clients \X {b}) \in {{}, Clients \X {b}}

Subscribe(c, a) ==
  /\ main = "subscribe" /\ <<c, a>> \in todo /\ Turn(a)
  /\ since' = [since EXCEPT ![c][a] = node[c]]
  /\ todo' = todo \ {<<c, a>>}
  /\ UNCHANGED <<chain, node, main, fetched, stream, queue, update, users>>

\* A client fails: the ones after it are not asked for this account.
SubscribeFails(c, a) ==
  /\ main = "subscribe" /\ <<c, a>> \in todo /\ Turn(a)
  /\ todo' = todo \ (Clients \X {a})
  /\ UNCHANGED <<chain, node, main, fetched, since, stream, queue, update, users>>

Flashed ==
  /\ main = "subscribe" /\ todo = {}
  /\ main' = "serve"
  /\ UNCHANGED <<chain, node, fetched, todo, since, stream, queue, update, users>>

-----------------------------------------------------------------------------
(* RecvAccount and update().                                               *)

RecvAccount(c, a) ==
  /\ stream[c][a] # <<>>
  /\ Len(queue) < QueueCap
  /\ queue' = Append(queue, Head(stream[c][a]))
  /\ stream' = [stream EXCEPT ![c][a] = Tail(@)]
  /\ UNCHANGED <<chain, node, starting, since, update, users>>

Select ==
  /\ update.at = "select"
  /\ queue # <<>>
  /\ update' = [at |-> "parse", what |-> Head(queue)]
  /\ queue' = Tail(queue)
  /\ UNCHANGED <<chain, node, starting, since, stream, users>>

Parse ==
  /\ update.at = "parse"
  /\ update' = IF Readable(update.what.content) THEN [update EXCEPT !.at = "write"] ELSE NoUpdate
  /\ UNCHANGED <<chain, node, starting, since, stream, queue, users>>

\* upsertUser: the layout, then the height.
WriteLayout ==
  /\ update.at = "write"
  /\ users' = [users EXCEPT ![update.what.acct] =
                 Entry(update.what.content, @.height, update.what.from)]
  /\ update' = [update EXCEPT !.at = "height"]
  /\ UNCHANGED <<chain, node, starting, since, stream, queue>>

WriteHeight ==
  /\ update.at = "height"
  /\ users' = [users EXCEPT ![update.what.acct].height = update.what.height]
  /\ update' = [update EXCEPT !.at = "trigger"]
  /\ UNCHANGED <<chain, node, starting, since, stream, queue>>

\* OnBalanceUpdate returns when the engine has taken the trigger, or is not
\* called.
Trigger ==
  /\ update.at = "trigger"
  /\ update' = NoUpdate
  /\ UNCHANGED <<chain, node, starting, since, stream, queue, users>>

-----------------------------------------------------------------------------
Start == FetchSlice \/ FetchFails \/ Retrieved
Flash == (\E c \in Clients, a \in Accounts : Subscribe(c, a) \/ SubscribeFails(c, a)) \/ Flashed
Updates == Select \/ Parse \/ WriteLayout \/ WriteHeight \/ Trigger

\* The chain has stopped and everything has arrived.
Ended ==
  /\ now = MaxSlot /\ \A c \in Clients : node[c] = now
  /\ main = "serve" /\ update.at = "select" /\ queue = <<>>
  /\ \A c \in Clients, a \in Accounts : stream[c][a] = <<>>
  /\ UNCHANGED vars

Next ==
  \/ NewSlot
  \/ \E c \in Clients : NodeAdvances(c)
  \/ Start \/ Flash
  \/ \E c \in Clients, a \in Accounts : RecvAccount(c, a)
  \/ Updates
  \/ Ended

SafeSpec == Init /\ [][Next]_vars

(***************************************************************************)
(* Fairness: nodes follow the chain, and the goroutines run.  The chain    *)
(* need not go on.                                                         *)
(***************************************************************************)
Spec ==
  /\ SafeSpec
  /\ \A c \in Clients : WF_vars(NodeAdvances(c))
  /\ WF_vars(Start) /\ WF_vars(Flash) /\ WF_vars(Updates)
  /\ \A c \in Clients, a \in Accounts : WF_vars(RecvAccount(c, a))

-----------------------------------------------------------------------------
(* Properties.                                                             *)

Notes == [acct : Accounts, content : Slots, height : Slots, from : Clients]
Entries ==
  [content : Slots, height : Slots, from : {"fetch"} \cup Clients] \cup {NoEntry}

TypeOK ==
  /\ now \in Slots
  /\ changed \in [Accounts -> SUBSET Slots]
  /\ node \in [Clients -> Slots]
  /\ main \in {"fetch", "subscribe", "serve"}
  /\ fetched \in Seq(Slots) /\ Len(fetched) <= NSlices
  /\ todo \subseteq Clients \X Accounts
  /\ since \in [Clients -> [Accounts -> Slots \cup {Never}]]
  /\ stream \in [Clients -> [Accounts -> Seq(Notes)]]
  /\ queue \in Seq(Notes) /\ Len(queue) <= QueueCap
  /\ \/ update = NoUpdate
     \/ update \in [at : {"parse", "write", "height", "trigger"}, what : Notes]
  /\ users \in [Accounts -> Entries]

\* Nothing is on its way for account a.
Quiet(a) ==
  /\ \A c \in Clients : stream[c][a] = <<>> /\ (since[c][a] # Never => node[c] = now)
  /\ \A i \in DOMAIN queue : queue[i].acct # a
  /\ update.at # "select" => update.what.acct # a

\* The changes the table may miss: those that every subscription came after.
Missed(a) == \A c \in Clients : since[c][a] # Never => LastReadable(a) <= since[c][a]

\* The table is right about an account that is quiet, although nodes lag, the
\* clients repeat each other and one may set the table back, the queue fills and
\* accounts come that do not parse; unless it changed last between the fetch of
\* Start and the subscription of Flash, which nobody makes up for.
BehindOnlyFromStart ==
  \A a \in Accounts :
    Known(a) /\ main = "serve" /\ Quiet(a) =>
      users[a].content = LastReadable(a) \/ Missed(a)

\* The height that a result or a log gives for an account is one at which it had
\* the content, but between the two writes of upsertUser.
Torn(a) == update.at = "height" /\ update.what.acct = a
HeightTells ==
  \A a \in Accounts :
    Known(a) /\ ~Torn(a) => users[a].content = Version(a, users[a].height)

\* An account goes back to an older content only when the source changes: from the
\* fetch to a client whose node was behind, or from one client to another.
BackOnlyByOther ==
  [][\A a \in Accounts :
       Known(a) /\ users'[a].content < users[a].content => users'[a].from # users[a].from]_vars

\* The table ends up right about every account it follows.
Followed(a) == \E c \in Clients : since[c][a] # Never
Converges ==
  \A a \in Accounts : <>[](Followed(a) => users[a].content = LastReadable(a) \/ Missed(a))

\* The table is well-formed, and its height tells the truth about its content.
TableSound == TypeOK /\ HeightTells
=============================================================================
