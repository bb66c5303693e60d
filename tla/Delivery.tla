------------------------------- MODULE Delivery -------------------------------
(***************************************************************************)
(* What becomes of a signed transaction: Commit of backend/execute.go      *)
(* gives it to the TPU proxy, to the executors of every transaction node   *)
(* and to the senders, as transactionSend says; the executors send it by   *)
(* RPC; a sender writes it as a frame of CommandLen bytes to the TCP       *)
(* connection of its sender service, which cuts its stream into frames     *)
(* again, decodes them and hands the commands to a proxy of its own.       *)
(* The store is nil in every program (SetStore(nil)): nothing is recorded. *)
(*                                                                         *)
(* A frame is two halves.  The text of a signature has more than the 64    *)
(* characters that Encode keeps (86 or more in base58), so that Decode     *)
(* panics on every frame: the service goes down with its first command.    *)
(***************************************************************************)
EXTENDS Integers, Sequences, FiniteSets

CONSTANTS
  NNodes,       \* the transaction nodes
  NWorkers,     \* executors of a node (ExecutorSize, 8)
  NSenders,     \* the sender services
  Modes,        \* the values of transactionSend
  CommandCap,   \* capacity of commandChans (1024)
  DataCap,      \* capacity of commandData (64)
  MaxAge,       \* a command that is older is not sent (20 s)
  Word,         \* the differences of times are of a word of that many values (2^64)
  MaxSalt,      \* the calculator adds up to this to the time to get an id
  MaxCommits, MaxTime, MaxRestarts  \* bounds

ASSUME DeliveryAssumption ==
  /\ NNodes \in Nat /\ NWorkers \in Nat \ {0} /\ NSenders \in Nat
  /\ Modes \subseteq 1 .. 5
  /\ CommandCap \in Nat \ {0} /\ DataCap \in Nat \ {0}
  /\ MaxAge \in Nat /\ MaxSalt \in Nat /\ Word \in Nat /\ Word > MaxTime + MaxSalt + MaxAge
  /\ MaxCommits \in Nat /\ MaxTime \in Nat /\ MaxRestarts \in Nat

Nodes == 1 .. NNodes
Senders == 1 .. NSenders
Workers == Nodes \X (1 .. NWorkers)
Commands == [n : 1 .. MaxCommits, id : 0 .. MaxTime + MaxSalt]

VARIABLES
  test, mode,  \* the constant Test of the build, and transactionSend
  ctx,         \* "open", or "done" once the trader shuts down
  now,         \* the time
  commit,      \* what Commit does: its command and the next channel, or Idle
  commits,     \* how often it was called
  tpu,         \* what went to the proxy of the trader
  chan,        \* commandChans
  worker,      \* what the executors do
  asked,       \* history: how often each node was asked to send each command
  simulated,   \* history: how often its executors had it simulated by nodes[0]
  passed,      \* history, per node: the commands its executors let go, and when
  data,        \* commandData
  link,        \* per sender: its connection (0: senderConn is nil)
  conns,       \* per sender: the connections it made
  up,          \* per sender: whether its service runs
  restarts,    \* how often a service was started again
  handled      \* history, per sender: the frames handleMsg was given

vars == <<test, mode, ctx, now, commit, commits, tpu, chan, worker, asked,
          simulated, passed, data, link, conns, up, restarts, handled>>
config == <<test, mode>>
committing == <<commit, commits, tpu>>
executing == <<worker, asked, simulated, passed>>
sending == <<link, conns>>
service == <<up, restarts, handled>>

Idle == [at |-> "idle"]
Halves(c) == <<[of |-> c, part |-> 1], [of |-> c, part |-> 2]>>

\* Faulty variant of TooOld, which shows that the properties tell it from the code: a
\* command is too old as soon as it is as old as it may be.
TooOldSoon(c) == (now - c.id) % Word >= MaxAge

\* uint64(tt)-command.Id > 20000000: the difference wraps, so that a command with an
\* id in the future is too old as well.
TooOld(c) == (now - c.id) % Word > MaxAge

-----------------------------------------------------------------------------
(* The way of a command, and faulty variants of some of the definitions,   *)
(* which show that the properties tell them from the code.  No             *)
(* specification uses the variants.                                        *)

\* The way of a command: the proxy unless Test is set, the executors of all nodes,
\* the senders.  Commit goes through it in this order.
Way ==
  (IF mode \in {2, 3, 4} /\ ~test THEN <<[to |-> "tpu", i |-> 1]>> ELSE <<>>)
  \o (IF mode \in {1, 3, 4} THEN [i \in Nodes |-> [to |-> "rpc", i |-> i]] ELSE <<>>)
  \o (IF mode \in {4, 5} THEN [i \in Senders |-> [to |-> "sender", i |-> i]] ELSE <<>>)

\* A connection that failed is used again.
WriteFailsKeeps(s, k) ==
  /\ data[s] # <<>> /\ link[s] # 0
  /\ data' = [data EXCEPT ![s] = Tail(@)]
  /\ conns' = [conns EXCEPT ![s][link[s]].wire = @ \o SubSeq(Halves(Head(data[s])), 1, k)]
  /\ UNCHANGED <<config, ctx, now, committing, chan, executing, link, service>>

\* The frame is what one Read returned.
ReadIsFrame(s, i, k) ==
  LET c == conns[s][i]
      frame == SubSeq(c.wire, 1, k)
  IN /\ up[s] /\ k <= Len(c.wire) /\ ~c.done
     /\ conns' = [conns EXCEPT ![s][i].wire = SubSeq(@, k + 1, Len(@))]
     /\ handled' = [handled EXCEPT ![s] = Append(@, frame)]
     /\ up' = [up EXCEPT ![s] = FALSE]
     /\ UNCHANGED <<config, ctx, now, committing, chan, executing, data, link, restarts>>

\* A command whose sending failed is sent again (Try is greater than 0).
SentAgain(w, ok) ==
  LET c == worker[w].what
  IN /\ worker[w].at = "send"
     /\ asked' = [asked EXCEPT ![w[1]][c.n] = @ + 1]
     /\ worker' = [worker EXCEPT ![w] = IF ok \/ asked[w[1]][c.n] > 0 THEN Idle ELSE @]
     /\ UNCHANGED <<config, ctx, now, committing, chan, simulated, passed, data, sending, service>>

\* A dial without an answer is tried again.
DialFailsRetries(s) ==
  /\ data[s] # <<>> /\ link[s] = 0
  /\ UNCHANGED vars

-----------------------------------------------------------------------------
Init ==
  /\ test \in BOOLEAN /\ mode \in Modes
  /\ ctx = "open" /\ now = 0
  /\ commit = Idle /\ commits = 0 /\ tpu = <<>>
  /\ chan = [i \in Nodes |-> <<>>]
  /\ worker = [w \in Workers |-> Idle]
  /\ asked = [i \in Nodes |-> [n \in 1 .. MaxCommits |-> 0]]
  /\ simulated = [i \in Nodes |-> [n \in 1 .. MaxCommits |-> 0]]
  /\ passed = [i \in Nodes |-> {}]
  /\ data = [s \in Senders |-> <<>>]
  /\ link = [s \in Senders |-> 0]
  /\ conns = [s \in Senders |-> <<>>]
  /\ up \in [Senders -> BOOLEAN]
  /\ restarts = 0
  /\ handled = [s \in Senders |-> <<>>]

-----------------------------------------------------------------------------
(* The world: time passes, the trader is told to stop, and a service that  *)
(* is not running is started, or started again.                            *)

Tick ==
  /\ now < MaxTime
  /\ now' = now + 1
  /\ UNCHANGED <<config, ctx, committing, chan, executing, data, sending, service>>

Cancel ==
  /\ ctx' = "done" /\ ctx = "open"
  /\ UNCHANGED <<config, now, committing, chan, executing, data, sending, service>>

Restart(s) ==
  /\ ~up[s] /\ restarts < MaxRestarts
  /\ up' = [up EXCEPT ![s] = TRUE]
  /\ restarts' = restarts + 1
  /\ conns' = [conns EXCEPT ![s] = [i \in DOMAIN @ |-> [@[i] EXCEPT !.done = TRUE]]]
  /\ UNCHANGED <<config, ctx, now, committing, chan, executing, data, link, handled>>

-----------------------------------------------------------------------------
(* Commit, called by one goroutine, with simulate false and no callback.   *)
(* Several calls may have one id: the levels of an opportunity.            *)

Commit ==
  /\ commit = Idle /\ commits < MaxCommits
  /\ commits' = commits + 1
  /\ \E id \in now .. now + MaxSalt :
       commit' = [at |-> 1, what |-> [n |-> commits + 1, id |-> id]]
  /\ UNCHANGED <<config, ctx, now, tpu, chan, executing, data, sending, service>>

\* The command goes to the next channel, when that has room.
Push ==
  /\ commit # Idle /\ commit.at <= Len(Way)
  /\ commit' = [commit EXCEPT !.at = @ + 1]
  /\ LET next == Way[commit.at]
         Room(q, cap) == Len(q) < cap
     IN \/ /\ next.to = "tpu"
           /\ tpu' = Append(tpu, commit.what)
           /\ UNCHANGED <<chan, data>>
        \/ /\ next.to = "rpc" /\ Room(chan[next.i], CommandCap)
           /\ chan' = [chan EXCEPT ![next.i] = Append(@, commit.what)]
           /\ UNCHANGED <<tpu, data>>
        \/ /\ next.to = "sender" /\ Room(data[next.i], DataCap)
           /\ data' = [data EXCEPT ![next.i] = Append(@, commit.what)]
           /\ UNCHANGED <<tpu, chan>>
  /\ UNCHANGED <<config, ctx, now, commits, executing, sending, service>>

Return ==
  /\ commit # Idle /\ commit.at > Len(Way)
  /\ commit' = Idle
  /\ UNCHANGED <<config, ctx, now, commits, tpu, chan, executing, data, sending, service>>

-----------------------------------------------------------------------------
(* The executors.  Try is 0: a command is sent once and never checked.     *)

Take(w) ==
  LET c == Head(chan[w[1]])
  IN /\ worker[w] = Idle /\ chan[w[1]] # <<>>
     /\ chan' = [chan EXCEPT ![w[1]] = Tail(@)]
     /\ IF TooOld(c)
          THEN /\ passed' = [passed EXCEPT ![w[1]] = @ \cup {[what |-> c, at |-> now]}]
               /\ UNCHANGED worker
          ELSE /\ worker' = [worker EXCEPT ![w] = [at |-> "send", what |-> c]]
               /\ UNCHANGED passed
     /\ UNCHANGED <<config, ctx, now, committing, asked, simulated, data, sending, service>>

\* select may see that the context is done.
Exit(w) ==
  /\ worker[w] = Idle /\ ctx = "done"
  /\ worker' = [worker EXCEPT ![w] = [at |-> "exited"]]
  /\ UNCHANGED <<config, ctx, now, committing, chan, asked, simulated, passed, data,
                 sending, service>>

\* SendTransaction of the node returns, with an error or without, which is logged; in
\* the builds where Test is set no node is asked to send: backend.rpcClient, which is
\* the first of the nodes to read from, simulates the transaction.
Sent(w, ok) ==
  LET c == worker[w].what
  IN /\ worker[w].at = "send"
     /\ IF test
          THEN simulated' = [simulated EXCEPT ![w[1]][c.n] = @ + 1] /\ UNCHANGED asked
          ELSE asked' = [asked EXCEPT ![w[1]][c.n] = @ + 1] /\ UNCHANGED simulated
     /\ worker' = [worker EXCEPT ![w] = Idle]
     /\ UNCHANGED <<config, ctx, now, committing, chan, passed, data, sending, service>>

-----------------------------------------------------------------------------
(* A sender: its loop has no exit.                                         *)

Dial(s) ==
  /\ data[s] # <<>> /\ link[s] = 0 /\ up[s]
  /\ conns' = [conns EXCEPT ![s] = Append(@, [wire |-> <<>>, buf |-> <<>>, done |-> FALSE])]
  /\ link' = [link EXCEPT ![s] = Len(conns[s]) + 1]
  /\ UNCHANGED <<config, ctx, now, committing, chan, executing, data, service>>

\* No answer within a second: the message is dropped.
DialFails(s) ==
  /\ data[s] # <<>> /\ link[s] = 0
  /\ data' = [data EXCEPT ![s] = Tail(@)]
  /\ UNCHANGED <<config, ctx, now, committing, chan, executing, sending, service>>

\* The kernel takes the whole frame; it may be that nobody reads it any more.
Write(s) ==
  /\ data[s] # <<>> /\ link[s] # 0
  /\ data' = [data EXCEPT ![s] = Tail(@)]
  /\ conns' = [conns EXCEPT ![s][link[s]].wire = @ \o Halves(Head(data[s]))]
  /\ UNCHANGED <<config, ctx, now, committing, chan, executing, link, service>>

\* The deadline passes, or the connection is gone: part of the frame may be on its
\* way.  The connection is closed and the message dropped.
WriteFails(s, k) ==
  /\ data[s] # <<>> /\ link[s] # 0
  /\ data' = [data EXCEPT ![s] = Tail(@)]
  /\ conns' = [conns EXCEPT ![s][link[s]].wire = @ \o SubSeq(Halves(Head(data[s])), 1, k)]
  /\ link' = [link EXCEPT ![s] = 0]
  /\ UNCHANGED <<config, ctx, now, committing, chan, executing, service>>

-----------------------------------------------------------------------------
(* The sender service: doProcess reads what has come, at most CommandLen   *)
(* bytes at a time, and handles one frame when the buffer holds one.       *)

Read(s, i, k) ==
  LET c == conns[s][i]
      all == c.buf \o SubSeq(c.wire, 1, k)
      whole == Len(all) >= 2
  IN /\ up[s] /\ k <= Len(c.wire) /\ ~c.done
     /\ conns' = [conns EXCEPT ![s][i] =
                    [c EXCEPT !.wire = SubSeq(@, k + 1, Len(@)),
                              !.buf = IF whole THEN SubSeq(all, 3, Len(all)) ELSE all]]
     /\ handled' = IF whole THEN [handled EXCEPT ![s] = Append(@, SubSeq(all, 1, 2))] ELSE handled
     /\ up' = [up EXCEPT ![s] = ~whole]
     /\ UNCHANGED <<config, ctx, now, committing, chan, executing, data, link, restarts>>

-----------------------------------------------------------------------------
Committing == Commit \/ Push \/ Return
Executor(w) == Take(w) \/ (\E ok \in BOOLEAN : Sent(w, ok))
Sender(s) == Dial(s) \/ DialFails(s) \/ Write(s) \/ \E k \in 0 .. 1 : WriteFails(s, k)
Service(s) == \E i \in DOMAIN conns[s], k \in 1 .. 2 : Read(s, i, k)

Next ==
  \/ Tick \/ Cancel \/ (\E s \in Senders : Restart(s))
  \/ Committing
  \/ \E w \in Workers : Executor(w) \/ Exit(w)
  \/ \E s \in Senders : Sender(s) \/ Service(s)

SafeSpec == Init /\ [][Next]_vars

(***************************************************************************)
(* Fairness: goroutines run, RPC calls return, a dial and a write take a   *)
(* second at most.                                                         *)
(***************************************************************************)
Spec ==
  /\ SafeSpec
  /\ WF_vars(Push) /\ WF_vars(Return)
  /\ \A w \in Workers : WF_vars(Executor(w))
  /\ \A s \in Senders : WF_vars(Sender(s))

-----------------------------------------------------------------------------
(* Properties.                                                             *)

Halfs == [of : Commands, part : 1 .. 2]
Connections == [wire : Seq(Halfs), buf : Seq(Halfs), done : BOOLEAN]

TypeOK ==
  /\ test \in BOOLEAN /\ mode \in Modes /\ ctx \in {"open", "done"}
  /\ now \in 0 .. MaxTime /\ commits \in 0 .. MaxCommits
  /\ commit = Idle \/ commit \in [at : 1 .. Len(Way) + 1, what : Commands]
  /\ tpu \in Seq(Commands)
  /\ chan \in [Nodes -> Seq(Commands)] /\ \A i \in Nodes : Len(chan[i]) <= CommandCap
  /\ asked \in [Nodes -> [1 .. MaxCommits -> Nat]]
  /\ simulated \in [Nodes -> [1 .. MaxCommits -> Nat]]
  /\ passed \in [Nodes -> SUBSET [what : Commands, at : 0 .. MaxTime]]
  /\ worker \in [Workers -> {Idle, [at |-> "exited"]} \cup [at : {"send"}, what : Commands]]
  /\ data \in [Senders -> Seq(Commands)] /\ \A s \in Senders : Len(data[s]) <= DataCap
  /\ conns \in [Senders -> Seq(Connections)]
  /\ link \in [Senders -> Nat] /\ \A s \in Senders : link[s] <= Len(conns[s])
  /\ handled \in [Senders -> Seq(Seq(Halfs))]
  /\ up \in [Senders -> BOOLEAN] /\ restarts \in 0 .. MaxRestarts

\* The calls of send() that the executors of a node made for a command.
Made(i, n) == asked[i][n] + simulated[i][n]

\* The executors of a node call send() once for a command at most, with eight of them
\* taking from one channel, and with an answer that is an error or lost: a transaction
\* that the node forwarded in spite of the error would be sent again.  A build with
\* Test asks no node to send.
AskedOnce ==
  \A i \in Nodes, n \in 1 .. MaxCommits : Made(i, n) <= 1 /\ (test => asked[i][n] = 0)

\* The frames that a service handles are those its sender wrote, each whole
\* and none twice, whatever pieces the stream comes in, and although writes fail half
\* way and connections overlap; and no frame is left in the buffer while the
\* service waits for more, for it takes one frame of a Read at most.
FramesWhole ==
  \A s \in Senders :
    /\ \A i \in DOMAIN handled[s] :
         /\ handled[s][i] = Halves(handled[s][i][1].of)
         /\ \A j \in 1 .. i - 1 : handled[s][j] # handled[s][i]
    /\ \A i \in DOMAIN conns[s] : Len(conns[s][i].buf) < 2

\* The goroutine that trades gets out of Commit while the trader runs: a service
\* that is down, and one that crashed, costs it nothing but the message.
CommitReturns == []<>(commit = Idle \/ ctx = "done")

\* Every node is asked to send every command, or has it simulated if Test is set,
\* unless its executors were late, or early: they let a command go only if MaxAge had
\* passed since its id, or if its id, to which the calculator may have added, had not
\* come yet.
Settled(i, n) ==
  \/ IF test THEN simulated[i][n] = 1 ELSE asked[i][n] = 1
  \/ \E p \in passed[i] :
       p.what.n = n /\ (p.at > p.what.id + MaxAge \/ p.at < p.what.id)
EveryNodeAsked ==
  []<>(\/ \A i \in Nodes, n \in 1 .. commits : Settled(i, n)
       \/ mode \notin {1, 3, 4} \/ ctx = "done")

\* Every channel keeps to its capacity, and every stream to its frames.
StreamsSound == TypeOK /\ FramesWhole

\* Commands pass: through Commit, whatever the services do, and to every node in time.
CommandsPass == CommitReturns /\ EveryNodeAsked
=============================================================================
