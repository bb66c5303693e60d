--------------------------- MODULE DeliveryProofs ---------------------------
(***************************************************************************)
(* Proofs about Delivery for any number of nodes, executors, senders and   *)
(* commands and any capacities: its types, that no node is asked twice for *)
(* a command, and that the service handles whole frames, each once.        *)
(***************************************************************************)
EXTENDS Delivery, SequenceTheorems, TLAPS

USE DeliveryAssumption

-----------------------------------------------------------------------------
(* Sequences.                                                              *)

\* What an append and a tail leave.
LEMMA Appended ==
  ASSUME NEW S, NEW q \in Seq(S), NEW e \in S
  PROVE  /\ Append(q, e) \in Seq(S) /\ Len(Append(q, e)) = Len(q) + 1
         /\ \A i \in DOMAIN Append(q, e) :
              (i \in DOMAIN q /\ Append(q, e)[i] = q[i]) \/ (i = Len(q) + 1 /\ Append(q, e)[i] = e)
         /\ \A i \in DOMAIN q : i \in DOMAIN Append(q, e) /\ Append(q, e)[i] = q[i]
         /\ Len(q) + 1 \in DOMAIN Append(q, e) /\ Append(q, e)[Len(q) + 1] = e
         /\ DOMAIN q = 1 .. Len(q) /\ Len(q) \in Nat
BY AppendProperties, LenProperties

\* What is left of a channel after its head is taken.
LEMMA Tailed ==
  ASSUME NEW S, NEW q \in Seq(S), q # <<>>
  PROVE  /\ Tail(q) \in Seq(S) /\ Len(Tail(q)) = Len(q) - 1 /\ Head(q) \in S
         /\ 1 \in DOMAIN q /\ Head(q) = q[1]
         /\ \A i \in DOMAIN Tail(q) : i + 1 \in DOMAIN q /\ Tail(q)[i] = q[i + 1] /\ i \in Nat \ {0}
         /\ DOMAIN q = 1 .. Len(q) /\ DOMAIN Tail(q) = 1 .. Len(q) - 1 /\ Len(q) \in Nat
BY HeadTailProperties, LenProperties, EmptySeq

\* The first k of w go behind b.
Moves(S, b, w, k) ==
  /\ SubSeq(w, 1, k) \in Seq(S) /\ SubSeq(w, k + 1, Len(w)) \in Seq(S)
  /\ (b \o SubSeq(w, 1, k)) \o SubSeq(w, k + 1, Len(w)) = b \o w
  /\ b \o SubSeq(w, 1, k) \in Seq(S) /\ Len(b \o SubSeq(w, 1, k)) = Len(b) + k

\* What is read from a stream and what is left make the stream.
LEMMA Moved ==
  ASSUME NEW S, NEW b \in Seq(S), NEW w \in Seq(S), NEW k \in 0 .. Len(w)
  PROVE  Moves(S, b, w, k)
<1>1. Len(w) \in Nat /\ \A i \in 1 .. Len(w) : w[i] \in S
  BY LenProperties, ElementOfSeq
<1>2. SubSeq(w, 1, k) \in Seq(S) /\ SubSeq(w, k + 1, Len(w)) \in Seq(S) /\ Len(SubSeq(w, 1, k)) = k
  BY <1>1, SubSeqProperties
<1> DEFINE x == SubSeq(w, 1, k)
           y == SubSeq(w, k + 1, Len(w))
<1>3. x \o y = w
  <2>1. 1 \in 1 .. Len(w) + 1 /\ k \in 1 - 1 .. Len(w) /\ Len(w) \in k .. Len(w)
    BY <1>1
  <2>2. SubSeq(w, 1, k) \o SubSeq(w, k + 1, Len(w)) = SubSeq(w, 1, Len(w))
    BY <2>1, ConcatAdjacentSubSeq
  <2> QED  BY <2>2, SubSeqFull
<1>4. x \in Seq(S) /\ y \in Seq(S) /\ Len(x) = k
  BY <1>2
<1>5. (b \o x) \o y = b \o w /\ b \o x \in Seq(S) /\ Len(b \o x) = Len(b) + k
  <2> HIDE DEF x, y
  <2>1. (b \o x) \o y = b \o (x \o y)
    BY <1>4, ConcatAssociative, SMTT(30)
  <2> QED  BY <1>3, <1>4, <2>1, ConcatProperties
<1> HIDE DEF x, y
<1>6. /\ x \in Seq(S) /\ y \in Seq(S) /\ (b \o x) \o y = b \o w
      /\ b \o x \in Seq(S) /\ Len(b \o x) = Len(b) + k
  BY ONLY <1>4, <1>5, Zenon
<1> QED  BY ONLY <1>6, Zenon DEF Moves, x, y

-----------------------------------------------------------------------------
(* The way of a command.                                                   *)

Stops == [to : {"tpu", "rpc", "sender"}, i : Nat]

\* No channel is on the way of a command twice.
LEMMA WayOnce ==
  /\ Way \in Seq(Stops)
  /\ \A j, k \in 1 .. Len(Way) : Way[j] = Way[k] => j = k
  /\ \A j \in 1 .. Len(Way) : /\ Way[j].to = "rpc" => Way[j].i \in Nodes
                              /\ Way[j].to = "sender" => Way[j].i \in Senders
<1> DEFINE A == IF mode \in {2, 3, 4} /\ ~test THEN <<[to |-> "tpu", i |-> 1]>> ELSE <<>>
           B == IF mode \in {1, 3, 4} THEN [i \in Nodes |-> [to |-> "rpc", i |-> i]] ELSE <<>>
           C == IF mode \in {4, 5} THEN [i \in Senders |-> [to |-> "sender", i |-> i]] ELSE <<>>
<1>1. A \in Seq(Stops) /\ Len(A) \in {0, 1} /\ \A j \in 1 .. Len(A) : A[j].to = "tpu"
  <2>1. [to |-> "tpu", i |-> 1] \in Stops
    BY DEF Stops
  <2>2. <<[to |-> "tpu", i |-> 1]>> \in Seq(Stops)
    BY <2>1
  <2> QED  BY <2>2, EmptySeq
<1>2. B \in Seq(Stops) /\ Len(B) \in Nat /\ \A j \in 1 .. Len(B) : B[j] = [to |-> "rpc", i |-> j] /\ j \in Nodes
  <2>1. [i \in Nodes |-> [to |-> "rpc", i |-> i]] \in [1 .. NNodes -> Stops]
    BY DEF Nodes, Stops
  <2>2. [i \in Nodes |-> [to |-> "rpc", i |-> i]] \in Seq(Stops)
    BY <2>1, SeqDef
  <2>3. Len([i \in Nodes |-> [to |-> "rpc", i |-> i]]) = NNodes
    BY <2>2, LenProperties DEF Nodes
  <2> QED  BY <2>2, <2>3, EmptySeq DEF Nodes
<1>3. C \in Seq(Stops) /\ Len(C) \in Nat /\ \A j \in 1 .. Len(C) : C[j] = [to |-> "sender", i |-> j] /\ j \in Senders
  <2>1. [i \in Senders |-> [to |-> "sender", i |-> i]] \in [1 .. NSenders -> Stops]
    BY DEF Senders, Stops
  <2>2. [i \in Senders |-> [to |-> "sender", i |-> i]] \in Seq(Stops)
    BY <2>1, SeqDef
  <2>3. Len([i \in Senders |-> [to |-> "sender", i |-> i]]) = NSenders
    BY <2>2, LenProperties DEF Senders
  <2> QED  BY <2>2, <2>3, EmptySeq DEF Senders
<1>4. Way = (A \o B) \o C
  BY DEF Way
<1> HIDE DEF A, B, C
<1>5. /\ A \o B \in Seq(Stops) /\ Len(A \o B) = Len(A) + Len(B)
      /\ \A j \in 1 .. Len(A) + Len(B) : (A \o B)[j] = IF j <= Len(A) THEN A[j] ELSE B[j - Len(A)]
  BY <1>1, <1>2, ConcatProperties
<1>6. /\ Way \in Seq(Stops) /\ Len(Way) = Len(A) + Len(B) + Len(C)
      /\ \A j \in 1 .. Len(A) + Len(B) + Len(C) :
           Way[j] = IF j <= Len(A) + Len(B) THEN (A \o B)[j] ELSE C[j - (Len(A) + Len(B))]
  BY <1>3, <1>4, <1>5, ConcatProperties
<1>a. Len(A) \in Nat /\ Len(B) \in Nat /\ Len(C) \in Nat
  BY <1>1, <1>2, <1>3
<1>7. ASSUME NEW j \in 1 .. Len(Way)
      PROVE  \/ j <= Len(A) /\ Way[j].to = "tpu"
             \/ j > Len(A) /\ j <= Len(A) + Len(B) /\ Way[j].to = "rpc" /\ Way[j].i = j - Len(A)
                /\ Way[j].i \in Nodes
             \/ j > Len(A) + Len(B) /\ Way[j].to = "sender" /\ Way[j].i = j - (Len(A) + Len(B))
                /\ Way[j].i \in Senders
  <2>1. CASE j <= Len(A)
    BY <1>1, <1>2, <1>3, <1>5, <1>6, <2>1
  <2>2. CASE j > Len(A) /\ j <= Len(A) + Len(B)
    <3>1. j - Len(A) \in 1 .. Len(B)
      BY <1>1, <1>2, <2>2
    <3>2. Way[j] = B[j - Len(A)]
      BY <1>1, <1>2, <1>5, <1>6, <2>2
    <3>3. Way[j] = [to |-> "rpc", i |-> j - Len(A)] /\ j - Len(A) \in Nodes
      BY <1>2, <3>1, <3>2
    <3>4. Way[j].to = "rpc" /\ Way[j].i = j - Len(A)
      BY <3>3
    <3> QED  BY <2>2, <3>3, <3>4
  <2>3. CASE j > Len(A) + Len(B)
    <3>1. j - (Len(A) + Len(B)) \in 1 .. Len(C)
      BY <1>1, <1>2, <1>3, <1>6, <2>3
    <3>2. Way[j] = C[j - (Len(A) + Len(B))]
      BY <1>1, <1>2, <1>6, <2>3
    <3>3. Way[j] = [to |-> "sender", i |-> j - (Len(A) + Len(B))] /\ j - (Len(A) + Len(B)) \in Senders
      BY <1>3, <3>1, <3>2
    <3>4. Way[j].to = "sender" /\ Way[j].i = j - (Len(A) + Len(B))
      BY <3>3
    <3> QED  BY <2>3, <3>3, <3>4
  <2> QED  BY <1>1, <1>2, <1>3, <2>1, <2>2, <2>3
<1>8. ASSUME NEW j \in 1 .. Len(Way), NEW k \in 1 .. Len(Way), Way[j] = Way[k]
      PROVE  j = k
  <2>1. j \in Int /\ k \in Int /\ (Way[j].to = "tpu" => j <= Len(A))
        /\ (Way[k].to = "tpu" => k <= Len(A))
    BY <1>a, <1>6, <1>7
  <2>2. CASE Way[j].to = "tpu"
    <3>1. j <= Len(A) /\ k <= Len(A) /\ Len(A) \in {0, 1}
      BY <1>1, <1>8, <2>1, <2>2
    <3> QED  BY <1>6, <1>a, <3>1, SMTT(30)
  <2>3. CASE Way[j].to = "rpc"
    <3>1. Way[j].i = j - Len(A) /\ Way[k].i = k - Len(A)
      BY <1>7, <1>8, <2>3
    <3> QED  BY <1>8, <1>a, <2>1, <3>1
  <2>4. CASE Way[j].to = "sender"
    <3>1. Way[j].i = j - (Len(A) + Len(B)) /\ Way[k].i = k - (Len(A) + Len(B))
      BY <1>7, <1>8, <2>4
    <3> QED  BY <1>8, <1>a, <2>1, <3>1
  <2> QED  BY <1>7, <2>2, <2>3, <2>4
<1>9. ASSUME NEW j \in 1 .. Len(Way)
      PROVE  /\ Way[j].to = "rpc" => Way[j].i \in Nodes
             /\ Way[j].to = "sender" => Way[j].i \in Senders
  BY <1>7
<1> QED  BY <1>6, <1>8, <1>9

-----------------------------------------------------------------------------
(* The invariant.                                                          *)

\* Commit has still to give its command to this channel.
Ahead(to, i) == commit # Idle /\ \E k \in commit.at .. Len(Way) : Way[k] = [to |-> to, i |-> i]

\* The stream of connection i of sender s from its oldest byte not handled on.
Stream(s, i) == conns[s][i].buf \o conns[s][i].wire

\* Numbers of commands that an executor of node i has taken; that sender s has written.
Busy(w) == worker[w].at = "send"
Taken(i) ==
  {n \in 1 .. MaxCommits : \/ Made(i, n) > 0
                           \/ \E w \in Workers : w[1] = i /\ Busy(w) /\ worker[w].what.n = n}
Written(s) ==
  {n \in 1 .. MaxCommits :
     \/ \E i \in DOMAIN conns[s] : \E p \in DOMAIN Stream(s, i) : Stream(s, i)[p].of.n = n
     \/ \E h \in DOMAIN handled[s] : handled[s][h][1].of.n = n}

\* The command of Commit is the newest.
Numbered == commit # Idle => commit.what.n = commits

\* A channel keeps the order of the calls of Commit: what was taken out is older than
\* what is in it, and that is older than what Commit has still to put into it.
NodesInOrder ==
  \A i \in Nodes :
    /\ \A j, k \in DOMAIN chan[i] : j < k => chan[i][j].n < chan[i][k].n
    /\ \A j \in DOMAIN chan[i] : /\ chan[i][j].n <= commits
                                 /\ Ahead("rpc", i) => chan[i][j].n < commits
    /\ \A n \in Taken(i) : /\ n <= commits /\ (Ahead("rpc", i) => n < commits)
                           /\ \A j \in DOMAIN chan[i] : n < chan[i][j].n
SendersInOrder ==
  \A s \in Senders :
    /\ \A j, k \in DOMAIN data[s] : j < k => data[s][j].n < data[s][k].n
    /\ \A j \in DOMAIN data[s] : /\ data[s][j].n <= commits
                                 /\ Ahead("sender", s) => data[s][j].n < commits
    /\ \A n \in Written(s) : /\ n <= commits /\ (Ahead("sender", s) => n < commits)
                             /\ \A j \in DOMAIN data[s] : n < data[s][j].n

\* What an executor is about to send nobody of its node has sent or is about to send.
InOneHand ==
  \A w \in Workers : Busy(w) =>
    /\ Made(w[1], worker[w].what.n) = 0
    /\ \A v \in Workers : v # w /\ v[1] = w[1] /\ Busy(v) => worker[v].what.n # worker[w].what.n

\* A stream begins with a frame and is made of frames; only the last can be half, on
\* a connection that was given up.
Framed ==
  \A s \in Senders : \A i \in DOMAIN conns[s] :
    /\ 1 \in DOMAIN Stream(s, i) => Stream(s, i)[1].part = 1
    /\ \A p \in DOMAIN Stream(s, i) : p + 1 \in DOMAIN Stream(s, i) =>
         /\ Stream(s, i)[p + 1].part # Stream(s, i)[p].part
         /\ Stream(s, i)[p].part = 1 => Stream(s, i)[p + 1].of = Stream(s, i)[p].of
    /\ link[s] = i => \A p \in DOMAIN Stream(s, i) :
                        p + 1 \notin DOMAIN Stream(s, i) => Stream(s, i)[p].part = 2
    /\ Len(conns[s][i].buf) < 2

\* No command is in two frames of the streams, or in one and handled, or handled twice.
Apart ==
  \A s \in Senders :
    /\ \A i, j \in DOMAIN conns[s] : \A p \in DOMAIN Stream(s, i), q \in DOMAIN Stream(s, j) :
         /\ Stream(s, i)[p].of.n = Stream(s, j)[q].of.n
         /\ Stream(s, i)[p].part = Stream(s, j)[q].part
         => i = j /\ p = q
    /\ \A h \in DOMAIN handled[s] :
         /\ handled[s][h] = Halves(handled[s][h][1].of)
         /\ \A i \in DOMAIN conns[s] : \A p \in DOMAIN Stream(s, i) :
              Stream(s, i)[p].of.n # handled[s][h][1].of.n
         /\ \A g \in DOMAIN handled[s] :
              g # h => handled[s][g][1].of.n # handled[s][h][1].of.n

IInv == /\ TypeOK /\ AskedOnce /\ Numbered /\ NodesInOrder /\ SendersInOrder
        /\ InOneHand /\ Framed /\ Apart

-----------------------------------------------------------------------------
(* Types.                                                                  *)

\* The fields of a command, from Commands.
LEMMA CommandsAre ==
  ASSUME NEW c \in Commands
  PROVE  c.n \in 1 .. MaxCommits /\ c.id \in 0 .. MaxTime + MaxSalt /\ c.n \in Nat
BY DEF Commands

\* While Commit distributes a command, its record holds that command and a place of the way,
\* and moving on keeps the first.
LEMMA CommitTyped ==
  ASSUME TypeOK, commit # Idle
  PROVE  /\ commit.at \in 1 .. Len(Way) + 1 /\ commit.what \in Commands /\ Len(Way) \in Nat
         /\ [commit EXCEPT !.at = @ + 1] = [at |-> commit.at + 1, what |-> commit.what]
<1>1. commit \in [at : 1 .. Len(Way) + 1, what : Commands]
  BY DEF TypeOK
<1>2. Len(Way) \in Nat
  BY WayOnce, LenProperties
<1>3. commit.at \in 1 .. Len(Way) + 1 /\ commit.what \in Commands
  BY ONLY <1>1
<1>4. [commit EXCEPT !.at = @ + 1] = [at |-> commit.at + 1, what |-> commit.what]
  BY ONLY <1>1
<1> QED  BY ONLY <1>2, <1>3, <1>4

\* An executor that sends holds a command, for the node it was started for.
LEMMA WorkerTyped ==
  ASSUME TypeOK, NEW w \in Workers, worker[w].at = "send"
  PROVE  worker[w].what \in Commands /\ w[1] \in Nodes /\ worker[w].what.n \in 1 .. MaxCommits
<1>1. worker[w] \in {Idle, [at |-> "exited"]} \cup [at : {"send"}, what : Commands]
  BY DEF TypeOK
<1>2. worker[w].what \in Commands
  BY <1>1 DEF Idle
<1> QED  BY <1>2, CommandsAre DEF Workers

\* A connection of a sender is a record of two sequences of halves, and its stream is their
\* concatenation.
LEMMA StreamTyped ==
  ASSUME TypeOK, NEW s \in Senders, NEW i \in DOMAIN conns[s]
  PROVE  /\ conns[s][i] \in Connections /\ conns[s][i].buf \in Seq(Halfs) /\ conns[s][i].wire \in Seq(Halfs)
         /\ Stream(s, i) \in Seq(Halfs) /\ conns[s] \in Seq(Connections)
         /\ conns[s][i] = [wire |-> conns[s][i].wire, buf |-> conns[s][i].buf, done |-> conns[s][i].done]
<1>1. conns[s] \in Seq(Connections)
  BY DEF TypeOK
<1>2. conns[s][i] \in Connections
  BY <1>1, LenProperties, ElementOfSeq
<1>3. conns[s][i].buf \in Seq(Halfs) /\ conns[s][i].wire \in Seq(Halfs)
  BY <1>2 DEF Connections
<1> QED  BY <1>1, <1>2, <1>3, ConcatProperties DEF Stream, Connections

\* A frame is two halves, in order; what an aborted write puts on the wire is none of them or
\* the first.
LEMMA HalvesAre ==
  ASSUME NEW c \in Commands
  PROVE  /\ Halves(c) \in Seq(Halfs) /\ Len(Halves(c)) = 2 /\ Halves(c)[1].of = c
         /\ Halves(c)[1] = [of |-> c, part |-> 1] /\ Halves(c)[2] = [of |-> c, part |-> 2]
         /\ \A k \in 0 .. 1 : /\ SubSeq(Halves(c), 1, k) \in Seq(Halfs)
                              /\ Len(SubSeq(Halves(c), 1, k)) = k
                              /\ k = 1 => SubSeq(Halves(c), 1, k)[1] = [of |-> c, part |-> 1]
<1>1. [of |-> c, part |-> 1] \in Halfs /\ [of |-> c, part |-> 2] \in Halfs
  BY DEF Halfs
<1>2. Halves(c) \in Seq(Halfs) /\ Len(Halves(c)) = 2
  BY <1>1 DEF Halves
<1>3. Halves(c)[1] = [of |-> c, part |-> 1] /\ Halves(c)[2] = [of |-> c, part |-> 2]
  BY DEF Halves
<1>4. ASSUME NEW k \in 0 .. 1
      PROVE  /\ SubSeq(Halves(c), 1, k) \in Seq(Halfs)
             /\ Len(SubSeq(Halves(c), 1, k)) = k
             /\ k = 1 => SubSeq(Halves(c), 1, k)[1] = [of |-> c, part |-> 1]
  <2>1. \A i \in 1 .. k : Halves(c)[i] \in Halfs
    BY <1>1, <1>3
  <2> HIDE DEF Halves
  <2>2. /\ SubSeq(Halves(c), 1, k) \in Seq(Halfs)
        /\ Len(SubSeq(Halves(c), 1, k)) = IF 1 <= k THEN k - 1 + 1 ELSE 0
        /\ \A i \in 1 .. k - 1 + 1 : SubSeq(Halves(c), 1, k)[i] = Halves(c)[1 + i - 1]
    BY <2>1, SubSeqProperties
  <2> QED  BY <1>3, <2>2
<1> QED  BY <1>2, <1>3, <1>4

\* The bytes that go to a connection.
LEMMA Sends ==
  ASSUME TypeOK, NEW s \in Senders, data[s] # <<>>, link[s] # 0, NEW x \in Seq(Halfs),
         conns' = [conns EXCEPT ![s][link[s]].wire = @ \o x]
  PROVE  /\ link[s] \in DOMAIN conns[s] /\ conns' \in [Senders -> Seq(Connections)]
         /\ \A t \in Senders : DOMAIN conns'[t] = DOMAIN conns[t] /\ Len(conns'[t]) = Len(conns[t])
         /\ \A t \in Senders : \A i \in DOMAIN conns[t] :
              /\ t # s \/ i # link[s] => conns'[t][i] = conns[t][i]
              /\ conns'[t][i].buf = conns[t][i].buf
         /\ conns'[s][link[s]].wire = conns[s][link[s]].wire \o x
<1> DEFINE l == link[s]
           e == [conns[s][l] EXCEPT !.wire = @ \o x]
<1>1. conns \in [Senders -> Seq(Connections)] /\ conns[s] \in Seq(Connections)
  BY DEF TypeOK
<1>2. DOMAIN conns[s] = 1 .. Len(conns[s]) /\ l \in DOMAIN conns[s]
  BY <1>1, LenProperties, SMTT(30) DEF TypeOK
<1>3. conns[s][l] \in Connections /\ conns[s][l].wire \in Seq(Halfs)
  BY <1>2, StreamTyped
<1>4. conns[s][l].wire \o x \in Seq(Halfs)
  BY <1>3, ConcatProperties
<1>5. e \in Connections /\ e.wire = conns[s][l].wire \o x /\ e.buf = conns[s][l].buf
  BY <1>3, <1>4 DEF Connections
<1>6. conns' = [conns EXCEPT ![s] = [conns[s] EXCEPT ![l] = e]]
  BY <1>1
<1> HIDE DEF e, l
<1>7. /\ [conns[s] EXCEPT ![l] = e] \in Seq(Connections)
      /\ Len([conns[s] EXCEPT ![l] = e]) = Len(conns[s])
      /\ DOMAIN [conns[s] EXCEPT ![l] = e] = DOMAIN conns[s]
      /\ \A j \in DOMAIN conns[s] : [conns[s] EXCEPT ![l] = e][j] = IF j = l THEN e ELSE conns[s][j]
  BY <1>1, <1>2, <1>5, ExceptSeq
<1>8. conns' \in [Senders -> Seq(Connections)] /\ conns'[s] = [conns[s] EXCEPT ![l] = e]
      /\ \A t \in Senders \ {s} : conns'[t] = conns[t]
  BY <1>1, <1>6, <1>7, ZenonT(30)
<1>9. \A t \in Senders : DOMAIN conns'[t] = DOMAIN conns[t] /\ Len(conns'[t]) = Len(conns[t])
  BY <1>7, <1>8
<1>10. \A t \in Senders : \A i \in DOMAIN conns[t] :
              /\ t # s \/ i # l => conns'[t][i] = conns[t][i]
              /\ conns'[t][i].buf = conns[t][i].buf
  BY <1>5, <1>7, <1>8
<1>11. conns'[s][l].wire = conns[s][l].wire \o x
  BY <1>2, <1>5, <1>7, <1>8
<1> QED  BY <1>2, <1>8, <1>9, <1>10, <1>11 DEF l

Cuts(S, all, nw) ==
  /\ SubSeq(all, 1, 2) \in Seq(S) /\ Len(SubSeq(all, 1, 2)) = 2
  /\ SubSeq(all, 3, Len(all)) \in Seq(S) /\ Len(SubSeq(all, 3, Len(all))) < 2
  /\ SubSeq(all, 1, 2) \o (SubSeq(all, 3, Len(all)) \o nw) = all \o nw

\* The frame that a Read cuts off, what stays in the buffer, and what was not read.
LEMMA Cut ==
  ASSUME NEW S, NEW all \in Seq(S), NEW nw \in Seq(S), Len(all) \in 2 .. 3
  PROVE  Cuts(S, all, nw)
<1> DEFINE f == SubSeq(all, 1, 2)
           r == SubSeq(all, 3, Len(all))
<1>1. \A j \in 1 .. Len(all) : all[j] \in S
  BY ElementOfSeq
<1>2. f \in Seq(S) /\ Len(f) = 2
  BY <1>1, SubSeqProperties
<1>3. r \in Seq(S) /\ Len(r) = IF 3 <= Len(all) THEN Len(all) - 3 + 1 ELSE 0
  BY <1>1, SubSeqProperties
<1>4. f \o r = all
  <2>1. 1 \in 1 .. Len(all) + 1 /\ 2 \in 1 - 1 .. Len(all) /\ Len(all) \in 2 .. Len(all)
    <3>1. PICK n \in 2 .. 3 : n = Len(all)
      OBVIOUS
    <3>2. 1 \in 1 .. n + 1 /\ 2 \in 1 - 1 .. n /\ n \in 2 .. n
      BY ONLY n \in 2 .. 3
    <3> QED  BY ONLY <3>1, <3>2, Zenon
  <2>2. SubSeq(all, 1, 2) \o SubSeq(all, 2 + 1, Len(all)) = SubSeq(all, 1, Len(all))
    BY <2>1, ConcatAdjacentSubSeq
  <2>3. SubSeq(all, 1, Len(all)) = all
    BY SubSeqFull
  <2> QED  BY <2>2, <2>3
<1> HIDE DEF f, r
<1>5. (f \o r) \o nw = f \o (r \o nw)
  <2>1. f \in Seq(S) /\ r \in Seq(S) /\ nw \in Seq(S)
    BY <1>2, <1>3
  <2> QED  BY ONLY <2>1, ConcatAssociative, SMTT(30)
<1>6. Len(r) < 2
  <2>1. Len(all) \in 2 .. 3 /\ Len(r) = IF 3 <= Len(all) THEN Len(all) - 3 + 1 ELSE 0
    BY <1>3
  <2>2. \A n : \A m \in 2 .. 3 : n = (IF 3 <= m THEN m - 3 + 1 ELSE 0) => n < 2
    OBVIOUS
  <2> QED  BY ONLY <2>1, <2>2, Zenon
<1>7. /\ f \in Seq(S) /\ Len(f) = 2 /\ r \in Seq(S) /\ Len(r) < 2
      /\ f \o (r \o nw) = all \o nw
  BY ONLY <1>2, <1>3, <1>4, <1>5, <1>6, Zenon
<1> QED  BY ONLY <1>7, Zenon DEF Cuts, f, r

\* What a Read does to the stream: nothing, or it takes the first frame off.
LEMMA Reads ==
  ASSUME TypeOK, NEW s \in Senders, NEW i \in DOMAIN conns[s], NEW k \in 1 .. 2, Read(s, i, k),
         Len(conns[s][i].buf) < 2
  PROVE  /\ conns' \in [Senders -> Seq(Connections)]
         /\ \A t \in Senders : DOMAIN conns'[t] = DOMAIN conns[t] /\ Len(conns'[t]) = Len(conns[t])
         /\ \A t \in Senders : \A j \in DOMAIN conns[t] :
              t # s \/ j # i => conns'[t][j] = conns[t][j]
         /\ Len(conns'[s][i].buf) < 2 /\ Stream(s, i)' \in Seq(Halfs)
         /\ \/ Stream(s, i)' = Stream(s, i) /\ handled' = handled
            \/ \E f \in Seq(Halfs) :
                 /\ Len(f) = 2 /\ Stream(s, i) = f \o Stream(s, i)'
                 /\ handled' = [handled EXCEPT ![s] = Append(@, f)]
<1> DEFINE b == conns[s][i].buf
           wi == conns[s][i].wire
           all == b \o SubSeq(wi, 1, k)
           whole == Len(all) >= 2
           nb == IF whole THEN SubSeq(all, 3, Len(all)) ELSE all
           nw == SubSeq(wi, k + 1, Len(wi))
           e == [conns[s][i] EXCEPT !.wire = nw, !.buf = nb]
<1>d. conns \in [Senders -> Seq(Connections)]
  BY DEF TypeOK
<1>1. /\ conns \in [Senders -> Seq(Connections)] /\ conns[s] \in Seq(Connections)
      /\ conns[s][i] \in Connections /\ b \in Seq(Halfs) /\ wi \in Seq(Halfs)
  BY <1>d, StreamTyped
<1>a. k <= Len(wi)
  BY DEF Read
<1>b. conns' = [conns EXCEPT ![s][i] = e]
  BY DEF Read
<1>c. handled' = IF whole THEN [handled EXCEPT ![s] = Append(@, SubSeq(all, 1, 2))] ELSE handled
  BY DEF Read
<1>4. conns' = [conns EXCEPT ![s] = [conns[s] EXCEPT ![i] = e]]
  <2> HIDE DEF e
  <2> QED  BY <1>1, <1>b
<1>2. /\ nw \in Seq(Halfs) /\ nb \in Seq(Halfs) /\ Len(nb) < 2
      /\ whole => /\ SubSeq(all, 1, 2) \in Seq(Halfs) /\ Len(SubSeq(all, 1, 2)) = 2
                  /\ SubSeq(all, 1, 2) \o (nb \o nw) = b \o wi
      /\ ~whole => nb \o nw = b \o wi
  <2>1. Len(b) < 2 /\ Len(b) \in Nat /\ Len(wi) \in Nat
    BY <1>1, LenProperties
  <2> HIDE DEF b, wi
  <2>2. b \in Seq(Halfs) /\ wi \in Seq(Halfs) /\ k \in 0 .. Len(wi)
    BY <1>1, <1>a, <2>1
  <2>a. /\ SubSeq(wi, 1, k) \in Seq(Halfs) /\ SubSeq(wi, k + 1, Len(wi)) \in Seq(Halfs)
        /\ (b \o SubSeq(wi, 1, k)) \o SubSeq(wi, k + 1, Len(wi)) = b \o wi
        /\ b \o SubSeq(wi, 1, k) \in Seq(Halfs) /\ Len(b \o SubSeq(wi, 1, k)) = Len(b) + k
    <3>1. Moves(Halfs, b, wi, k)
      BY ONLY <2>2, Moved, Zenon
    <3> QED  BY ONLY <3>1, Zenon DEF Moves
  <2>3. /\ nw \in Seq(Halfs) /\ all \o nw = b \o wi
        /\ all \in Seq(Halfs) /\ Len(all) = Len(b) + k
    BY ONLY <2>a
  <2>4. Len(all) \in 1 .. 3
    BY <2>1, <2>3
  <2> HIDE DEF all, nw
  <2>5. CASE whole
    <3>0. Len(all) >= 2
      BY <2>5
    <3>1. nb = SubSeq(all, 3, Len(all)) /\ Len(all) \in 2 .. 3
      <4>1. nb = SubSeq(all, 3, Len(all))
        BY <2>5
      <4>2. Len(all) \in 2 .. 3
        <5>1. \A m : m \in 1 .. 3 /\ m >= 2 => m \in 2 .. 3
          OBVIOUS
        <5> QED  BY ONLY <2>4, <3>0, <5>1, Zenon
      <4> QED  BY <4>1, <4>2
    <3>2. /\ SubSeq(all, 1, 2) \in Seq(Halfs) /\ Len(SubSeq(all, 1, 2)) = 2
          /\ SubSeq(all, 3, Len(all)) \in Seq(Halfs) /\ Len(SubSeq(all, 3, Len(all))) < 2
          /\ SubSeq(all, 1, 2) \o (SubSeq(all, 3, Len(all)) \o nw) = all \o nw
      <4>1. Cuts(Halfs, all, nw)
        BY ONLY <2>3, <3>1, Cut, Zenon
      <4> QED  BY ONLY <4>1, Zenon DEF Cuts
    <3> HIDE DEF nb
    <3> QED  BY <2>3, <2>5, <3>1, <3>2
  <2>6. CASE ~whole
    <3>1. nb = all /\ Len(all) < 2
      BY <2>4, <2>6
    <3> HIDE DEF nb
    <3> QED  BY <2>3, <2>6, <3>1
  <2> QED  BY <2>5, <2>6
<1>8. e \in Connections /\ e.wire = nw /\ e.buf = nb
  <2> HIDE DEF nb
  <2> HIDE DEF nw
  <2> QED  BY <1>1, <1>2 DEF Connections
<1> HIDE DEF e, nb, whole, nw, all
<1>9. /\ [conns[s] EXCEPT ![i] = e] \in Seq(Connections)
      /\ Len([conns[s] EXCEPT ![i] = e]) = Len(conns[s])
      /\ DOMAIN [conns[s] EXCEPT ![i] = e] = DOMAIN conns[s]
      /\ \A j \in DOMAIN conns[s] : [conns[s] EXCEPT ![i] = e][j] = IF j = i THEN e ELSE conns[s][j]
  <2>1. conns[s] \in Seq(Connections) /\ e \in Connections /\ i \in DOMAIN conns[s]
    BY <1>1, <1>8
  <2> QED  BY ONLY <2>1, ExceptSeq, LenProperties
<1>10. conns' \in [Senders -> Seq(Connections)] /\ conns'[s] = [conns[s] EXCEPT ![i] = e]
       /\ \A t \in Senders \ {s} : conns'[t] = conns[t]
  BY <1>1, <1>4, <1>9
<1>11. Stream(s, i)' = nb \o nw /\ Stream(s, i) = b \o wi /\ conns'[s][i].buf = nb
  BY <1>1, <1>8, <1>9, <1>10 DEF Stream, b, wi
<1>12. nb \o nw \in Seq(Halfs)
  BY <1>2, ConcatProperties
<1>13. \A t \in Senders : DOMAIN conns'[t] = DOMAIN conns[t] /\ Len(conns'[t]) = Len(conns[t])
  BY <1>9, <1>10
<1>14. \A t \in Senders : \A j \in DOMAIN conns[t] :
         t # s \/ j # i => conns'[t][j] = conns[t][j]
  BY <1>9, <1>10
<1>15. CASE whole
  <2>1. /\ SubSeq(all, 1, 2) \in Seq(Halfs) /\ Len(SubSeq(all, 1, 2)) = 2
        /\ Stream(s, i) = SubSeq(all, 1, 2) \o Stream(s, i)'
        /\ handled' = [handled EXCEPT ![s] = Append(@, SubSeq(all, 1, 2))]
    BY <1>c, <1>2, <1>11, <1>15
  <2> QED  BY <1>2, <1>10, <1>11, <1>12, <1>13, <1>14, <2>1
<1>16. CASE ~whole
  <2>1. handled' = handled
    BY <1>c, <1>16
  <2>2. Stream(s, i)' = Stream(s, i)
    BY <1>2, <1>11, <1>16
  <2> QED  BY <1>2, <1>10, <1>11, <1>12, <1>13, <1>14, <2>1, <2>2
<1> QED  BY <1>15, <1>16

\* A connection that was made is empty, and one that was given up stays what it is.
LEMMA Dials ==
  ASSUME TypeOK, NEW s \in Senders, Dial(s)
  PROVE  /\ conns' \in [Senders -> Seq(Connections)] /\ Len(conns'[s]) = Len(conns[s]) + 1
         /\ \A t \in Senders \ {s} : conns'[t] = conns[t]
         /\ \A j \in DOMAIN conns'[s] :
              \/ j \in DOMAIN conns[s] /\ conns'[s][j] = conns[s][j]
              \/ /\ j = Len(conns[s]) + 1 /\ conns'[s][j].buf = <<>> /\ conns'[s][j].wire = <<>>
                 /\ DOMAIN Stream(s, j)' = {}
         /\ link' = [link EXCEPT ![s] = Len(conns[s]) + 1] /\ Len(conns[s]) \in Nat
<1> DEFINE e == [wire |-> <<>>, buf |-> <<>>, done |-> FALSE]
<1>1. conns \in [Senders -> Seq(Connections)] /\ conns[s] \in Seq(Connections)
  BY DEF TypeOK
<1>2. e \in Connections /\ e.buf = <<>> /\ e.wire = <<>>
  BY EmptySeq DEF Connections
<1>3. conns' = [conns EXCEPT ![s] = Append(conns[s], e)] /\ link' = [link EXCEPT ![s] = Len(conns[s]) + 1]
  BY <1>1 DEF Dial
<1> HIDE DEF e
<1>4. Append(conns[s], e) \in Seq(Connections) /\ Len(Append(conns[s], e)) = Len(conns[s]) + 1
      /\ \A j \in DOMAIN Append(conns[s], e) :
           \/ j \in DOMAIN conns[s] /\ Append(conns[s], e)[j] = conns[s][j]
           \/ j = Len(conns[s]) + 1 /\ Append(conns[s], e)[j] = e
      /\ Len(conns[s]) \in Nat
  BY <1>1, <1>2, Appended
<1>5. conns' \in [Senders -> Seq(Connections)] /\ conns'[s] = Append(conns[s], e)
      /\ \A t \in Senders \ {s} : conns'[t] = conns[t]
  BY <1>1, <1>3, <1>4
<1>6. ASSUME NEW j \in DOMAIN conns'[s], conns'[s][j] = e
      PROVE  conns'[s][j].buf = <<>> /\ conns'[s][j].wire = <<>> /\ DOMAIN Stream(s, j)' = {}
  <2>1. Stream(s, j)' = <<>> \o <<>>
    BY <1>2, <1>6 DEF Stream
  <2>2. <<>> \o <<>> = <<>>
    BY EmptySeq, ConcatEmptySeq
  <2> QED  BY <1>2, <1>6, <2>1, <2>2
<1> QED  BY <1>3, <1>4, <1>5, <1>6

-----------------------------------------------------------------------------
(* Steps and what they leave alone.                                        *)

\* The channels Commit passes are configured once.
LEMMA WaySame ==
  ASSUME UNCHANGED config
  PROVE  Way' = Way
BY DEF config, Way

\* What a channel was given is not ahead of Commit any more.
LEMMA AheadPush ==
  ASSUME TypeOK, Push, NEW to, NEW i
  PROVE  /\ Ahead(to, i)' => Ahead(to, i)
         /\ Way[commit.at] = [to |-> to, i |-> i] => Ahead(to, i) /\ ~Ahead(to, i)'
<1>1. /\ commit # Idle /\ commit.at \in 1 .. Len(Way) /\ Len(Way) \in Nat
      /\ commit' = [at |-> commit.at + 1, what |-> commit.what] /\ UNCHANGED config
  <2>1. commit # Idle /\ commit.at <= Len(Way) /\ commit' = [commit EXCEPT !.at = @ + 1] /\ UNCHANGED config
    BY DEF Push
  <2> QED  BY <2>1, CommitTyped
<1>2. Way' = Way
  BY <1>1, WaySame
<1>3. commit'.at = commit.at + 1
  BY <1>1
<1>4. Ahead(to, i)' => \E k \in commit.at + 1 .. Len(Way) : Way[k] = [to |-> to, i |-> i]
  BY <1>2, <1>3 DEF Ahead
<1>5. Ahead(to, i)' => Ahead(to, i)
  <2>1. \A k \in commit.at + 1 .. Len(Way) : k \in commit.at .. Len(Way)
    BY <1>1
  <2> QED  BY <1>1, <1>4, <2>1 DEF Ahead
<1>6. ASSUME Way[commit.at] = [to |-> to, i |-> i]
      PROVE  Ahead(to, i) /\ ~Ahead(to, i)'
  <2>1. commit.at \in commit.at .. Len(Way)
    BY <1>1
  <2>2. \A k \in commit.at + 1 .. Len(Way) : k \in 1 .. Len(Way) /\ k # commit.at
    BY <1>1
  <2>3. \A k \in commit.at + 1 .. Len(Way) : Way[k] # Way[commit.at]
    BY <1>1, <2>2, WayOnce
  <2> QED  BY <1>1, <1>4, <1>6, <2>1, <2>3 DEF Ahead
<1> QED  BY <1>5, <1>6

\* Where Commit puts its command next.
LEMMA PushTo ==
  ASSUME TypeOK, Push
  PROVE  /\ commit # Idle /\ commit.what \in Commands /\ commit.at \in 1 .. Len(Way) /\ Len(Way) \in Nat
         /\ commit' = [at |-> commit.at + 1, what |-> commit.what] /\ commit' # Idle
         /\ \/ UNCHANGED <<chan, data>> /\ tpu' = Append(tpu, commit.what)
            \/ \E i \in Nodes : /\ Way[commit.at] = [to |-> "rpc", i |-> i]
                                /\ Len(chan[i]) < CommandCap
                                /\ chan' = [chan EXCEPT ![i] = Append(@, commit.what)]
                                /\ UNCHANGED <<tpu, data>>
            \/ \E i \in Senders : /\ Way[commit.at] = [to |-> "sender", i |-> i]
                                  /\ Len(data[i]) < DataCap
                                  /\ data' = [data EXCEPT ![i] = Append(@, commit.what)]
                                  /\ UNCHANGED <<tpu, chan>>
<1>1. commit # Idle /\ commit.at <= Len(Way) /\ commit' = [commit EXCEPT !.at = @ + 1]
  BY DEF Push
<1>2. /\ commit.what \in Commands /\ commit.at \in 1 .. Len(Way) /\ Len(Way) \in Nat
      /\ commit' = [at |-> commit.at + 1, what |-> commit.what]
  BY <1>1, CommitTyped
<1>3. commit' # Idle
  BY <1>2 DEF Idle
<1>4. Way[commit.at] \in Stops
  BY <1>2, WayOnce, ElementOfSeq
<1>5. Way[commit.at] = [to |-> Way[commit.at].to, i |-> Way[commit.at].i]
  BY <1>4 DEF Stops
<1>6. CASE Way[commit.at].to = "tpu" /\ tpu' = Append(tpu, commit.what) /\ UNCHANGED <<chan, data>>
  BY <1>1, <1>2, <1>3, <1>6
<1>7. CASE /\ Way[commit.at].to = "rpc" /\ Len(chan[Way[commit.at].i]) < CommandCap
           /\ chan' = [chan EXCEPT ![Way[commit.at].i] = Append(@, commit.what)] /\ UNCHANGED <<tpu, data>>
  <2>1. Way[commit.at].i \in Nodes /\ Way[commit.at] = [to |-> "rpc", i |-> Way[commit.at].i]
    BY <1>2, <1>5, <1>7, WayOnce
  <2> QED  BY <1>1, <1>2, <1>3, <1>7, <2>1
<1>8. CASE /\ Way[commit.at].to = "sender" /\ Len(data[Way[commit.at].i]) < DataCap
           /\ data' = [data EXCEPT ![Way[commit.at].i] = Append(@, commit.what)] /\ UNCHANGED <<tpu, chan>>
  <2>1. Way[commit.at].i \in Senders /\ Way[commit.at] = [to |-> "sender", i |-> Way[commit.at].i]
    BY <1>2, <1>5, <1>8, WayOnce
  <2> QED  BY <1>1, <1>2, <1>3, <1>8, <2>1
<1> QED  BY <1>6, <1>7, <1>8 DEF Push

-----------------------------------------------------------------------------
(* Types are preserved.                                                    *)

\* The types of the variables that a step changes, with what Commit goes through.
LEMMA TypeKept ==
  ASSUME TypeOK, UNCHANGED config
  PROVE  /\ test' \in BOOLEAN /\ mode' \in Modes /\ Way' = Way
         /\ UNCHANGED commit => commit' = Idle \/ commit' \in [at : 1 .. Len(Way') + 1, what : Commands]
<1>1. Way' = Way
  BY WaySame
<1>2. test' \in BOOLEAN /\ mode' \in Modes
  BY DEF TypeOK, config
<1>3. commit = Idle \/ commit \in [at : 1 .. Len(Way) + 1, what : Commands]
  BY DEF TypeOK
<1> QED  BY <1>1, <1>2, <1>3

\* Commit keeps the types: a new command has the next number and the time as its id.
LEMMA TypeCommitting ==
  ASSUME TypeOK, Committing
  PROVE  TypeOK'
<1>0. UNCHANGED config
  BY DEF Committing, Commit, Push, Return
<1>a. test' \in BOOLEAN /\ mode' \in Modes /\ Way' = Way
  BY <1>0, TypeKept
<1>b. Len(Way) \in Nat
  BY WayOnce, LenProperties
<1>1. CASE Commit
  <2>1. /\ commits' \in 0 .. MaxCommits
        /\ \A id \in now .. now + MaxSalt : [n |-> commits + 1, id |-> id] \in Commands
    <3>1. now \in 0 .. MaxTime /\ MaxTime \in Nat /\ MaxSalt \in Nat
      BY DeliveryAssumption DEF TypeOK, DeliveryAssumption
    <3>2. \A id \in now .. now + MaxSalt : id \in 0 .. MaxTime + MaxSalt
      BY <3>1
    <3> QED  BY <1>1, <3>2 DEF Commit, TypeOK, Commands
  <2>2. commit' \in [at : 1 .. Len(Way) + 1, what : Commands]
    BY <1>1, <1>b, <2>1 DEF Commit
  <2>3. commit' = Idle \/ commit' \in [at : 1 .. Len(Way') + 1, what : Commands]
    BY <1>a, <2>2
  <2> QED  BY <1>1, <1>a, <2>1, <2>3 DEF Commit, TypeOK, executing, sending, service
<1>2. CASE Push
  <2>1. commit' \in [at : 1 .. Len(Way) + 1, what : Commands] /\ commit.what \in Commands
    BY <1>2, PushTo, SMTT(30)
  <2>2. commit' = Idle \/ commit' \in [at : 1 .. Len(Way') + 1, what : Commands]
    BY <1>a, <2>1
  <2>3. /\ UNCHANGED <<ctx, now, commits, worker, asked, simulated, passed, link, conns, up, restarts, handled>>
    BY <1>2 DEF Push, executing, sending, service
  <2>4. /\ tpu' \in Seq(Commands)
        /\ chan' \in [Nodes -> Seq(Commands)] /\ \A i \in Nodes : Len(chan'[i]) <= CommandCap
        /\ data' \in [Senders -> Seq(Commands)] /\ \A s \in Senders : Len(data'[s]) <= DataCap
    <3>1. /\ tpu \in Seq(Commands) /\ CommandCap \in Nat /\ DataCap \in Nat
          /\ chan \in [Nodes -> Seq(Commands)] /\ \A i \in Nodes : Len(chan[i]) <= CommandCap
          /\ data \in [Senders -> Seq(Commands)] /\ \A s \in Senders : Len(data[s]) <= DataCap
      BY DEF TypeOK
    <3>2. \A q \in Seq(Commands) : /\ Append(q, commit.what) \in Seq(Commands) /\ Len(q) \in Nat
                                   /\ Len(Append(q, commit.what)) = Len(q) + 1
      BY <2>1, Appended
    <3>3. CASE UNCHANGED <<chan, data>> /\ tpu' = Append(tpu, commit.what)
      BY <3>1, <3>2, <3>3
    <3>4. ASSUME NEW i \in Nodes, Len(chan[i]) < CommandCap, UNCHANGED <<tpu, data>>,
                 chan' = [chan EXCEPT ![i] = Append(@, commit.what)]
          PROVE  /\ chan' \in [Nodes -> Seq(Commands)] /\ \A j \in Nodes : Len(chan'[j]) <= CommandCap
      <4>1. Append(chan[i], commit.what) \in Seq(Commands) /\ Len(Append(chan[i], commit.what)) <= CommandCap
        BY <3>1, <3>2, <3>4
      <4> QED  BY <3>1, <3>4, <4>1
    <3>5. ASSUME NEW i \in Senders, Len(data[i]) < DataCap, UNCHANGED <<tpu, chan>>,
                 data' = [data EXCEPT ![i] = Append(@, commit.what)]
          PROVE  /\ data' \in [Senders -> Seq(Commands)] /\ \A j \in Senders : Len(data'[j]) <= DataCap
      <4>1. Append(data[i], commit.what) \in Seq(Commands) /\ Len(Append(data[i], commit.what)) <= DataCap
        BY <3>1, <3>2, <3>5
      <4> QED  BY <3>1, <3>5, <4>1
    <3> QED  BY <1>2, <3>1, <3>3, <3>4, <3>5, PushTo
  <2> QED  BY <1>a, <2>2, <2>3, <2>4 DEF TypeOK
<1>3. CASE Return
  <2>1. commit' = Idle \/ commit' \in [at : 1 .. Len(Way') + 1, what : Commands]
    BY <1>3 DEF Return
  <2> QED  BY <1>3, <1>a, <2>1 DEF Return, TypeOK, executing, sending, service
<1> QED  BY <1>1, <1>2, <1>3 DEF Committing

\* A count of calls goes on.
LEMMA CountedOn ==
  ASSUME NEW f \in [Nodes -> [1 .. MaxCommits -> Nat]], NEW i \in Nodes, NEW n \in 1 .. MaxCommits
  PROVE  [f EXCEPT ![i][n] = @ + 1] \in [Nodes -> [1 .. MaxCommits -> Nat]]
<1>1. f[i] \in [1 .. MaxCommits -> Nat]
  OBVIOUS
<1>2. f[i][n] + 1 \in Nat
  BY <1>1
<1>3. [f[i] EXCEPT ![n] = @ + 1] \in [1 .. MaxCommits -> Nat]
  BY <1>1, <1>2
<1> QED  BY <1>3

\* The executors keep the types.
LEMMA TypeExecuting ==
  ASSUME TypeOK, NEW w \in Workers, Executor(w) \/ Exit(w)
  PROVE  TypeOK'
<1>0. UNCHANGED config /\ UNCHANGED commit
  BY DEF Executor, Take, Sent, Exit, committing
<1>a. /\ test' \in BOOLEAN /\ mode' \in Modes
      /\ commit' = Idle \/ commit' \in [at : 1 .. Len(Way') + 1, what : Commands]
  BY <1>0, TypeKept
<1>b. w[1] \in Nodes
  BY DEF Workers
<1>1. CASE Take(w)
  <2>1. /\ chan \in [Nodes -> Seq(Commands)] /\ chan[w[1]] # <<>> /\ chan[w[1]] \in Seq(Commands)
        /\ Len(chan[w[1]]) <= CommandCap /\ \A i \in Nodes : Len(chan[i]) <= CommandCap
        /\ chan' = [chan EXCEPT ![w[1]] = Tail(@)]
    BY <1>1, <1>b DEF Take, TypeOK
  <2>2. Tail(chan[w[1]]) \in Seq(Commands) /\ Len(Tail(chan[w[1]])) <= CommandCap /\ Head(chan[w[1]]) \in Commands
    BY <2>1, Tailed
  <2>3. chan' \in [Nodes -> Seq(Commands)] /\ \A i \in Nodes : Len(chan'[i]) <= CommandCap
    BY <2>1, <2>2
  <2>5. passed' \in [Nodes -> SUBSET [what : Commands, at : 0 .. MaxTime]]
    <3>1. /\ passed' = passed \/ passed' = [passed EXCEPT ![w[1]] = @ \cup {[what |-> Head(chan[w[1]]), at |-> now]}]
          /\ passed \in [Nodes -> SUBSET [what : Commands, at : 0 .. MaxTime]] /\ now \in 0 .. MaxTime
      BY <1>1 DEF Take, TypeOK
    <3>2. [what |-> Head(chan[w[1]]), at |-> now] \in [what : Commands, at : 0 .. MaxTime]
      BY <2>2, <3>1
    <3> QED  BY <1>b, <3>1, <3>2
  <2>4. worker' \in [Workers -> {Idle, [at |-> "exited"]} \cup [at : {"send"}, what : Commands]]
    <3>1. [at |-> "send", what |-> Head(chan[w[1]])] \in [at : {"send"}, what : Commands]
      BY <2>2
    <3>2. \/ worker' = worker
          \/ worker' = [worker EXCEPT ![w] = [at |-> "send", what |-> Head(chan[w[1]])]]
      BY <1>1 DEF Take
    <3>3. worker \in [Workers -> {Idle, [at |-> "exited"]} \cup [at : {"send"}, what : Commands]]
      BY DEF TypeOK
    <3> QED  BY ONLY <3>1, <3>2, <3>3
  <2> QED  BY <1>1, <1>a, <2>3, <2>4, <2>5 DEF Take, TypeOK, committing, sending, service
<1>2. CASE Exit(w)
  <2>1. worker' \in [Workers -> {Idle, [at |-> "exited"]} \cup [at : {"send"}, what : Commands]]
    BY <1>2 DEF Exit, TypeOK
  <2> QED  BY <1>2, <1>a, <2>1 DEF Exit, TypeOK, committing, sending, service
<1>3. ASSUME NEW ok \in BOOLEAN, Sent(w, ok)
      PROVE  TypeOK'
  <2>1. worker' \in [Workers -> {Idle, [at |-> "exited"]} \cup [at : {"send"}, what : Commands]]
    BY <1>3 DEF Sent, TypeOK
  <2>2. asked' \in [Nodes -> [1 .. MaxCommits -> Nat]] /\ simulated' \in [Nodes -> [1 .. MaxCommits -> Nat]]
    <3>1. worker[w].what.n \in 1 .. MaxCommits
      BY <1>3, WorkerTyped DEF Sent
    <3>2. asked \in [Nodes -> [1 .. MaxCommits -> Nat]] /\ simulated \in [Nodes -> [1 .. MaxCommits -> Nat]]
      BY DEF TypeOK
    <3>3. \A f \in [Nodes -> [1 .. MaxCommits -> Nat]] :
            [f EXCEPT ![w[1]][worker[w].what.n] = @ + 1] \in [Nodes -> [1 .. MaxCommits -> Nat]]
      BY <1>b, <3>1, CountedOn
    <3>4. /\ asked' = asked \/ asked' = [asked EXCEPT ![w[1]][worker[w].what.n] = @ + 1]
          /\ simulated' = simulated \/ simulated' = [simulated EXCEPT ![w[1]][worker[w].what.n] = @ + 1]
      BY <1>3 DEF Sent
    <3> QED  BY <3>2, <3>3, <3>4
  <2> QED  BY <1>3, <1>a, <2>1, <2>2 DEF Sent, TypeOK, committing, sending, service
<1> QED  BY <1>1, <1>2, <1>3 DEF Executor

-----------------------------------------------------------------------------
(* The channels of the nodes and their executors.                          *)

\* The first command of a channel, the rest of it, and what of them is older.
LEMMA Oldest ==
  ASSUME NEW q \in Seq(Commands), q # <<>>, \A j, k \in DOMAIN q : j < k => q[j].n < q[k].n
  PROVE  /\ Head(q) \in Commands /\ Head(q) = q[1] /\ 1 \in DOMAIN q
         /\ Tail(q) \in Seq(Commands)
         /\ \A j \in DOMAIN Tail(q) : j + 1 \in DOMAIN q /\ Tail(q)[j] = q[j + 1] /\ q[1].n < Tail(q)[j].n
         /\ \A j, k \in DOMAIN Tail(q) : j < k => Tail(q)[j].n < Tail(q)[k].n
<1>1. /\ Head(q) \in Commands /\ Head(q) = q[1] /\ 1 \in DOMAIN q /\ Tail(q) \in Seq(Commands)
      /\ \A j \in DOMAIN Tail(q) : j + 1 \in DOMAIN q /\ Tail(q)[j] = q[j + 1] /\ j \in Nat \ {0}
  BY Tailed
<1>2. ASSUME NEW j \in DOMAIN Tail(q)
      PROVE  q[1].n < Tail(q)[j].n
  <2>1. j + 1 \in DOMAIN q /\ 1 < j + 1 /\ Tail(q)[j] = q[j + 1]
    BY <1>1
  <2>2. q[1].n < q[j + 1].n
    BY ONLY <1>1, <2>1, \A a, b \in DOMAIN q : a < b => q[a].n < q[b].n
  <2> QED  BY <2>1, <2>2
<1>3. ASSUME NEW j \in DOMAIN Tail(q), NEW k \in DOMAIN Tail(q), j < k
      PROVE  Tail(q)[j].n < Tail(q)[k].n
  <2>1. j + 1 \in DOMAIN q /\ k + 1 \in DOMAIN q /\ j + 1 < k + 1 /\ Tail(q)[j] = q[j + 1] /\ Tail(q)[k] = q[k + 1]
    BY <1>1, <1>3
  <2>2. q[j + 1].n < q[k + 1].n
    BY ONLY <2>1, \A a, b \in DOMAIN q : a < b => q[a].n < q[b].n
  <2> QED  BY <2>1, <2>2
<1> QED  BY <1>1, <1>2, <1>3

\* The newest command at the end of a channel in order.
LEMMA Newest ==
  ASSUME NEW q \in Seq(Commands), NEW c \in Commands, \A j \in DOMAIN q : q[j].n < c.n,
         \A j, k \in DOMAIN q : j < k => q[j].n < q[k].n
  PROVE  /\ \A j, k \in DOMAIN Append(q, c) : j < k => Append(q, c)[j].n < Append(q, c)[k].n
         /\ \A j \in DOMAIN Append(q, c) : \/ Append(q, c)[j] = c
                                           \/ j \in DOMAIN q /\ Append(q, c)[j] = q[j]
<1>1. /\ \A i \in DOMAIN Append(q, c) :
           (i \in DOMAIN q /\ Append(q, c)[i] = q[i]) \/ (i = Len(q) + 1 /\ Append(q, c)[i] = c)
      /\ DOMAIN q = 1 .. Len(q) /\ Len(q) \in Nat
  BY Appended
<1>2. ASSUME NEW j \in DOMAIN Append(q, c), NEW k \in DOMAIN Append(q, c), j < k
      PROVE  Append(q, c)[j].n < Append(q, c)[k].n
  <2>1. CASE k \in DOMAIN q /\ Append(q, c)[k] = q[k]
    <3>1. j \in DOMAIN q /\ Append(q, c)[j] = q[j]
      <4>1. j # Len(q) + 1
        BY <1>1, <1>2, <2>1
      <4> QED  BY <1>1, <4>1
    <3> QED  BY <1>2, <2>1, <3>1
  <2>2. CASE k = Len(q) + 1 /\ Append(q, c)[k] = c
    <3>1. j \in DOMAIN q /\ Append(q, c)[j] = q[j]
      <4>1. j # Len(q) + 1
        BY <1>1, <1>2, <2>2
      <4> QED  BY <1>1, <4>1
    <3> QED  BY <2>2, <3>1
  <2> QED  BY <1>1, <2>1, <2>2
<1> QED  BY <1>1, <1>2

\* The calls of send() are counted in naturals.
LEMMA MadeAre ==
  ASSUME TypeOK, NEW i \in Nodes, NEW n \in 1 .. MaxCommits
  PROVE  asked[i][n] \in Nat /\ simulated[i][n] \in Nat /\ Made(i, n) \in Nat
BY DEF TypeOK, Made

\* Numbers of commands, and those that an executor has.
LEMMA TakenAre ==
  ASSUME TypeOK, NEW i \in Nodes
  PROVE  /\ \A n \in Taken(i) : n \in 1 .. MaxCommits
         /\ \A w \in Workers : w[1] = i /\ Busy(w) => worker[w].what.n \in Taken(i)
         /\ \A n \in 1 .. MaxCommits : n \notin Taken(i) => Made(i, n) = 0
<1>1. \A w \in Workers : Busy(w) => worker[w].what.n \in 1 .. MaxCommits
  BY WorkerTyped DEF Busy
<1>2. \A n \in 1 .. MaxCommits : Made(i, n) \in Nat
  BY MadeAre
<1> QED  BY <1>1, <1>2 DEF Taken

\* A step of others than the executors, which puts nothing into their channels.
LEMMA NodesStay ==
  ASSUME NodesInOrder, InOneHand, AskedOnce, UNCHANGED <<test, commits, chan, worker, asked, simulated>>,
         \A i \in Nodes : Ahead("rpc", i)' => Ahead("rpc", i)
  PROVE  NodesInOrder' /\ InOneHand' /\ AskedOnce'
<1>1. \A i \in Nodes : Taken(i)' = Taken(i)
  BY DEF Taken, Busy, Made
<1>2. NodesInOrder'
  BY <1>1 DEF NodesInOrder
<1> QED  BY <1>2 DEF InOneHand, AskedOnce, Busy, Made

\* A command with a new number: it is ahead of everything.
LEMMA NodesCommit ==
  ASSUME TypeOK, NodesInOrder, InOneHand, AskedOnce, Commit
  PROVE  NodesInOrder' /\ InOneHand' /\ AskedOnce'
<1>1. commits' = commits + 1 /\ commits \in Nat /\ UNCHANGED <<test, chan, worker, asked, simulated>>
  BY DEF Commit, TypeOK, executing, config
<1>2. \A i \in Nodes : Taken(i)' = Taken(i)
  BY <1>1 DEF Taken, Busy, Made
<1>3. ASSUME NEW i \in Nodes
      PROVE  /\ \A j, k \in DOMAIN chan'[i] : j < k => chan'[i][j].n < chan'[i][k].n
             /\ \A j \in DOMAIN chan'[i] : chan'[i][j].n <= commits' /\ chan'[i][j].n < commits'
             /\ \A n \in Taken(i)' : n <= commits' /\ n < commits' /\ \A j \in DOMAIN chan'[i] : n < chan'[i][j].n
  <2>1. \A j \in DOMAIN chan[i] : chan[i][j].n \in Nat
    <3>1. chan[i] \in Seq(Commands)
      BY DEF TypeOK
    <3> QED  BY <3>1, CommandsAre, LenProperties, ElementOfSeq
  <2>2. \A n \in Taken(i) : n \in Nat
    BY TakenAre
  <2>3. \A n \in Nat : n <= commits => n <= commits' /\ n < commits'
    BY <1>1
  <2>4. chan' = chan /\ Taken(i)' = Taken(i)
    BY <1>1, <1>2
  <2> QED  BY <2>1, <2>2, <2>3, <2>4, Zenon DEF NodesInOrder
<1>4. NodesInOrder'
  BY <1>3 DEF NodesInOrder
<1> QED  BY <1>1, <1>4 DEF InOneHand, AskedOnce, Busy, Made

\* The command of Commit at the end of the channel of a node.
LEMMA NodesPush ==
  ASSUME TypeOK, NodesInOrder, InOneHand, AskedOnce, Numbered, Push
  PROVE  NodesInOrder' /\ InOneHand' /\ AskedOnce'
<1>1. UNCHANGED <<test, commits, worker, asked, simulated>>
  BY DEF Push, executing, config
<1>2. commit # Idle /\ commit.what \in Commands /\ commit.what.n = commits
  BY PushTo DEF Numbered
<1>3. \A i \in Nodes : Ahead("rpc", i)' => Ahead("rpc", i)
  BY AheadPush
<1>4. CASE UNCHANGED chan
  BY <1>1, <1>3, <1>4, NodesStay
<1>5. ASSUME NEW i \in Nodes, Way[commit.at] = [to |-> "rpc", i |-> i],
             chan' = [chan EXCEPT ![i] = Append(@, commit.what)]
      PROVE  NodesInOrder' /\ InOneHand' /\ AskedOnce'
  <2>1. Ahead("rpc", i) /\ ~Ahead("rpc", i)'
    BY <1>5, AheadPush
  <2>2. chan \in [Nodes -> Seq(Commands)]
    BY DEF TypeOK
  <2>3. \A m \in Nodes : Taken(m)' = Taken(m)
    BY <1>1 DEF Taken, Busy, Made
  <2>4. /\ \A j, k \in DOMAIN chan[i] : j < k => chan[i][j].n < chan[i][k].n
        /\ \A j \in DOMAIN chan[i] : chan[i][j].n < commit.what.n /\ chan[i][j].n <= commits
        /\ \A n \in Taken(i) : n < commit.what.n /\ n <= commits /\ \A j \in DOMAIN chan[i] : n < chan[i][j].n
    BY <1>2, <2>1 DEF NodesInOrder
  <2> DEFINE a == Append(chan[i], commit.what)
  <2>5. /\ \A j, k \in DOMAIN a : j < k => a[j].n < a[k].n
        /\ \A j \in DOMAIN a : a[j] = commit.what \/ (j \in DOMAIN chan[i] /\ a[j] = chan[i][j])
    <3>1. chan[i] \in Seq(Commands)
      BY <2>2
    <3> QED  BY <1>2, <2>4, <3>1, Newest
  <2>6. chan'[i] = a /\ \A m \in Nodes \ {i} : chan'[m] = chan[m]
    BY <1>5, <2>2
  <2> HIDE DEF a
  <2>7. commits <= commits
    BY DEF TypeOK
  <2>8. ASSUME NEW m \in Nodes
        PROVE  /\ \A j, k \in DOMAIN chan'[m] : j < k => chan'[m][j].n < chan'[m][k].n
               /\ \A j \in DOMAIN chan'[m] : /\ chan'[m][j].n <= commits'
                                             /\ Ahead("rpc", m)' => chan'[m][j].n < commits'
               /\ \A n \in Taken(m)' : /\ n <= commits' /\ (Ahead("rpc", m)' => n < commits')
                                       /\ \A j \in DOMAIN chan'[m] : n < chan'[m][j].n
    <3>1. CASE m = i
      <4>1. \A j \in DOMAIN a : a[j].n <= commits
        BY <1>2, <2>4, <2>5, <2>7
      <4>2. \A n \in Taken(i) : \A j \in DOMAIN a : n < a[j].n
        BY <2>4, <2>5
      <4> QED  BY <1>1, <2>1, <2>3, <2>4, <2>5, <2>6, <3>1, <4>1, <4>2
    <3>2. CASE m # i
      <4>1. chan'[m] = chan[m] /\ Taken(m)' = Taken(m) /\ commits' = commits
        BY <1>1, <2>3, <2>6, <3>2
      <4> QED  BY <1>3, <4>1, Zenon DEF NodesInOrder
    <3> QED  BY <3>1, <3>2
  <2>9. NodesInOrder'
    BY <2>8 DEF NodesInOrder
  <2> QED  BY <1>1, <2>9 DEF InOneHand, AskedOnce, Busy, Made
<1> QED  BY <1>4, <1>5, PushTo

\* An executor takes the oldest command of its channel, which nobody has taken.
LEMMA NodesTake ==
  ASSUME TypeOK, NodesInOrder, InOneHand, AskedOnce, NEW w \in Workers, Take(w)
  PROVE  NodesInOrder' /\ InOneHand' /\ AskedOnce'
<1>1. PICK i \in Nodes : w[1] = i
  BY DEF Workers
<1>2. PICK c : c = Head(chan[i])
  OBVIOUS
<1>3. /\ worker[w] = Idle /\ chan[i] # <<>> /\ chan' = [chan EXCEPT ![i] = Tail(@)]
      /\ worker' = worker \/ worker' = [worker EXCEPT ![w] = [at |-> "send", what |-> c]]
      /\ UNCHANGED <<config, commit, commits, asked, simulated>>
  BY <1>1, <1>2 DEF Take, committing
<1>4. chan[i] \in Seq(Commands) /\ chan \in [Nodes -> Seq(Commands)]
  BY DEF TypeOK
<1>5. DOMAIN worker = Workers
  BY DEF TypeOK
<1>6. /\ \A j, k \in DOMAIN chan[i] : j < k => chan[i][j].n < chan[i][k].n
      /\ \A j \in DOMAIN chan[i] : chan[i][j].n <= commits /\ (Ahead("rpc", i) => chan[i][j].n < commits)
      /\ \A n \in Taken(i) : /\ n <= commits /\ (Ahead("rpc", i) => n < commits)
                             /\ \A j \in DOMAIN chan[i] : n < chan[i][j].n
  BY DEF NodesInOrder
<1>7. /\ c \in Commands /\ c = chan[i][1] /\ 1 \in DOMAIN chan[i]
      /\ \A j \in DOMAIN Tail(chan[i]) : /\ j + 1 \in DOMAIN chan[i] /\ Tail(chan[i])[j] = chan[i][j + 1]
                                         /\ c.n < Tail(chan[i])[j].n
      /\ \A j, k \in DOMAIN Tail(chan[i]) : j < k => Tail(chan[i])[j].n < Tail(chan[i])[k].n
  BY <1>2, <1>3, <1>4, <1>6, Oldest
<1>8. \A v \in Workers : v # w => worker'[v] = worker[v]
  BY <1>3, <1>5
<1>9. ~Busy(w) /\ (Busy(w)' => worker'[w].what = c)
  <2>1. CASE worker' = worker
    BY <1>3, <1>5, <2>1 DEF Busy, Idle
  <2>2. CASE worker' = [worker EXCEPT ![w] = [at |-> "send", what |-> c]]
    BY <1>3, <1>5, <2>2 DEF Busy, Idle
  <2> QED  BY <1>3, <2>1, <2>2
<1>10. \A m \in Nodes : \A n \in Taken(m)' : n \in Taken(m) \/ (m = i /\ n = c.n)
  <2> SUFFICES ASSUME NEW m \in Nodes, NEW n \in Taken(m)' PROVE n \in Taken(m) \/ (m = i /\ n = c.n)
    OBVIOUS
  <2>1. n \in 1 .. MaxCommits
    BY DEF Taken
  <2>2. CASE Made(m, n)' > 0
    BY <1>3, <2>1, <2>2 DEF Taken, Made
  <2>3. ASSUME NEW v \in Workers, v[1] = m, Busy(v)', worker'[v].what.n = n
        PROVE  n \in Taken(m) \/ (m = i /\ n = c.n)
    <3>1. CASE v = w
      BY <1>1, <1>9, <2>3, <3>1
    <3>2. CASE v # w
      <4>1. Busy(v) /\ worker[v].what.n = n
        BY <1>8, <2>3, <3>2 DEF Busy
      <4> QED  BY <2>1, <2>3, <4>1 DEF Taken
    <3> QED  BY <3>1, <3>2
  <2> QED  BY <2>2, <2>3 DEF Taken
<1>11. Way' = Way
  BY <1>3, WaySame
<1>12. \A m \in Nodes : Ahead("rpc", m)' = Ahead("rpc", m)
  BY <1>3, <1>11 DEF Ahead
<1>13. chan'[i] = Tail(chan[i]) /\ \A m \in Nodes \ {i} : chan'[m] = chan[m]
  BY <1>3, <1>4
<1>14. ASSUME NEW m \in Nodes
       PROVE  /\ \A j, k \in DOMAIN chan'[m] : j < k => chan'[m][j].n < chan'[m][k].n
              /\ \A j \in DOMAIN chan'[m] : /\ chan'[m][j].n <= commits'
                                            /\ Ahead("rpc", m)' => chan'[m][j].n < commits'
              /\ \A n \in Taken(m)' : /\ n <= commits' /\ (Ahead("rpc", m)' => n < commits')
                                      /\ \A j \in DOMAIN chan'[m] : n < chan'[m][j].n
  <2>1. CASE m = i
    <3>1. chan'[m] = Tail(chan[i]) /\ commits' = commits /\ Ahead("rpc", m)' = Ahead("rpc", i)
      BY <1>3, <1>12, <1>13, <2>1
    <3>2. \A j \in DOMAIN chan'[m] : /\ chan'[m][j].n <= commits'
                                     /\ Ahead("rpc", m)' => chan'[m][j].n < commits'
      BY <1>6, <1>7, <3>1
    <3>3. ASSUME NEW n \in Taken(m)'
          PROVE  /\ n <= commits' /\ (Ahead("rpc", m)' => n < commits')
                 /\ \A j \in DOMAIN chan'[m] : n < chan'[m][j].n
      <4>1. CASE n \in Taken(i)
        BY <1>6, <1>7, <3>1, <4>1
      <4>2. CASE n = c.n
        BY <1>6, <1>7, <3>1, <4>2
      <4> QED  BY <1>10, <2>1, <3>3, <4>1, <4>2
    <3> QED  BY <1>7, <3>1, <3>2, <3>3
  <2>2. CASE m # i
    <3>1. chan'[m] = chan[m] /\ commits' = commits /\ Ahead("rpc", m)' = Ahead("rpc", m)
      BY <1>3, <1>12, <1>13, <2>2
    <3>2. \A n \in Taken(m)' : n \in Taken(m)
      BY <1>10, <2>2
    <3> QED  BY <3>1, <3>2, Zenon DEF NodesInOrder
  <2> QED  BY <2>1, <2>2
<1>15. NodesInOrder'
  BY <1>14 DEF NodesInOrder
<1>16. c.n \notin Taken(i)
  BY <1>6, <1>7, CommandsAre
<1>17. Made(i, c.n) = 0 /\ \A v \in Workers : v[1] = i /\ Busy(v) => worker[v].what.n # c.n
  BY <1>7, <1>16, TakenAre, CommandsAre
<1>18. InOneHand'
  <2> SUFFICES ASSUME NEW u \in Workers, Busy(u)'
               PROVE  /\ Made(u[1], worker[u].what.n)' = 0
                      /\ \A v \in Workers : v # u /\ v[1] = u[1] /\ Busy(v)' => worker'[v].what.n # worker'[u].what.n
    BY DEF InOneHand
  <2>1. \A v \in Workers : v # w /\ Busy(v)' => Busy(v) /\ worker'[v] = worker[v]
    BY <1>8 DEF Busy
  <2>2. CASE u = w
    BY <1>1, <1>3, <1>9, <1>17, <2>1, <2>2 DEF Made
  <2>3. CASE u # w
    <3>1. /\ Made(u[1], worker[u].what.n) = 0 /\ worker'[u] = worker[u] /\ Busy(u)
          /\ asked' = asked /\ simulated' = simulated
          /\ \A v \in Workers : v # u /\ v[1] = u[1] /\ Busy(v) => worker[v].what.n # worker[u].what.n
      BY <1>3, <2>1, <2>3 DEF InOneHand
    <3>2. ASSUME NEW v \in Workers, v # u, v[1] = u[1], Busy(v)'
          PROVE  worker'[v].what.n # worker'[u].what.n
      <4>1. CASE v = w
        BY <1>1, <1>9, <1>17, <3>1, <3>2, <4>1
      <4>2. CASE v # w
        BY <2>1, <3>1, <3>2, <4>2
      <4> QED  BY <4>1, <4>2
    <3> QED  BY <3>1, <3>2 DEF Made
  <2> QED  BY <2>2, <2>3
<1> QED  BY <1>3, <1>15, <1>18 DEF AskedOnce, Made, config

\* An executor has sent what it had in hand.
LEMMA NodesSent ==
  ASSUME TypeOK, NodesInOrder, InOneHand, AskedOnce, NEW w \in Workers, NEW ok \in BOOLEAN, Sent(w, ok)
  PROVE  NodesInOrder' /\ InOneHand' /\ AskedOnce'
<1>1. PICK i \in Nodes : w[1] = i
  BY DEF Workers
<1>2. PICK n : n = worker[w].what.n
  OBVIOUS
<1>3. /\ Busy(w) /\ n \in 1 .. MaxCommits
      /\ \/ test /\ simulated' = [simulated EXCEPT ![i][n] = @ + 1] /\ asked' = asked
         \/ ~test /\ asked' = [asked EXCEPT ![i][n] = @ + 1] /\ simulated' = simulated
      /\ worker' = [worker EXCEPT ![w] = Idle]
      /\ UNCHANGED <<config, commit, commits, chan>>
  BY <1>1, <1>2, WorkerTyped DEF Sent, Busy, committing
<1>4. /\ DOMAIN worker = Workers /\ asked \in [Nodes -> [1 .. MaxCommits -> Nat]]
      /\ simulated \in [Nodes -> [1 .. MaxCommits -> Nat]]
  BY DEF TypeOK
<1>5. \A v \in Workers : (v # w => worker'[v] = worker[v]) /\ worker'[w] = Idle
  BY <1>3, <1>4
<1>6. ~Busy(w)' /\ \A v \in Workers : Busy(v)' => v # w /\ Busy(v) /\ worker'[v] = worker[v]
  BY <1>5 DEF Busy, Idle
<1>7. /\ Made(i, n)' = Made(i, n) + 1
      /\ \A m \in Nodes, k \in 1 .. MaxCommits : m # i \/ k # n => Made(m, k)' = Made(m, k)
      /\ \A m \in Nodes, k \in 1 .. MaxCommits : test /\ asked[m][k] = 0 => asked'[m][k] = 0
  <2>0. /\ asked[i][n] \in Nat /\ simulated[i][n] \in Nat
        /\ i \in Nodes /\ n \in 1 .. MaxCommits
    BY <1>1, <1>3, MadeAre
  <2>1. CASE test /\ simulated' = [simulated EXCEPT ![i][n] = @ + 1] /\ asked' = asked
    <3>1. /\ simulated'[i][n] = simulated[i][n] + 1
          /\ \A m \in Nodes, k \in 1 .. MaxCommits : m # i \/ k # n => simulated'[m][k] = simulated[m][k]
      BY <1>4, <2>0, <2>1
    <3> QED  BY <2>0, <2>1, <3>1 DEF Made
  <2>2. CASE ~test /\ asked' = [asked EXCEPT ![i][n] = @ + 1] /\ simulated' = simulated
    <3>1. /\ asked'[i][n] = asked[i][n] + 1
          /\ \A m \in Nodes, k \in 1 .. MaxCommits : m # i \/ k # n => asked'[m][k] = asked[m][k]
      BY <1>4, <2>0, <2>2
    <3> QED  BY <2>0, <2>2, <3>1 DEF Made
  <2> QED  BY <1>3, <2>1, <2>2
<1>8. Made(i, n) = 0 /\ \A v \in Workers : v # w /\ v[1] = i /\ Busy(v) => worker[v].what.n # n
  BY <1>1, <1>2, <1>3 DEF InOneHand
<1>9. AskedOnce'
  <2>1. Made(i, n)' <= 1
    BY <1>7, <1>8
  <2>2. \A m \in Nodes, k \in 1 .. MaxCommits : m # i \/ k # n => Made(m, k)' <= 1
    BY <1>7 DEF AskedOnce
  <2>3. \A m \in Nodes, k \in 1 .. MaxCommits : test' => asked'[m][k] = 0
    BY <1>3, <1>7 DEF AskedOnce, config
  <2> QED  BY <2>1, <2>2, <2>3 DEF AskedOnce
<1>10. InOneHand'
  <2>1. ASSUME NEW u \in Workers, Busy(u)'
        PROVE  Made(u[1], worker[u].what.n)' = 0
    <3>1. u # w /\ Busy(u) /\ worker'[u] = worker[u] /\ Made(u[1], worker[u].what.n) = 0
      BY <1>6, <2>1 DEF InOneHand
    <3>2. u[1] \in Nodes /\ worker[u].what.n \in 1 .. MaxCommits
      BY <3>1, WorkerTyped DEF Busy
    <3>3. PICK k : k = worker[u].what.n
      OBVIOUS
    <3>4. Made(u[1], k)' = 0
      <4>1. u[1] # i \/ k # n
        BY <1>8, <3>1, <3>3
      <4>2. Made(u[1], k) = 0
        BY <3>1, <3>3 DEF Made
      <4> QED  BY <1>7, <3>2, <3>3, <4>1, <4>2
    <3> QED  BY <3>1, <3>3, <3>4 DEF Made
  <2>2. \A u, v \in Workers : u # v /\ u[1] = v[1] /\ Busy(u)' /\ Busy(v)' => worker'[u].what.n # worker'[v].what.n
    BY <1>6 DEF InOneHand
  <2> QED  BY <2>1, <2>2 DEF InOneHand
<1>11. \A m \in Nodes : \A k \in Taken(m)' : k \in Taken(m)
  <2> SUFFICES ASSUME NEW m \in Nodes, NEW k \in Taken(m)' PROVE k \in Taken(m)
    OBVIOUS
  <2>1. k \in 1 .. MaxCommits
    BY DEF Taken
  <2>2. CASE Made(m, k)' > 0
    <3>1. CASE m = i /\ k = n
      BY <1>1, <1>2, <1>3, <3>1 DEF Taken
    <3>2. CASE m # i \/ k # n
      <4>1. Made(m, k) > 0
        BY <1>7, <2>1, <2>2, <3>2
      <4> QED  BY <2>1, <4>1 DEF Taken
    <3> QED  BY <3>1, <3>2
  <2>3. ASSUME NEW v \in Workers, v[1] = m, Busy(v)', worker'[v].what.n = k
        PROVE  k \in Taken(m)
    <3>1. Busy(v) /\ worker[v].what.n = k
      BY <1>6, <2>3
    <3> QED  BY <2>1, <2>3, <3>1 DEF Taken
  <2> QED  BY <2>2, <2>3 DEF Taken
<1>12. Way' = Way
  BY <1>3, WaySame
<1>13. \A m \in Nodes : Ahead("rpc", m)' = Ahead("rpc", m)
  BY <1>3, <1>12 DEF Ahead
<1>14. NodesInOrder'
  <2>1. chan' = chan /\ commits' = commits
    BY <1>3
  <2> QED  BY <1>11, <1>13, <2>1, Zenon DEF NodesInOrder
<1> QED  BY <1>9, <1>10, <1>14

\* No step has two executors of a node with one command.
LEMMA NodesStep ==
  ASSUME TypeOK, NodesInOrder, InOneHand, AskedOnce, Numbered, Next
  PROVE  NodesInOrder' /\ InOneHand' /\ AskedOnce' /\ Numbered'
<1>1. CASE Commit
  <2>1. commit'.what.n = commits'
    BY <1>1 DEF Commit
  <2> QED  BY <1>1, <2>1, NodesCommit DEF Numbered
<1>2. CASE Push
  <2>1. commit # Idle /\ commit' = [at |-> commit.at + 1, what |-> commit.what] /\ commits' = commits
    BY <1>2, PushTo DEF Push
  <2> QED  BY <1>2, <2>1, NodesPush DEF Numbered
<1>3. CASE Return
  <2>1. commit' = Idle /\ UNCHANGED <<test, commits, chan, worker, asked, simulated>>
    BY <1>3 DEF Return, executing, config
  <2>2. \A i \in Nodes : ~Ahead("rpc", i)'
    BY <2>1 DEF Ahead
  <2> QED  BY <2>1, <2>2, NodesStay DEF Numbered
<1>4. ASSUME NEW w \in Workers, Take(w) \/ \E ok \in BOOLEAN : Sent(w, ok)
      PROVE  NodesInOrder' /\ InOneHand' /\ AskedOnce' /\ Numbered'
  <2>1. UNCHANGED <<commit, commits>>
    BY <1>4 DEF Take, Sent, committing
  <2> QED  BY <1>4, <2>1, NodesTake, NodesSent DEF Numbered
<1>5. ASSUME NEW w \in Workers, Exit(w)
      PROVE  NodesInOrder' /\ InOneHand' /\ AskedOnce' /\ Numbered'
  <2>1. UNCHANGED <<config, commit, commits, chan, asked, simulated>> /\ worker' = [worker EXCEPT ![w] = [at |-> "exited"]]
    BY <1>5 DEF Exit, committing
  <2>2. DOMAIN worker = Workers
    BY DEF TypeOK
  <2>3. \A v \in Workers : Busy(v)' => Busy(v) /\ worker'[v] = worker[v]
    BY <2>1, <2>2 DEF Busy
  <2>4. \A i \in Nodes : \A n \in Taken(i)' : n \in Taken(i)
    BY <2>1, <2>3 DEF Taken, Made
  <2>5. Way' = Way
    BY <2>1, WaySame
  <2>6. \A m \in Nodes : Ahead("rpc", m)' = Ahead("rpc", m)
    BY <2>1, <2>5 DEF Ahead
  <2>7. chan' = chan /\ commits' = commits
    BY <2>1
  <2>8. NodesInOrder'
    BY <2>4, <2>6, <2>7, Zenon DEF NodesInOrder
  <2>9. InOneHand'
    <3>1. asked' = asked /\ simulated' = simulated
      BY <2>1
    <3> SUFFICES ASSUME NEW u \in Workers, Busy(u)'
                 PROVE  /\ Made(u[1], worker[u].what.n)' = 0
                        /\ \A v \in Workers : v # u /\ v[1] = u[1] /\ Busy(v)' => worker'[v].what.n # worker'[u].what.n
      BY DEF InOneHand
    <3>2. Busy(u) /\ worker'[u] = worker[u]
      BY <2>3
    <3> QED  BY <2>3, <3>1, <3>2 DEF InOneHand, Made
  <2> QED  BY <2>1, <2>8, <2>9 DEF Numbered, AskedOnce, Made, config
<1>6. ASSUME UNCHANGED <<config, commit, commits, chan, worker, asked, simulated>>
      PROVE  NodesInOrder' /\ InOneHand' /\ AskedOnce' /\ Numbered'
  <2>1. Way' = Way
    BY <1>6, WaySame
  <2>2. \A i \in Nodes : Ahead("rpc", i)' = Ahead("rpc", i)
    BY <1>6, <2>1 DEF Ahead
  <2> QED  BY <1>6, <2>2, NodesStay DEF Numbered, config
<1>7. CASE Tick \/ Cancel \/ \E s \in Senders : Restart(s)
  BY <1>6, <1>7 DEF Tick, Cancel, Restart, committing, executing
<1>8. CASE \E s \in Senders : Sender(s)
  BY <1>6, <1>8 DEF Sender, Dial, DialFails, Write, WriteFails, committing, executing
<1>9. CASE \E s \in Senders : Service(s)
  BY <1>6, <1>9 DEF Service, Read, committing, executing
<1> QED  BY <1>1, <1>2, <1>3, <1>4, <1>5, <1>7, <1>8, <1>9 DEF Next, Committing, Executor

-----------------------------------------------------------------------------
(* The channels of the senders and the streams of their services.          *)

\* What a sender wrote: the commands of its streams and those that were handled.
LEMMA WrittenAre ==
  ASSUME TypeOK, Apart, NEW s \in Senders
  PROVE  /\ \A n \in Written(s) : n \in 1 .. MaxCommits
         /\ \A i \in DOMAIN conns[s] : \A p \in DOMAIN Stream(s, i) :
              Stream(s, i)[p].of.n \in Written(s) /\ Stream(s, i)[p] \in Halfs
         /\ \A h \in DOMAIN handled[s] : handled[s][h][1].of.n \in Written(s)
<1>1. ASSUME NEW i \in DOMAIN conns[s], NEW p \in DOMAIN Stream(s, i)
      PROVE  Stream(s, i)[p] \in Halfs /\ Stream(s, i)[p].of.n \in 1 .. MaxCommits
  <2>1. Stream(s, i) \in Seq(Halfs)
    BY StreamTyped
  <2>2. Stream(s, i)[p] \in Halfs
    BY <2>1, LenProperties, ElementOfSeq
  <2>3. Stream(s, i)[p].of \in Commands
    BY <2>2 DEF Halfs
  <2> QED  BY <2>2, <2>3, CommandsAre
<1>2. ASSUME NEW h \in DOMAIN handled[s]
      PROVE  handled[s][h][1].of.n \in 1 .. MaxCommits
  <2>1. handled[s] \in Seq(Seq(Halfs))
    BY DEF TypeOK
  <2>2. handled[s][h] \in Seq(Halfs)
    BY <2>1, LenProperties, ElementOfSeq
  <2>3. handled[s][h] = Halves(handled[s][h][1].of)
    BY DEF Apart
  <2>4. Len(handled[s][h]) = 2
    BY <2>3 DEF Halves
  <2>5. handled[s][h][1] \in Halfs
    BY <2>2, <2>4, ElementOfSeq
  <2>6. handled[s][h][1].of \in Commands
    BY <2>5 DEF Halfs
  <2> QED  BY <2>6, CommandsAre
<1> QED  BY <1>1, <1>2 DEF Written

\* Steps that leave the streams of a sender and what it handled alone.
LEMMA WrittenSame ==
  ASSUME NEW s \in Senders, handled'[s] = handled[s], DOMAIN conns'[s] = DOMAIN conns[s],
         \A i \in DOMAIN conns[s] : Stream(s, i)' = Stream(s, i)
  PROVE  Written(s)' = Written(s)
BY DEF Written

\* A step of others, which puts nothing into a channel of a sender.
LEMMA SendersStay ==
  ASSUME SendersInOrder, Framed, Apart, UNCHANGED <<commits, data, link, handled>>,
         \A s \in Senders : /\ DOMAIN conns'[s] = DOMAIN conns[s]
                            /\ \A i \in DOMAIN conns[s] : /\ Stream(s, i)' = Stream(s, i)
                                                          /\ conns'[s][i].buf = conns[s][i].buf
                            /\ Ahead("sender", s)' => Ahead("sender", s)
  PROVE  SendersInOrder' /\ Framed' /\ Apart'
<1>1. \A s \in Senders : Written(s)' = Written(s)
  BY WrittenSame
<1>2. SendersInOrder'
  BY <1>1 DEF SendersInOrder
<1>3. Framed'
  <2> SUFFICES ASSUME NEW s \in Senders, NEW i \in DOMAIN conns'[s]
               PROVE  /\ 1 \in DOMAIN Stream(s, i)' => Stream(s, i)'[1].part = 1
                      /\ \A p \in DOMAIN Stream(s, i)' : p + 1 \in DOMAIN Stream(s, i)' =>
                           /\ Stream(s, i)'[p + 1].part # Stream(s, i)'[p].part
                           /\ Stream(s, i)'[p].part = 1 => Stream(s, i)'[p + 1].of = Stream(s, i)'[p].of
                      /\ link'[s] = i => \A p \in DOMAIN Stream(s, i)' :
                                           p + 1 \notin DOMAIN Stream(s, i)' => Stream(s, i)'[p].part = 2
                      /\ Len(conns'[s][i].buf) < 2
    BY DEF Framed
  <2>1. i \in DOMAIN conns[s] /\ Stream(s, i)' = Stream(s, i) /\ conns'[s][i].buf = conns[s][i].buf /\ link' = link
    OBVIOUS
  <2> QED  BY <2>1 DEF Framed
<1>4. Apart'
  <2>1. \A s \in Senders :
          /\ handled'[s] = handled[s] /\ DOMAIN conns'[s] = DOMAIN conns[s]
          /\ \A i \in DOMAIN conns[s] : Stream(s, i)' = Stream(s, i)
    OBVIOUS
  <2> QED  BY <2>1 DEF Apart
<1> QED  BY <1>2, <1>3, <1>4

\* The same streams for the same connections.
LEMMA StreamsSame ==
  ASSUME UNCHANGED conns
  PROVE  \A s \in Senders : /\ DOMAIN conns'[s] = DOMAIN conns[s]
                            /\ \A i \in DOMAIN conns[s] : /\ Stream(s, i)' = Stream(s, i)
                                                          /\ conns'[s][i].buf = conns[s][i].buf
BY DEF Stream

\* The invariants of streams depend on the connections and on what was handled.
LEMMA StreamsStay ==
  ASSUME Framed, Apart, UNCHANGED <<conns, link, handled>>
  PROVE  Framed' /\ Apart' /\ \A s \in Senders : Written(s)' = Written(s)
<1>1. \A s \in Senders : /\ DOMAIN conns'[s] = DOMAIN conns[s]
                         /\ \A i \in DOMAIN conns[s] : Stream(s, i)' = Stream(s, i)
  BY StreamsSame
<1>2. \A s \in Senders : Written(s)' = Written(s)
  BY <1>1, WrittenSame
<1>3. Framed'
  BY <1>1 DEF Framed
<1>4. Apart'
  BY <1>1 DEF Apart
<1> QED  BY <1>2, <1>3, <1>4

\* A command with a new number: it is ahead of everything.
LEMMA SendersCommit ==
  ASSUME TypeOK, SendersInOrder, Framed, Apart, Commit
  PROVE  SendersInOrder' /\ Framed' /\ Apart'
<1>1. commits' = commits + 1 /\ commits \in Nat /\ UNCHANGED <<data, conns, link, handled>>
  BY DEF Commit, TypeOK, sending, service
<1>2. Framed' /\ Apart' /\ \A s \in Senders : Written(s)' = Written(s)
  BY <1>1, StreamsStay
<1>3. ASSUME NEW s \in Senders
      PROVE  /\ \A j, k \in DOMAIN data'[s] : j < k => data'[s][j].n < data'[s][k].n
             /\ \A j \in DOMAIN data'[s] : data'[s][j].n <= commits' /\ data'[s][j].n < commits'
             /\ \A n \in Written(s)' : n <= commits' /\ n < commits' /\ \A j \in DOMAIN data'[s] : n < data'[s][j].n
  <2>1. \A j \in DOMAIN data[s] : data[s][j].n \in Nat
    <3>1. data[s] \in Seq(Commands)
      BY DEF TypeOK
    <3> QED  BY <3>1, CommandsAre, LenProperties, ElementOfSeq
  <2>2. \A n \in Written(s) : n \in Nat
    BY WrittenAre
  <2>3. \A n \in Nat : n <= commits => n <= commits' /\ n < commits'
    BY <1>1
  <2>4. data' = data /\ Written(s)' = Written(s)
    BY <1>1, <1>2
  <2> QED  BY <2>1, <2>2, <2>3, <2>4, Zenon DEF SendersInOrder
<1>4. SendersInOrder'
  BY <1>3 DEF SendersInOrder
<1> QED  BY <1>2, <1>4

\* The command of Commit at the end of the channel of a sender.
LEMMA SendersPush ==
  ASSUME TypeOK, SendersInOrder, Framed, Apart, Numbered, Push
  PROVE  SendersInOrder' /\ Framed' /\ Apart'
<1>1. UNCHANGED <<commits, conns, link, handled>>
  BY DEF Push, sending, service
<1>a. Framed' /\ Apart' /\ \A s \in Senders : Written(s)' = Written(s)
  BY <1>1, StreamsStay
<1>2. commit # Idle /\ commit.what \in Commands /\ commit.what.n = commits
  BY PushTo DEF Numbered
<1>3. \A i \in Senders : Ahead("sender", i)' => Ahead("sender", i)
  BY AheadPush
<1>4. CASE UNCHANGED data
  BY <1>1, <1>3, <1>4, StreamsSame, SendersStay
<1>5. ASSUME NEW i \in Senders, Way[commit.at] = [to |-> "sender", i |-> i],
             data' = [data EXCEPT ![i] = Append(@, commit.what)]
      PROVE  SendersInOrder'
  <2>1. Ahead("sender", i) /\ ~Ahead("sender", i)'
    BY <1>5, AheadPush
  <2>2. data \in [Senders -> Seq(Commands)]
    BY DEF TypeOK
  <2>4. /\ \A j, k \in DOMAIN data[i] : j < k => data[i][j].n < data[i][k].n
        /\ \A j \in DOMAIN data[i] : data[i][j].n < commit.what.n /\ data[i][j].n <= commits
        /\ \A n \in Written(i) : n < commit.what.n /\ n <= commits /\ \A j \in DOMAIN data[i] : n < data[i][j].n
    BY <1>2, <2>1 DEF SendersInOrder
  <2> DEFINE a == Append(data[i], commit.what)
  <2>5. /\ \A j, k \in DOMAIN a : j < k => a[j].n < a[k].n
        /\ \A j \in DOMAIN a : a[j] = commit.what \/ (j \in DOMAIN data[i] /\ a[j] = data[i][j])
    <3>1. data[i] \in Seq(Commands)
      BY <2>2
    <3> QED  BY <1>2, <2>4, <3>1, Newest
  <2>6. data'[i] = a /\ \A m \in Senders \ {i} : data'[m] = data[m]
    BY <1>5, <2>2
  <2> HIDE DEF a
  <2>7. commits <= commits
    BY DEF TypeOK
  <2>8. ASSUME NEW m \in Senders
        PROVE  /\ \A j, k \in DOMAIN data'[m] : j < k => data'[m][j].n < data'[m][k].n
               /\ \A j \in DOMAIN data'[m] : /\ data'[m][j].n <= commits'
                                             /\ Ahead("sender", m)' => data'[m][j].n < commits'
               /\ \A n \in Written(m)' : /\ n <= commits' /\ (Ahead("sender", m)' => n < commits')
                                         /\ \A j \in DOMAIN data'[m] : n < data'[m][j].n
    <3>1. CASE m = i
      <4>1. \A j \in DOMAIN a : a[j].n <= commits
        BY <1>2, <2>4, <2>5, <2>7
      <4>2. \A n \in Written(i) : \A j \in DOMAIN a : n < a[j].n
        BY <2>4, <2>5
      <4> QED  BY <1>1, <1>a, <2>1, <2>4, <2>5, <2>6, <3>1, <4>1, <4>2
    <3>2. CASE m # i
      <4>1. data'[m] = data[m] /\ Written(m)' = Written(m) /\ commits' = commits
        BY <1>1, <1>a, <2>6, <3>2
      <4> QED  BY <1>3, <4>1, Zenon DEF SendersInOrder
    <3> QED  BY <3>1, <3>2
  <2> QED  BY <2>8 DEF SendersInOrder
<1> QED  BY <1>a, <1>4, <1>5, PushTo

\* The oldest command leaves the channel of a sender; what the sender wrote is what
\* it had written and perhaps this command.
LEMMA SendersTake ==
  ASSUME TypeOK, SendersInOrder, Apart, NEW s \in Senders, data[s] # <<>>,
         data' = [data EXCEPT ![s] = Tail(@)], UNCHANGED <<config, commit, commits>>,
         \A t \in Senders : \A n \in Written(t)' : n \in Written(t) \/ (t = s /\ n = Head(data[s]).n)
  PROVE  SendersInOrder'
<1>1. PICK c : c = Head(data[s])
  OBVIOUS
<1>2. data[s] \in Seq(Commands) /\ data \in [Senders -> Seq(Commands)]
  BY DEF TypeOK
<1>6. /\ \A j, k \in DOMAIN data[s] : j < k => data[s][j].n < data[s][k].n
      /\ \A j \in DOMAIN data[s] : data[s][j].n <= commits /\ (Ahead("sender", s) => data[s][j].n < commits)
      /\ \A n \in Written(s) : /\ n <= commits /\ (Ahead("sender", s) => n < commits)
                               /\ \A j \in DOMAIN data[s] : n < data[s][j].n
  BY DEF SendersInOrder
<1>7. /\ c \in Commands /\ c = data[s][1] /\ 1 \in DOMAIN data[s]
      /\ \A j \in DOMAIN Tail(data[s]) : /\ j + 1 \in DOMAIN data[s] /\ Tail(data[s])[j] = data[s][j + 1]
                                         /\ c.n < Tail(data[s])[j].n
      /\ \A j, k \in DOMAIN Tail(data[s]) : j < k => Tail(data[s])[j].n < Tail(data[s])[k].n
  BY <1>1, <1>2, <1>6, Oldest
<1>11. Way' = Way
  BY WaySame
<1>12. \A m \in Senders : Ahead("sender", m)' = Ahead("sender", m)
  BY <1>11 DEF Ahead
<1>13. data'[s] = Tail(data[s]) /\ \A m \in Senders \ {s} : data'[m] = data[m]
  BY <1>2
<1>14. ASSUME NEW m \in Senders
       PROVE  /\ \A j, k \in DOMAIN data'[m] : j < k => data'[m][j].n < data'[m][k].n
              /\ \A j \in DOMAIN data'[m] : /\ data'[m][j].n <= commits'
                                            /\ Ahead("sender", m)' => data'[m][j].n < commits'
              /\ \A n \in Written(m)' : /\ n <= commits' /\ (Ahead("sender", m)' => n < commits')
                                        /\ \A j \in DOMAIN data'[m] : n < data'[m][j].n
  <2>1. CASE m = s
    <3>1. data'[m] = Tail(data[s]) /\ commits' = commits /\ Ahead("sender", m)' = Ahead("sender", s)
      BY <1>12, <1>13, <2>1
    <3>2. \A j \in DOMAIN data'[m] : /\ data'[m][j].n <= commits'
                                     /\ Ahead("sender", m)' => data'[m][j].n < commits'
      BY <1>6, <1>7, <3>1, ZenonT(30)
    <3>3. ASSUME NEW n \in Written(m)'
          PROVE  /\ n <= commits' /\ (Ahead("sender", m)' => n < commits')
                 /\ \A j \in DOMAIN data'[m] : n < data'[m][j].n
      <4>1. CASE n \in Written(s)
        BY <1>6, <1>7, <3>1, <4>1
      <4>2. CASE n = c.n
        BY <1>6, <1>7, <3>1, <4>2
      <4> QED  BY <1>1, <2>1, <3>3, <4>1, <4>2
    <3> QED  BY <1>7, <3>1, <3>2, <3>3
  <2>2. CASE m # s
    <3>1. data'[m] = data[m] /\ commits' = commits /\ Ahead("sender", m)' = Ahead("sender", m)
      BY <1>12, <1>13, <2>2
    <3>2. \A n \in Written(m)' : n \in Written(m)
      BY <2>2
    <3> QED  BY <3>1, <3>2, Zenon DEF SendersInOrder
  <2> QED  BY <2>1, <2>2
<1> QED  BY <1>14 DEF SendersInOrder

Joins(S, b, w, x) ==
  /\ b \o (w \o x) \in Seq(S) /\ Len(b \o w) \in Nat
  /\ DOMAIN (b \o w) = 1 .. Len(b \o w) /\ DOMAIN x = 1 .. Len(x) /\ Len(x) \in Nat
  /\ DOMAIN (b \o (w \o x)) = 1 .. Len(b \o w) + Len(x)
  /\ \A p \in 1 .. Len(b \o w) : (b \o (w \o x))[p] = (b \o w)[p]
  /\ \A q \in 1 .. Len(x) : (b \o (w \o x))[Len(b \o w) + q] = x[q]

\* A stream and what is written to it.
LEMMA Joined ==
  ASSUME NEW S, NEW b \in Seq(S), NEW w \in Seq(S), NEW x \in Seq(S)
  PROVE  Joins(S, b, w, x)
<1>1. PICK v : v = b \o w
  OBVIOUS
<1>2. b \o (w \o x) = v \o x
  BY <1>1, ConcatAssociative
<1>3. v \in Seq(S) /\ Len(v) \in Nat /\ DOMAIN v = 1 .. Len(v) /\ DOMAIN x = 1 .. Len(x) /\ Len(x) \in Nat
  BY <1>1, ConcatProperties, LenProperties
<1>4. /\ v \o x \in Seq(S) /\ Len(v \o x) = Len(v) + Len(x)
      /\ \A i \in 1 .. Len(v) + Len(x) : (v \o x)[i] = IF i <= Len(v) THEN v[i] ELSE x[i - Len(v)]
  BY ONLY <1>3, x \in Seq(S), ConcatProperties
<1>5. DOMAIN (v \o x) = 1 .. Len(v) + Len(x)
  BY <1>4, LenProperties
<1>6. \A p \in 1 .. Len(v) : (v \o x)[p] = v[p]
  BY <1>3, <1>4
<1>7. ASSUME NEW q \in 1 .. Len(x)
      PROVE  (v \o x)[Len(v) + q] = x[q]
  <2>1. Len(v) + q \in 1 .. Len(v) + Len(x) /\ ~(Len(v) + q <= Len(v)) /\ (Len(v) + q) - Len(v) = q
    BY <1>3
  <2> QED  BY <1>4, <2>1
<1>8. /\ v \o x \in Seq(S) /\ Len(v) \in Nat
      /\ DOMAIN v = 1 .. Len(v) /\ DOMAIN x = 1 .. Len(x) /\ Len(x) \in Nat
      /\ DOMAIN (v \o x) = 1 .. Len(v) + Len(x)
      /\ \A p \in 1 .. Len(v) : (v \o x)[p] = v[p]
      /\ \A q \in 1 .. Len(x) : (v \o x)[Len(v) + q] = x[q]
  BY ONLY <1>3, <1>4, <1>5, <1>6, <1>7, Zenon
<1> QED  BY ONLY <1>1, <1>2, <1>8, Zenon DEF Joins

\* The streams when a sender has written x.
LEMMA SentStream ==
  ASSUME TypeOK, NEW s \in Senders, data[s] # <<>>, link[s] # 0, NEW x \in Seq(Halfs),
         conns' = [conns EXCEPT ![s][link[s]].wire = @ \o x]
  PROVE  \E l : /\ l = link[s]
                /\ l \in DOMAIN conns[s] /\ Stream(s, l)' \in Seq(Halfs) /\ Len(Stream(s, l)) \in Nat
                /\ \A t \in Senders : /\ DOMAIN conns'[t] = DOMAIN conns[t]
                                      /\ \A i \in DOMAIN conns[t] :
                                           /\ t # s \/ i # l => Stream(t, i)' = Stream(t, i)
                                           /\ conns'[t][i].buf = conns[t][i].buf
                /\ DOMAIN Stream(s, l) = 1 .. Len(Stream(s, l)) /\ DOMAIN x = 1 .. Len(x) /\ Len(x) \in Nat
                /\ DOMAIN Stream(s, l)' = 1 .. Len(Stream(s, l)) + Len(x)
                /\ \A p \in 1 .. Len(Stream(s, l)) : Stream(s, l)'[p] = Stream(s, l)[p]
                /\ \A q \in 1 .. Len(x) : Stream(s, l)'[Len(Stream(s, l)) + q] = x[q]
<1>0. PICK l : l = link[s]
  OBVIOUS
<1>1. /\ l \in DOMAIN conns[s] /\ conns' \in [Senders -> Seq(Connections)]
      /\ \A t \in Senders : DOMAIN conns'[t] = DOMAIN conns[t]
      /\ \A t \in Senders : \A i \in DOMAIN conns[t] :
              /\ t # s \/ i # l => conns'[t][i] = conns[t][i]
              /\ conns'[t][i].buf = conns[t][i].buf
      /\ conns'[s][l].wire = conns[s][l].wire \o x
  <2>1. link[s] # 0
    OBVIOUS
  <2>2. /\ link[s] \in DOMAIN conns[s] /\ conns' \in [Senders -> Seq(Connections)]
        /\ \A t \in Senders : DOMAIN conns'[t] = DOMAIN conns[t] /\ Len(conns'[t]) = Len(conns[t])
        /\ \A t \in Senders : \A i \in DOMAIN conns[t] :
              /\ t # s \/ i # link[s] => conns'[t][i] = conns[t][i]
              /\ conns'[t][i].buf = conns[t][i].buf
        /\ conns'[s][link[s]].wire = conns[s][link[s]].wire \o x
    BY <2>1, Sends, Zenon
  <2> QED  BY <1>0, <2>2
<1>2. \A t \in Senders : \A i \in DOMAIN conns[t] : t # s \/ i # l => Stream(t, i)' = Stream(t, i)
  BY <1>1 DEF Stream
<1>3. PICK b \in Seq(Halfs), w \in Seq(Halfs) : b = conns[s][l].buf /\ w = conns[s][l].wire
  BY <1>1, StreamTyped
<1>4. Stream(s, l)' = b \o (w \o x) /\ Stream(s, l) = b \o w
  BY <1>1, <1>3 DEF Stream
<1>5. /\ b \o (w \o x) \in Seq(Halfs) /\ Len(b \o w) \in Nat
      /\ DOMAIN (b \o w) = 1 .. Len(b \o w) /\ DOMAIN x = 1 .. Len(x) /\ Len(x) \in Nat
      /\ DOMAIN (b \o (w \o x)) = 1 .. Len(b \o w) + Len(x)
      /\ \A p \in 1 .. Len(b \o w) : (b \o (w \o x))[p] = (b \o w)[p]
      /\ \A q \in 1 .. Len(x) : (b \o (w \o x))[Len(b \o w) + q] = x[q]
  <2>1. b \in Seq(Halfs) /\ w \in Seq(Halfs) /\ x \in Seq(Halfs)
    BY <1>3
  <2>2. Joins(Halfs, b, w, x)
    BY ONLY <2>1, Joined, Zenon
  <2> QED  BY ONLY <2>2, Zenon DEF Joins
<1>6. /\ l \in DOMAIN conns[s] /\ Stream(s, l)' \in Seq(Halfs) /\ Len(Stream(s, l)) \in Nat
      /\ \A t \in Senders : /\ DOMAIN conns'[t] = DOMAIN conns[t]
                            /\ \A i \in DOMAIN conns[t] :
                                 /\ t # s \/ i # l => Stream(t, i)' = Stream(t, i)
                                 /\ conns'[t][i].buf = conns[t][i].buf
      /\ DOMAIN Stream(s, l) = 1 .. Len(Stream(s, l)) /\ DOMAIN x = 1 .. Len(x) /\ Len(x) \in Nat
      /\ DOMAIN Stream(s, l)' = 1 .. Len(Stream(s, l)) + Len(x)
      /\ \A p \in 1 .. Len(Stream(s, l)) : Stream(s, l)'[p] = Stream(s, l)[p]
      /\ \A q \in 1 .. Len(x) : Stream(s, l)'[Len(Stream(s, l)) + q] = x[q]
  BY ONLY <1>1, <1>2, <1>4, <1>5
<1> QED  BY ONLY <1>0, <1>6

\* A sender writes k halves of its oldest command, all of them or those that go
\* before its connection is given up.
LEMMA SenderWrites ==
  ASSUME TypeOK, SendersInOrder, Framed, Apart, NEW s \in Senders, data[s] # <<>>, link[s] # 0,
         NEW k \in 0 .. 2, NEW x \in Seq(Halfs), Len(x) = k,
         \A q \in 1 .. k : x[q] = [of |-> Head(data[s]), part |-> q],
         data' = [data EXCEPT ![s] = Tail(@)], conns' = [conns EXCEPT ![s][link[s]].wire = @ \o x],
         (k = 2 /\ link' = link) \/ link' = [link EXCEPT ![s] = 0],
         UNCHANGED <<config, commit, commits, handled>>
  PROVE  SendersInOrder' /\ Framed' /\ Apart'
<1>0. PICK c : c = Head(data[s])
  OBVIOUS
<1>2. PICK l : /\ l = link[s]
               /\ l \in DOMAIN conns[s] /\ Stream(s, l)' \in Seq(Halfs) /\ Len(Stream(s, l)) \in Nat
               /\ \A t \in Senders : /\ DOMAIN conns'[t] = DOMAIN conns[t]
                                     /\ \A i \in DOMAIN conns[t] :
                                          /\ t # s \/ i # l => Stream(t, i)' = Stream(t, i)
                                          /\ conns'[t][i].buf = conns[t][i].buf
               /\ DOMAIN Stream(s, l) = 1 .. Len(Stream(s, l)) /\ DOMAIN x = 1 .. Len(x) /\ Len(x) \in Nat
               /\ DOMAIN Stream(s, l)' = 1 .. Len(Stream(s, l)) + Len(x)
               /\ \A p \in 1 .. Len(Stream(s, l)) : Stream(s, l)'[p] = Stream(s, l)[p]
               /\ \A q \in 1 .. Len(x) : Stream(s, l)'[Len(Stream(s, l)) + q] = x[q]
  BY SentStream, Zenon
<1>1. l = link[s] /\ c = Head(data[s])
  BY <1>0, <1>2
<1>3. PICK m \in Nat : m = Len(Stream(s, l))
  BY <1>2
<1>m. m \in Nat /\ k \in 0 .. 2
  BY <1>3
<1>4. /\ DOMAIN Stream(s, l) = 1 .. m /\ DOMAIN Stream(s, l)' = 1 .. m + k
      /\ \A p \in 1 .. m : Stream(s, l)'[p] = Stream(s, l)[p]
      /\ \A q \in 1 .. k : Stream(s, l)'[m + q] = [of |-> c, part |-> q]
  <2>1. \A q \in 1 .. k : x[q] = [of |-> c, part |-> q]
    BY <1>1
  <2>2. /\ DOMAIN Stream(s, l) = 1 .. m /\ DOMAIN Stream(s, l)' = 1 .. m + k
        /\ \A p \in 1 .. m : Stream(s, l)'[p] = Stream(s, l)[p]
        /\ \A q \in 1 .. k : Stream(s, l)'[m + q] = x[q]
    BY <1>2, <1>3, Zenon
  <2> QED  BY <2>1, <2>2, Zenon
<1>5. \A p \in 1 .. m + k : \/ p \in 1 .. m /\ Stream(s, l)'[p] = Stream(s, l)[p]
                            \/ \E q \in 1 .. k : p = m + q /\ Stream(s, l)'[p] = [of |-> c, part |-> q]
  <2> SUFFICES ASSUME NEW p \in 1 .. m + k, p \notin 1 .. m
               PROVE  \E q \in 1 .. k : p = m + q
    <3>1. ASSUME NEW p \in 1 .. m + k
          PROVE  \/ p \in 1 .. m /\ Stream(s, l)'[p] = Stream(s, l)[p]
                 \/ \E q \in 1 .. k : p = m + q /\ Stream(s, l)'[p] = [of |-> c, part |-> q]
      <4>1. CASE p \in 1 .. m
        BY <1>4, <4>1
      <4>2. CASE p \notin 1 .. m
        <5>1. PICK q \in 1 .. k : p = m + q
          BY <4>2
        <5>2. Stream(s, l)'[p] = [of |-> c, part |-> q]
          BY <1>4, <5>1
        <5> QED  BY <5>1, <5>2
      <4> QED  BY <4>1, <4>2
    <3> QED  BY <3>1
  <2>0. p \in 1 .. m + k /\ p \notin 1 .. m
    OBVIOUS
  <2>1. p - m \in 1 .. k /\ p = m + (p - m)
    BY ONLY <1>m, <2>0
  <2> QED  BY <2>1
<1>6. data[s] \in Seq(Commands) /\ c \in Commands /\ c = data[s][1] /\ 1 \in DOMAIN data[s] /\ c.n \in 1 .. MaxCommits
  <2>1. data[s] \in Seq(Commands)
    BY DEF TypeOK
  <2> QED  BY <1>1, <2>1, Tailed, CommandsAre
<1>7. \A n \in Written(s) : n < c.n
  BY <1>6 DEF SendersInOrder
<1>8. \A t \in Senders : \A n \in Written(t)' : n \in Written(t) \/ (t = s /\ n = c.n)
  <2> SUFFICES ASSUME NEW t \in Senders, NEW n \in Written(t)' PROVE n \in Written(t) \/ (t = s /\ n = c.n)
    OBVIOUS
  <2>1. n \in 1 .. MaxCommits
    BY DEF Written
  <2>2. ASSUME NEW i \in DOMAIN conns'[t], NEW p \in DOMAIN Stream(t, i)', Stream(t, i)'[p].of.n = n
        PROVE  n \in Written(t) \/ (t = s /\ n = c.n)
    <3>1. i \in DOMAIN conns[t]
      BY <1>2
    <3>2. CASE t # s \/ i # l
      <4>1. Stream(t, i)' = Stream(t, i)
        BY <1>2, <3>1, <3>2
      <4> QED  BY <2>1, <2>2, <3>1, <4>1 DEF Written
    <3>3. CASE t = s /\ i = l
      <4>1. CASE p \in 1 .. m /\ Stream(s, l)'[p] = Stream(s, l)[p]
        BY <1>4, <2>1, <2>2, <3>1, <3>3, <4>1 DEF Written
      <4>2. CASE Stream(s, l)'[p].of = c
        BY <2>2, <3>3, <4>2
      <4> QED  BY <1>4, <1>5, <2>2, <3>3, <4>1, <4>2
    <3> QED  BY <3>2, <3>3
  <2>3. ASSUME NEW h \in DOMAIN handled'[t], handled'[t][h][1].of.n = n
        PROVE  n \in Written(t)
    BY <2>1, <2>3 DEF Written
  <2> QED  BY <2>2, <2>3 DEF Written
<1>9. SendersInOrder'
  BY <1>1, <1>8, SendersTake
<1>10. Framed'
  <2> SUFFICES ASSUME NEW t \in Senders, NEW i \in DOMAIN conns'[t]
               PROVE  /\ 1 \in DOMAIN Stream(t, i)' => Stream(t, i)'[1].part = 1
                      /\ \A p \in DOMAIN Stream(t, i)' : p + 1 \in DOMAIN Stream(t, i)' =>
                           /\ Stream(t, i)'[p + 1].part # Stream(t, i)'[p].part
                           /\ Stream(t, i)'[p].part = 1 => Stream(t, i)'[p + 1].of = Stream(t, i)'[p].of
                      /\ link'[t] = i => \A p \in DOMAIN Stream(t, i)' :
                                           p + 1 \notin DOMAIN Stream(t, i)' => Stream(t, i)'[p].part = 2
                      /\ Len(conns'[t][i].buf) < 2
    BY DEF Framed
  <2>0. t \in Senders /\ i \in DOMAIN conns'[t]
    OBVIOUS
  <2>1. i \in DOMAIN conns[t] /\ conns'[t][i].buf = conns[t][i].buf
    BY ONLY <1>2, <2>0
  <2>2. link \in [Senders -> Nat]
    BY DEF TypeOK
  <2>3. CASE t # s \/ i # l
    <3>1. Stream(t, i)' = Stream(t, i)
      BY <1>2, <2>1, <2>3
    <3>2. link'[t] = i => link[t] = i
      <4>1. DOMAIN conns[t] = 1 .. Len(conns[t])
        BY <2>2, LenProperties DEF TypeOK
      <4>2. i # 0
        BY <2>1, <4>1
      <4> QED  BY <2>2, <4>2
    <3> QED  BY <2>1, <3>1, <3>2 DEF Framed
  <2>4. CASE t = s /\ i = l
    <3>1. /\ 1 \in 1 .. m => Stream(s, l)[1].part = 1
          /\ \A p \in 1 .. m : p + 1 \in 1 .. m =>
               /\ Stream(s, l)[p + 1].part # Stream(s, l)[p].part
               /\ Stream(s, l)[p].part = 1 => Stream(s, l)[p + 1].of = Stream(s, l)[p].of
          /\ \A p \in 1 .. m : p + 1 \notin 1 .. m => Stream(s, l)[p].part = 2
          /\ Len(conns[s][l].buf) < 2
      <4>1. /\ 1 \in DOMAIN Stream(s, l) => Stream(s, l)[1].part = 1
            /\ \A p \in DOMAIN Stream(s, l) : p + 1 \in DOMAIN Stream(s, l) =>
                 /\ Stream(s, l)[p + 1].part # Stream(s, l)[p].part
                 /\ Stream(s, l)[p].part = 1 => Stream(s, l)[p + 1].of = Stream(s, l)[p].of
            /\ \A p \in DOMAIN Stream(s, l) :
                 p + 1 \notin DOMAIN Stream(s, l) => Stream(s, l)[p].part = 2
            /\ Len(conns[s][l].buf) < 2
        BY <1>1, <1>2, ZenonT(30) DEF Framed
      <4>2. DOMAIN Stream(s, l) = 1 .. m
        BY <1>4
      <4> QED  BY ONLY <4>1, <4>2
    <3>2. 1 \in 1 .. m + k => Stream(s, l)'[1].part = 1
      <4>1. CASE m = 0
        <5>1. 1 \in 1 .. m + k => 1 \in 1 .. k /\ m + 1 = 1
          BY <4>1
        <5>2. 1 \in 1 .. k => Stream(s, l)'[m + 1] = [of |-> c, part |-> 1]
          BY <1>4
        <5> QED  BY <5>1, <5>2, SMTT(30)
      <4>2. CASE m > 0
        <5>1. 1 \in 1 .. m
          BY <1>4, <4>2
        <5>2. Stream(s, l)'[1] = Stream(s, l)[1]
          BY <1>4, <5>1
        <5>3. Stream(s, l)[1].part = 1
          BY <3>1, <5>1
        <5> QED  BY <5>2, <5>3
      <4> QED  BY <4>1, <4>2
    <3>3. ASSUME NEW p \in 1 .. m + k, p + 1 \in 1 .. m + k
          PROVE  /\ Stream(s, l)'[p + 1].part # Stream(s, l)'[p].part
                 /\ Stream(s, l)'[p].part = 1 => Stream(s, l)'[p + 1].of = Stream(s, l)'[p].of
      <4>1. CASE p + 1 \in 1 .. m
        <5>1. p \in 1 .. m
          BY <4>1
        <5> QED  BY <1>4, <3>1, <4>1, <5>1
      <4>2. CASE p = m
        <5>1. p \in 1 .. m /\ p + 1 \notin 1 .. m /\ 1 \in 1 .. k
          BY <3>3, <4>2, SMTT(30)
        <5>2. Stream(s, l)'[p].part = 2
          BY <1>4, <3>1, <5>1
        <5>3. Stream(s, l)'[p + 1] = [of |-> c, part |-> 1]
          BY <1>4, <4>2, <5>1
        <5>4. Stream(s, l)'[p + 1].part = 1
          BY <5>3
        <5> QED  BY <5>2, <5>4
      <4>3. CASE p > m
        <5>0. p \in 1 .. m + k /\ p + 1 \in 1 .. m + k /\ p > m
          BY <3>3, <4>3
        <5>1. k = 2 /\ p = m + 1 /\ p + 1 = m + 2
          BY ONLY <1>m, <5>0
        <5>2. Stream(s, l)'[p] = [of |-> c, part |-> 1] /\ Stream(s, l)'[p + 1] = [of |-> c, part |-> 2]
          BY <1>4, <5>1, SMTT(30)
        <5> QED  BY <5>2
      <4> QED  BY <4>1, <4>2, <4>3, SMTT(30)
    <3>4. ASSUME link'[s] = l, NEW p \in 1 .. m + k, p + 1 \notin 1 .. m + k
          PROVE  Stream(s, l)'[p].part = 2
      <4>1. k = 2
        BY <1>1, <2>2, <3>4
      <4>2. p = m + 2
        BY <3>4, <4>1, SMTT(30)
      <4>3. Stream(s, l)'[p] = [of |-> c, part |-> 2]
        BY <1>4, <4>1, <4>2
      <4> QED  BY <4>3
    <3>5. Len(conns'[s][l].buf) < 2
      BY <2>1, <2>4, <3>1
    <3> QED  BY <1>4, <2>4, <3>2, <3>3, <3>4, <3>5
  <2> QED  BY <2>3, <2>4
<1>11. Apart'
  <2>1. ASSUME NEW i \in DOMAIN conns[s], NEW p \in DOMAIN Stream(s, i)'
        PROVE  \/ p \in DOMAIN Stream(s, i) /\ Stream(s, i)'[p] = Stream(s, i)[p]
               \/ i = l /\ \E q \in 1 .. k : p = m + q /\ Stream(s, i)'[p] = [of |-> c, part |-> q]
    <3>1. CASE i # l
      BY <1>2, <3>1
    <3>2. CASE i = l
      BY <1>4, <1>5, <3>2
    <3> QED  BY <3>1, <3>2
  <2>a. \A n \in Written(s) : n # c.n
    <3>1. \A n \in Written(s) : n \in Nat /\ n < c.n
      BY <1>7, WrittenAre
    <3> QED  BY <1>6, <3>1, SMTT(30)
  <2>2. \A i \in DOMAIN conns[s] : \A p \in DOMAIN Stream(s, i) : Stream(s, i)[p].of.n # c.n
    BY <2>a, WrittenAre, Zenon
  <2>3. \A h \in DOMAIN handled[s] : handled[s][h][1].of.n # c.n
    BY <2>a, WrittenAre, Zenon
  <2>4. ASSUME NEW i \in DOMAIN conns[s], NEW j \in DOMAIN conns[s],
               NEW p \in DOMAIN Stream(s, i)', NEW q \in DOMAIN Stream(s, j)',
               Stream(s, i)'[p].of.n = Stream(s, j)'[q].of.n, Stream(s, i)'[p].part = Stream(s, j)'[q].part
        PROVE  i = j /\ p = q
    <3>1. CASE p \in DOMAIN Stream(s, i) /\ Stream(s, i)'[p] = Stream(s, i)[p]
      <4>1. CASE q \in DOMAIN Stream(s, j) /\ Stream(s, j)'[q] = Stream(s, j)[q]
        BY <2>4, <3>1, <4>1 DEF Apart
      <4>2. CASE Stream(s, j)'[q].of = c
        BY <2>2, <2>4, <3>1, <4>2
      <4> QED  BY <2>1, <4>1, <4>2
    <3>2. ASSUME i = l, NEW g \in 1 .. k, p = m + g, Stream(s, i)'[p] = [of |-> c, part |-> g]
          PROVE  i = j /\ p = q
      <4>1. CASE q \in DOMAIN Stream(s, j) /\ Stream(s, j)'[q] = Stream(s, j)[q]
        BY <2>2, <2>4, <3>2, <4>1
      <4>2. ASSUME j = l, NEW h \in 1 .. k, q = m + h, Stream(s, j)'[q] = [of |-> c, part |-> h]
            PROVE  i = j /\ p = q
        BY <2>4, <3>2, <4>2
      <4> QED  BY <2>1, <4>1, <4>2
    <3> QED  BY <2>1, <3>1, <3>2
  <2>5. ASSUME NEW h \in DOMAIN handled[s], NEW i \in DOMAIN conns[s], NEW p \in DOMAIN Stream(s, i)'
        PROVE  Stream(s, i)'[p].of.n # handled[s][h][1].of.n
    <3>1. CASE p \in DOMAIN Stream(s, i) /\ Stream(s, i)'[p] = Stream(s, i)[p]
      BY <3>1 DEF Apart
    <3>2. CASE Stream(s, i)'[p].of = c
      BY <2>3, <3>2
    <3> QED  BY <2>1, <3>1, <3>2
  <2>6. ASSUME NEW t \in Senders
        PROVE  /\ \A i, j \in DOMAIN conns'[t] : \A p \in DOMAIN Stream(t, i)', q \in DOMAIN Stream(t, j)' :
                    /\ Stream(t, i)'[p].of.n = Stream(t, j)'[q].of.n
                    /\ Stream(t, i)'[p].part = Stream(t, j)'[q].part
                    => i = j /\ p = q
               /\ \A h \in DOMAIN handled'[t] :
                    /\ handled'[t][h] = Halves(handled'[t][h][1].of)
                    /\ \A i \in DOMAIN conns'[t] : \A p \in DOMAIN Stream(t, i)' :
                         Stream(t, i)'[p].of.n # handled'[t][h][1].of.n
                    /\ \A g \in DOMAIN handled'[t] :
                         g # h => handled'[t][g][1].of.n # handled'[t][h][1].of.n
    <3>1. CASE t = s
      <4>1. DOMAIN conns'[t] = DOMAIN conns[s] /\ handled' = handled
        BY <1>2, <3>1
      <4>2. /\ \A i, j \in DOMAIN conns'[t] : \A p \in DOMAIN Stream(t, i)', q \in DOMAIN Stream(t, j)' :
                    /\ Stream(t, i)'[p].of.n = Stream(t, j)'[q].of.n
                    /\ Stream(t, i)'[p].part = Stream(t, j)'[q].part
                    => i = j /\ p = q
        BY <2>4, <3>1, <4>1
      <4>3. \A h \in DOMAIN handled'[t] :
                    /\ handled'[t][h] = Halves(handled'[t][h][1].of)
                    /\ \A g \in DOMAIN handled'[t] :
                         g # h => handled'[t][g][1].of.n # handled'[t][h][1].of.n
        BY <3>1, <4>1 DEF Apart
      <4> QED  BY <2>5, <3>1, <4>1, <4>2, <4>3
    <3>2. CASE t # s
      <4>1. /\ DOMAIN conns'[t] = DOMAIN conns[t] /\ handled' = handled
            /\ \A i \in DOMAIN conns[t] : Stream(t, i)' = Stream(t, i)
        BY <1>2, <3>2
      <4> QED  BY <4>1, SMTT(30) DEF Apart
    <3> QED  BY <3>1, <3>2
  <2> QED  BY <2>6 DEF Apart
<1> QED  BY <1>9, <1>10, <1>11

\* A new connection, with nothing in its stream.
LEMMA SenderDials ==
  ASSUME TypeOK, SendersInOrder, Framed, Apart, NEW s \in Senders, Dial(s)
  PROVE  SendersInOrder' /\ Framed' /\ Apart'
<1>1. /\ UNCHANGED <<config, commit, commits, data, handled>> /\ link[s] = 0
      /\ link' = [link EXCEPT ![s] = Len(conns[s]) + 1]
  <2>1. UNCHANGED <<config, ctx, now, committing, chan, executing, data, service>> /\ link[s] = 0
    BY DEF Dial
  <2>2. link' = [link EXCEPT ![s] = Len(conns[s]) + 1]
    BY Dials
  <2> QED  BY <2>1, <2>2 DEF committing, service
<1>2. /\ \A t \in Senders \ {s} : conns'[t] = conns[t]
      /\ \A j \in DOMAIN conns'[s] :
           \/ j \in DOMAIN conns[s] /\ conns'[s][j] = conns[s][j]
           \/ /\ j = Len(conns[s]) + 1 /\ conns'[s][j].buf = <<>> /\ conns'[s][j].wire = <<>>
              /\ DOMAIN Stream(s, j)' = {}
  BY Dials
<1>3. ASSUME NEW t \in Senders, NEW j \in DOMAIN conns'[t]
      PROVE  \/ j \in DOMAIN conns[t] /\ Stream(t, j)' = Stream(t, j) /\ conns'[t][j].buf = conns[t][j].buf
             \/ t = s /\ j = Len(conns[s]) + 1 /\ DOMAIN Stream(t, j)' = {} /\ conns'[t][j].buf = <<>>
  <2>1. CASE j \in DOMAIN conns[t] /\ conns'[t][j] = conns[t][j]
    <3>1. Stream(t, j)' = Stream(t, j)
      BY <2>1 DEF Stream
    <3> QED  BY <2>1, <3>1
  <2>2. CASE t = s /\ j = Len(conns[s]) + 1 /\ DOMAIN Stream(t, j)' = {} /\ conns'[t][j].buf = <<>>
    BY <2>2
  <2> QED  BY <1>2, <2>1, <2>2
<1>4. \A t \in Senders : \A n \in Written(t)' : n \in Written(t)
  <2> SUFFICES ASSUME NEW t \in Senders, NEW n \in Written(t)' PROVE n \in Written(t)
    OBVIOUS
  <2>1. n \in 1 .. MaxCommits
    BY DEF Written
  <2>2. ASSUME NEW i \in DOMAIN conns'[t], NEW p \in DOMAIN Stream(t, i)', Stream(t, i)'[p].of.n = n
        PROVE  n \in Written(t)
    <3>1. i \in DOMAIN conns[t] /\ Stream(t, i)' = Stream(t, i)
      BY <1>3, <2>2
    <3> QED  BY <2>1, <2>2, <3>1 DEF Written
  <2>3. ASSUME NEW h \in DOMAIN handled'[t], handled'[t][h][1].of.n = n
        PROVE  n \in Written(t)
    BY <1>1, <2>1, <2>3 DEF Written
  <2> QED  BY <2>2, <2>3 DEF Written
<1>5. SendersInOrder'
  <2>1. Way' = Way
    BY <1>1, WaySame
  <2>2. \A m \in Senders : Ahead("sender", m)' = Ahead("sender", m)
    BY <1>1, <2>1 DEF Ahead
  <2>3. data' = data /\ commits' = commits
    BY <1>1
  <2> QED  BY <1>4, <2>2, <2>3, Zenon DEF SendersInOrder
<1>6. Framed'
  <2> SUFFICES ASSUME NEW t \in Senders, NEW i \in DOMAIN conns'[t]
               PROVE  /\ 1 \in DOMAIN Stream(t, i)' => Stream(t, i)'[1].part = 1
                      /\ \A p \in DOMAIN Stream(t, i)' : p + 1 \in DOMAIN Stream(t, i)' =>
                           /\ Stream(t, i)'[p + 1].part # Stream(t, i)'[p].part
                           /\ Stream(t, i)'[p].part = 1 => Stream(t, i)'[p + 1].of = Stream(t, i)'[p].of
                      /\ link'[t] = i => \A p \in DOMAIN Stream(t, i)' :
                                           p + 1 \notin DOMAIN Stream(t, i)' => Stream(t, i)'[p].part = 2
                      /\ Len(conns'[t][i].buf) < 2
    BY DEF Framed
  <2>1. CASE i \in DOMAIN conns[t] /\ Stream(t, i)' = Stream(t, i) /\ conns'[t][i].buf = conns[t][i].buf
    <3>1. link'[t] = i => link[t] = i
      <4>1. link \in [Senders -> Nat] /\ DOMAIN conns[t] = 1 .. Len(conns[t]) /\ Len(conns[t]) \in Nat
        BY LenProperties DEF TypeOK
      <4>2. i # Len(conns[t]) + 1
        BY <2>1, <4>1
      <4> QED  BY <1>1, <4>1, <4>2
    <3> QED  BY <2>1, <3>1 DEF Framed
  <2>2. CASE DOMAIN Stream(t, i)' = {} /\ conns'[t][i].buf = <<>>
    <3>1. Len(<<>>) = 0
      BY EmptySeq
    <3> QED  BY <2>2, <3>1
  <2> QED  BY <1>3, <2>1, <2>2
<1>7. Apart'
  <2> SUFFICES ASSUME NEW t \in Senders
               PROVE  /\ \A i, j \in DOMAIN conns'[t] : \A p \in DOMAIN Stream(t, i)', q \in DOMAIN Stream(t, j)' :
                           /\ Stream(t, i)'[p].of.n = Stream(t, j)'[q].of.n
                           /\ Stream(t, i)'[p].part = Stream(t, j)'[q].part
                           => i = j /\ p = q
                      /\ \A h \in DOMAIN handled'[t] :
                           /\ handled'[t][h] = Halves(handled'[t][h][1].of)
                           /\ \A i \in DOMAIN conns'[t] : \A p \in DOMAIN Stream(t, i)' :
                                Stream(t, i)'[p].of.n # handled'[t][h][1].of.n
                           /\ \A g \in DOMAIN handled'[t] :
                                g # h => handled'[t][g][1].of.n # handled'[t][h][1].of.n
    BY DEF Apart
  <2>1. \A i \in DOMAIN conns'[t] : \A p \in DOMAIN Stream(t, i)' :
          i \in DOMAIN conns[t] /\ Stream(t, i)' = Stream(t, i)
    BY <1>3
  <2>2. handled' = handled
    BY <1>1
  <2> QED  BY <2>1, <2>2 DEF Apart
<1> QED  BY <1>5, <1>6, <1>7

\* What a Read leaves of a stream from which it takes two halves.
LEMMA Rest ==
  ASSUME NEW S, NEW f \in Seq(S), NEW r \in Seq(S), Len(f) = 2
  PROVE  /\ DOMAIN (f \o r) = 1 .. Len(r) + 2 /\ DOMAIN r = 1 .. Len(r) /\ Len(r) \in Nat
         /\ (f \o r)[1] = f[1] /\ (f \o r)[2] = f[2] /\ \A p \in 1 .. Len(r) : r[p] = (f \o r)[p + 2]
<1>1. /\ f \o r \in Seq(S) /\ Len(f \o r) = Len(f) + Len(r)
      /\ \A i \in 1 .. Len(f) + Len(r) : (f \o r)[i] = IF i <= Len(f) THEN f[i] ELSE r[i - Len(f)]
  BY ConcatProperties
<1>2. Len(r) \in Nat /\ DOMAIN r = 1 .. Len(r) /\ DOMAIN (f \o r) = 1 .. Len(r) + 2
  BY <1>1, LenProperties
<1>3. (f \o r)[1] = f[1] /\ (f \o r)[2] = f[2]
  <2>1. 1 \in 1 .. Len(f) + Len(r) /\ 2 \in 1 .. Len(f) + Len(r) /\ 1 <= Len(f) /\ 2 <= Len(f)
    BY <1>2
  <2> QED  BY <1>1, <2>1
<1>4. ASSUME NEW p \in 1 .. Len(r)
      PROVE  r[p] = (f \o r)[p + 2]
  <2>1. p + 2 \in 1 .. Len(f) + Len(r) /\ ~(p + 2 <= Len(f)) /\ (p + 2) - Len(f) = p
    BY <1>2
  <2> QED  BY <1>1, <2>1
<1> QED  BY <1>2, <1>3, <1>4

\* A Read that completes a frame: the service gets the frame, whole, and once.
LEMMA ServiceReads ==
  ASSUME TypeOK, SendersInOrder, Framed, Apart, NEW s \in Senders, NEW i \in DOMAIN conns[s],
         NEW k \in 1 .. 2, Read(s, i, k)
  PROVE  SendersInOrder' /\ Framed' /\ Apart'
<1>1. /\ UNCHANGED <<config, commit, commits, data, link>>
  BY DEF Read, committing
<1>a. Len(conns[s][i].buf) < 2
  BY DEF Framed
<1>2. /\ conns' \in [Senders -> Seq(Connections)]
      /\ \A t \in Senders : DOMAIN conns'[t] = DOMAIN conns[t] /\ Len(conns'[t]) = Len(conns[t])
      /\ \A t \in Senders : \A j \in DOMAIN conns[t] : t # s \/ j # i => conns'[t][j] = conns[t][j]
      /\ Len(conns'[s][i].buf) < 2 /\ Stream(s, i)' \in Seq(Halfs)
      /\ \/ Stream(s, i)' = Stream(s, i) /\ handled' = handled
         \/ \E f \in Seq(Halfs) : /\ Len(f) = 2 /\ Stream(s, i) = f \o Stream(s, i)'
                                  /\ handled' = [handled EXCEPT ![s] = Append(@, f)]
  BY <1>a, Reads
<1>3. \A t \in Senders : \A j \in DOMAIN conns[t] :
        t # s \/ j # i => Stream(t, j)' = Stream(t, j) /\ conns'[t][j].buf = conns[t][j].buf
  BY <1>2 DEF Stream
<1>4. Way' = Way
  BY <1>1, WaySame
<1>5. \A m \in Senders : Ahead("sender", m)' = Ahead("sender", m)
  BY <1>1, <1>4 DEF Ahead
<1>6. CASE Stream(s, i)' = Stream(s, i) /\ handled' = handled
  <2>1. \A t \in Senders : Written(t)' = Written(t)
    BY <1>2, <1>3, <1>6, WrittenSame
  <2>2. data' = data /\ commits' = commits /\ link' = link
    BY <1>1
  <2>3. SendersInOrder'
    BY <1>5, <2>1, <2>2, Zenon DEF SendersInOrder
  <2>4. \A t \in Senders : /\ DOMAIN conns'[t] = DOMAIN conns[t] /\ handled'[t] = handled[t]
                           /\ \A j \in DOMAIN conns[t] : Stream(t, j)' = Stream(t, j)
    BY <1>2, <1>3, <1>6
  <2>5. \A t \in Senders : \A j \in DOMAIN conns[t] : Len(conns'[t][j].buf) < 2
    BY <1>2, <1>3 DEF Framed
  <2>6. Framed'
    BY <2>2, <2>4, <2>5 DEF Framed
  <2>7. Apart'
    BY <2>4 DEF Apart
  <2> QED  BY <2>3, <2>6, <2>7
<1>7. ASSUME NEW f \in Seq(Halfs), Len(f) = 2, Stream(s, i) = f \o Stream(s, i)',
             handled' = [handled EXCEPT ![s] = Append(@, f)]
      PROVE  SendersInOrder' /\ Framed' /\ Apart'
  <2>1. PICK m \in Nat : m = Len(Stream(s, i)')
    BY <1>2, LenProperties
  <2>2. /\ DOMAIN Stream(s, i) = 1 .. m + 2 /\ DOMAIN Stream(s, i)' = 1 .. m /\ m \in Nat
        /\ Stream(s, i)[1] = f[1] /\ Stream(s, i)[2] = f[2]
        /\ \A p \in 1 .. m : Stream(s, i)'[p] = Stream(s, i)[p + 2]
    <3>1. PICK v, q : v = Stream(s, i) /\ q = Stream(s, i)'
      OBVIOUS
    <3>2. f \in Seq(Halfs) /\ q \in Seq(Halfs) /\ v = f \o q /\ Len(f) = 2
      BY <1>2, <1>7, <3>1
    <3>3. /\ DOMAIN (f \o q) = 1 .. Len(q) + 2 /\ DOMAIN q = 1 .. Len(q) /\ Len(q) \in Nat
          /\ (f \o q)[1] = f[1] /\ (f \o q)[2] = f[2] /\ \A p \in 1 .. Len(q) : q[p] = (f \o q)[p + 2]
      <4>1. f \in Seq(Halfs) /\ q \in Seq(Halfs) /\ Len(f) = 2
        BY <3>2
      <4>2. \A a, b \in Seq(Halfs) : Len(a) = 2 =>
              /\ DOMAIN (a \o b) = 1 .. Len(b) + 2 /\ DOMAIN b = 1 .. Len(b) /\ Len(b) \in Nat
              /\ (a \o b)[1] = a[1] /\ (a \o b)[2] = a[2] /\ \A p \in 1 .. Len(b) : b[p] = (a \o b)[p + 2]
        BY Rest
      <4> QED  BY ONLY <4>1, <4>2
    <3> QED  BY ONLY <2>1, <3>1, <3>2, <3>3
  <2>3. /\ Stream(s, i)[1].part = 1
        /\ \A p \in 1 .. m + 2 : p + 1 \in 1 .. m + 2 =>
             /\ Stream(s, i)[p + 1].part # Stream(s, i)[p].part
             /\ Stream(s, i)[p].part = 1 => Stream(s, i)[p + 1].of = Stream(s, i)[p].of
        /\ link[s] = i => \A p \in 1 .. m + 2 : p + 1 \notin 1 .. m + 2 => Stream(s, i)[p].part = 2
    <3>1. /\ 1 \in DOMAIN Stream(s, i) => Stream(s, i)[1].part = 1
          /\ \A p \in DOMAIN Stream(s, i) : p + 1 \in DOMAIN Stream(s, i) =>
             /\ Stream(s, i)[p + 1].part # Stream(s, i)[p].part
             /\ Stream(s, i)[p].part = 1 => Stream(s, i)[p + 1].of = Stream(s, i)[p].of
          /\ link[s] = i => \A p \in DOMAIN Stream(s, i) :
                              p + 1 \notin DOMAIN Stream(s, i) => Stream(s, i)[p].part = 2
      BY Zenon DEF Framed
    <3>2. DOMAIN Stream(s, i) = 1 .. m + 2 /\ 1 \in 1 .. m + 2
      BY <2>2
    <3> QED  BY ONLY <3>1, <3>2
  <2>4. \A p \in 1 .. m + 2 : Stream(s, i)[p] \in Halfs
    BY <2>2, WrittenAre
  <2>5. PICK c \in Commands : c = f[1].of
    <3>0. f \in Seq(Halfs) /\ 1 \in 1 .. Len(f)
      BY <1>7
    <3>1. f[1] \in Halfs
      BY ONLY <3>0, ElementOfSeq, Zenon
    <3> QED  BY <3>1 DEF Halfs
  <2>6. /\ Stream(s, i)[1] = [of |-> c, part |-> 1] /\ Stream(s, i)[2] = [of |-> c, part |-> 2]
    <3>1. 1 \in 1 .. m + 2 /\ 2 \in 1 .. m + 2 /\ 1 + 1 = 2
      BY <2>2
    <3>2. Stream(s, i)[1] \in Halfs /\ Stream(s, i)[2] \in Halfs
      BY <2>4, <3>1
    <3>3. Stream(s, i)[1].of = c /\ Stream(s, i)[2].of = c
      BY <2>2, <2>3, <2>5, <3>1
    <3>4. Stream(s, i)[1].part = 1 /\ Stream(s, i)[2].part = 2
      <4>1. Stream(s, i)[1].part = 1
        BY <2>3
      <4>2. Stream(s, i)[2].part # Stream(s, i)[1].part
        <5>1. Stream(s, i)[1 + 1].part # Stream(s, i)[1].part
          BY <2>3, <3>1
        <5> QED  BY <3>1, <5>1
      <4>3. Stream(s, i)[2].part \in 1 .. 2
        BY <3>2 DEF Halfs
      <4> QED  BY ONLY <4>1, <4>2, <4>3
    <3> QED  BY <3>2, <3>3, <3>4 DEF Halfs
  <2>7. f = Halves(c)
    <3>1. f[1] = [of |-> c, part |-> 1] /\ f[2] = [of |-> c, part |-> 2]
      BY <2>2, <2>6
    <3>2. Halves(c) \in Seq(Halfs) /\ Len(Halves(c)) = 2
          /\ Halves(c)[1] = [of |-> c, part |-> 1] /\ Halves(c)[2] = [of |-> c, part |-> 2]
      BY <2>5, HalvesAre
    <3>3. \A j \in 1 .. 2 : f[j] = Halves(c)[j]
      BY <3>1, <3>2
    <3> QED  BY <1>7, <3>2, <3>3, SeqEqual
  <2>8. /\ handled' \in [Senders -> Seq(Seq(Halfs))] /\ handled'[s] = Append(handled[s], f)
        /\ \A t \in Senders \ {s} : handled'[t] = handled[t]
        /\ DOMAIN handled[s] = 1 .. Len(handled[s]) /\ Len(handled[s]) \in Nat
        /\ \A h \in DOMAIN handled'[s] : \/ h \in DOMAIN handled[s] /\ handled'[s][h] = handled[s][h]
                                         \/ h = Len(handled[s]) + 1 /\ handled'[s][h] = f
    <3>1. handled \in [Senders -> Seq(Seq(Halfs))] /\ handled[s] \in Seq(Seq(Halfs))
      BY DEF TypeOK
    <3>2. /\ Append(handled[s], f) \in Seq(Seq(Halfs))
          /\ DOMAIN handled[s] = 1 .. Len(handled[s]) /\ Len(handled[s]) \in Nat
          /\ \A h \in DOMAIN Append(handled[s], f) :
               \/ h \in DOMAIN handled[s] /\ Append(handled[s], f)[h] = handled[s][h]
               \/ h = Len(handled[s]) + 1 /\ Append(handled[s], f)[h] = f
      BY <3>1, Appended
    <3> QED  BY <1>7, <3>1, <3>2
  \* No half of the command is left in a stream, or was handled.
  <2>9. \A j \in DOMAIN conns[s] : \A p \in DOMAIN Stream(s, j)' : Stream(s, j)'[p].of.n # c.n
    <3> SUFFICES ASSUME NEW j \in DOMAIN conns[s], NEW p \in DOMAIN Stream(s, j)', Stream(s, j)'[p].of.n = c.n
                 PROVE  FALSE
      OBVIOUS
    <3>1. PICK q \in DOMAIN Stream(s, j) : Stream(s, j)[q] = Stream(s, j)'[p] /\ (j = i => q > 2)
      <4>1. CASE j = i
        <5>1. p + 2 \in 1 .. m + 2 /\ p + 2 > 2
          BY <2>2, <4>1
        <5> QED  BY <2>2, <4>1, <5>1
      <4>2. CASE j # i
        BY <1>3, <4>2
      <4> QED  BY <4>1, <4>2
    <3>2. Stream(s, j)[q] \in Halfs
      BY WrittenAre
    <3>3. Stream(s, j)[q].part \in 1 .. 2 /\ Stream(s, j)[q].of.n = c.n
      BY <3>1, <3>2 DEF Halfs
    <3>4. 1 \in DOMAIN Stream(s, i) /\ 2 \in DOMAIN Stream(s, i)
      BY <2>2
    <3>5. /\ Stream(s, i)[1].of.n = c.n /\ Stream(s, i)[1].part = 1
          /\ Stream(s, i)[2].of.n = c.n /\ Stream(s, i)[2].part = 2
      BY <2>6
    <3>6. j = i /\ (q = 1 \/ q = 2)
      <4>1. \A a \in DOMAIN Stream(s, i) :
              /\ Stream(s, j)[q].of.n = Stream(s, i)[a].of.n
              /\ Stream(s, j)[q].part = Stream(s, i)[a].part
              => j = i /\ q = a
        BY ZenonT(30) DEF Apart
      <4> QED  BY ONLY <3>3, <3>4, <3>5, <4>1
    <3> QED  BY <3>1, <3>6
  <2>10. \A h \in DOMAIN handled[s] : handled[s][h][1].of.n # c.n
    <3>1. 1 \in DOMAIN Stream(s, i) /\ Stream(s, i)[1].of.n = c.n
      BY <2>2, <2>6
    <3> QED  BY <3>1 DEF Apart
  <2>11. \A t \in Senders : \A n \in Written(t)' : n \in Written(t)
    <3> SUFFICES ASSUME NEW t \in Senders, NEW n \in Written(t)' PROVE n \in Written(t)
      OBVIOUS
    <3>1. n \in 1 .. MaxCommits
      BY DEF Written
    <3>2. ASSUME NEW j \in DOMAIN conns'[t], NEW p \in DOMAIN Stream(t, j)', Stream(t, j)'[p].of.n = n
          PROVE  n \in Written(t)
      <4>0. j \in DOMAIN conns[t]
        BY <1>2
      <4>1. CASE t = s /\ j = i
        <5>1. p + 2 \in DOMAIN Stream(s, i) /\ Stream(s, i)[p + 2].of.n = n
          BY <2>2, <3>2, <4>1
        <5> QED  BY <3>1, <4>0, <4>1, <5>1 DEF Written
      <4>2. CASE t # s \/ j # i
        <5>1. Stream(t, j)' = Stream(t, j)
          BY <1>3, <4>0, <4>2
        <5> QED  BY <3>1, <3>2, <4>0, <5>1 DEF Written
      <4> QED  BY <4>1, <4>2
    <3>3. ASSUME NEW h \in DOMAIN handled'[t], handled'[t][h][1].of.n = n
          PROVE  n \in Written(t)
      <4>1. CASE h \in DOMAIN handled[t] /\ handled'[t][h] = handled[t][h]
        BY <3>1, <3>3, <4>1 DEF Written
      <4>2. CASE t = s /\ handled'[t][h] = f
        <5>1. 1 \in DOMAIN Stream(s, i) /\ Stream(s, i)[1].of.n = n
          BY <2>2, <3>3, <4>2
        <5> QED  BY <3>1, <4>2, <5>1 DEF Written
      <4> QED  BY <2>8, <4>1, <4>2
    <3> QED  BY <3>2, <3>3 DEF Written
  <2>12. SendersInOrder'
    <3>1. data' = data /\ commits' = commits
      BY <1>1
    <3> QED  BY <1>5, <2>11, <3>1, Zenon DEF SendersInOrder
  <2>13. Framed'
    <3> SUFFICES ASSUME NEW t \in Senders, NEW j \in DOMAIN conns'[t]
                 PROVE  /\ 1 \in DOMAIN Stream(t, j)' => Stream(t, j)'[1].part = 1
                        /\ \A p \in DOMAIN Stream(t, j)' : p + 1 \in DOMAIN Stream(t, j)' =>
                             /\ Stream(t, j)'[p + 1].part # Stream(t, j)'[p].part
                             /\ Stream(t, j)'[p].part = 1 => Stream(t, j)'[p + 1].of = Stream(t, j)'[p].of
                        /\ link'[t] = j => \A p \in DOMAIN Stream(t, j)' :
                                             p + 1 \notin DOMAIN Stream(t, j)' => Stream(t, j)'[p].part = 2
                        /\ Len(conns'[t][j].buf) < 2
      BY DEF Framed
    <3>1. j \in DOMAIN conns[t] /\ link' = link
      BY <1>1, <1>2
    <3>2. CASE t # s \/ j # i
      <4>1. Stream(t, j)' = Stream(t, j) /\ conns'[t][j].buf = conns[t][j].buf
        BY <1>3, <3>1, <3>2
      <4> QED  BY <3>1, <4>1 DEF Framed
    <3>3. CASE t = s /\ j = i
      <4>1. 1 \in 1 .. m => Stream(s, i)'[1].part = 1
        <5>1. 1 \in 1 .. m => 3 \in 1 .. m + 2 /\ 2 \in 1 .. m + 2 /\ 2 + 1 = 3 /\ 1 + 2 = 3
          BY <2>2
        <5>2. 1 \in 1 .. m => Stream(s, i)[3].part # 2 /\ Stream(s, i)[3] \in Halfs /\ Stream(s, i)'[1] = Stream(s, i)[3]
          BY <2>2, <2>3, <2>4, <2>6, <5>1
        <5> QED  BY <5>2 DEF Halfs
      <4>2. ASSUME NEW p \in 1 .. m, p + 1 \in 1 .. m
            PROVE  /\ Stream(s, i)'[p + 1].part # Stream(s, i)'[p].part
                   /\ Stream(s, i)'[p].part = 1 => Stream(s, i)'[p + 1].of = Stream(s, i)'[p].of
        <5>1. p + 2 \in 1 .. m + 2 /\ (p + 2) + 1 \in 1 .. m + 2 /\ (p + 1) + 2 = (p + 2) + 1
          BY <2>2, <4>2
        <5>2. Stream(s, i)'[p] = Stream(s, i)[p + 2] /\ Stream(s, i)'[p + 1] = Stream(s, i)[(p + 2) + 1]
          BY <2>2, <4>2, <5>1
        <5> QED  BY <2>3, <5>1, <5>2
      <4>3. ASSUME link[s] = i, NEW p \in 1 .. m, p + 1 \notin 1 .. m
            PROVE  Stream(s, i)'[p].part = 2
        <5>1. p + 2 \in 1 .. m + 2 /\ (p + 2) + 1 \notin 1 .. m + 2
          BY <2>2, <4>3
        <5> QED  BY <2>2, <2>3, <4>3, <5>1
      <4> QED  BY <1>2, <2>2, <3>1, <3>3, <4>1, <4>2, <4>3
    <3> QED  BY <3>2, <3>3
  <2>14. Apart'
    <3> SUFFICES ASSUME NEW t \in Senders
                 PROVE  /\ \A j, l \in DOMAIN conns'[t] : \A p \in DOMAIN Stream(t, j)', q \in DOMAIN Stream(t, l)' :
                             /\ Stream(t, j)'[p].of.n = Stream(t, l)'[q].of.n
                             /\ Stream(t, j)'[p].part = Stream(t, l)'[q].part
                             => j = l /\ p = q
                        /\ \A h \in DOMAIN handled'[t] :
                             /\ handled'[t][h] = Halves(handled'[t][h][1].of)
                             /\ \A j \in DOMAIN conns'[t] : \A p \in DOMAIN Stream(t, j)' :
                                  Stream(t, j)'[p].of.n # handled'[t][h][1].of.n
                             /\ \A g \in DOMAIN handled'[t] :
                                  g # h => handled'[t][g][1].of.n # handled'[t][h][1].of.n
      BY DEF Apart
    <3>0. DOMAIN conns'[t] = DOMAIN conns[t]
      BY <1>2
    \* Every half of a stream was in it before, further on or at its place.
    <3>1. ASSUME NEW j \in DOMAIN conns[t], NEW p \in DOMAIN Stream(t, j)'
          PROVE  /\ p + (IF t = s /\ j = i THEN 2 ELSE 0) \in DOMAIN Stream(t, j) /\ p \in Int
                 /\ Stream(t, j)[p + (IF t = s /\ j = i THEN 2 ELSE 0)] = Stream(t, j)'[p]
      <4>1. CASE t = s /\ j = i
        <5>1. p \in 1 .. m /\ p + 2 \in 1 .. m + 2
          BY <2>2, <4>1
        <5> QED  BY <2>2, <4>1, <5>1
      <4>2. CASE t # s \/ j # i
        <5>1. Stream(t, j)' = Stream(t, j)
          BY <1>3, <4>2
        <5>2. p \in Int
          <6>1. Stream(t, j) \in Seq(Halfs)
            BY StreamTyped
          <6> QED  BY <5>1, <6>1, LenProperties
        <5>3. p + 0 = p
          BY <5>2
        <5> QED  BY <4>2, <5>1, <5>2, <5>3
      <4> QED  BY <4>1, <4>2
    <3>2. ASSUME NEW j \in DOMAIN conns[t], NEW l \in DOMAIN conns[t],
                 NEW p \in DOMAIN Stream(t, j)', NEW q \in DOMAIN Stream(t, l)',
                 Stream(t, j)'[p].of.n = Stream(t, l)'[q].of.n,
                 Stream(t, j)'[p].part = Stream(t, l)'[q].part
          PROVE  j = l /\ p = q
      <4>1. PICK a : /\ a = p + (IF t = s /\ j = i THEN 2 ELSE 0) /\ p \in Int
                     /\ a \in DOMAIN Stream(t, j) /\ Stream(t, j)[a] = Stream(t, j)'[p]
        BY <3>1
      <4>2. PICK b : /\ b = q + (IF t = s /\ l = i THEN 2 ELSE 0) /\ q \in Int
                     /\ b \in DOMAIN Stream(t, l) /\ Stream(t, l)[b] = Stream(t, l)'[q]
        BY <3>1
      <4>3. j = l /\ a = b
        BY <3>2, <4>1, <4>2 DEF Apart
      <4> QED  BY <4>1, <4>2, <4>3
    <3>3. ASSUME NEW h \in DOMAIN handled'[t]
          PROVE  /\ handled'[t][h] = Halves(handled'[t][h][1].of)
                 /\ \A j \in DOMAIN conns'[t] : \A p \in DOMAIN Stream(t, j)' :
                      Stream(t, j)'[p].of.n # handled'[t][h][1].of.n
                 /\ \A g \in DOMAIN handled'[t] :
                      g # h => handled'[t][g][1].of.n # handled'[t][h][1].of.n
      <4>1. CASE t = s /\ h = Len(handled[s]) + 1 /\ handled'[s][h] = f
        <5>1. handled'[t][h] = Halves(c) /\ handled'[t][h][1].of = c
          BY <2>5, <2>7, <4>1
        <5>2. \A g \in DOMAIN handled'[t] : g # h => handled'[t][g][1].of.n # c.n
          BY <2>8, <2>10, <4>1
        <5> QED  BY <2>9, <3>0, <4>1, <5>1, <5>2
      <4>2. CASE h \in DOMAIN handled[t] /\ handled'[t][h] = handled[t][h]
        <5>1. handled'[t][h] = Halves(handled'[t][h][1].of)
          BY <4>2 DEF Apart
        <5>2. \A j \in DOMAIN conns'[t] : \A p \in DOMAIN Stream(t, j)' :
                Stream(t, j)'[p].of.n # handled'[t][h][1].of.n
          BY <3>0, <3>1, <4>2 DEF Apart
        <5>3. ASSUME NEW g \in DOMAIN handled'[t], g # h
              PROVE  handled'[t][g][1].of.n # handled'[t][h][1].of.n
          <6>1. CASE g \in DOMAIN handled[t] /\ handled'[t][g] = handled[t][g]
            BY <4>2, <5>3, <6>1 DEF Apart
          <6>2. CASE t = s /\ handled'[s][g] = f
            <7>1. handled'[t][g][1].of = c
              BY <2>5, <6>2
            <7>2. handled[s][h][1].of.n # c.n
              BY <2>10, <4>2, <6>2
            <7> QED  BY <4>2, <6>2, <7>1, <7>2
          <6>3. CASE t = s
            BY <2>8, <5>3, <6>1, <6>2, <6>3
          <6>4. CASE t # s
            <7>1. handled'[t] = handled[t]
              BY <2>8, <6>4
            <7> QED  BY <5>3, <6>1, <7>1
          <6> QED  BY <6>3, <6>4
        <5> QED  BY <5>1, <5>2, <5>3
      <4> QED  BY <2>8, <4>1, <4>2
    <3> QED  BY <3>0, <3>2, <3>3
  <2> QED  BY <2>12, <2>13, <2>14
<1> QED  BY <1>2, <1>6, <1>7

\* A service that is started again hears nothing of its old connections any more.
LEMMA ServiceRestarts ==
  ASSUME TypeOK, NEW s \in Senders, Restart(s)
  PROVE  /\ conns' \in [Senders -> Seq(Connections)]
         /\ \A t \in Senders : /\ DOMAIN conns'[t] = DOMAIN conns[t] /\ Len(conns'[t]) = Len(conns[t])
                               /\ \A i \in DOMAIN conns[t] : /\ Stream(t, i)' = Stream(t, i)
                                                             /\ conns'[t][i].buf = conns[t][i].buf
<1> DEFINE e == [i \in DOMAIN conns[s] |-> [conns[s][i] EXCEPT !.done = TRUE]]
<1>1. conns \in [Senders -> Seq(Connections)] /\ conns[s] \in Seq(Connections)
  BY DEF TypeOK
<1>2. DOMAIN conns[s] = 1 .. Len(conns[s]) /\ Len(conns[s]) \in Nat
  BY <1>1, LenProperties
<1>3. ASSUME NEW i \in DOMAIN conns[s]
      PROVE  e[i] \in Connections /\ e[i].buf = conns[s][i].buf /\ e[i].wire = conns[s][i].wire
  <2>1. conns[s][i] \in Connections
    BY StreamTyped
  <2> QED  BY <2>1 DEF Connections
<1>4. e \in Seq(Connections) /\ DOMAIN e = DOMAIN conns[s] /\ Len(e) = Len(conns[s])
  <2>1. DOMAIN e = 1 .. Len(conns[s]) /\ \A i \in 1 .. Len(conns[s]) : e[i] \in Connections
    BY <1>2, <1>3
  <2>2. e \in [1 .. Len(conns[s]) -> Connections]
    BY <2>1
  <2>3. e \in Seq(Connections)
    BY <1>2, <2>2, SeqDef
  <2>4. Len(e) \in Nat /\ DOMAIN e = 1 .. Len(e)
    BY <2>3, LenProperties
  <2>5. Len(e) = Len(conns[s])
    BY ONLY <1>2, <2>1, <2>4
  <2> QED  BY <1>2, <2>1, <2>3, <2>5
<1>5. conns' = [conns EXCEPT ![s] = e]
  BY <1>1 DEF Restart
<1> HIDE DEF e
<1>6. conns' \in [Senders -> Seq(Connections)] /\ conns'[s] = e /\ \A t \in Senders \ {s} : conns'[t] = conns[t]
  BY <1>1, <1>4, <1>5
<1>7. ASSUME NEW t \in Senders, NEW i \in DOMAIN conns[t]
      PROVE  Stream(t, i)' = Stream(t, i) /\ conns'[t][i].buf = conns[t][i].buf
  <2>1. conns'[t][i].buf = conns[t][i].buf /\ conns'[t][i].wire = conns[t][i].wire
    BY <1>3, <1>6
  <2> QED  BY <2>1 DEF Stream
<1> QED  BY <1>4, <1>6, <1>7

\* The senders and their services keep the types.
LEMMA TypeSending ==
  ASSUME TypeOK, Framed, NEW s \in Senders, Sender(s) \/ Service(s) \/ Restart(s)
  PROVE  TypeOK'
<1>0. UNCHANGED config /\ UNCHANGED committing /\ UNCHANGED <<ctx, now, chan, worker, asked, simulated, passed>>
  BY DEF Sender, Service, Restart, Dial, DialFails, Write, WriteFails, Read, executing
<1>a. /\ test' \in BOOLEAN /\ mode' \in Modes
      /\ commit' = Idle \/ commit' \in [at : 1 .. Len(Way') + 1, what : Commands]
  BY <1>0, TypeKept DEF committing
<1>b. UNCHANGED <<commit, commits, tpu>>
  BY <1>0 DEF committing
<1>c. /\ data \in [Senders -> Seq(Commands)] /\ \A t \in Senders : Len(data[t]) <= DataCap
      /\ conns \in [Senders -> Seq(Connections)] /\ DataCap \in Nat
      /\ link \in [Senders -> Nat] /\ \A t \in Senders : link[t] <= Len(conns[t])
      /\ handled \in [Senders -> Seq(Seq(Halfs))]
      /\ up \in [Senders -> BOOLEAN] /\ restarts \in 0 .. MaxRestarts
  BY DEF TypeOK
<1> DEFINE Goal == /\ data' \in [Senders -> Seq(Commands)] /\ \A t \in Senders : Len(data'[t]) <= DataCap
                   /\ conns' \in [Senders -> Seq(Connections)]
                   /\ link' \in [Senders -> Nat] /\ \A t \in Senders : link'[t] <= Len(conns'[t])
                   /\ handled' \in [Senders -> Seq(Seq(Halfs))]
                   /\ up' \in [Senders -> BOOLEAN] /\ restarts' \in 0 .. MaxRestarts
<1>d. Goal => TypeOK'
  <2>1. /\ ctx' \in {"open", "done"} /\ now' \in 0 .. MaxTime /\ commits' \in 0 .. MaxCommits
        /\ tpu' \in Seq(Commands)
        /\ chan' \in [Nodes -> Seq(Commands)] /\ \A i \in Nodes : Len(chan'[i]) <= CommandCap
        /\ asked' \in [Nodes -> [1 .. MaxCommits -> Nat]]
        /\ simulated' \in [Nodes -> [1 .. MaxCommits -> Nat]]
        /\ passed' \in [Nodes -> SUBSET [what : Commands, at : 0 .. MaxTime]]
        /\ worker' \in [Workers -> {Idle, [at |-> "exited"]} \cup [at : {"send"}, what : Commands]]
    BY <1>0, <1>b DEF TypeOK
  <2> QED  BY <1>a, <2>1 DEF TypeOK

\* The channel after the oldest message was taken.
<1>e. ASSUME data[s] # <<>>, data' = [data EXCEPT ![s] = Tail(@)]
      PROVE  data' \in [Senders -> Seq(Commands)] /\ \A t \in Senders : Len(data'[t]) <= DataCap
  <2>1. Tail(data[s]) \in Seq(Commands) /\ Len(Tail(data[s])) <= DataCap
    <3>1. data[s] \in Seq(Commands) /\ Len(data[s]) <= DataCap /\ data[s] # <<>>
      BY <1>c, <1>e
    <3>2. Tail(data[s]) \in Seq(Commands) /\ Len(Tail(data[s])) = Len(data[s]) - 1 /\ Len(data[s]) \in Nat
      BY <3>1, Tailed
    <3> QED  BY <1>c, <3>1, <3>2
  <2> QED  BY <1>c, <1>e, <2>1
<1>f. ASSUME data[s] # <<>>
      PROVE  /\ Halves(Head(data[s])) \in Seq(Halfs)
             /\ \A k \in 0 .. 1 : SubSeq(Halves(Head(data[s])), 1, k) \in Seq(Halfs)
  <2>1. Head(data[s]) \in Commands
    BY <1>c, <1>f, Tailed
  <2> QED  BY <2>1, HalvesAre
<1>g. ASSUME NEW x \in Seq(Halfs), data[s] # <<>>, link[s] # 0, data' = [data EXCEPT ![s] = Tail(@)],
             conns' = [conns EXCEPT ![s][link[s]].wire = @ \o x],
             link' = link \/ link' = [link EXCEPT ![s] = 0], UNCHANGED service
      PROVE  Goal
  <2>1. /\ conns' \in [Senders -> Seq(Connections)] /\ \A t \in Senders : Len(conns'[t]) = Len(conns[t])
    BY <1>g, Sends
  <2>2. \A t \in Senders : Len(conns[t]) \in Nat
    BY <1>c, LenProperties
  <2>3. link' \in [Senders -> Nat] /\ \A t \in Senders : link'[t] <= Len(conns'[t])
    <3>1. link' \in [Senders -> Nat] /\ \A t \in Senders : link'[t] = link[t] \/ link'[t] = 0
      <4>1. link \in [Senders -> Nat] /\ (link' = link \/ link' = [link EXCEPT ![s] = 0])
        BY <1>c, <1>g
      <4> QED  BY ONLY <4>1, s \in Senders
    <3>2. ASSUME NEW t \in Senders
          PROVE  link'[t] <= Len(conns'[t])
      <4>1. link[t] <= Len(conns[t]) /\ Len(conns'[t]) = Len(conns[t]) /\ Len(conns[t]) \in Nat
        BY <1>c, <2>1, <2>2
      <4> QED  BY ONLY <3>1, <3>2, <4>1
    <3> QED  BY <3>1, <3>2
  <2>4. handled' = handled /\ up' = up /\ restarts' = restarts
    BY <1>g DEF service
  <2> QED  BY <1>c, <1>e, <1>g, <2>1, <2>3, <2>4
<1>1. CASE Dial(s)
  <2>1. /\ conns' \in [Senders -> Seq(Connections)] /\ Len(conns'[s]) = Len(conns[s]) + 1
        /\ \A t \in Senders \ {s} : conns'[t] = conns[t]
        /\ link' = [link EXCEPT ![s] = Len(conns[s]) + 1] /\ Len(conns[s]) \in Nat
    BY <1>1, Dials
  <2>2. link' \in [Senders -> Nat] /\ \A t \in Senders : link'[t] <= Len(conns'[t])
    BY <1>c, <2>1
  <2>3. UNCHANGED <<data, handled, up, restarts>>
    BY <1>1 DEF Dial, service
  <2> QED  BY <1>c, <1>d, <2>1, <2>2, <2>3
<1>2. CASE DialFails(s)
  <2>1. UNCHANGED <<conns, link, handled, up, restarts>> /\ data[s] # <<>> /\ data' = [data EXCEPT ![s] = Tail(@)]
    BY <1>2 DEF DialFails, sending, service
  <2> QED  BY <1>c, <1>d, <1>e, <2>1
<1>3. CASE Write(s)
  <2>1. /\ data[s] # <<>> /\ link[s] # 0 /\ data' = [data EXCEPT ![s] = Tail(@)]
        /\ conns' = [conns EXCEPT ![s][link[s]].wire = @ \o Halves(Head(data[s]))]
        /\ link' = link /\ UNCHANGED service
    BY <1>3 DEF Write
  <2>2. PICK x : x = Halves(Head(data[s]))
    OBVIOUS
  <2>3. x \in Seq(Halfs) /\ conns' = [conns EXCEPT ![s][link[s]].wire = @ \o x]
    BY <1>f, <2>1, <2>2
  <2> HIDE DEF Goal
  <2> QED  BY <1>d, <1>g, <2>1, <2>3
<1>4. ASSUME NEW k \in 0 .. 1, WriteFails(s, k)
      PROVE  TypeOK'
  <2>1. /\ data[s] # <<>> /\ link[s] # 0 /\ data' = [data EXCEPT ![s] = Tail(@)]
        /\ conns' = [conns EXCEPT ![s][link[s]].wire = @ \o SubSeq(Halves(Head(data[s])), 1, k)]
        /\ link' = [link EXCEPT ![s] = 0] /\ UNCHANGED service
    BY <1>4 DEF WriteFails
  <2>2. PICK x : x = SubSeq(Halves(Head(data[s])), 1, k)
    OBVIOUS
  <2>3. x \in Seq(Halfs) /\ conns' = [conns EXCEPT ![s][link[s]].wire = @ \o x]
    BY <1>f, <2>1, <2>2
  <2> HIDE DEF Goal
  <2> QED  BY <1>d, <1>g, <2>1, <2>3
<1>5. ASSUME NEW i \in DOMAIN conns[s], NEW k \in 1 .. 2, Read(s, i, k)
      PROVE  TypeOK'
  <2>1. Len(conns[s][i].buf) < 2
    BY DEF Framed
  <2>2. /\ conns' \in [Senders -> Seq(Connections)] /\ \A t \in Senders : Len(conns'[t]) = Len(conns[t])
        /\ \/ handled' = handled
           \/ \E f \in Seq(Halfs) : handled' = [handled EXCEPT ![s] = Append(@, f)]
    BY <1>5, <2>1, Reads
  <2>3. handled' \in [Senders -> Seq(Seq(Halfs))]
    <3>1. ASSUME NEW f \in Seq(Halfs), handled' = [handled EXCEPT ![s] = Append(@, f)]
          PROVE  handled' \in [Senders -> Seq(Seq(Halfs))]
      <4>1. handled[s] \in Seq(Seq(Halfs))
        BY <1>c
      <4>2. Append(handled[s], f) \in Seq(Seq(Halfs))
        BY <4>1, AppendProperties
      <4> QED  BY <1>c, <3>1, <4>2
    <3> QED  BY <1>c, <2>2, <3>1
  <2>4. UNCHANGED <<data, link, restarts>> /\ \E b \in BOOLEAN : up' = [up EXCEPT ![s] = b]
    <3>1. up' = [up EXCEPT ![s] = ~(Len(conns[s][i].buf \o SubSeq(conns[s][i].wire, 1, k)) >= 2)]
      BY <1>5 DEF Read
    <3>2. (~(Len(conns[s][i].buf \o SubSeq(conns[s][i].wire, 1, k)) >= 2)) \in BOOLEAN
      OBVIOUS
    <3>3. UNCHANGED <<data, link, restarts>>
      BY <1>5 DEF Read
    <3> QED  BY <3>1, <3>2, <3>3, Zenon
  <2>5. up' \in [Senders -> BOOLEAN]
    BY <1>c, <2>4
  <2> QED  BY <1>c, <1>d, <2>2, <2>3, <2>4, <2>5
<1>6. CASE Restart(s)
  <2>1. conns' \in [Senders -> Seq(Connections)] /\ \A t \in Senders : Len(conns'[t]) = Len(conns[t])
    BY <1>6, ServiceRestarts
  <2>2. UNCHANGED <<data, link, handled>> /\ up' \in [Senders -> BOOLEAN] /\ restarts' \in 0 .. MaxRestarts
    BY <1>6, <1>c, SMTT(30) DEF Restart
  <2> QED  BY <1>c, <1>d, <2>1, <2>2
<1> QED  BY <1>1, <1>2, <1>3, <1>4, <1>5, <1>6 DEF Sender, Service

\* Every step keeps the types.
LEMMA TypeStep ==
  ASSUME TypeOK, Framed, Next
  PROVE  TypeOK'
<1>1. CASE Tick \/ Cancel
  <2>1. UNCHANGED config /\ UNCHANGED committing
    BY <1>1 DEF Tick, Cancel
  <2>2. /\ test' \in BOOLEAN /\ mode' \in Modes
        /\ commit' = Idle \/ commit' \in [at : 1 .. Len(Way') + 1, what : Commands]
    BY <2>1, TypeKept DEF committing
  <2>3. ctx' \in {"open", "done"} /\ now' \in 0 .. MaxTime
    BY <1>1 DEF Tick, Cancel, TypeOK
  <2>4. UNCHANGED <<commits, tpu, chan, worker, asked, simulated, passed, data, conns, link, handled, up, restarts>>
    BY <1>1 DEF Tick, Cancel, committing, executing, sending, service
  <2> QED  BY <2>2, <2>3, <2>4 DEF TypeOK
<1>2. CASE Committing
  BY <1>2, TypeCommitting
<1>3. ASSUME NEW w \in Workers, Executor(w) \/ Exit(w)
      PROVE  TypeOK'
  BY <1>3, TypeExecuting
<1>4. ASSUME NEW s \in Senders, Sender(s) \/ Service(s) \/ Restart(s)
      PROVE  TypeOK'
  BY <1>4, TypeSending
<1> QED  BY <1>1, <1>2, <1>3, <1>4 DEF Next

\* Every step keeps the channels of the senders in order, and their streams made of
\* frames, each for a command of its own.
LEMMA SendersStep ==
  ASSUME TypeOK, Numbered, SendersInOrder, Framed, Apart, Next
  PROVE  SendersInOrder' /\ Framed' /\ Apart'
<1>1. CASE Commit
  BY <1>1, SendersCommit
<1>2. CASE Push
  BY <1>2, SendersPush
<1>3. CASE Return
  <2>1. commit' = Idle /\ UNCHANGED <<commits, data, conns, link, handled>>
    BY <1>3 DEF Return, sending, service
  <2>2. \A s \in Senders : ~Ahead("sender", s)'
    BY <2>1 DEF Ahead
  <2> QED  BY <2>1, <2>2, StreamsSame, SendersStay

\* The steps of the world and of the executors.
<1>4. ASSUME UNCHANGED <<config, commit, commits, data, link, handled>>,
             \A s \in Senders : /\ DOMAIN conns'[s] = DOMAIN conns[s]
                                /\ \A i \in DOMAIN conns[s] : /\ Stream(s, i)' = Stream(s, i)
                                                              /\ conns'[s][i].buf = conns[s][i].buf
      PROVE  SendersInOrder' /\ Framed' /\ Apart'
  <2>1. Way' = Way
    BY <1>4, WaySame
  <2>2. \A s \in Senders : Ahead("sender", s)' = Ahead("sender", s)
    BY <1>4, <2>1 DEF Ahead
  <2> QED  BY <1>4, <2>2, SendersStay
<1>5. CASE Tick \/ Cancel \/ \E w \in Workers : Executor(w) \/ Exit(w)
  <2>1. UNCHANGED <<config, commit, commits, data, conns, link, handled>>
    BY <1>5 DEF Tick, Cancel, Executor, Take, Sent, Exit, committing, sending, service
  <2> QED  BY <1>4, <2>1, StreamsSame
<1>6. ASSUME NEW s \in Senders, Restart(s)
      PROVE  SendersInOrder' /\ Framed' /\ Apart'
  <2>1. UNCHANGED <<config, commit, commits, data, link, handled>>
    BY <1>6 DEF Restart, committing
  <2> QED  BY <1>4, <1>6, <2>1, ServiceRestarts
<1>7. ASSUME NEW s \in Senders, Dial(s)
      PROVE  SendersInOrder' /\ Framed' /\ Apart'
  BY <1>7, SenderDials
<1>8. ASSUME NEW s \in Senders, DialFails(s)
      PROVE  SendersInOrder' /\ Framed' /\ Apart'
  <2>1. /\ UNCHANGED <<config, commit, commits, conns, link, handled>>
        /\ data[s] # <<>> /\ data' = [data EXCEPT ![s] = Tail(@)]
    BY <1>8 DEF DialFails, committing, sending, service
  <2>2. Framed' /\ Apart' /\ \A t \in Senders : Written(t)' = Written(t)
    BY <2>1, StreamsStay
  <2>3. \A t \in Senders : \A n \in Written(t)' : n \in Written(t) \/ (t = s /\ n = Head(data[s]).n)
    BY <2>2
  <2>4. SendersInOrder'
    BY <2>1, <2>3, SendersTake
  <2> QED  BY <2>2, <2>4
<1>9. ASSUME NEW s \in Senders, NEW k \in 0 .. 2, NEW x, data[s] # <<>>, link[s] # 0,
             x = IF k = 2 THEN Halves(Head(data[s])) ELSE SubSeq(Halves(Head(data[s])), 1, k),
             data' = [data EXCEPT ![s] = Tail(@)], conns' = [conns EXCEPT ![s][link[s]].wire = @ \o x],
             (k = 2 /\ link' = link) \/ link' = [link EXCEPT ![s] = 0],
             UNCHANGED <<config, commit, commits, handled>>
      PROVE  SendersInOrder' /\ Framed' /\ Apart'
  <2>1. Head(data[s]) \in Commands
    <3>1. data[s] \in Seq(Commands) /\ data[s] # <<>>
      BY <1>9 DEF TypeOK
    <3> QED  BY ONLY <3>1, Tailed
  <2>2. x \in Seq(Halfs) /\ Len(x) = k /\ \A q \in 1 .. k : x[q] = [of |-> Head(data[s]), part |-> q]
    <3>1. /\ Halves(Head(data[s])) \in Seq(Halfs) /\ Len(Halves(Head(data[s]))) = 2
          /\ Halves(Head(data[s]))[1] = [of |-> Head(data[s]), part |-> 1]
          /\ Halves(Head(data[s]))[2] = [of |-> Head(data[s]), part |-> 2]
          /\ \A j \in 0 .. 1 : /\ SubSeq(Halves(Head(data[s])), 1, j) \in Seq(Halfs)
                               /\ Len(SubSeq(Halves(Head(data[s])), 1, j)) = j
                               /\ j = 1 => SubSeq(Halves(Head(data[s])), 1, j)[1] = [of |-> Head(data[s]), part |-> 1]
      BY <2>1, HalvesAre
    <3>2. CASE k = 2
      BY <1>9, <3>1, <3>2
    <3>3. CASE k \in 0 .. 1
      <4>1. x = SubSeq(Halves(Head(data[s])), 1, k)
        BY <1>9, <3>3
      <4>2. x \in Seq(Halfs) /\ Len(x) = k /\ (k = 1 => x[1] = [of |-> Head(data[s]), part |-> 1])
        BY ONLY <3>1, <3>3, <4>1
      <4>3. \A q \in 1 .. k : k = 1 /\ q = 1
        BY ONLY <3>3
      <4> QED  BY ONLY <4>2, <4>3
    <3> QED  BY <3>2, <3>3
  <2> QED  BY <1>9, <2>2, SenderWrites
<1>10. ASSUME NEW s \in Senders, Write(s)
       PROVE  SendersInOrder' /\ Framed' /\ Apart'
  <2>1. /\ data[s] # <<>> /\ link[s] # 0 /\ data' = [data EXCEPT ![s] = Tail(@)]
        /\ conns' = [conns EXCEPT ![s][link[s]].wire = @ \o Halves(Head(data[s]))]
        /\ link' = link /\ UNCHANGED <<config, commit, commits, handled>>
    BY <1>10 DEF Write, committing, service
  <2>2. PICK x : x = Halves(Head(data[s]))
    OBVIOUS
  <2>3. PICK k \in 0 .. 2 : k = 2
    OBVIOUS
  <2> QED  BY <1>9, <2>1, <2>2, <2>3
<1>11. ASSUME NEW s \in Senders, NEW k \in 0 .. 1, WriteFails(s, k)
       PROVE  SendersInOrder' /\ Framed' /\ Apart'
  <2>1. /\ data[s] # <<>> /\ link[s] # 0 /\ data' = [data EXCEPT ![s] = Tail(@)]
        /\ conns' = [conns EXCEPT ![s][link[s]].wire = @ \o SubSeq(Halves(Head(data[s])), 1, k)]
        /\ link' = [link EXCEPT ![s] = 0] /\ UNCHANGED <<config, commit, commits, handled>>
    BY <1>11 DEF WriteFails, committing, service
  <2>2. PICK x : x = SubSeq(Halves(Head(data[s])), 1, k)
    OBVIOUS
  <2>3. k \in 0 .. 2 /\ k # 2
    OBVIOUS
  <2> QED  BY <1>9, <2>1, <2>2, <2>3
<1>12. ASSUME NEW s \in Senders, Service(s)
       PROVE  SendersInOrder' /\ Framed' /\ Apart'
  BY <1>12, ServiceReads DEF Service
<1> QED  BY <1>1, <1>2, <1>3, <1>5, <1>6, <1>7, <1>8, <1>10, <1>11, <1>12 DEF Next, Committing, Sender

-----------------------------------------------------------------------------
(* The theorems.                                                           *)

\* The invariant holds at the start.
LEMMA Begins ==
  ASSUME Init
  PROVE  IInv
<1>1. /\ test \in BOOLEAN /\ mode \in Modes /\ ctx = "open" /\ now = 0 /\ commit = Idle /\ commits = 0
      /\ tpu = <<>> /\ chan = [i \in Nodes |-> <<>>] /\ worker = [w \in Workers |-> Idle]
      /\ asked = [i \in Nodes |-> [n \in 1 .. MaxCommits |-> 0]]
      /\ simulated = [i \in Nodes |-> [n \in 1 .. MaxCommits |-> 0]] /\ passed = [i \in Nodes |-> {}]
      /\ data = [s \in Senders |-> <<>>]
      /\ link = [s \in Senders |-> 0] /\ conns = [s \in Senders |-> <<>>] /\ up \in [Senders -> BOOLEAN]
      /\ restarts = 0 /\ handled = [s \in Senders |-> <<>>]
  BY DEF Init
<1>2. \A S : <<>> \in Seq(S) /\ Len(<<>>) = 0 /\ DOMAIN <<>> = {}
  BY EmptySeq
<1>3. TypeOK
  <2>1. /\ chan \in [Nodes -> Seq(Commands)] /\ \A i \in Nodes : Len(chan[i]) <= CommandCap
    BY <1>1, <1>2
  <2>2. /\ data \in [Senders -> Seq(Commands)] /\ \A s \in Senders : Len(data[s]) <= DataCap
    BY <1>1, <1>2
  <2>3. /\ conns \in [Senders -> Seq(Connections)] /\ handled \in [Senders -> Seq(Seq(Halfs))]
    BY <1>1, <1>2
  <2>4. link \in [Senders -> Nat] /\ \A s \in Senders : link[s] <= Len(conns[s])
    BY <1>1, <1>2
  <2>5. /\ asked \in [Nodes -> [1 .. MaxCommits -> Nat]] /\ simulated \in [Nodes -> [1 .. MaxCommits -> Nat]]
        /\ passed \in [Nodes -> SUBSET [what : Commands, at : 0 .. MaxTime]]
    BY <1>1
  <2>6. worker \in [Workers -> {Idle, [at |-> "exited"]} \cup [at : {"send"}, what : Commands]]
    BY <1>1
  <2>7. tpu \in Seq(Commands) /\ now \in 0 .. MaxTime /\ commits \in 0 .. MaxCommits /\ restarts \in 0 .. MaxRestarts
    BY <1>1, <1>2
  <2> QED  BY <1>1, <2>1, <2>2, <2>3, <2>4, <2>5, <2>6, <2>7 DEF TypeOK
<1>4. \A w \in Workers : ~Busy(w)
  BY <1>1 DEF Busy, Idle
<1>5. \A i \in Nodes : Taken(i) = {} /\ DOMAIN chan[i] = {}
  <2>1. \A i \in Nodes, n \in 1 .. MaxCommits : Made(i, n) = 0
    BY <1>1 DEF Made
  <2> QED  BY <1>1, <1>2, <1>4, <2>1 DEF Taken
<1>6. \A s \in Senders : Written(s) = {} /\ DOMAIN data[s] = {} /\ DOMAIN conns[s] = {} /\ DOMAIN handled[s] = {}
  BY <1>1, <1>2 DEF Written
<1>7. AskedOnce /\ Numbered
  <2>1. \A i \in Nodes, n \in 1 .. MaxCommits : asked[i][n] = 0 /\ simulated[i][n] = 0
    BY <1>1
  <2> QED  BY <1>1, <2>1 DEF AskedOnce, Numbered, Made
<1>8. NodesInOrder /\ SendersInOrder
  BY <1>5, <1>6 DEF NodesInOrder, SendersInOrder
<1>9. InOneHand /\ Framed /\ Apart
  BY <1>4, <1>6 DEF InOneHand, Framed, Apart
<1> QED  BY <1>3, <1>7, <1>8, <1>9 DEF IInv

\* The invariant holds always.
THEOREM Invariant == SafeSpec => []IInv
<1>1. Init => IInv
  BY Begins
<1>2. IInv /\ [Next]_vars => IInv'
  <2> SUFFICES ASSUME IInv, [Next]_vars PROVE IInv'
    OBVIOUS
  <2>1. CASE Next
    BY <2>1, TypeStep, NodesStep, SendersStep DEF IInv
  <2>2. CASE UNCHANGED vars
    <3>1. UNCHANGED <<test, mode, ctx, now, commit, commits, tpu, chan, worker, asked, simulated, passed, data,
                      link, conns, up, restarts, handled>>
      BY <2>2 DEF vars
    <3>2. Way' = Way
      BY <3>1, WaySame DEF config
    <3>3. TypeOK'
      BY <3>1, <3>2 DEF IInv, TypeOK
    <3>4. \A to, i : Ahead(to, i)' = Ahead(to, i)
      BY <3>1, <3>2 DEF Ahead
    <3>5. NodesInOrder' /\ InOneHand' /\ AskedOnce'
      BY <3>1, <3>4, NodesStay DEF IInv
    <3>6. SendersInOrder' /\ Framed' /\ Apart'
      BY <3>1, <3>4, StreamsSame, SendersStay DEF IInv
    <3>7. Numbered'
      BY <3>1 DEF IInv, Numbered
    <3> QED  BY <3>3, <3>5, <3>6, <3>7 DEF IInv
  <2> QED  BY <2>1, <2>2
<1> QED  BY <1>1, <1>2, PTL DEF SafeSpec

\* No node is asked twice for a command, whatever the executors do.
THEOREM AskedOnceAlways == SafeSpec => []AskedOnce
<1>1. IInv => AskedOnce
  BY DEF IInv
<1> QED  BY <1>1, Invariant, PTL

\* The services handle whole frames, in the halves of one command, and each command
\* once; all channels and streams keep to their types.
THEOREM StreamsSoundAlways == SafeSpec => []StreamsSound
<1>1. IInv => StreamsSound
  <2> SUFFICES ASSUME IInv PROVE StreamsSound
    OBVIOUS
  <2>1. TypeOK /\ Framed /\ Apart
    BY DEF IInv
  <2>2. ASSUME NEW s \in Senders, NEW i \in DOMAIN handled[s]
        PROVE  /\ handled[s][i] = Halves(handled[s][i][1].of)
               /\ \A j \in 1 .. i - 1 : handled[s][j] # handled[s][i]
    <3>1. handled[s] \in Seq(Seq(Halfs))
      BY <2>1 DEF TypeOK
    <3>2. DOMAIN handled[s] = 1 .. Len(handled[s]) /\ Len(handled[s]) \in Nat
      BY <3>1, LenProperties
    <3>3. \A j \in 1 .. i - 1 : j \in DOMAIN handled[s] /\ j # i
      BY <3>2
    <3> QED  BY <2>1, <3>3 DEF Apart
  <2>3. \A s \in Senders : \A i \in DOMAIN conns[s] : Len(conns[s][i].buf) < 2
    BY <2>1 DEF Framed
  <2>4. FramesWhole
    BY <2>2, <2>3 DEF FramesWhole
  <2> QED  BY <2>1, <2>4 DEF StreamsSound
<1> QED  BY <1>1, Invariant, PTL
=============================================================================
