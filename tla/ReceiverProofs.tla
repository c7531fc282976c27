---------------------------- MODULE ReceiverProofs ----------------------------
(***************************************************************************)
(* What evreceiver promises, for every number of boards, workers, queue    *)
(* sizes, batches and file limits: the delayed close of a run never meets  *)
(* the file of the next one, an OK is true, and no event accepted for a    *)
(* file is lost unless the disk fails.                                     *)
(*                                                                         *)
(* None of the three is inductive.  All rest on the order of the items     *)
(* that a worker has in hand and on its queue, taken as one sequence       *)
(* (Queued): taking a batch does not change it, a worker only shortens it  *)
(* at its head (Handled) and the other threads only append to it (Fits).   *)
(* What is put last is the newest command of its source (NumbersOK,        *)
(* CloseIsFresh); one token is waited for and nothing of the same source   *)
(* but data is behind its item (AckOK); the entry of a delayed close is    *)
(* freed only when its item is queued (ClosingOK).  A second invariant     *)
(* (BufferOK) says what the buffer of a source without a file may hold.    *)
(***************************************************************************)
EXTENDS Receiver, SequenceTheorems, FiniteSetTheorems, TLAPS

Queued == [w \in Workers |-> hand[w] \o queue[w]]
Opened == [s \in Sources |-> node[s].file]
Scheduled == {s \in Sources : delayed[s] # NoClose}

Rows == Nat \X Nat
Nodes == [known : BOOLEAN, file : 0..MaxCommands, buf : Seq(Rows), bytes : Nat, count : Nat,
          err : BOOLEAN]
Listeners == [pc : {"poll", "pending", "pendingWait", "put", "ackWait", "producerWait", "done"},
              op : FileOps \cup ProducerOps \cup {"CLOSE", "none"},
              src : Sources \cup {NoSource}, n : 0..MaxCommands, token : Nat,
              reply : {"none", "OK", "ERROR"}]
Closers == [pc : {"top", "scan", "asleep", "put", "mark", "done"}, src : Sources \cup {NoSource}]
Closes == [st : {"none", "waiting", "due"}, n : 0..MaxCommands]
Acks == [serial : Nat, waiting : Nat, done : BOOLEAN, success : BOOLEAN]
Publications == [cmd : {"start", "stop"} \cup ProducerOps, n : 0..MaxCommands]
Answers == [src : Sources, n : 0..MaxCommands, ok : BOOLEAN]

\* The threads and what they share.
ThreadTypes ==
    /\ keep_running \in BOOLEAN
    /\ proc \in {"up", "ended", "killed", "crashed"} /\ main \in {"sleep", "join"}
    /\ want \in [Threads -> Items \cup {NoItem}]
    /\ nap \in [Threads -> {"awake", "going", "asleep"}]
    /\ cl \in Listeners /\ closer \in Closers /\ delayed \in [Sources -> Closes]
    /\ ack \in Acks /\ ack.waiting <= ack.serial
    /\ rx \in 0..MaxPackets /\ faults \in 0..MaxFaults

\* The queues and the files.
DataTypes ==
    /\ queue \in [Workers -> Seq(Items)] /\ hand \in [Workers -> Seq(Items)]
    /\ \A w \in Workers : Len(queue[w]) <= QueueSize /\ Len(hand[w]) <= ProcessBatch
    /\ node \in [Sources -> Nodes]
    /\ disk \in [Files -> Seq(Rows)] /\ stored \in [Files -> Seq(Rows)] /\ damaged \subseteq Files
    /\ IsFiniteSet(Scheduled) /\ Cardinality(Scheduled) <= MaxDelayed

ProducerTypes ==
    /\ chan \in [Sources -> Seq(Publications)] /\ acks \subseteq Answers
    /\ producer \in [Sources -> {"on", "off"}]

\* What the threads hold at each of their steps.
ThreadsOK ==
    /\ cl.pc \in {"pending", "pendingWait", "put", "ackWait", "producerWait"} \/ cl.reply = "OK"
          => cl.src \in Sources /\ cl.n >= 1
    /\ cl.pc \in {"pending", "pendingWait", "put"} => cl.op \in FileOps
    /\ cl.pc = "ackWait" => cl.op \in {"OPEN_READY", "CLOSE_READY"}
    /\ cl.pc = "producerWait" => cl.op \in ProducerOps
    /\ cl.pc = "put" => want["cl"] = Item(IF cl.op = "CLOSE_READY" THEN "close" ELSE "open",
                                          cl.src, cl.n, 0, 0)
    /\ closer.pc \in {"put", "mark"} => closer.src \in Sources /\ delayed[closer.src].st = "due"
    /\ closer.pc = "put" => want["closer"] = Item("close", closer.src, delayed[closer.src].n, 0, 0)
    /\ want["rx"] # NoItem =>
          want["rx"].type = "data" /\ want["rx"].token = 0 /\ want["rx"].left >= 1
    /\ \A s \in Sources : /\ delayed[s].st = "none" <=> delayed[s] = NoClose
                          /\ delayed[s] # NoClose => delayed[s].n >= 1

\* The commands on the queues: on the queue of their source, with the number of a
\* command that was given; a command that is not queued yet is the newest.
NumbersOK ==
    /\ \A w \in Workers : \A j \in DOMAIN Queued[w] :
          LET i == Queued[w][j] IN
          /\ WorkerOf[i.src] = w
          /\ i.type = "data" => i.left >= 1 /\ i.token = 0
          /\ i.type # "data" => i.n >= 1 /\ i.n <= cl.n
          /\ i.type # "data" /\ cl.pc \in {"pending", "pendingWait", "put"} => i.n < cl.n
    /\ \A s \in Sources :
          /\ Opened[s] <= cl.n /\ delayed[s].n <= cl.n
          /\ cl.pc \in {"pending", "pendingWait", "put"} => Opened[s] < cl.n /\ delayed[s].n < cl.n

\* A file belongs to one OPEN: the numbers on the queues and of the open files
\* differ.
FilesDiffer ==
    /\ \A v, w \in Workers : \A i \in DOMAIN Queued[v], j \in DOMAIN Queued[w] :
          /\ Queued[v][i].type = "open" /\ Queued[w][j].type = "open"
          /\ Queued[v][i].n = Queued[w][j].n
          => v = w /\ i = j
    /\ \A w \in Workers, s \in Sources : \A j \in DOMAIN Queued[w] :
          Queued[w][j].type = "open" => Opened[s] # Queued[w][j].n
    /\ \A r, s \in Sources : Opened[r] = Opened[s] /\ Opened[s] # 0 => r = s

\* Ahead of a close, and of one that is scheduled, there are only OPENs of
\* earlier commands.
CloseIsFresh ==
    /\ \A s \in Sources : \A j \in DOMAIN Queued[WorkerOf[s]] :
          LET q == Queued[WorkerOf[s]] IN
          q[j].type = "close" /\ q[j].src = s =>
              /\ Opened[s] <= q[j].n
              /\ \A i \in DOMAIN q : i < j /\ q[i].type = "open" /\ q[i].src = s => q[i].n < q[j].n
    /\ \A s \in Sources : delayed[s] # NoClose =>
          /\ Opened[s] <= delayed[s].n
          /\ \A j \in DOMAIN Queued[WorkerOf[s]] :
                LET i == Queued[WorkerOf[s]][j] IN
                i.type = "open" /\ i.src = s => i.n < delayed[s].n
    /\ cl.pc = "put" /\ keep_running => delayed[cl.src] = NoClose

\* A READY command that was answered, or will be, with OK.
Fulfilled ==
    /\ \A j \in DOMAIN Queued[WorkerOf[cl.src]] :
          LET i == Queued[WorkerOf[cl.src]][j] IN i.src = cl.src => i.type = "data"
    /\ cl.op = "OPEN_READY" => Opened[cl.src] = cl.n \/ cl.n \in damaged
    /\ cl.op = "CLOSE_READY" => Opened[cl.src] = 0

ReadyOK == cl.pc = "poll" /\ cl.reply = "OK" /\ cl.op \in {"OPEN_READY", "CLOSE_READY"}

\* One token is waited for, the one of the command under way, and behind its
\* item there is no other command of the source.
AckOK ==
    /\ cl.pc # "ackWait" => ack.waiting = 0
    /\ cl.pc = "ackWait" => ack.waiting = cl.token /\ cl.token = ack.serial /\ cl.token >= 1
    /\ \A w \in Workers : \A j \in DOMAIN Queued[w] : Queued[w][j].token <= ack.serial
    /\ cl.pc = "ackWait" =>
          \A w \in Workers : \A j \in DOMAIN Queued[w] :
              LET i == Queued[w][j] IN
              i.token = cl.token =>
                  /\ i.src = cl.src /\ i.n = cl.n
                  /\ i.type = IF cl.op = "CLOSE_READY" THEN "close" ELSE "open"
                  /\ \A k \in DOMAIN Queued[w] :
                        k > j /\ Queued[w][k].src = cl.src => Queued[w][k].type = "data"
    /\ cl.pc = "ackWait" \/ ReadyOK => delayed[cl.src] = NoClose
    /\ cl.pc = "ackWait" /\ ack.done /\ ack.success => Fulfilled
    /\ ReadyOK => Fulfilled

\* The source has no file and will not get one, or a close is on its queue behind
\* every OPEN.
Closing(s) ==
    LET q == Queued[WorkerOf[s]] IN
    \/ Opened[s] = 0 /\ \A i \in DOMAIN q : q[i].src = s => q[i].type # "open"
    \/ \E j \in DOMAIN q :
          /\ q[j].type = "close" /\ q[j].src = s
          /\ \A i \in DOMAIN q : i > j /\ q[i].src = s => q[i].type # "open"

ClosingOK ==
    \A s \in Sources :
        /\ closer.pc = "mark" /\ closer.src = s => Closing(s)
        /\ cl.pc = "poll" /\ cl.reply = "OK" /\ cl.op = "CLOSE" /\ cl.src = s =>
              delayed[s] # NoClose \/ Closing(s)

Told(op) == IF op = "START_PRODUCER" THEN "on" ELSE "off"

\* The answer to a producer command: nothing was published behind it.
ProducerOK ==
    /\ \A a \in acks : a.n <= cl.n
    /\ \A s \in Sources : \A j \in DOMAIN chan[s] : chan[s][j].n <= cl.n
    /\ cl.pc = "producerWait" =>
          /\ \A j \in DOMAIN chan[cl.src] : chan[cl.src][j].n = cl.n =>
                j = Len(chan[cl.src]) /\ chan[cl.src][j].cmd = cl.op
          /\ \A a \in acks : a.src = cl.src /\ a.n = cl.n /\ a.ok =>
                chan[cl.src] = <<>> /\ producer[cl.src] = Told(cl.op)
    /\ cl.pc = "poll" /\ cl.reply = "OK" /\ cl.op \in ProducerOps =>
          chan[cl.src] = <<>> /\ producer[cl.src] = Told(cl.op)

\* What was accepted for a file is in it, or in the buffer of its source.
DataOK ==
    /\ \A s \in Sources : node[s].file # 0 /\ node[s].file \notin damaged =>
          stored[node[s].file] = disk[node[s].file] \o node[s].buf
    /\ \A f \in Files \ damaged : (\A s \in Sources : node[s].file # f) => stored[f] = disk[f]

\* The inductive invariant.
ReceiverInv ==
    /\ ThreadTypes /\ DataTypes /\ ProducerTypes /\ ThreadsOK
    /\ NumbersOK /\ FilesDiffer /\ CloseIsFresh /\ AckOK /\ ClosingOK
    /\ ProducerOK /\ DataOK

-----------------------------------------------------------------------------
(* Sequences *)

\* The indices and the members of a sequence.
LEMMA Elements ==
    ASSUME NEW S, NEW q \in Seq(S), NEW j \in DOMAIN q
    PROVE  j \in Nat /\ j >= 1 /\ j <= Len(q) /\ q[j] \in S
<1>1. Len(q) \in Nat /\ DOMAIN q = 1..Len(q)
  BY LenProperties
<1>2. j \in 1..Len(q)
  BY <1>1
<1> QED
  BY <1>1, <1>2, ElementOfSeq

\* What is left of a sequence without its first element.
LEMMA TailFacts ==
    ASSUME NEW S, NEW q \in Seq(S), q # <<>>
    PROVE  /\ 1 \in DOMAIN q /\ q[1] = Head(q) /\ Tail(q) \in Seq(S) /\ Len(q) \in Nat
           /\ Len(Tail(q)) = Len(q) - 1
           /\ \A j \in DOMAIN Tail(q) :
                 j \in Nat /\ j >= 1 /\ j + 1 \in DOMAIN q /\ Tail(q)[j] = q[j + 1]
           /\ \A j \in DOMAIN q : j > 1 => j - 1 \in DOMAIN Tail(q)
<1>1. /\ Len(q) \in Nat /\ DOMAIN q = 1..Len(q) /\ Len(q) # 0
  BY LenProperties, EmptySeq
<1>2. /\ Tail(q) \in Seq(S) /\ Len(Tail(q)) = Len(q) - 1
      /\ \A i \in 1..Len(Tail(q)) : Tail(q)[i] = q[i + 1]
  BY HeadTailProperties
<1>3. DOMAIN Tail(q) = 1..(Len(q) - 1)
  BY <1>2, LenProperties
<1>4. q[1] = Head(q)
  OBVIOUS
<1>5. ASSUME NEW j \in DOMAIN Tail(q)
      PROVE  j \in Nat /\ j >= 1 /\ j + 1 \in DOMAIN q /\ Tail(q)[j] = q[j + 1]
  <2>1. j \in 1..(Len(q) - 1)
    BY <1>3
  <2>2. j \in Nat /\ j >= 1 /\ j + 1 \in 1..Len(q)
    BY <1>1, <2>1
  <2> QED
    BY <1>1, <1>2, <2>1, <2>2
<1>6. ASSUME NEW j \in DOMAIN q, j > 1 PROVE j - 1 \in DOMAIN Tail(q)
  <2>1. j \in 1..Len(q)
    BY <1>1
  <2>2. j - 1 \in 1..(Len(q) - 1)
    BY <1>1, <1>6, <2>1
  <2> QED
    BY <1>3, <2>2
<1> QED
  BY <1>1, <1>2, <1>4, <1>5, <1>6

\* A sequence with another first element.
LEMMA HeadReplaced ==
    ASSUME NEW S, NEW q \in Seq(S), q # <<>>, NEW x \in S
    PROVE  /\ <<x>> \o Tail(q) \in Seq(S) /\ DOMAIN (<<x>> \o Tail(q)) = DOMAIN q
           /\ Len(<<x>> \o Tail(q)) = Len(q)
           /\ (<<x>> \o Tail(q))[1] = x
           /\ \A j \in DOMAIN q : j > 1 => (<<x>> \o Tail(q))[j] = q[j]
<1> DEFINE r == <<x>> \o Tail(q)
<1>1. /\ Len(q) \in Nat /\ DOMAIN q = 1..Len(q) /\ Len(q) # 0
  BY LenProperties, EmptySeq
<1>2. /\ Tail(q) \in Seq(S) /\ Len(Tail(q)) = Len(q) - 1
      /\ \A i \in 1..Len(Tail(q)) : Tail(q)[i] = q[i + 1]
  BY HeadTailProperties
<1>3. <<x>> \in Seq(S) /\ Len(<<x>>) = 1 /\ <<x>>[1] = x
  OBVIOUS
<1>4. /\ r \in Seq(S) /\ Len(r) = Len(<<x>>) + Len(Tail(q))
      /\ \A i \in 1..Len(<<x>>) + Len(Tail(q)) :
            r[i] = IF i <= Len(<<x>>) THEN <<x>>[i] ELSE Tail(q)[i - Len(<<x>>)]
  BY <1>2, <1>3, ConcatProperties
<1> HIDE DEF r
<1>5. Len(r) = Len(q) /\ DOMAIN r = DOMAIN q
  <2>1. Len(r) = Len(q)
    BY <1>1, <1>2, <1>3, <1>4
  <2> QED
    BY <1>1, <1>4, <2>1, LenProperties
<1>6. \A i \in 1..Len(q) : r[i] = IF i <= 1 THEN <<x>>[i] ELSE Tail(q)[i - 1]
  BY <1>1, <1>2, <1>3, <1>4
<1>7. r[1] = x
  <2>1. 1 \in 1..Len(q) /\ 1 <= 1
    BY <1>1
  <2> QED
    BY <1>3, <1>6, <2>1
<1>8. ASSUME NEW j \in DOMAIN q, j > 1 PROVE r[j] = q[j]
  <2>1. j \in 1..Len(q)
    BY <1>1
  <2>2. j - 1 \in 1..Len(Tail(q)) /\ (j - 1) + 1 = j /\ ~(j <= 1)
    BY <1>1, <1>2, <1>8, <2>1
  <2>3. Tail(q)[j - 1] = q[(j - 1) + 1]
    BY <1>2, <2>2
  <2> QED
    BY <1>6, <2>1, <2>2, <2>3
<1> QED
  BY <1>4, <1>5, <1>7, <1>8 DEF r

\* Appending to the second of two sequences appends to both.
LEMMA AppendToConcat ==
    ASSUME NEW S, NEW a \in Seq(S), NEW b \in Seq(S), NEW x \in S
    PROVE  a \o Append(b, x) = Append(a \o b, x)
<1>1. Append(b, x) = b \o <<x>>
  BY AppendIsConcat
<1>2. a \o b \in Seq(S)
  BY ConcatProperties
<1>3. Append(a \o b, x) = (a \o b) \o <<x>>
  BY <1>2, AppendIsConcat, Zenon
<1>4. <<x>> \in Seq(S)
  OBVIOUS
<1> DEFINE c == <<x>>
<1> HIDE DEF c
<1>5. (a \o b) \o c = a \o (b \o c)
  BY <1>4, ConcatAssociative DEF c
<1> QED
  BY <1>1, <1>3, <1>5, Zenon DEF c

\* The head and the tail of two sequences are those of the first.
LEMMA TailOfConcat ==
    ASSUME NEW S, NEW a \in Seq(S), NEW b \in Seq(S), a # <<>>
    PROVE  /\ a \o b \in Seq(S) /\ a \o b # <<>>
           /\ Head(a \o b) = Head(a) /\ Tail(a \o b) = Tail(a) \o b
<1>1. /\ Len(a) \in Nat /\ Len(b) \in Nat /\ Len(a) # 0
  BY LenProperties, EmptySeq
<1>2. /\ Tail(a) \in Seq(S) /\ Len(Tail(a)) = Len(a) - 1 /\ Head(a) = a[1]
      /\ \A i \in 1..Len(Tail(a)) : Tail(a)[i] = a[i + 1]
  BY HeadTailProperties
<1>3. /\ a \o b \in Seq(S) /\ Len(a \o b) = Len(a) + Len(b)
      /\ \A i \in 1..Len(a) + Len(b) :
            (a \o b)[i] = IF i <= Len(a) THEN a[i] ELSE b[i - Len(a)]
  BY ConcatProperties
<1> DEFINE q == a \o b
           t == Tail(a) \o b
<1>4. q # <<>>
  <2>1. Len(q) # 0
    BY <1>1, <1>3
  <2> QED
    BY <2>1
<1>5. Head(q) = Head(a)
  <2>1. Head(q) = q[1]
    BY <1>3, <1>4
  <2>2. 1 \in 1..Len(a) + Len(b) /\ 1 <= Len(a)
    BY <1>1
  <2> QED
    BY <1>2, <1>3, <2>1, <2>2
<1>6. /\ t \in Seq(S) /\ Len(t) = Len(Tail(a)) + Len(b)
      /\ \A i \in 1..Len(Tail(a)) + Len(b) :
            t[i] = IF i <= Len(Tail(a)) THEN Tail(a)[i] ELSE b[i - Len(Tail(a))]
  BY <1>2, ConcatProperties
<1> HIDE DEF q, t
<1>7. /\ Tail(q) \in Seq(S) /\ Len(Tail(q)) = Len(q) - 1
      /\ \A i \in 1..Len(Tail(q)) : Tail(q)[i] = q[i + 1]
  BY <1>3, <1>4, HeadTailProperties DEF q
<1>8. Len(Tail(q)) = Len(t) /\ Len(t) = (Len(a) - 1) + Len(b)
  BY <1>1, <1>2, <1>3, <1>6, <1>7 DEF q
<1>9. ASSUME NEW i \in 1..Len(Tail(q)) PROVE Tail(q)[i] = t[i]
  <2>1. i \in Nat /\ i \in 1..Len(Tail(a)) + Len(b) /\ i + 1 \in 1..Len(a) + Len(b)
    BY <1>1, <1>2, <1>8
  <2>2. Tail(q)[i] = q[i + 1]
    BY <1>7
  <2>3. CASE i <= Len(a) - 1
    <3>1. i \in 1..Len(Tail(a)) /\ i + 1 <= Len(a) /\ i <= Len(Tail(a))
      BY <1>1, <1>2, <2>1, <2>3
    <3>2. q[i + 1] = a[i + 1]
      BY <1>3, <2>1, <3>1 DEF q
    <3>3. t[i] = Tail(a)[i]
      BY <1>6, <2>1, <3>1
    <3>4. Tail(a)[i] = a[i + 1]
      BY <1>2, <3>1
    <3> QED
      BY <2>2, <3>2, <3>3, <3>4
  <2>4. CASE ~(i <= Len(a) - 1)
    <3>1. ~(i + 1 <= Len(a)) /\ ~(i <= Len(Tail(a))) /\ (i + 1) - Len(a) = i - Len(Tail(a))
      BY <1>1, <1>2, <2>1, <2>4
    <3>2. q[i + 1] = b[(i + 1) - Len(a)]
      BY <1>3, <2>1, <3>1 DEF q
    <3>3. t[i] = b[i - Len(Tail(a))]
      BY <1>6, <2>1, <3>1
    <3> QED
      BY <2>2, <3>1, <3>2, <3>3
  <2> QED
    BY <2>3, <2>4
<1>10. Tail(q) = t
  BY <1>6, <1>7, <1>8, <1>9, SeqEqual
<1> QED
  BY <1>3, <1>4, <1>5, <1>10 DEF q, t

-----------------------------------------------------------------------------
(* The queues *)

\* Two items that no invariant tells apart.
Alike(a, b) == a.type = b.type /\ a.src = b.src /\ a.n = b.n /\ a.token = b.token

\* The worker is done with d items, 0 or 1, at the head of its queue.
Shifted(w, d) ==
    /\ \A v \in Workers : v # w => Queued'[v] = Queued[v]
    /\ \A j \in DOMAIN Queued'[w] :
          /\ j \in Nat /\ j >= 1 /\ j + d \in DOMAIN Queued[w]
          /\ Queued'[w][j] \in Items /\ Alike(Queued'[w][j], Queued[w][j + d])
          /\ Queued'[w][j].type = "data" => Queued'[w][j].left >= 1
    /\ \A j \in DOMAIN Queued[w] : j > d => j - d \in DOMAIN Queued'[w]

\* The queues hold items.
LEMMA QueuedType ==
    ASSUME DataTypes
    PROVE  /\ Queued \in [Workers -> Seq(Items)]
           /\ \A w \in Workers : \A j \in DOMAIN Queued[w] :
                 /\ j \in Nat /\ j >= 1 /\ Queued[w][j] \in Items
                 /\ Queued[w][j].n \in Nat /\ Queued[w][j].token \in Nat
                 /\ Queued[w][j].left \in Nat /\ Queued[w][j].src \in Sources
                 /\ Queued[w][j].type \in {"open", "close", "data"}
<1>1. ASSUME NEW w \in Workers
      PROVE  Queued[w] = hand[w] \o queue[w] /\ Queued[w] \in Seq(Items)
  <2>1. hand[w] \in Seq(Items) /\ queue[w] \in Seq(Items)
    BY DEF DataTypes
  <2>2. hand[w] \o queue[w] \in Seq(Items)
    BY <2>1, ConcatProperties
  <2> QED
    BY <2>2 DEF Queued
<1>2. ASSUME NEW w \in Workers, NEW j \in DOMAIN Queued[w]
      PROVE  j \in Nat /\ j >= 1 /\ Queued[w][j] \in Items
  BY <1>1, <1>2, Elements
<1>3. ASSUME NEW w \in Workers, NEW j \in DOMAIN Queued[w]
      PROVE  /\ Queued[w][j].n \in Nat /\ Queued[w][j].token \in Nat
             /\ Queued[w][j].left \in Nat /\ Queued[w][j].src \in Sources
             /\ Queued[w][j].type \in {"open", "close", "data"}
  BY <1>2 DEF Items
<1> QED
  BY <1>1, <1>2, <1>3 DEF Queued

\* TakeItems: what the worker takes is the head of its queue.
LEMMA QueuedTake ==
    ASSUME DataTypes, NEW w \in Workers, TakeItems(w)
    PROVE  /\ Queued' = Queued
           /\ queue' \in [Workers -> Seq(Items)] /\ hand' \in [Workers -> Seq(Items)]
           /\ \A v \in Workers : Len(queue'[v]) <= QueueSize /\ Len(hand'[v]) <= ProcessBatch
<1> DEFINE q == queue[w]
           k == IF Len(q) > ProcessBatch THEN ProcessBatch ELSE Len(q)
<1>1. /\ q \in Seq(Items) /\ Len(q) \in Nat /\ hand[w] = <<>> /\ k \in 0..Len(q)
      /\ k <= ProcessBatch
      /\ hand' = [hand EXCEPT ![w] = SubSeq(q, 1, k)]
      /\ queue' = [queue EXCEPT ![w] = SubSeq(q, k + 1, Len(q))]
  BY ReceiverAssumption DEF TakeItems, DataTypes
<1>2. SubSeq(q, 1, k) \o SubSeq(q, k + 1, Len(q)) = q
  <2>1. SubSeq(q, 1, k) \o SubSeq(q, k + 1, Len(q)) = SubSeq(q, 1, Len(q))
    <3>1. 1 \in 1..Len(q) + 1 /\ k \in (1 - 1)..Len(q) /\ Len(q) \in k..Len(q)
      BY <1>1
    <3> HIDE DEF q, k
    <3> QED
      BY <1>1, <3>1, ConcatAdjacentSubSeq
  <2> QED
    BY <1>1, <2>1, SubSeqFull
<1>3. <<>> \o q = q
  BY <1>1, ConcatEmptySeq
<1>4. /\ SubSeq(q, 1, k) \in Seq(Items) /\ Len(SubSeq(q, 1, k)) = k
      /\ SubSeq(q, k + 1, Len(q)) \in Seq(Items) /\ Len(SubSeq(q, k + 1, Len(q))) = Len(q) - k
  BY <1>1
<1> HIDE DEF k, q
<1>5. Queued' = Queued
  <2>1. ASSUME NEW v \in Workers PROVE hand'[v] \o queue'[v] = hand[v] \o queue[v]
    <3>1. CASE v = w
      BY <1>1, <1>2, <1>3, <3>1 DEF DataTypes, q
    <3>2. CASE v # w
      BY <1>1, <3>2 DEF DataTypes
    <3> QED
      BY <3>1, <3>2
  <2> QED
    BY <2>1 DEF Queued
<1>6. queue' \in [Workers -> Seq(Items)] /\ hand' \in [Workers -> Seq(Items)]
  BY <1>1, <1>4 DEF DataTypes
<1>7. ASSUME NEW v \in Workers
      PROVE  Len(queue'[v]) <= QueueSize /\ Len(hand'[v]) <= ProcessBatch
  <2>1. CASE v = w
    <3>1. Len(q) <= QueueSize
      BY DEF DataTypes, q
    <3>2. hand'[v] = SubSeq(q, 1, k) /\ queue'[v] = SubSeq(q, k + 1, Len(q))
      BY <1>1, <2>1 DEF DataTypes
    <3> QED
      BY <1>1, <1>4, <3>1, <3>2, ReceiverAssumption
  <2>2. CASE v # w
    BY <1>1, <2>2 DEF DataTypes
  <2> QED
    BY <2>1, <2>2
<1> QED
  BY <1>5, <1>6, <1>7

\* A thread puts an item on a queue that has room.
LEMMA QueuedPut ==
    ASSUME DataTypes, NEW w \in Workers, NEW item \in Items, hand' = hand,
           queue' = [queue EXCEPT ![w] = Append(@, item)], ~Full(w)
    PROVE  /\ Queued' = [Queued EXCEPT ![w] = Append(@, item)]
           /\ queue' \in [Workers -> Seq(Items)]
           /\ \A v \in Workers : Len(queue'[v]) <= QueueSize
<1>1. /\ queue[w] \in Seq(Items) /\ hand[w] \in Seq(Items)
      /\ Len(queue[w]) \in Nat /\ Len(queue[w]) < QueueSize
  BY ReceiverAssumption DEF DataTypes, Full
<1>2. hand[w] \o Append(queue[w], item) = Append(hand[w] \o queue[w], item)
  <2> DEFINE h == hand[w]
             q == queue[w]
  <2>1. h \in Seq(Items) /\ q \in Seq(Items)
    BY <1>1
  <2> HIDE DEF h, q
  <2>2. h \o Append(q, item) = Append(h \o q, item)
    BY <2>1, AppendToConcat
  <2> QED
    BY <2>2 DEF h, q
<1>3. /\ queue' \in [Workers -> Seq(Items)]
      /\ queue'[w] = Append(queue[w], item) /\ \A v \in Workers : v # w => queue'[v] = queue[v]
  BY <1>1 DEF DataTypes
<1>4. Queued' = [Queued EXCEPT ![w] = Append(@, item)]
  <2>1. ASSUME NEW v \in Workers
        PROVE  hand'[v] \o queue'[v] = IF v = w THEN Append(hand[w] \o queue[w], item)
                                       ELSE hand[v] \o queue[v]
    BY <1>2, <1>3
  <2>2. Queued' = [v \in Workers |-> hand'[v] \o queue'[v]]
    BY DEF Queued
  <2> QED
    BY <2>1, <2>2 DEF Queued
<1>5. ASSUME NEW v \in Workers PROVE Len(queue'[v]) <= QueueSize
  BY <1>1, <1>3, ReceiverAssumption DEF DataTypes
<1> QED
  BY <1>3, <1>4, <1>5

\* Where the items are once another one has joined.
LEMMA PutFacts ==
    ASSUME DataTypes, NEW w \in Workers, NEW item \in Items,
           Queued' = [Queued EXCEPT ![w] = Append(@, item)]
    PROVE  /\ \A v \in Workers : v # w => Queued'[v] = Queued[v]
           /\ Len(Queued[w]) \in Nat
           /\ \A j \in DOMAIN Queued[w] :
                 j <= Len(Queued[w]) /\ j \in DOMAIN Queued'[w] /\ Queued'[w][j] = Queued[w][j]
           /\ Len(Queued[w]) + 1 \in DOMAIN Queued'[w] /\ Queued'[w][Len(Queued[w]) + 1] = item
           /\ \A j \in DOMAIN Queued'[w] : j \in DOMAIN Queued[w] \/ j = Len(Queued[w]) + 1
<1>1. Queued \in [Workers -> Seq(Items)]
  BY QueuedType
<1>2. Queued[w] \in Seq(Items) /\ Queued'[w] = Append(Queued[w], item)
  BY <1>1
<1>3. Len(Queued[w]) \in Nat /\ DOMAIN Queued[w] = 1..Len(Queued[w])
  BY <1>2
<1>4. DOMAIN Append(Queued[w], item) = 1..(Len(Queued[w]) + 1)
  BY <1>2
<1>5. /\ Append(Queued[w], item)[Len(Queued[w]) + 1] = item
      /\ \A j \in 1..Len(Queued[w]) : Append(Queued[w], item)[j] = Queued[w][j]
  BY <1>2, AppendProperties
<1> QED
  BY <1>1, <1>2, <1>3, <1>4, <1>5

\* The worker is done with the first item of its hand.
LEMMA QueuedDone ==
    ASSUME DataTypes, NumbersOK, NEW w \in Workers, hand[w] # <<>>, Done(w), queue' = queue
    PROVE  /\ Shifted(w, 1) /\ 1 \in DOMAIN Queued[w] /\ Queued[w][1] = Head(hand[w])
           /\ hand' \in [Workers -> Seq(Items)]
           /\ \A v \in Workers : Len(hand'[v]) <= ProcessBatch
<1>1. /\ hand[w] \in Seq(Items) /\ queue[w] \in Seq(Items)
      /\ hand' = [hand EXCEPT ![w] = Tail(hand[w])] /\ hand \in [Workers -> Seq(Items)]
      /\ Len(hand[w]) <= ProcessBatch
  BY DEF DataTypes, Done
<1>2. Tail(hand[w]) \in Seq(Items) /\ Len(hand[w]) \in Nat /\ Len(Tail(hand[w])) = Len(hand[w]) - 1
  BY <1>1, TailFacts
<1>3. /\ hand'[w] = Tail(hand[w]) /\ \A v \in Workers : v # w => hand'[v] = hand[v]
      /\ hand' \in [Workers -> Seq(Items)]
  BY <1>1, <1>2
<1>4. /\ Queued[w] = hand[w] \o queue[w] /\ Queued'[w] = Tail(hand[w]) \o queue[w]
      /\ \A v \in Workers : v # w => Queued'[v] = Queued[v]
  BY <1>3 DEF Queued
<1>5. /\ Queued[w] \in Seq(Items) /\ Queued[w] # <<>> /\ Head(Queued[w]) = Head(hand[w])
      /\ Queued'[w] = Tail(Queued[w])
  <2>1. /\ hand[w] \o queue[w] \in Seq(Items) /\ hand[w] \o queue[w] # <<>>
        /\ Head(hand[w] \o queue[w]) = Head(hand[w])
        /\ Tail(hand[w] \o queue[w]) = Tail(hand[w]) \o queue[w]
    BY <1>1, TailOfConcat
  <2> QED
    BY <1>4, <2>1, Zenon
<1>6. /\ 1 \in DOMAIN Queued[w] /\ Queued[w][1] = Head(hand[w]) /\ Queued'[w] \in Seq(Items)
      /\ \A j \in DOMAIN Queued'[w] :
            /\ j \in Nat /\ j >= 1 /\ j + 1 \in DOMAIN Queued[w]
            /\ Queued'[w][j] = Queued[w][j + 1]
      /\ \A j \in DOMAIN Queued[w] : j > 1 => j - 1 \in DOMAIN Queued'[w]
  BY <1>5, TailFacts
<1>7. ASSUME NEW j \in DOMAIN Queued'[w]
      PROVE  /\ j \in Nat /\ j >= 1 /\ j + 1 \in DOMAIN Queued[w]
             /\ Queued'[w][j] \in Items /\ Alike(Queued'[w][j], Queued[w][j + 1])
             /\ Queued'[w][j].type = "data" => Queued'[w][j].left >= 1
  <2>1. Queued'[w][j] \in Items
    BY <1>6, Elements
  <2> QED
    BY <1>6, <2>1 DEF Alike, NumbersOK
<1>8. Shifted(w, 1)
  BY <1>4, <1>6, <1>7 DEF Shifted
<1>9. ASSUME NEW v \in Workers PROVE Len(hand'[v]) <= ProcessBatch
  BY <1>1, <1>2, <1>3, ReceiverAssumption DEF DataTypes
<1> QED
  BY <1>3, <1>6, <1>8, <1>9

\* The worker is done with an event of the packet at the head of its hand.
LEMMA QueuedRest ==
    ASSUME DataTypes, NumbersOK, NEW w \in Workers, hand[w] # <<>>, Head(hand[w]).type = "data",
           hand' = [hand EXCEPT ![w] = Rest(w)], queue' = queue
    PROVE  /\ Shifted(w, 0) \/ Shifted(w, 1)
           /\ 1 \in DOMAIN Queued[w] /\ Queued[w][1] = Head(hand[w])
           /\ hand' \in [Workers -> Seq(Items)]
           /\ \A v \in Workers : Len(hand'[v]) <= ProcessBatch
<1>1. /\ hand[w] \in Seq(Items) /\ queue[w] \in Seq(Items)
      /\ hand \in [Workers -> Seq(Items)] /\ Len(hand[w]) <= ProcessBatch
  BY DEF DataTypes
<1>2. CASE Head(hand[w]).left = 1
  <2>1. Done(w)
    BY <1>2 DEF Rest, Done
  <2> QED
    BY <2>1, QueuedDone
<1>3. CASE Head(hand[w]).left # 1
  <2> DEFINE i == Head(hand[w])
             x == [i EXCEPT !.left = @ - 1, !.begun = TRUE]
             h == hand[w]
             r == <<x>> \o Tail(hand[w])
  <2>1. /\ Queued[w] = hand[w] \o queue[w] /\ Queued[w] \in Seq(Items) /\ Queued[w] # <<>>
        /\ Head(Queued[w]) = i /\ Tail(Queued[w]) = Tail(hand[w]) \o queue[w]
    BY <1>1, TailOfConcat DEF Queued
  <2>2. 1 \in DOMAIN Queued[w] /\ Queued[w][1] = i
    BY <2>1, TailFacts
  <2>3. i \in Items /\ i.left >= 1
    <3>1. Queued[w][1] \in Items
      BY <2>1, <2>2, Elements, Zenon
    <3>2. Queued[w][1].type = "data" => Queued[w][1].left >= 1
      BY <2>2 DEF NumbersOK
    <3> QED
      BY <2>2, <3>1, <3>2, Zenon
  <2>4. x \in Items /\ Alike(x, i) /\ x.left >= 1
    <3> HIDE DEF i
    <3>1. i.left \in Nat /\ i.left # 1
      BY <1>3, <2>3 DEF Items, i
    <3>2. i.left - 1 \in Nat /\ i.left - 1 >= 1
      BY <2>3, <3>1
    <3>3. x \in Items
      BY <2>3, <3>2 DEF Items
    <3>4. x.type = i.type /\ x.src = i.src /\ x.n = i.n /\ x.token = i.token /\ x.left = i.left - 1
      BY <2>3 DEF Items
    <3> HIDE DEF x
    <3> QED
      BY <3>2, <3>3, <3>4 DEF Alike
  <2>5. hand' = [hand EXCEPT ![w] = r]
    BY <1>3 DEF Rest
  <2>6. r \in Seq(Items) /\ Len(r) = Len(hand[w])
    <3> HIDE DEF x
    <3> QED
      BY <1>1, <2>4, HeadReplaced
  <2>7. Tail(hand[w]) \in Seq(Items) /\ <<x>> \in Seq(Items)
    <3> HIDE DEF x
    <3> QED
      BY <1>1, <2>4, TailFacts
  <2> HIDE DEF x
  <2>8. r \o queue[w] = <<x>> \o Tail(Queued[w])
    BY <1>1, <2>1, <2>7, ConcatAssociative
  <2> HIDE DEF r, i
  <2>9. /\ hand'[w] = r /\ \A v \in Workers : v # w => hand'[v] = hand[v]
        /\ hand' \in [Workers -> Seq(Items)]
    BY <1>1, <2>5, <2>6
  <2>10. Queued'[w] = <<x>> \o Tail(Queued[w]) /\ \A v \in Workers : v # w => Queued'[v] = Queued[v]
    BY <2>8, <2>9 DEF Queued
  <2>11. /\ Queued'[w] \in Seq(Items) /\ DOMAIN Queued'[w] = DOMAIN Queued[w]
         /\ Queued'[w][1] = x
         /\ \A j \in DOMAIN Queued[w] : j > 1 => Queued'[w][j] = Queued[w][j]
    <3>1. /\ <<x>> \o Tail(Queued[w]) \in Seq(Items)
          /\ DOMAIN (<<x>> \o Tail(Queued[w])) = DOMAIN Queued[w]
          /\ (<<x>> \o Tail(Queued[w]))[1] = x
          /\ \A j \in DOMAIN Queued[w] : j > 1 => (<<x>> \o Tail(Queued[w]))[j] = Queued[w][j]
      <4> DEFINE q == Queued[w]
      <4>1. q \in Seq(Items) /\ q # <<>> /\ x \in Items
        BY <2>1, <2>4
      <4> HIDE DEF q
      <4>2. /\ <<x>> \o Tail(q) \in Seq(Items) /\ DOMAIN (<<x>> \o Tail(q)) = DOMAIN q
            /\ (<<x>> \o Tail(q))[1] = x
            /\ \A j \in DOMAIN q : j > 1 => (<<x>> \o Tail(q))[j] = q[j]
        BY <4>1, HeadReplaced
      <4> QED
        BY <4>2 DEF q
    <3> QED
      BY <2>10, <3>1, Zenon
  <2>12. ASSUME NEW j \in DOMAIN Queued'[w]
         PROVE  /\ j \in Nat /\ j >= 1 /\ j + 0 \in DOMAIN Queued[w]
                /\ Queued'[w][j] \in Items /\ Alike(Queued'[w][j], Queued[w][j + 0])
                /\ Queued'[w][j].type = "data" => Queued'[w][j].left >= 1
    <3>1. Queued'[w][j] \in Items /\ j \in Nat /\ j >= 1
      BY <2>11, Elements
    <3>2. j + 0 = j
      BY <3>1
    <3>3. CASE j = 1
      BY <2>2, <2>4, <2>11, <3>1, <3>2, <3>3
    <3>4. CASE j > 1
      BY <2>11, <3>1, <3>2, <3>4 DEF Alike, NumbersOK
    <3> QED
      BY <3>1, <3>3, <3>4
  <2>13. ASSUME NEW j \in DOMAIN Queued[w] PROVE j - 0 \in DOMAIN Queued'[w]
    <3>1. j \in Nat
      BY <2>1, Elements
    <3> QED
      BY <2>11, <3>1
  <2>14. Shifted(w, 0)
    BY <2>10, <2>12, <2>13 DEF Shifted
  <2>15. ASSUME NEW v \in Workers PROVE Len(hand'[v]) <= ProcessBatch
    BY <1>1, <2>6, <2>9, ReceiverAssumption DEF DataTypes
  <2> QED
    BY <2>2, <2>9, <2>14, <2>15 DEF i
<1> QED
  BY <1>2, <1>3

-----------------------------------------------------------------------------
(* What a step leaves alone *)

\* What the queues and the files are to the commands.
QueueInv == NumbersOK /\ FilesDiffer /\ CloseIsFresh /\ AckOK /\ ClosingOK

\* The numbers of the open files, 0 where none is open.
LEMMA OpenedType ==
    ASSUME DataTypes
    PROVE  Opened \in [Sources -> Nat]
<1>1. \A s \in Sources : node[s].file \in Nat
  BY ReceiverAssumption DEF DataTypes, Nodes
<1> QED
  BY <1>1 DEF Opened

\* A step that leaves queues and nodes alone keeps the items and the files.
LEMMA SameQueues ==
    ASSUME UNCHANGED <<hand, queue, node>>
    PROVE  Queued' = Queued /\ Opened' = Opened
BY DEF Queued, Opened

\* FilesDiffer depends on the items and the open files only.
LEMMA FilesFrame ==
    ASSUME FilesDiffer, Queued' = Queued, Opened' = Opened
    PROVE  FilesDiffer'
BY DEF FilesDiffer

\* ThreadsOK depends on the records of the threads only.
LEMMA ThreadsFrame ==
    ASSUME ThreadsOK, UNCHANGED <<cl, want, closer, delayed>>
    PROVE  ThreadsOK'
BY DEF ThreadsOK

\* What is said of the contents of the files depends on them only.
LEMMA DataFrame ==
    ASSUME DataTypes, DataOK, UNCHANGED <<queue, hand, node, disk, hist, delayed>>
    PROVE  DataTypes' /\ DataOK'
<1>1. Scheduled' = Scheduled
  BY DEF Scheduled
<1> QED
  BY <1>1 DEF DataTypes, DataOK, hist

\* What is said of the producers depends on the channels and the command.
LEMMA ProducerFrame ==
    ASSUME ProducerTypes, ProducerOK, UNCHANGED <<cl, ioVars>>
    PROVE  ProducerTypes' /\ ProducerOK'
BY DEF ProducerTypes, ProducerOK, ioVars

\* A command that is fulfilled stays so while nothing happens to its files.
LEMMA FulfilledFrame ==
    ASSUME Fulfilled, Queued' = Queued, Opened' = Opened, damaged' = damaged,
           cl'.src = cl.src, cl'.n = cl.n, cl'.op = cl.op
    PROVE  Fulfilled'
BY DEF Fulfilled

\* What is said of the queues holds as long as items, files and commands stay.
LEMMA QueueFrame ==
    ASSUME QueueInv, Queued' = Queued, Opened' = Opened,
           UNCHANGED <<delayed, cl, closer, ack, damaged>>, keep_running' => keep_running
    PROVE  QueueInv'
<1>1. NumbersOK' /\ FilesDiffer'
  BY DEF QueueInv, NumbersOK, FilesDiffer
<1>2. CloseIsFresh'
  BY DEF QueueInv, CloseIsFresh
<1>3. AckOK'
  BY DEF QueueInv, AckOK, Fulfilled, ReadyOK
<1>4. ClosingOK'
  BY DEF QueueInv, ClosingOK, Closing
<1> QED
  BY <1>1, <1>2, <1>3, <1>4 DEF QueueInv

\* A step that touches neither a queue, a file, a command nor a producer.
LEMMA QuietStep ==
    ASSUME ReceiverInv, ThreadTypes', ThreadsOK', keep_running' => keep_running,
           UNCHANGED <<queue, hand, node, disk, hist, delayed, cl, closer, ack, ioVars>>
    PROVE  ReceiverInv'
<1>1. QueueInv'
  BY QueueFrame, SameQueues DEF ReceiverInv, QueueInv, hist
<1>2. DataTypes' /\ DataOK'
  BY DataFrame DEF ReceiverInv
<1>3. ProducerTypes' /\ ProducerOK'
  BY ProducerFrame DEF ReceiverInv
<1> QED
  BY <1>1, <1>2, <1>3 DEF ReceiverInv, QueueInv

-----------------------------------------------------------------------------
(* A worker handles the item at the head of its queue *)

\* What handling the item h does to the file of its source and to the
\* acknowledgement.
Handled(h, d) ==
    /\ Opened' \in [Sources -> Nat] /\ damaged \subseteq damaged'
    /\ \A s \in Sources : s # h.src => Opened'[s] = Opened[s]
    /\ h.type = "data" => \/ Opened'[h.src] = Opened[h.src]
                          \/ Opened'[h.src] = 0 /\ Opened[h.src] \in damaged'
    /\ h.type = "open" => d = 1 /\ Opened'[h.src] \in {Opened[h.src], h.n}
    /\ h.type = "close" => d = 1 /\ Opened'[h.src] = 0
    /\ ack'.serial = ack.serial /\ ack'.waiting = ack.waiting
    /\ ack'.done /\ ack'.success =>
          \/ ack.done /\ ack.success
          \/ /\ h.token # 0 /\ h.token = ack.waiting
             /\ h.type = "open" => Opened'[h.src] = h.n

\* The numbers, the files and the closes stay as they must be.
LEMMA HandledNumbers ==
    ASSUME DataTypes, NumbersOK, FilesDiffer, CloseIsFresh, NEW w \in Workers, NEW d \in {0, 1},
           Shifted(w, d), 1 \in DOMAIN Queued[w], Handled(Queued[w][1], d),
           UNCHANGED <<cl, delayed, keep_running>>, cl \in Listeners, delayed \in [Sources -> Closes]
    PROVE  NumbersOK' /\ FilesDiffer' /\ CloseIsFresh'
<1> DEFINE h == Queued[w][1]
<1>1. /\ Queued \in [Workers -> Seq(Items)] /\ h.src \in Sources /\ h.n \in Nat
      /\ h.type \in {"open", "close", "data"} /\ WorkerOf[h.src] = w
      /\ h.type = "open" => h.n >= 1 /\ h.n <= cl.n
      /\ h.type = "open" /\ cl.pc \in {"pending", "pendingWait", "put"} => h.n < cl.n
  BY QueuedType DEF NumbersOK
<1>2. /\ \A v \in Workers : v # w => Queued'[v] = Queued[v]
      /\ \A j \in DOMAIN Queued'[w] :
            /\ j \in Nat /\ j >= 1 /\ j + d \in DOMAIN Queued[w]
            /\ Alike(Queued'[w][j], Queued[w][j + d])
            /\ Queued'[w][j].type = "data" => Queued'[w][j].left >= 1
  BY DEF Shifted
<1>3. /\ Opened' \in [Sources -> Nat] /\ Opened \in [Sources -> Nat]
      /\ \A s \in Sources : s # h.src => Opened'[s] = Opened[s]
      /\ \/ Opened'[h.src] = Opened[h.src] \/ Opened'[h.src] = 0
         \/ h.type = "open" /\ d = 1 /\ Opened'[h.src] = h.n
  <2>1. Opened \in [Sources -> Nat]
    BY OpenedType
  <2> QED
    BY <1>1, <2>1 DEF Handled
<1> HIDE DEF h
<1>4. NumbersOK'
  <2>1. ASSUME NEW v \in Workers, NEW j \in DOMAIN Queued'[v]
        PROVE  LET i == Queued'[v][j] IN
               /\ WorkerOf[i.src] = v
               /\ i.type = "data" => i.left >= 1 /\ i.token = 0
               /\ i.type # "data" => i.n >= 1 /\ i.n <= cl.n
               /\ i.type # "data" /\ cl.pc \in {"pending", "pendingWait", "put"} => i.n < cl.n
    <3>1. CASE v = w
      BY <1>2, <3>1 DEF NumbersOK, Alike
    <3>2. CASE v # w
      BY <1>2, <3>2 DEF NumbersOK
    <3> QED
      BY <3>1, <3>2
  <2>2. ASSUME NEW s \in Sources
        PROVE  /\ Opened'[s] <= cl.n /\ delayed[s].n <= cl.n
               /\ cl.pc \in {"pending", "pendingWait", "put"} =>
                     Opened'[s] < cl.n /\ delayed[s].n < cl.n
    <3>1. cl.n \in Nat
      BY ReceiverAssumption DEF Listeners
    <3>2. /\ Opened[s] <= cl.n /\ delayed[s].n <= cl.n /\ Opened[s] \in Nat
          /\ cl.pc \in {"pending", "pendingWait", "put"} =>
                Opened[s] < cl.n /\ delayed[s].n < cl.n
      BY <1>3 DEF NumbersOK
    <3>3. Opened'[s] <= cl.n /\ (cl.pc \in {"pending", "pendingWait", "put"} => Opened'[s] < cl.n)
      <4>1. CASE s = h.src /\ h.type = "open" /\ Opened'[s] = h.n
        BY <1>1, <4>1
      <4>2. CASE Opened'[s] = Opened[s]
        BY <3>2, <4>2
      <4>3. CASE Opened'[s] = 0
        BY <3>1, <3>2, <4>3
      <4> QED
        BY <1>3, <4>1, <4>2, <4>3
    <3> QED
      BY <3>2, <3>3
  <2> QED
    BY <2>1, <2>2 DEF NumbersOK
<1>5. FilesDiffer'
  <2>1. ASSUME NEW u \in Workers, NEW v \in Workers,
               NEW i \in DOMAIN Queued'[u], NEW j \in DOMAIN Queued'[v],
               Queued'[u][i].type = "open", Queued'[v][j].type = "open",
               Queued'[u][i].n = Queued'[v][j].n
        PROVE  u = v /\ i = j
    <3>1. PICK k \in DOMAIN Queued[u] : /\ Alike(Queued'[u][i], Queued[u][k])
                                        /\ u = w => k = i + d /\ i \in Nat
                                        /\ u # w => k = i
      BY <1>2 DEF Alike
    <3>2. PICK l \in DOMAIN Queued[v] : /\ Alike(Queued'[v][j], Queued[v][l])
                                        /\ v = w => l = j + d /\ j \in Nat
                                        /\ v # w => l = j
      BY <1>2 DEF Alike
    <3>3. u = v /\ k = l
      <4>1. /\ Queued[u][k].type = "open" /\ Queued[v][l].type = "open"
            /\ Queued[u][k].n = Queued[v][l].n
        BY <2>1, <3>1, <3>2 DEF Alike
      <4> QED
        BY <4>1 DEF FilesDiffer
    <3> QED
      BY <3>1, <3>2, <3>3
  <2>2. ASSUME NEW v \in Workers, NEW s \in Sources, NEW j \in DOMAIN Queued'[v],
               Queued'[v][j].type = "open"
        PROVE  Opened'[s] # Queued'[v][j].n
    <3>1. PICK k \in DOMAIN Queued[v] : /\ Alike(Queued'[v][j], Queued[v][k])
                                        /\ v = w => k = j + d /\ j \in Nat /\ j >= 1
      BY <1>2 DEF Alike
    <3>2. Queued[v][k].type = "open" /\ Queued[v][k].n = Queued'[v][j].n
      BY <2>2, <3>1 DEF Alike
    <3>3. Opened[s] # Queued[v][k].n /\ Queued[v][k].n >= 1
      BY <3>2 DEF FilesDiffer, NumbersOK
    <3>4. CASE s = h.src /\ h.type = "open" /\ d = 1 /\ Opened'[s] = h.n
      <4>1. v # w \/ k # 1
        BY <3>1, <3>4
      <4>2. h.n # Queued[v][k].n
        BY <3>2, <3>4, <4>1 DEF FilesDiffer, h
      <4> QED
        BY <3>2, <3>4, <4>2
    <3>5. CASE Opened'[s] = Opened[s] \/ Opened'[s] = 0
      BY <3>2, <3>3, <3>5
    <3> QED
      BY <1>3, <3>4, <3>5
  <2>3. ASSUME NEW r \in Sources, NEW s \in Sources, Opened'[r] = Opened'[s], Opened'[s] # 0
        PROVE  r = s
    <3>1. h.type = "open" => \A x \in Sources : Opened[x] # h.n
      BY DEF FilesDiffer, h
    <3>2. \A x, y \in Sources : Opened[x] = Opened[y] /\ Opened[y] # 0 => x = y
      BY DEF FilesDiffer
    <3>3. CASE Opened'[r] = Opened[r] /\ Opened'[s] = Opened[s]
      BY <2>3, <3>2, <3>3
    <3>4. CASE h.type = "open" /\ Opened'[h.src] = h.n
      BY <1>3, <2>3, <3>1, <3>2, <3>4
    <3> QED
      BY <1>3, <2>3, <3>3, <3>4
  <2> QED
    BY <2>1, <2>2, <2>3 DEF FilesDiffer
<1>6. CloseIsFresh'
  <2>1. ASSUME NEW s \in Sources, NEW j \in DOMAIN Queued'[WorkerOf[s]],
               Queued'[WorkerOf[s]][j].type = "close", Queued'[WorkerOf[s]][j].src = s
        PROVE  LET q == Queued'[WorkerOf[s]] IN
               /\ Opened'[s] <= q[j].n
               /\ \A i \in DOMAIN q : i < j /\ q[i].type = "open" /\ q[i].src = s => q[i].n < q[j].n
    <3> DEFINE v == WorkerOf[s]
    <3>1. v \in Workers
      BY ReceiverAssumption
    <3>2. CASE v # w
      <4>1. Queued'[v] = Queued[v] /\ s # h.src
        BY <1>1, <1>2, <3>1, <3>2
      <4> QED
        BY <1>3, <2>1, <4>1 DEF CloseIsFresh
    <3>3. CASE v = w
      <4> DEFINE c == Queued[w][j + d]
      <4>1. /\ j \in Nat /\ j >= 1 /\ j + d \in DOMAIN Queued[w]
            /\ c.type = "close" /\ c.src = s /\ c.n = Queued'[w][j].n
        BY <1>2, <2>1, <3>3 DEF Alike
      <4>2. /\ Opened[s] <= c.n
            /\ \A i \in DOMAIN Queued[w] :
                  i < j + d /\ Queued[w][i].type = "open" /\ Queued[w][i].src = s
                      => Queued[w][i].n < c.n
        BY <3>3, <4>1 DEF CloseIsFresh
      <4>3. c.n \in Nat
        BY <4>1, QueuedType
      <4> HIDE DEF c
      <4>4. Opened'[s] <= c.n
        <5>1. CASE s = h.src /\ h.type = "open" /\ d = 1 /\ Opened'[s] = h.n
          <6>1. 1 < j + d
            BY <4>1, <5>1
          <6> QED
            BY <1>1, <4>2, <4>3, <5>1, <6>1 DEF h
        <5>2. CASE Opened'[s] = Opened[s] \/ Opened'[s] = 0
          BY <4>2, <4>3, <5>2
        <5> QED
          BY <1>3, <5>1, <5>2
      <4>5. ASSUME NEW i \in DOMAIN Queued'[w], i < j, Queued'[w][i].type = "open",
                   Queued'[w][i].src = s
            PROVE  Queued'[w][i].n < c.n
        <5>1. /\ i + d \in DOMAIN Queued[w] /\ i \in Nat /\ Queued[w][i + d].type = "open"
              /\ Queued[w][i + d].src = s /\ Queued[w][i + d].n = Queued'[w][i].n
          BY <1>2, <4>5 DEF Alike
        <5>2. i + d < j + d
          BY <4>1, <4>5, <5>1
        <5> QED
          BY <4>2, <5>1, <5>2
      <4> QED
        BY <3>3, <4>1, <4>4, <4>5
    <3> QED
      BY <3>2, <3>3
  <2>2. ASSUME NEW s \in Sources, delayed[s] # NoClose
        PROVE  /\ Opened'[s] <= delayed[s].n
               /\ \A j \in DOMAIN Queued'[WorkerOf[s]] :
                     LET i == Queued'[WorkerOf[s]][j] IN
                     i.type = "open" /\ i.src = s => i.n < delayed[s].n
    <3>1. WorkerOf[s] \in Workers /\ delayed[s].n \in Nat
      BY ReceiverAssumption DEF Closes
    <3>2. /\ Opened[s] <= delayed[s].n
          /\ \A j \in DOMAIN Queued[WorkerOf[s]] :
                LET i == Queued[WorkerOf[s]][j] IN
                i.type = "open" /\ i.src = s => i.n < delayed[s].n
      BY <2>2 DEF CloseIsFresh
    <3>3. Opened'[s] <= delayed[s].n
      <4>1. CASE s = h.src /\ h.type = "open" /\ Opened'[s] = h.n
        <5>1. h.n < delayed[s].n
          BY <1>1, <3>2, <4>1 DEF h
        <5> QED
          BY <1>1, <3>1, <4>1, <5>1
      <4>2. CASE Opened'[s] = Opened[s] \/ Opened'[s] = 0
        BY <3>1, <3>2, <4>2
      <4> QED
        BY <1>3, <4>1, <4>2
    <3>4. ASSUME NEW j \in DOMAIN Queued'[WorkerOf[s]],
                 Queued'[WorkerOf[s]][j].type = "open", Queued'[WorkerOf[s]][j].src = s
          PROVE  Queued'[WorkerOf[s]][j].n < delayed[s].n
      <4>1. CASE WorkerOf[s] = w
        BY <1>2, <3>2, <3>4, <4>1 DEF Alike
      <4>2. CASE WorkerOf[s] # w
        BY <1>2, <3>1, <3>2, <3>4, <4>2
      <4> QED
        BY <4>1, <4>2
    <3> QED
      BY <3>3, <3>4
  <2> QED
    BY <2>1, <2>2 DEF CloseIsFresh
<1> QED
  BY <1>4, <1>5, <1>6

\* The acknowledgement and the promises of the commands hold on.
LEMMA HandledAnswers ==
    ASSUME DataTypes, NumbersOK, AckOK, ClosingOK, ThreadsOK, ThreadTypes,
           NEW w \in Workers, NEW d \in {0, 1},
           Shifted(w, d), 1 \in DOMAIN Queued[w], Handled(Queued[w][1], d),
           UNCHANGED <<cl, closer, delayed>>
    PROVE  AckOK' /\ ClosingOK'
<1> DEFINE h == Queued[w][1]
<1>1. /\ Queued \in [Workers -> Seq(Items)] /\ h.src \in Sources /\ h.n \in Nat
      /\ h.type \in {"open", "close", "data"} /\ WorkerOf[h.src] = w /\ h.token \in Nat
      /\ h.type = "data" => h.token = 0
  BY QueuedType DEF NumbersOK
<1>2. /\ \A v \in Workers : v # w => Queued'[v] = Queued[v]
      /\ \A j \in DOMAIN Queued'[w] :
            /\ j \in Nat /\ j >= 1 /\ j + d \in DOMAIN Queued[w]
            /\ Alike(Queued'[w][j], Queued[w][j + d])
      /\ \A j \in DOMAIN Queued[w] : j > d => j - d \in DOMAIN Queued'[w]
  BY DEF Shifted
<1>3. /\ Opened' \in [Sources -> Nat] /\ damaged \subseteq damaged'
      /\ \A s \in Sources : s # h.src => Opened'[s] = Opened[s]
      /\ h.type = "data" => \/ Opened'[h.src] = Opened[h.src]
                            \/ Opened'[h.src] = 0 /\ Opened[h.src] \in damaged'
      /\ h.type = "open" => d = 1 /\ Opened'[h.src] \in {Opened[h.src], h.n}
      /\ h.type = "close" => d = 1 /\ Opened'[h.src] = 0
      /\ ack'.serial = ack.serial /\ ack'.waiting = ack.waiting
      /\ ack'.done /\ ack'.success =>
            \/ ack.done /\ ack.success
            \/ /\ h.token # 0 /\ h.token = ack.waiting
               /\ h.type = "open" => Opened'[h.src] = h.n
  BY DEF Handled
<1>4. 1 \in DOMAIN Queued[w] /\ Queued[w][1] = h
  OBVIOUS
<1> HIDE DEF h
<1>5. \A v \in Workers : \A j \in DOMAIN Queued'[v] :
          \E k \in DOMAIN Queued[v] : /\ Alike(Queued'[v][j], Queued[v][k])
                                      /\ v = w => k = j + d /\ j \in Nat /\ j >= 1
                                      /\ v # w => k = j
  BY <1>2 DEF Alike
<1>6. ASSUME cl.src \in Sources, Fulfilled PROVE Fulfilled'
  <2>1. WorkerOf[cl.src] \in Workers
    BY <1>6, ReceiverAssumption
  <2>2. ASSUME NEW j \in DOMAIN Queued'[WorkerOf[cl.src]],
               Queued'[WorkerOf[cl.src]][j].src = cl.src
        PROVE  Queued'[WorkerOf[cl.src]][j].type = "data"
    <3>1. PICK k \in DOMAIN Queued[WorkerOf[cl.src]] :
               Alike(Queued'[WorkerOf[cl.src]][j], Queued[WorkerOf[cl.src]][k])
      BY <1>5, <2>1
    <3> QED
      BY <1>6, <2>2, <3>1 DEF Fulfilled, Alike
  <2>3. h.src = cl.src => h.type = "data"
    BY <1>1, <1>4, <1>6 DEF Fulfilled
  <2>4. \/ Opened'[cl.src] = Opened[cl.src]
        \/ Opened'[cl.src] = 0 /\ Opened[cl.src] \in damaged'
    BY <1>3, <1>6, <2>3
  <2> QED
    BY <1>3, <1>6, <2>2, <2>4 DEF Fulfilled
<1>7. ASSUME cl.pc = "ackWait", ack'.done, ack'.success PROVE Fulfilled'
  <2>1. cl.src \in Sources /\ cl.op \in {"OPEN_READY", "CLOSE_READY"}
    BY <1>7 DEF ThreadsOK
  <2>2. CASE ack.done /\ ack.success
    BY <1>6, <1>7, <2>1, <2>2 DEF AckOK
  <2>3. CASE h.token # 0 /\ h.token = ack.waiting /\ (h.type = "open" => Opened'[h.src] = h.n)
    <3>1. h.token = cl.token
      BY <1>7, <2>3 DEF AckOK
    <3>2. /\ h.src = cl.src /\ h.n = cl.n
          /\ h.type = IF cl.op = "CLOSE_READY" THEN "close" ELSE "open"
          /\ \A k \in DOMAIN Queued[w] :
                k > 1 /\ Queued[w][k].src = cl.src => Queued[w][k].type = "data"
      BY <1>4, <1>7, <3>1 DEF AckOK
    <3>3. d = 1 /\ WorkerOf[cl.src] = w
      BY <1>1, <1>3, <3>2
    <3>4. ASSUME NEW j \in DOMAIN Queued'[w], Queued'[w][j].src = cl.src
          PROVE  Queued'[w][j].type = "data"
      <4>1. /\ j + 1 \in DOMAIN Queued[w] /\ j \in Nat /\ j >= 1
            /\ Queued'[w][j].src = Queued[w][j + 1].src
            /\ Queued'[w][j].type = Queued[w][j + 1].type
        BY <1>2, <3>3 DEF Alike
      <4>2. j + 1 > 1
        BY <4>1
      <4> QED
        BY <3>2, <3>4, <4>1, <4>2
    <3>5. /\ cl.op = "OPEN_READY" => Opened'[cl.src] = cl.n
          /\ cl.op = "CLOSE_READY" => Opened'[cl.src] = 0
      BY <1>3, <2>3, <3>2
    <3> QED
      BY <3>3, <3>4, <3>5 DEF Fulfilled
  <2> QED
    BY <1>3, <1>7, <2>2, <2>3
<1>8. AckOK'
  <2>1. ASSUME NEW v \in Workers, NEW j \in DOMAIN Queued'[v]
        PROVE  Queued'[v][j].token <= ack.serial
    <3>1. PICK k \in DOMAIN Queued[v] : Alike(Queued'[v][j], Queued[v][k])
      BY <1>5
    <3> QED
      BY <3>1 DEF AckOK, Alike
  <2>2. ASSUME cl.pc = "ackWait", NEW v \in Workers, NEW j \in DOMAIN Queued'[v],
               Queued'[v][j].token = cl.token
        PROVE  LET i == Queued'[v][j] IN
               /\ i.src = cl.src /\ i.n = cl.n
               /\ i.type = IF cl.op = "CLOSE_READY" THEN "close" ELSE "open"
               /\ \A k \in DOMAIN Queued'[v] :
                     k > j /\ Queued'[v][k].src = cl.src => Queued'[v][k].type = "data"
    <3>1. PICK l \in DOMAIN Queued[v] : /\ Alike(Queued'[v][j], Queued[v][l])
                                        /\ v = w => l = j + d /\ j \in Nat /\ j >= 1
                                        /\ v # w => l = j
      BY <1>5
    <3>2. Queued[v][l].token = cl.token
      BY <2>2, <3>1 DEF Alike
    <3>3. LET i == Queued[v][l] IN
          /\ i.src = cl.src /\ i.n = cl.n
          /\ i.type = IF cl.op = "CLOSE_READY" THEN "close" ELSE "open"
          /\ \A k \in DOMAIN Queued[v] :
                k > l /\ Queued[v][k].src = cl.src => Queued[v][k].type = "data"
      BY <2>2, <3>2 DEF AckOK
    <3>4. ASSUME NEW k \in DOMAIN Queued'[v], k > j, Queued'[v][k].src = cl.src
          PROVE  Queued'[v][k].type = "data"
      <4>1. PICK m \in DOMAIN Queued[v] : /\ Alike(Queued'[v][k], Queued[v][m])
                                          /\ v = w => m = k + d /\ k \in Nat /\ k >= 1
                                          /\ v # w => m = k
        BY <1>5
      <4>2. m > l
        BY <3>1, <3>4, <4>1
      <4>3. Queued[v][m].src = cl.src
        BY <3>4, <4>1 DEF Alike
      <4>4. Queued[v][m].type = "data"
        BY <3>3, <4>2, <4>3
      <4> QED
        BY <4>1, <4>4 DEF Alike
    <3> QED
      BY <3>1, <3>3, <3>4 DEF Alike
  <2>3. /\ cl.pc # "ackWait" => ack'.waiting = 0
        /\ cl.pc = "ackWait" => ack'.waiting = cl.token /\ cl.token = ack'.serial /\ cl.token >= 1
        /\ cl.pc = "ackWait" \/ ReadyOK => delayed[cl.src] = NoClose
    BY <1>3 DEF AckOK
  <2>4. ReadyOK => Fulfilled'
    <3>1. ReadyOK => cl.src \in Sources /\ Fulfilled
      BY DEF ReadyOK, ThreadsOK, AckOK
    <3> QED
      BY <1>6, <3>1
  <2>5. ReadyOK' <=> ReadyOK
    BY DEF ReadyOK
  <2> QED
    BY <1>3, <1>7, <2>1, <2>2, <2>3, <2>4, <2>5 DEF AckOK
<1>9. ASSUME NEW s \in Sources, Closing(s)
      PROVE  LET q == Queued'[WorkerOf[s]] IN
             \/ Opened'[s] = 0 /\ \A i \in DOMAIN q : q[i].src = s => q[i].type # "open"
             \/ \E j \in DOMAIN q :
                   /\ q[j].type = "close" /\ q[j].src = s
                   /\ \A i \in DOMAIN q : i > j /\ q[i].src = s => q[i].type # "open"
  <2>1. WorkerOf[s] \in Workers
    BY ReceiverAssumption
  <2>2. CASE WorkerOf[s] # w
    <3>1. Queued'[WorkerOf[s]] = Queued[WorkerOf[s]] /\ Opened'[s] = Opened[s]
      BY <1>1, <1>2, <1>3, <2>1, <2>2
    <3> QED
      BY <1>9, <3>1 DEF Closing
  <2>3. CASE WorkerOf[s] = w /\ Opened[s] = 0
             /\ \A i \in DOMAIN Queued[w] : Queued[w][i].src = s => Queued[w][i].type # "open"
    <3>1. Opened'[s] = 0
      BY <1>1, <1>3, <1>4, <2>3
    <3>2. ASSUME NEW i \in DOMAIN Queued'[w], Queued'[w][i].src = s
          PROVE  Queued'[w][i].type # "open"
      BY <1>2, <2>3, <3>2 DEF Alike
    <3> QED
      BY <2>3, <3>1, <3>2
  <2>4. ASSUME WorkerOf[s] = w, NEW j \in DOMAIN Queued[w],
               Queued[w][j].type = "close", Queued[w][j].src = s,
               \A i \in DOMAIN Queued[w] : i > j /\ Queued[w][i].src = s => Queued[w][i].type # "open"
        PROVE  LET q == Queued'[w] IN
               \/ Opened'[s] = 0 /\ \A i \in DOMAIN q : q[i].src = s => q[i].type # "open"
               \/ \E k \in DOMAIN q :
                     /\ q[k].type = "close" /\ q[k].src = s
                     /\ \A i \in DOMAIN q : i > k /\ q[i].src = s => q[i].type # "open"
    <3>1. j \in Nat /\ j >= 1
      BY QueuedType
    <3>2. CASE j > d
      <4>1. j - d \in DOMAIN Queued'[w] /\ (j - d) + d = j
        BY <1>2, <3>1, <3>2
      <4>2. Queued'[w][j - d].type = "close" /\ Queued'[w][j - d].src = s
        BY <1>2, <2>4, <4>1 DEF Alike
      <4>3. ASSUME NEW i \in DOMAIN Queued'[w], i > j - d, Queued'[w][i].src = s
            PROVE  Queued'[w][i].type # "open"
        <5>1. /\ i + d \in DOMAIN Queued[w] /\ i \in Nat
              /\ Queued[w][i + d].src = s /\ Queued[w][i + d].type = Queued'[w][i].type
          BY <1>2, <4>3 DEF Alike
        <5>2. i + d > j
          BY <3>1, <4>3, <5>1
        <5> QED
          BY <2>4, <5>1, <5>2
      <4> QED
        BY <4>1, <4>2, <4>3
    <3>3. CASE ~(j > d)
      <4>1. j = 1 /\ d = 1
        BY <3>1, <3>3
      <4>2. Opened'[s] = 0
        BY <1>3, <1>4, <2>4, <4>1
      <4>3. ASSUME NEW i \in DOMAIN Queued'[w], Queued'[w][i].src = s
            PROVE  Queued'[w][i].type # "open"
        <5>1. /\ i + 1 \in DOMAIN Queued[w] /\ i \in Nat /\ i >= 1
              /\ Queued[w][i + 1].src = s /\ Queued[w][i + 1].type = Queued'[w][i].type
          BY <1>2, <4>1, <4>3 DEF Alike
        <5>2. i + 1 > j
          BY <4>1, <5>1
        <5> QED
          BY <2>4, <5>1, <5>2
      <4> QED
        BY <4>2, <4>3
    <3> QED
      BY <3>2, <3>3
  <2>5. CASE WorkerOf[s] = w
    <3>1. \/ Opened[s] = 0 /\ \A i \in DOMAIN Queued[w] : Queued[w][i].src = s => Queued[w][i].type # "open"
          \/ \E j \in DOMAIN Queued[w] :
                /\ Queued[w][j].type = "close" /\ Queued[w][j].src = s
                /\ \A i \in DOMAIN Queued[w] : i > j /\ Queued[w][i].src = s => Queued[w][i].type # "open"
      BY <1>9, <2>5 DEF Closing
    <3>2. CASE Opened[s] = 0
               /\ \A i \in DOMAIN Queued[w] : Queued[w][i].src = s => Queued[w][i].type # "open"
      BY <2>3, <2>5, <3>2
    <3>3. CASE \E j \in DOMAIN Queued[w] :
                  /\ Queued[w][j].type = "close" /\ Queued[w][j].src = s
                  /\ \A i \in DOMAIN Queued[w] : i > j /\ Queued[w][i].src = s => Queued[w][i].type # "open"
      <4>1. PICK j \in DOMAIN Queued[w] :
                /\ Queued[w][j].type = "close" /\ Queued[w][j].src = s
                /\ \A i \in DOMAIN Queued[w] : i > j /\ Queued[w][i].src = s => Queued[w][i].type # "open"
        BY <3>3
      <4> QED
        BY <2>4, <2>5, <4>1
    <3> QED
      BY <3>1, <3>2, <3>3
  <2> QED
    BY <2>2, <2>5
<1>10. ClosingOK'
  <2>1. ASSUME NEW s \in Sources, Closing(s) PROVE Closing(s)'
    BY <1>9, <2>1 DEF Closing
  <2> QED
    BY <2>1 DEF ClosingOK
<1> QED
  BY <1>8, <1>10

-----------------------------------------------------------------------------
(* A thread puts an item on the queue of its source *)

\* The item joins the end of the queue.
LEMMA PutWhere ==
    ASSUME DataTypes, NEW w \in Workers, NEW item \in Items,
           Queued' = [Queued EXCEPT ![w] = Append(@, item)]
    PROVE  /\ \A v \in Workers : \A j \in DOMAIN Queued'[v] :
                 \/ j \in DOMAIN Queued[v] /\ Queued'[v][j] = Queued[v][j]
                 \/ v = w /\ j \notin DOMAIN Queued[w] /\ Queued'[v][j] = item
           /\ \A v \in Workers : \A j \in DOMAIN Queued[v] :
                 j \in DOMAIN Queued'[v] /\ Queued'[v][j] = Queued[v][j] /\ j \in Nat
           /\ LET k == Len(Queued[w]) + 1 IN
                 /\ k \in Nat /\ k \in DOMAIN Queued'[w] /\ Queued'[w][k] = item
                 /\ \A j \in DOMAIN Queued[w] : j < k
                 /\ \A j \in DOMAIN Queued'[w] : j \notin DOMAIN Queued[w] => j = k
<1>1. /\ \A v \in Workers : v # w => Queued'[v] = Queued[v]
      /\ Len(Queued[w]) \in Nat
      /\ \A j \in DOMAIN Queued[w] :
            j <= Len(Queued[w]) /\ j \in DOMAIN Queued'[w] /\ Queued'[w][j] = Queued[w][j]
      /\ Len(Queued[w]) + 1 \in DOMAIN Queued'[w] /\ Queued'[w][Len(Queued[w]) + 1] = item
      /\ \A j \in DOMAIN Queued'[w] : j \in DOMAIN Queued[w] \/ j = Len(Queued[w]) + 1
  BY PutFacts
<1>2. \A v \in Workers : \A j \in DOMAIN Queued[v] : j \in Nat
  BY QueuedType
<1> DEFINE k == Len(Queued[w]) + 1
<1>3. /\ k \in Nat /\ k \in DOMAIN Queued'[w] /\ Queued'[w][k] = item
      /\ \A j \in DOMAIN Queued[w] : j < k
      /\ \A j \in DOMAIN Queued'[w] : j \notin DOMAIN Queued[w] => j = k
  BY <1>1, <1>2
<1> HIDE DEF k
<1>4. ASSUME NEW v \in Workers, NEW j \in DOMAIN Queued'[v]
      PROVE  \/ j \in DOMAIN Queued[v] /\ Queued'[v][j] = Queued[v][j]
             \/ v = w /\ j \notin DOMAIN Queued[w] /\ Queued'[v][j] = item
  BY <1>1, <1>3
<1>5. ASSUME NEW v \in Workers, NEW j \in DOMAIN Queued[v]
      PROVE  j \in DOMAIN Queued'[v] /\ Queued'[v][j] = Queued[v][j] /\ j \in Nat
  BY <1>1, <1>2
<1> QED
  BY <1>3, <1>4, <1>5 DEF k

\* An item that may join the queue as it is now.
Fits(w, item) ==
    /\ WorkerOf[item.src] = w
    /\ item.type = "data" => item.left >= 1 /\ item.token = 0
    /\ item.type # "data" =>
          /\ item.n >= 1 /\ item.n <= cl'.n
          /\ cl'.pc \in {"pending", "pendingWait", "put"} => item.n < cl'.n
    /\ item.type = "open" =>
          /\ delayed[item.src] = NoClose
          /\ \A v \in Workers : \A j \in DOMAIN Queued[v] :
                Queued[v][j].type = "open" => Queued[v][j].n < item.n
          /\ \A s \in Sources : Opened[s] < item.n
    /\ item.type = "close" =>
          /\ Opened[item.src] <= item.n
          /\ \A j \in DOMAIN Queued[w] :
                Queued[w][j].type = "open" /\ Queued[w][j].src = item.src => Queued[w][j].n < item.n

\* An item that fits may be put on its queue.
LEMMA PutKeeps ==
    ASSUME DataTypes, NumbersOK, FilesDiffer, CloseIsFresh, NEW w \in Workers, NEW item \in Items,
           Queued' = [Queued EXCEPT ![w] = Append(@, item)], Fits(w, item), Opened' = Opened,
           delayed' = delayed, cl'.n = cl.n,
           cl'.pc \in {"pending", "pendingWait", "put"} => cl.pc \in {"pending", "pendingWait", "put"},
           cl'.pc = "put" /\ keep_running' => delayed[cl'.src] = NoClose
    PROVE  NumbersOK' /\ FilesDiffer' /\ CloseIsFresh'
<1>1. \A v \in Workers : \A j \in DOMAIN Queued'[v] :
          \/ j \in DOMAIN Queued[v] /\ Queued'[v][j] = Queued[v][j]
          \/ v = w /\ j \notin DOMAIN Queued[w] /\ Queued'[v][j] = item
  BY PutWhere
<1> DEFINE k == Len(Queued[w]) + 1
<1>2. /\ k \in Nat /\ k \in DOMAIN Queued'[w] /\ Queued'[w][k] = item
      /\ \A j \in DOMAIN Queued[w] : j < k
      /\ \A j \in DOMAIN Queued'[w] : j \notin DOMAIN Queued[w] => j = k
  BY PutWhere
<1> HIDE DEF k
<1>3. Opened \in [Sources -> Nat] /\ item.n \in Nat
  BY ReceiverAssumption DEF Opened, DataTypes, Nodes, Items
<1>4. NumbersOK'
  <2>1. ASSUME NEW v \in Workers, NEW j \in DOMAIN Queued'[v]
        PROVE  LET i == Queued'[v][j] IN
               /\ WorkerOf[i.src] = v
               /\ i.type = "data" => i.left >= 1 /\ i.token = 0
               /\ i.type # "data" => i.n >= 1 /\ i.n <= cl'.n
               /\ i.type # "data" /\ cl'.pc \in {"pending", "pendingWait", "put"} => i.n < cl'.n
    <3>1. CASE j \in DOMAIN Queued[v] /\ Queued'[v][j] = Queued[v][j]
      <4>1. LET i == Queued[v][j] IN
            /\ WorkerOf[i.src] = v
            /\ i.type = "data" => i.left >= 1 /\ i.token = 0
            /\ i.type # "data" => i.n >= 1 /\ i.n <= cl.n
            /\ i.type # "data" /\ cl.pc \in {"pending", "pendingWait", "put"} => i.n < cl.n
        BY <3>1 DEF NumbersOK
      <4> QED
        BY <3>1, <4>1
    <3>2. CASE v = w /\ Queued'[v][j] = item
      BY <3>2 DEF Fits
    <3> QED
      BY <1>1, <3>1, <3>2
  <2>2. ASSUME NEW s \in Sources
        PROVE  /\ Opened'[s] <= cl'.n /\ delayed'[s].n <= cl'.n
               /\ cl'.pc \in {"pending", "pendingWait", "put"} =>
                     Opened'[s] < cl'.n /\ delayed'[s].n < cl'.n
    BY DEF NumbersOK
  <2> QED
    BY <2>1, <2>2 DEF NumbersOK
<1>5. FilesDiffer'
  <2>1. ASSUME NEW u \in Workers, NEW v \in Workers,
               NEW i \in DOMAIN Queued'[u], NEW j \in DOMAIN Queued'[v],
               Queued'[u][i].type = "open", Queued'[v][j].type = "open",
               Queued'[u][i].n = Queued'[v][j].n
        PROVE  u = v /\ i = j
    <3>1. \A x \in Workers : \A y \in DOMAIN Queued[x] : Queued[x][y].n \in Nat
      BY QueuedType
    <3>2. CASE i \in DOMAIN Queued[u] /\ j \in DOMAIN Queued[v]
      BY <1>1, <2>1, <3>2 DEF FilesDiffer
    <3>3. CASE i \in DOMAIN Queued[u] /\ j \notin DOMAIN Queued[v]
      <4>1. Queued'[v][j] = item /\ Queued[u][i].type = "open" /\ Queued[u][i].n = item.n
        BY <1>1, <2>1, <3>3
      <4>2. Queued[u][i].n < item.n
        BY <2>1, <3>3, <4>1 DEF Fits
      <4> QED
        BY <1>3, <3>1, <3>3, <4>1, <4>2
    <3>4. CASE i \notin DOMAIN Queued[u] /\ j \in DOMAIN Queued[v]
      <4>1. Queued'[u][i] = item /\ Queued[v][j].type = "open" /\ Queued[v][j].n = item.n
        BY <1>1, <2>1, <3>4
      <4>2. Queued[v][j].n < item.n
        BY <2>1, <3>4, <4>1 DEF Fits
      <4> QED
        BY <1>3, <3>1, <3>4, <4>1, <4>2
    <3>5. CASE i \notin DOMAIN Queued[u] /\ j \notin DOMAIN Queued[v]
      BY <1>1, <1>2, <3>5
    <3> QED
      BY <3>2, <3>3, <3>4, <3>5
  <2>2. ASSUME NEW v \in Workers, NEW s \in Sources, NEW j \in DOMAIN Queued'[v],
               Queued'[v][j].type = "open"
        PROVE  Opened'[s] # Queued'[v][j].n
    <3>1. CASE j \in DOMAIN Queued[v] /\ Queued'[v][j] = Queued[v][j]
      BY <2>2, <3>1 DEF FilesDiffer
    <3>2. CASE v = w /\ Queued'[v][j] = item
      <4>1. Opened[s] < item.n
        BY <2>2, <3>2 DEF Fits
      <4> QED
        BY <1>3, <3>2, <4>1
    <3> QED
      BY <1>1, <3>1, <3>2
  <2> QED
    BY <2>1, <2>2 DEF FilesDiffer
<1>6. CloseIsFresh'
  <2>1. ASSUME NEW s \in Sources, NEW j \in DOMAIN Queued'[WorkerOf[s]],
               Queued'[WorkerOf[s]][j].type = "close", Queued'[WorkerOf[s]][j].src = s
        PROVE  LET q == Queued'[WorkerOf[s]] IN
               /\ Opened'[s] <= q[j].n
               /\ \A i \in DOMAIN q : i < j /\ q[i].type = "open" /\ q[i].src = s => q[i].n < q[j].n
    <3> DEFINE v == WorkerOf[s]
    <3>1. v \in Workers
      BY ReceiverAssumption
    <3> HIDE DEF v
    <3>2. CASE j \in DOMAIN Queued[v] /\ Queued'[v][j] = Queued[v][j]
      <4>1. /\ Opened[s] <= Queued[v][j].n
            /\ \A i \in DOMAIN Queued[v] :
                  i < j /\ Queued[v][i].type = "open" /\ Queued[v][i].src = s
                      => Queued[v][i].n < Queued[v][j].n
        BY <2>1, <3>2 DEF CloseIsFresh, v
      <4>2. ASSUME NEW i \in DOMAIN Queued'[v], i < j, Queued'[v][i].type = "open",
                   Queued'[v][i].src = s
            PROVE  Queued'[v][i].n < Queued'[v][j].n
        <5>1. j \in Nat
          BY <3>1, <3>2, QueuedType
        <5>2. i \in DOMAIN Queued[v] /\ Queued'[v][i] = Queued[v][i]
          <6>1. CASE v = w /\ i \notin DOMAIN Queued[v]
            <7>1. i = k /\ j < k
              BY <1>2, <3>2, <6>1
            <7> QED
              BY <1>2, <4>2, <5>1, <7>1
          <6> QED
            BY <1>1, <3>1, <6>1
        <5> QED
          BY <3>2, <4>1, <4>2, <5>2
      <4> QED
        BY <3>2, <4>1, <4>2 DEF v
    <3>3. CASE v = w /\ j \notin DOMAIN Queued[w] /\ Queued'[v][j] = item
      <4>1. item.type = "close" /\ item.src = s
        BY <2>1, <3>3 DEF v
      <4>2. /\ Opened[s] <= item.n
            /\ \A i \in DOMAIN Queued[w] :
                  Queued[w][i].type = "open" /\ Queued[w][i].src = s => Queued[w][i].n < item.n
        BY <4>1 DEF Fits
      <4>3. ASSUME NEW i \in DOMAIN Queued'[w], Queued'[w][i].type = "open", Queued'[w][i].src = s
            PROVE  Queued'[w][i].n < item.n
        BY <1>1, <4>1, <4>2, <4>3
      <4> QED
        BY <3>3, <4>2, <4>3 DEF v
    <3> QED
      BY <1>1, <3>1, <3>2, <3>3 DEF v
  <2>2. ASSUME NEW s \in Sources, delayed[s] # NoClose
        PROVE  /\ Opened'[s] <= delayed'[s].n
               /\ \A j \in DOMAIN Queued'[WorkerOf[s]] :
                     LET i == Queued'[WorkerOf[s]][j] IN
                     i.type = "open" /\ i.src = s => i.n < delayed'[s].n
    <3>1. WorkerOf[s] \in Workers
      BY ReceiverAssumption
    <3>2. item.type = "open" => item.src # s
      BY <2>2 DEF Fits
    <3> QED
      BY <1>1, <2>2, <3>1, <3>2 DEF CloseIsFresh
  <2> QED
    BY <2>1, <2>2 DEF CloseIsFresh
<1> QED
  BY <1>4, <1>5, <1>6

\* A close that is on its way stays so, unless the source is to be opened again.
LEMMA PutClosing ==
    ASSUME DataTypes, NEW w \in Workers, NEW item \in Items,
           Queued' = [Queued EXCEPT ![w] = Append(@, item)], Opened' = Opened,
           NEW s \in Sources, item.type = "open" => item.src # s, Closing(s)
    PROVE  Closing(s)'
<1>1. WorkerOf[s] \in Workers
  BY ReceiverAssumption
<1> DEFINE v == WorkerOf[s]
<1>2. \A j \in DOMAIN Queued'[v] :
          \/ j \in DOMAIN Queued[v] /\ Queued'[v][j] = Queued[v][j]
          \/ Queued'[v][j] = item
  BY <1>1, PutWhere
<1>3. \A j \in DOMAIN Queued[v] : j \in DOMAIN Queued'[v] /\ Queued'[v][j] = Queued[v][j]
  BY <1>1, PutWhere
<1> HIDE DEF v
<1>4. CASE Opened[s] = 0 /\ \A i \in DOMAIN Queued[v] : Queued[v][i].src = s => Queued[v][i].type # "open"
  <2>1. \A i \in DOMAIN Queued'[v] : Queued'[v][i].src = s => Queued'[v][i].type # "open"
    BY <1>2, <1>4
  <2> QED
    BY <1>4, <2>1 DEF Closing, v
<1>5. ASSUME NEW j \in DOMAIN Queued[v], Queued[v][j].type = "close", Queued[v][j].src = s,
             \A i \in DOMAIN Queued[v] : i > j /\ Queued[v][i].src = s => Queued[v][i].type # "open"
      PROVE  Closing(s)'
  <2>1. \A i \in DOMAIN Queued'[v] : i > j /\ Queued'[v][i].src = s => Queued'[v][i].type # "open"
    BY <1>2, <1>5
  <2>2. j \in DOMAIN Queued'[v] /\ Queued'[v][j].type = "close" /\ Queued'[v][j].src = s
    BY <1>3, <1>5
  <2> QED
    BY <2>1, <2>2 DEF Closing, v
<1> QED
  BY <1>4, <1>5 DEF Closing, v

\* An item that no READY command waits for.
LEMMA PutAck ==
    ASSUME DataTypes, AckOK, ThreadsOK, NEW w \in Workers, NEW item \in Items,
           Queued' = [Queued EXCEPT ![w] = Append(@, item)], Opened' = Opened,
           UNCHANGED <<cl, ack, delayed, damaged>>, item.token = 0, ack \in Acks,
           cl.pc = "ackWait" \/ ReadyOK => item.type = "data" \/ item.src # cl.src
    PROVE  AckOK'
<1>1. \A v \in Workers : \A j \in DOMAIN Queued'[v] :
          \/ j \in DOMAIN Queued[v] /\ Queued'[v][j] = Queued[v][j]
          \/ Queued'[v][j] = item
  BY PutWhere
<1>2. ReadyOK' <=> ReadyOK
  BY DEF ReadyOK
<1>3. ASSUME NEW v \in Workers, NEW j \in DOMAIN Queued'[v] PROVE Queued'[v][j].token <= ack'.serial
  BY <1>1 DEF AckOK, Acks
<1>4. ASSUME cl.pc = "ackWait", NEW v \in Workers, NEW j \in DOMAIN Queued'[v],
             Queued'[v][j].token = cl.token
      PROVE  LET i == Queued'[v][j] IN
             /\ i.src = cl.src /\ i.n = cl.n
             /\ i.type = IF cl.op = "CLOSE_READY" THEN "close" ELSE "open"
             /\ \A k \in DOMAIN Queued'[v] :
                   k > j /\ Queued'[v][k].src = cl.src => Queued'[v][k].type = "data"
  <2>1. cl.token # 0
    BY <1>4 DEF AckOK
  <2>2. j \in DOMAIN Queued[v] /\ Queued'[v][j] = Queued[v][j]
    BY <1>1, <1>4, <2>1
  <2>3. LET i == Queued[v][j] IN
        /\ i.src = cl.src /\ i.n = cl.n
        /\ i.type = IF cl.op = "CLOSE_READY" THEN "close" ELSE "open"
        /\ \A k \in DOMAIN Queued[v] :
              k > j /\ Queued[v][k].src = cl.src => Queued[v][k].type = "data"
    BY <1>4, <2>2 DEF AckOK
  <2> QED
    BY <1>1, <1>4, <2>2, <2>3
<1>5. ASSUME cl.src \in Sources, cl.pc = "ackWait" \/ ReadyOK, Fulfilled PROVE Fulfilled'
  <2>1. WorkerOf[cl.src] \in Workers
    BY <1>5, ReceiverAssumption
  <2> QED
    BY <1>1, <1>5, <2>1 DEF Fulfilled
<1>6. cl.pc = "ackWait" \/ ReadyOK => cl.src \in Sources
  BY DEF ThreadsOK, ReadyOK
<1>7. /\ cl'.pc = "ackWait" /\ ack'.done /\ ack'.success => Fulfilled'
      /\ ReadyOK' => Fulfilled'
  BY <1>2, <1>5, <1>6 DEF AckOK
<1>8. /\ cl'.pc # "ackWait" => ack'.waiting = 0
      /\ cl'.pc = "ackWait" => ack'.waiting = cl'.token /\ cl'.token = ack'.serial /\ cl'.token >= 1
      /\ cl'.pc = "ackWait" \/ ReadyOK' => delayed'[cl'.src] = NoClose
  BY <1>2 DEF AckOK
<1> QED
  BY <1>3, <1>4, <1>7, <1>8 DEF AckOK

-----------------------------------------------------------------------------
(* The steps that put an item on a queue *)

\* What putting an item does to the queues; room was tested under the lock.
LEMMA PutStep ==
    ASSUME ReceiverInv, NEW t \in Threads, NEW item \in Items, CanPut(t),
           item.src = want[t].src, queue' = Appended(t, item),
           UNCHANGED <<hand, node, disk, hist, delayed>>
    PROVE  /\ QueueOf(t) \in Workers /\ WorkerOf[item.src] = QueueOf(t)
           /\ Queued' = [Queued EXCEPT ![QueueOf(t)] = Append(@, item)] /\ Opened' = Opened
           /\ DataTypes' /\ DataOK'
<1>1. /\ QueueOf(t) \in Workers /\ WorkerOf[item.src] = QueueOf(t)
  BY ReceiverAssumption DEF QueueOf, Items
<1>2. /\ DataTypes /\ DataOK /\ ~Full(QueueOf(t)) /\ hand' = hand
      /\ queue' = [queue EXCEPT ![QueueOf(t)] = Append(@, item)]
  BY DEF ReceiverInv, CanPut, Appended
<1>3. /\ Queued' = [Queued EXCEPT ![QueueOf(t)] = Append(@, item)]
      /\ queue' \in [Workers -> Seq(Items)]
      /\ \A v \in Workers : Len(queue'[v]) <= QueueSize
  BY <1>1, <1>2, QueuedPut
<1>4. Opened' = Opened /\ Scheduled' = Scheduled
  BY DEF Opened, Scheduled
<1>5. DataTypes' /\ DataOK'
  BY <1>2, <1>3, <1>4 DEF DataTypes, DataOK, hist
<1> QED
  BY <1>1, <1>3, <1>4, <1>5

\* The receiver thread queues its packet.
LEMMA QueuePacketKeeps ==
    ASSUME ReceiverInv, QueuePacket
    PROVE  ReceiverInv'
<1> DEFINE item == want["rx"]
           w == QueueOf("rx")
<1>1. /\ item \in Items /\ item.type = "data" /\ item.token = 0 /\ item.left >= 1
  BY DEF ReceiverInv, ThreadTypes, ThreadsOK, QueuePacket, CanPut, Threads
<1>2. /\ CanPut("rx") /\ queue' = Appended("rx", item) /\ "rx" \in Threads
      /\ UNCHANGED <<keep_running, hand, node, disk, hist, delayed, cl, closer, ack, ioVars, damaged>>
  BY DEF QueuePacket, Threads, hist
<1>3. /\ w \in Workers /\ WorkerOf[item.src] = w /\ Opened' = Opened
      /\ Queued' = [Queued EXCEPT ![w] = Append(@, item)] /\ DataTypes' /\ DataOK'
  BY <1>1, <1>2, PutStep
<1>4. ThreadTypes'
  BY DEF QueuePacket, ReceiverInv, ThreadTypes, Threads
<1>5. ThreadsOK'
  BY DEF QueuePacket, ReceiverInv, ThreadTypes, ThreadsOK, Threads
<1>6. ProducerTypes' /\ ProducerOK'
  BY <1>2, ProducerFrame DEF ReceiverInv
<1>7. /\ DataTypes /\ NumbersOK /\ FilesDiffer /\ CloseIsFresh /\ AckOK /\ ClosingOK /\ ThreadsOK
      /\ ack \in Acks
  BY DEF ReceiverInv, ThreadTypes
<1> HIDE DEF item, w
<1>8. Fits(w, item)
  BY <1>1, <1>3 DEF Fits
<1>9. NumbersOK' /\ FilesDiffer' /\ CloseIsFresh'
  <2>1. cl'.pc = "put" /\ keep_running' => delayed[cl'.src] = NoClose
    BY <1>2, <1>7 DEF CloseIsFresh
  <2> QED
    BY <1>1, <1>2, <1>3, <1>7, <1>8, <2>1, PutKeeps
<1>10. AckOK'
  BY <1>1, <1>2, <1>3, <1>7, PutAck
<1>11. ClosingOK'
  <2>1. ASSUME NEW s \in Sources, Closing(s) PROVE Closing(s)'
    BY <1>1, <1>3, <1>7, <2>1, PutClosing
  <2> QED
    BY <1>2, <1>7, <2>1 DEF ClosingOK
<1> QED
  BY <1>3, <1>4, <1>5, <1>6, <1>9, <1>10, <1>11 DEF ReceiverInv

\* The delayed close is queued: it is newer than every OPEN ahead of it.
LEMMA QueueCloseKeeps ==
    ASSUME ReceiverInv, QueueClose
    PROVE  ReceiverInv'
<1> DEFINE item == want["closer"]
           w == QueueOf("closer")
<1>0. PICK r \in Sources : r = closer.src
  BY DEF ReceiverInv, ThreadsOK, QueueClose
<1>1. /\ item = Item("close", r, delayed[r].n, 0, 0) /\ r \in Sources /\ delayed[r].st = "due"
      /\ delayed[r] # NoClose /\ delayed[r].n \in Nat
  BY <1>0, ReceiverAssumption
     DEF ReceiverInv, ThreadTypes, ThreadsOK, QueueClose, Closes, NoClose
<1>2. /\ item.type = "close" /\ item.src = r /\ item.n = delayed[r].n /\ item.token = 0
      /\ item \in Items
  BY <1>1 DEF Item, Items
<1>3. /\ CanPut("closer") /\ queue' = Appended("closer", item) /\ "closer" \in Threads
      /\ UNCHANGED <<keep_running, hand, node, disk, hist, delayed, cl, ack, ioVars, damaged>>
      /\ closer' = [closer EXCEPT !.pc = "mark"]
  BY DEF QueueClose, Threads, hist
<1>4. /\ w \in Workers /\ WorkerOf[item.src] = w /\ Opened' = Opened
      /\ Queued' = [Queued EXCEPT ![w] = Append(@, item)] /\ DataTypes' /\ DataOK'
  BY <1>2, <1>3, PutStep
<1>5. ThreadTypes'
  BY DEF QueueClose, ReceiverInv, ThreadTypes, Threads, Closers
<1>6. ThreadsOK'
  BY DEF QueueClose, ReceiverInv, ThreadTypes, ThreadsOK, Threads, Closers
<1>7. ProducerTypes' /\ ProducerOK'
  BY <1>3, ProducerFrame DEF ReceiverInv
<1>8. /\ DataTypes /\ NumbersOK /\ FilesDiffer /\ CloseIsFresh /\ AckOK /\ ClosingOK /\ ThreadsOK
      /\ ack \in Acks /\ closer \in Closers /\ delayed \in [Sources -> Closes]
  BY DEF ReceiverInv, ThreadTypes
<1> HIDE DEF item, w
<1>9. Fits(w, item)
  <2>1. item.n >= 1
    BY <1>1, <1>2, <1>8 DEF ThreadsOK
  <2>2. item.n <= cl.n /\ (cl.pc \in {"pending", "pendingWait", "put"} => item.n < cl.n)
    BY <1>1, <1>2, <1>8 DEF NumbersOK
  <2>3. /\ Opened[r] <= item.n
        /\ \A j \in DOMAIN Queued[w] :
              Queued[w][j].type = "open" /\ Queued[w][j].src = r => Queued[w][j].n < item.n
    BY <1>1, <1>2, <1>4, <1>8 DEF CloseIsFresh
  <2> QED
    BY <1>2, <1>3, <1>4, <2>1, <2>2, <2>3 DEF Fits
<1>10. NumbersOK' /\ FilesDiffer' /\ CloseIsFresh'
  <2>1. cl'.pc = "put" /\ keep_running' => delayed[cl'.src] = NoClose
    BY <1>3, <1>8 DEF CloseIsFresh
  <2> QED
    BY <1>2, <1>3, <1>4, <1>8, <1>9, <2>1, PutKeeps
<1>11. AckOK'
  <2>1. cl.pc = "ackWait" \/ ReadyOK => r # cl.src
    BY <1>1, <1>8 DEF AckOK
  <2> QED
    BY <1>2, <1>3, <1>4, <1>8, <2>1, PutAck
<1>12. ClosingOK'
  <2>1. ASSUME NEW s \in Sources, Closing(s) PROVE Closing(s)'
    BY <1>2, <1>4, <1>8, <2>1, PutClosing
  <2>2. Closing(r)'
    <3> DEFINE k == Len(Queued[w]) + 1
    <3>1. /\ k \in Nat /\ k \in DOMAIN Queued'[w] /\ Queued'[w][k] = item
          /\ \A j \in DOMAIN Queued[w] : j < k
          /\ \A j \in DOMAIN Queued'[w] : j \notin DOMAIN Queued[w] => j = k
      <4>1. DataTypes /\ w \in Workers /\ item \in Items
            /\ Queued' = [Queued EXCEPT ![w] = Append(@, item)]
        BY <1>2, <1>4, <1>8
      <4> QED
        BY <4>1, PutWhere
    <3>2. (\A j \in DOMAIN Queued[w] : j \in Nat) /\ WorkerOf[r] = w
      BY <1>2, <1>4, <1>8, QueuedType
    <3> HIDE DEF k
    <3>3. /\ k \in DOMAIN Queued'[w] /\ Queued'[w][k].type = "close" /\ Queued'[w][k].src = r
          /\ \A j \in DOMAIN Queued'[w] : ~(j > k)
      BY <1>2, <3>1, <3>2
    <3> QED
      BY <3>2, <3>3 DEF Closing
  <2>3. closer'.src = r
    BY <1>0, <1>3, <1>8 DEF Closers
  <2> QED
    BY <1>3, <1>8, <2>1, <2>2, <2>3 DEF ClosingOK
<1> QED
  BY <1>4, <1>5, <1>6, <1>7, <1>10, <1>11, <1>12 DEF ReceiverInv

\* OPEN is answered when its item is queued; the READY commands then wait.
LEMMA QueueCommandKeeps ==
    ASSUME ReceiverInv, QueueCommand
    PROVE  ReceiverInv'
<1>0. PICK r \in Sources : r = cl.src
  BY DEF ReceiverInv, ThreadsOK, QueueCommand
<1> DEFINE type == IF cl.op = "CLOSE_READY" THEN "close" ELSE "open"
           token == IF cl.op = "OPEN" THEN 0 ELSE ack.serial + 1
           item == IF cl.op = "OPEN" THEN want["cl"]
                   ELSE [want["cl"] EXCEPT !.token = ack.serial + 1]
           w == QueueOf("cl")
<1>1. /\ cl.pc = "put" /\ cl.op \in FileOps /\ cl \in Listeners /\ ack \in Acks /\ cl.n >= 1
      /\ want["cl"] = Item(type, r, cl.n, 0, 0) /\ keep_running /\ cl.n \in Nat
      /\ ack.serial \in Nat
  BY <1>0, ReceiverAssumption
     DEF ReceiverInv, ThreadTypes, ThreadsOK, QueueCommand, CanPut, Acks, Listeners
<1>2. /\ item \in Items /\ item.src = r /\ item.n = cl.n /\ item.token = token /\ item.type = type
      /\ item.src = want["cl"].src
  <2>1. type \in {"open", "close", "data"} /\ cl.n \in Nat /\ ack.serial + 1 \in Nat
    BY <1>1
  <2>2. want["cl"] = Item(type, r, cl.n, 0, 0)
    BY <1>1
  <2> HIDE DEF type
  <2>3. /\ want["cl"] \in Items /\ want["cl"].src = r /\ want["cl"].n = cl.n
        /\ want["cl"].token = 0 /\ want["cl"].type = type
    BY <2>1, <2>2 DEF Items, Item
  <2>4. CASE cl.op = "OPEN"
    BY <2>3, <2>4
  <2>5. CASE cl.op # "OPEN"
    <3> DEFINE x == [want["cl"] EXCEPT !.token = ack.serial + 1]
    <3>1. /\ x \in Items /\ x.src = want["cl"].src /\ x.n = want["cl"].n
          /\ x.type = want["cl"].type /\ x.token = ack.serial + 1
      BY <2>1, <2>3 DEF Items
    <3> HIDE DEF x
    <3>2. item = x
      BY <2>5 DEF x
    <3> QED
      BY <2>3, <2>5, <3>1, <3>2
  <2> QED
    BY <2>4, <2>5
<1>3. /\ CanPut("cl") /\ "cl" \in Threads /\ cl'.n = cl.n /\ cl'.src = r /\ cl'.op = cl.op
      /\ UNCHANGED <<keep_running, hand, node, disk, hist, delayed, closer, damaged, acks, producer>>
      /\ cl.op = "OPEN" => cl'.pc = "poll" /\ cl'.reply = "OK" /\ ack' = ack
      /\ cl.op # "OPEN" =>
            /\ cl'.pc = "ackWait" /\ cl'.token = ack.serial + 1 /\ cl'.reply = cl.reply
            /\ ack' = [serial |-> ack.serial + 1, waiting |-> ack.serial + 1, done |-> FALSE,
                       success |-> FALSE]
  <2>1. /\ CanPut("cl") /\ "cl" \in Threads
        /\ UNCHANGED <<keep_running, hand, node, disk, hist, delayed, closer, damaged, acks, producer>>
    BY DEF QueueCommand, Threads, hist
  <2>2. CASE cl.op = "OPEN"
    <3>1. ack' = ack /\ cl' = [cl EXCEPT !.pc = "poll", !.reply = "OK"]
      BY <2>2 DEF QueueCommand, Reply
    <3> QED
      BY <1>0, <1>1, <2>1, <2>2, <3>1 DEF Listeners
  <2>3. CASE cl.op # "OPEN"
    <3>1. ack' = [serial |-> ack.serial + 1, waiting |-> ack.serial + 1, done |-> FALSE,
                  success |-> FALSE]
      BY <2>3 DEF QueueCommand, BeginAck
    <3>2. cl' = [cl EXCEPT !.pc = "ackWait", !.token = ack.serial + 1]
      BY <2>3, <3>1 DEF QueueCommand
    <3> QED
      BY <1>0, <1>1, <2>1, <2>3, <3>1, <3>2 DEF Listeners
  <2> QED
    BY <2>2, <2>3
<1>4. queue' = Appended("cl", item)
  <2>1. CASE cl.op = "OPEN"
    BY <2>1 DEF QueueCommand
  <2>2. CASE cl.op # "OPEN"
    <3>1. ack'.serial = ack.serial + 1
      BY <1>3, <2>2
    <3>2. queue' = Appended("cl", [want["cl"] EXCEPT !.token = ack'.serial])
      BY <2>2 DEF QueueCommand
    <3> QED
      BY <2>2, <3>1, <3>2
  <2> QED
    BY <2>1, <2>2
<1> HIDE DEF item
<1>5. /\ w \in Workers /\ WorkerOf[item.src] = w /\ Opened' = Opened
      /\ Queued' = [Queued EXCEPT ![w] = Append(@, item)] /\ DataTypes' /\ DataOK'
  BY <1>2, <1>3, <1>4, PutStep
<1>6. ThreadTypes'
  <2>1. cl' \in Listeners
    <3>1. CASE cl.op = "OPEN"
      BY <1>1, <3>1 DEF QueueCommand, Listeners, Reply
    <3>2. CASE cl.op # "OPEN"
      <4>1. cl' = [cl EXCEPT !.pc = "ackWait", !.token = ack.serial + 1]
        BY <1>3, <3>2 DEF QueueCommand
      <4>2. cl \in Listeners /\ ack.serial + 1 \in Nat
        BY <1>1
      <4> QED
        BY <4>1, <4>2 DEF Listeners
    <3> QED
      BY <3>1, <3>2
  <2>2. ack' \in Acks /\ ack'.waiting <= ack'.serial
    <3>1. ack \in Acks /\ ack.waiting <= ack.serial /\ ack.serial + 1 \in Nat
      BY <1>1 DEF ReceiverInv, ThreadTypes
    <3>2. CASE cl.op = "OPEN"
      BY <1>3, <3>1, <3>2
    <3>3. CASE cl.op # "OPEN"
      <4>1. ack' = [serial |-> ack.serial + 1, waiting |-> ack.serial + 1, done |-> FALSE,
                    success |-> FALSE]
        BY <1>3, <3>3
      <4> QED
        BY <3>1, <4>1 DEF Acks
    <3> QED
      BY <3>2, <3>3
  <2>3. want' \in [Threads -> Items \cup {NoItem}]
    BY DEF QueueCommand, ReceiverInv, ThreadTypes
  <2> QED
    BY <2>1, <2>2, <2>3 DEF QueueCommand, ReceiverInv, ThreadTypes
<1>7. ThreadsOK'
  <2>1. want'["rx"] = want["rx"] /\ want'["closer"] = want["closer"]
    BY DEF QueueCommand, ReceiverInv, ThreadTypes, Threads
  <2> QED
    BY <1>0, <1>1, <1>3, <2>1 DEF ReceiverInv, ThreadsOK, FileOps
<1>8. ProducerTypes' /\ ProducerOK'
  <2>1. CASE cl.op = "OPEN"
    <3>1. chan' = [chan EXCEPT ![r] = Append(@, [cmd |-> "start", n |-> 0])]
      BY <1>0, <2>1 DEF QueueCommand, Publish
    <3>2. [cmd |-> "start", n |-> 0] \in Publications
      BY ReceiverAssumption DEF Publications
    <3> DEFINE p == [cmd |-> "start", n |-> 0]
    <3>3. p.n = 0
      OBVIOUS
    <3> HIDE DEF p
    <3>4. chan \in [Sources -> Seq(Publications)]
      BY DEF ReceiverInv, ProducerTypes
    <3>5. /\ chan' = [chan EXCEPT ![r] = Append(@, p)] /\ p \in Publications
      BY <3>1, <3>2 DEF p
    <3>6. chan' \in [Sources -> Seq(Publications)]
      BY <3>4, <3>5
    <3>7. ASSUME NEW s \in Sources, NEW j \in DOMAIN chan'[s] PROVE chan'[s][j].n <= cl.n
      <4>1. \A i \in DOMAIN chan[s] : chan[s][i].n <= cl.n
        BY DEF ReceiverInv, ProducerOK
      <4>2. CASE s = r
        <5>1. chan'[s] = Append(chan[s], p) /\ chan[s] \in Seq(Publications)
          BY <3>4, <3>5, <4>2
        <5>2. (j \in DOMAIN chan[s] /\ chan'[s][j] = chan[s][j]) \/ chan'[s][j] = p
          BY <3>5, <5>1
        <5> QED
          BY <1>1, <3>3, <4>1, <5>2
      <4>3. CASE s # r
        BY <3>4, <3>5, <4>1, <4>3
      <4> QED
        BY <4>2, <4>3
    <3> QED
      BY <1>1, <1>3, <2>1, <3>6, <3>7
         DEF ReceiverInv, ProducerTypes, ProducerOK, ProducerOps
  <2>2. CASE cl.op # "OPEN"
    BY <1>1, <1>3, <2>2
       DEF QueueCommand, ReceiverInv, ProducerTypes, ProducerOK, FileOps, ProducerOps
  <2> QED
    BY <2>1, <2>2
<1>9. /\ DataTypes /\ NumbersOK /\ FilesDiffer /\ CloseIsFresh /\ AckOK /\ ClosingOK /\ ThreadsOK
      /\ delayed[r] = NoClose
  BY <1>0, <1>1 DEF ReceiverInv, CloseIsFresh
<1>10. /\ \A v \in Workers : \A j \in DOMAIN Queued[v] :
             Queued[v][j].type # "data" => Queued[v][j].n < cl.n
       /\ \A s \in Sources : Opened[s] < cl.n
  BY <1>1, <1>9 DEF NumbersOK
<1>11. Opened \in [Sources -> Nat]
  BY <1>9, ReceiverAssumption DEF Opened, DataTypes, Nodes
<1> HIDE DEF w
<1>12. Fits(w, item)
  <2>1. Opened[r] <= cl.n
    BY <1>1, <1>10, <1>11
  <2>2. type \in {"open", "close"}
    OBVIOUS
  <2>3. cl'.pc \notin {"pending", "pendingWait", "put"}
    BY <1>3
  <2> HIDE DEF type
  <2> QED
    BY <1>1, <1>2, <1>3, <1>5, <1>9, <1>10, <2>1, <2>2, <2>3 DEF Fits
<1>13. NumbersOK' /\ FilesDiffer' /\ CloseIsFresh'
  <2>1. cl'.pc # "put" /\ cl'.pc \notin {"pending", "pendingWait", "put"} /\ delayed' = delayed
    BY <1>3
  <2> QED
    BY <1>2, <1>3, <1>5, <1>9, <1>12, <2>1, PutKeeps
<1>14. \A v \in Workers : \A j \in DOMAIN Queued'[v] :
            \/ j \in DOMAIN Queued[v] /\ Queued'[v][j] = Queued[v][j]
            \/ v = w /\ j \notin DOMAIN Queued[w] /\ Queued'[v][j] = item
  <2>1. DataTypes /\ w \in Workers /\ item \in Items
        /\ Queued' = [Queued EXCEPT ![w] = Append(@, item)]
    BY <1>2, <1>5, <1>9
  <2> QED
    BY <2>1, PutWhere
<1>15. AckOK'
  <2>1. ~ReadyOK' /\ cl'.pc \in {"poll", "ackWait"}
    BY <1>1, <1>3 DEF ReadyOK
  <2>2. CASE cl.op = "OPEN"
    <3>1. ASSUME NEW v \in Workers, NEW j \in DOMAIN Queued'[v]
          PROVE  Queued'[v][j].token <= ack.serial
      BY <1>1, <1>2, <1>9, <1>14, <2>2 DEF AckOK
    <3>2. cl'.pc = "poll" /\ ack' = ack /\ ack.waiting = 0
      BY <1>1, <1>3, <1>9, <2>2 DEF AckOK
    <3> QED
      BY <2>1, <3>1, <3>2 DEF AckOK
  <2>3. CASE cl.op # "OPEN"
    <3>1. /\ cl'.pc = "ackWait" /\ cl'.token = ack.serial + 1 /\ ack'.serial = ack.serial + 1
          /\ ack'.waiting = ack.serial + 1 /\ ack'.done = FALSE /\ item.token = ack.serial + 1
      BY <1>2, <1>3, <2>3
    <3>2. \A v \in Workers : \A j \in DOMAIN Queued[v] :
              Queued[v][j].token <= ack.serial /\ Queued[v][j].token \in Nat
      BY <1>9, QueuedType DEF AckOK
    <3>3. ASSUME NEW v \in Workers, NEW j \in DOMAIN Queued'[v]
          PROVE  Queued'[v][j].token <= ack'.serial
      BY <1>1, <1>14, <3>1, <3>2
    <3>4. ASSUME NEW v \in Workers, NEW j \in DOMAIN Queued'[v], Queued'[v][j].token = cl'.token
          PROVE  LET i == Queued'[v][j] IN
                 /\ i.src = cl'.src /\ i.n = cl'.n
                 /\ i.type = IF cl'.op = "CLOSE_READY" THEN "close" ELSE "open"
                 /\ \A k \in DOMAIN Queued'[v] :
                       k > j /\ Queued'[v][k].src = cl'.src => Queued'[v][k].type = "data"
      <4>1. v = w /\ j \notin DOMAIN Queued[w] /\ Queued'[v][j] = item
        BY <1>1, <1>14, <3>1, <3>2, <3>4
      <4>2. ASSUME NEW k \in DOMAIN Queued'[w], k > j PROVE FALSE
        <5> DEFINE l == Len(Queued[w]) + 1
        <5>1. /\ l \in Nat /\ \A i \in DOMAIN Queued[w] : i < l /\ i \in Nat
              /\ \A i \in DOMAIN Queued'[w] : i \notin DOMAIN Queued[w] => i = l
          <6>1. DataTypes /\ w \in Workers /\ item \in Items
                /\ Queued' = [Queued EXCEPT ![w] = Append(@, item)]
            BY <1>2, <1>5, <1>9
          <6> QED
            BY <6>1, PutWhere
        <5> HIDE DEF l
        <5> QED
          BY <4>1, <4>2, <5>1
      <4> QED
        BY <1>2, <1>3, <4>1, <4>2
    <3>5. delayed'[cl'.src] = NoClose
      BY <1>3, <1>9
    <3>6. cl'.token >= 1
      BY <1>1, <3>1
    <3> QED
      BY <2>1, <3>1, <3>3, <3>4, <3>5, <3>6 DEF AckOK
  <2> QED
    BY <2>2, <2>3
<1>16. ClosingOK'
  <2>1. ASSUME NEW s \in Sources, s # r, Closing(s) PROVE Closing(s)'
    BY <1>2, <1>5, <1>9, <2>1, PutClosing
  <2>2. closer'.pc = "mark" => closer'.src # r
    BY <1>3, <1>9 DEF ThreadsOK, NoClose
  <2>3. cl'.op # "CLOSE"
    BY <1>1, <1>3 DEF FileOps
  <2> QED
    BY <1>3, <1>9, <2>1, <2>2, <2>3 DEF ClosingOK
<1> QED
  BY <1>5, <1>6, <1>7, <1>8, <1>13, <1>15, <1>16 DEF ReceiverInv

-----------------------------------------------------------------------------
(* The steps of a worker *)

\* A worker that has handled an item as Handled says keeps the invariant.
LEMMA HandledKeeps ==
    ASSUME ReceiverInv, NEW w \in Workers, NEW d \in {0, 1}, Shifted(w, d),
           1 \in DOMAIN Queued[w], Handled(Queued[w][1], d),
           UNCHANGED <<keep_running, main, cl, closer, delayed, want, nap, rx, queue, ioVars>>,
           proc' \in {"up", "crashed"}, ack' \in Acks, faults' \in 0..MaxFaults,
           hand' \in [Workers -> Seq(Items)], \A v \in Workers : Len(hand'[v]) <= ProcessBatch,
           node' \in [Sources -> Nodes], disk' \in [Files -> Seq(Rows)],
           stored' \in [Files -> Seq(Rows)], damaged' \subseteq Files, DataOK'
    PROVE  ReceiverInv'
<1>1. ThreadTypes /\ DataTypes /\ ThreadsOK /\ QueueInv /\ ProducerTypes /\ ProducerOK
  BY DEF ReceiverInv, QueueInv
<1>2. ThreadTypes'
  <2>1. ack'.serial = ack.serial /\ ack'.waiting = ack.waiting
    BY DEF Handled
  <2> QED
    BY <1>1, <2>1 DEF ThreadTypes
<1>3. DataTypes'
  <2>1. Scheduled' = Scheduled
    BY DEF Scheduled
  <2> QED
    BY <1>1, <2>1 DEF DataTypes
<1>4. ThreadsOK'
  BY <1>1, ThreadsFrame
<1>5. ProducerTypes' /\ ProducerOK'
  BY <1>1, ProducerFrame
<1>6. NumbersOK' /\ FilesDiffer' /\ CloseIsFresh'
  BY <1>1, HandledNumbers DEF QueueInv, ThreadTypes
<1>7. AckOK' /\ ClosingOK'
  BY <1>1, HandledAnswers DEF QueueInv
<1> QED
  BY <1>2, <1>3, <1>4, <1>5, <1>6, <1>7 DEF ReceiverInv

\* The failures are counted within their bound.
LEMMA FaultType ==
    ASSUME ReceiverInv, faults' = faults \/ Fault
    PROVE  faults' \in 0..MaxFaults
BY ReceiverAssumption DEF ReceiverInv, ThreadTypes, Fault

\* complete_open_ack touches the one acknowledgement that is waited for.
LEMMA AckType ==
    ASSUME ack \in Acks, NEW token, NEW ok \in BOOLEAN, ack' = CompleteAck(token, ok)
    PROVE  /\ ack' \in Acks /\ ack'.serial = ack.serial /\ ack'.waiting = ack.waiting
           /\ ack'.done /\ ack'.success =>
                 (ack.done /\ ack.success) \/ (ok /\ token # 0 /\ token = ack.waiting)
<1>1. CASE token # 0 /\ ack.waiting = token
  <2>1. ack' = [ack EXCEPT !.done = TRUE, !.success = ok]
    BY <1>1 DEF CompleteAck
  <2>2. ack' \in Acks /\ ack'.serial = ack.serial /\ ack'.waiting = ack.waiting /\ ack'.success = ok
    BY <2>1 DEF Acks
  <2> QED
    BY <1>1, <2>2
<1>2. CASE ~(token # 0 /\ ack.waiting = token)
  <2>1. ack' = ack
    BY <1>2 DEF CompleteAck
  <2> QED
    BY <2>1
<1> QED
  BY <1>1, <1>2

\* The file of a source is written, closed or lost; the others stay as they are.
LEMMA FileUpdate ==
    ASSUME ReceiverInv, NEW s \in Sources, node[s].file # 0, NEW nd \in Nodes,
           node' = [node EXCEPT ![s] = nd], nd.file \in {0, node[s].file},
           \A g \in Files : g # node[s].file => disk'[g] = disk[g] /\ stored'[g] = stored[g],
           damaged \subseteq damaged',
           node[s].file \notin damaged' =>
               /\ nd.file # 0 => stored'[node[s].file] = disk'[node[s].file] \o nd.buf
               /\ nd.file = 0 => stored'[node[s].file] = disk'[node[s].file]
    PROVE  DataOK'
<1> DEFINE f == node[s].file
<1>1. /\ node \in [Sources -> Nodes] /\ DataOK
      /\ \A r \in Sources : node[r].file \in 0..MaxCommands
      /\ node'[s] = nd /\ \A r \in Sources : r # s => node'[r] = node[r]
  BY DEF ReceiverInv, DataTypes, Nodes
<1>2. \A r \in Sources : r # s => node[r].file # f
  BY DEF ReceiverInv, FilesDiffer, Opened
<1>3. ASSUME NEW r \in Sources, node'[r].file # 0, node'[r].file \notin damaged'
      PROVE  stored'[node'[r].file] = disk'[node'[r].file] \o node'[r].buf
  <2>1. CASE r = s
    <3>1. node'[r] = nd /\ nd.file = f
      BY <1>1, <1>3, <2>1
    <3> QED
      BY <1>3, <3>1
  <2>2. CASE r # s
    <3>1. node'[r] = node[r] /\ node[r].file # f /\ node[r].file # 0
      BY <1>1, <1>2, <1>3, <2>2
    <3>2. node[r].file \in Files /\ node[r].file \notin damaged
      BY <1>1, <1>3, <3>1, ReceiverAssumption DEF Files
    <3>3. stored[node[r].file] = disk[node[r].file] \o node[r].buf
      BY <1>1, <3>1, <3>2 DEF DataOK
    <3> QED
      BY <3>1, <3>2, <3>3
  <2> QED
    BY <2>1, <2>2
<1>4. ASSUME NEW g \in Files, g \notin damaged', \A r \in Sources : node'[r].file # g
      PROVE  stored'[g] = disk'[g]
  <2>1. CASE g = f
    <3>1. nd.file = 0
      BY <1>1, <1>4, <2>1
    <3> QED
      BY <1>4, <2>1, <3>1
  <2>2. CASE g # f
    <3>1. \A r \in Sources : node[r].file # g
      BY <1>1, <1>4, <2>2
    <3>2. stored[g] = disk[g]
      BY <1>1, <1>4, <3>1 DEF DataOK
    <3> QED
      BY <2>2, <3>2
  <2> QED
    BY <2>1, <2>2
<1> QED
  BY <1>3, <1>4 DEF DataOK

\* A worker takes a batch: the order of its items stays.
LEMMA TakeItemsKeeps ==
    ASSUME ReceiverInv, NEW w \in Workers, TakeItems(w)
    PROVE  ReceiverInv'
<1>1. /\ Queued' = Queued
      /\ queue' \in [Workers -> Seq(Items)] /\ hand' \in [Workers -> Seq(Items)]
      /\ \A v \in Workers : Len(queue'[v]) <= QueueSize /\ Len(hand'[v]) <= ProcessBatch
  BY QueuedTake DEF ReceiverInv
<1>2. Opened' = Opened /\ Scheduled' = Scheduled
  BY DEF TakeItems, Opened, Scheduled
<1>3. ThreadTypes'
  BY DEF TakeItems, ReceiverInv, ThreadTypes, Woken
<1>4. DataTypes' /\ DataOK'
  BY <1>1, <1>2 DEF TakeItems, ReceiverInv, DataTypes, DataOK, hist
<1>5. ThreadsOK'
  BY ThreadsFrame DEF TakeItems, ReceiverInv
<1>6. QueueInv'
  BY <1>1, <1>2, QueueFrame DEF TakeItems, ReceiverInv, QueueInv, hist
<1>7. ProducerTypes' /\ ProducerOK'
  BY ProducerFrame DEF TakeItems, ReceiverInv
<1> QED
  BY <1>3, <1>4, <1>5, <1>6, <1>7 DEF ReceiverInv, QueueInv

\* Data without an open file are dropped.
LEMMA DiscardKeeps ==
    ASSUME ReceiverInv, NEW w \in Workers, Discard(w)
    PROVE  ReceiverInv'
<1>1. /\ Shifted(w, 1) /\ 1 \in DOMAIN Queued[w] /\ Queued[w][1] = Head(hand[w])
      /\ hand' \in [Workers -> Seq(Items)] /\ \A v \in Workers : Len(hand'[v]) <= ProcessBatch
  BY QueuedDone DEF ReceiverInv, Discard, Current
<1>2. Opened \in [Sources -> Nat] /\ Opened' = Opened /\ ack' = ack /\ damaged' = damaged
  BY ReceiverAssumption DEF ReceiverInv, Opened, DataTypes, Nodes, Discard, hist
<1>3. Queued[w][1].type = "data"
  BY <1>1 DEF Discard, Current
<1>4. Handled(Queued[w][1], 1)
  BY <1>2, <1>3 DEF Handled
<1>5. DataOK'
  BY DEF ReceiverInv, DataOK, Discard, hist
<1>6. /\ UNCHANGED <<keep_running, main, cl, closer, delayed, want, nap, rx, queue, ioVars>>
      /\ proc' \in {"up", "crashed"} /\ ack' \in Acks /\ faults' \in 0..MaxFaults
      /\ node' \in [Sources -> Nodes] /\ disk' \in [Files -> Seq(Rows)]
      /\ stored' \in [Files -> Seq(Rows)] /\ damaged' \subseteq Files
  BY DEF ReceiverInv, ThreadTypes, DataTypes, Discard, hist, Current, Up
<1> QED
  BY <1>1, <1>4, <1>5, <1>6, HandledKeeps

\* An event with a bad CRC is skipped.
LEMMA SkipEventKeeps ==
    ASSUME ReceiverInv, NEW w \in Workers, SkipEvent(w)
    PROVE  ReceiverInv'
<1>1. /\ Shifted(w, 0) \/ Shifted(w, 1)
      /\ 1 \in DOMAIN Queued[w] /\ Queued[w][1] = Head(hand[w])
      /\ hand' \in [Workers -> Seq(Items)] /\ \A v \in Workers : Len(hand'[v]) <= ProcessBatch
  BY QueuedRest DEF ReceiverInv, SkipEvent, Current
<1>2. Opened \in [Sources -> Nat] /\ Opened' = Opened /\ ack' = ack /\ damaged' = damaged
  BY ReceiverAssumption DEF ReceiverInv, Opened, DataTypes, Nodes, SkipEvent, hist
<1>3. Queued[w][1].type = "data"
  BY <1>1 DEF SkipEvent, Current
<1>4. PICK d \in {0, 1} : Shifted(w, d)
  BY <1>1
<1>5. Handled(Queued[w][1], d)
  BY <1>2, <1>3 DEF Handled
<1>6. DataOK'
  BY DEF ReceiverInv, DataOK, SkipEvent, hist
<1>7. faults' \in 0..MaxFaults
  BY FaultType DEF SkipEvent
<1>8. /\ UNCHANGED <<keep_running, main, cl, closer, delayed, want, nap, rx, queue, ioVars>>
      /\ proc' \in {"up", "crashed"} /\ ack' \in Acks
      /\ node' \in [Sources -> Nodes] /\ disk' \in [Files -> Seq(Rows)]
      /\ stored' \in [Files -> Seq(Rows)] /\ damaged' \subseteq Files
  BY DEF ReceiverInv, ThreadTypes, DataTypes, SkipEvent, hist, Current, Up
<1> QED
  BY <1>1, <1>4, <1>5, <1>6, <1>7, <1>8, HandledKeeps

\* OPEN: the file of a new number, or none.
LEMMA OpenFileKeeps ==
    ASSUME ReceiverInv, NEW w \in Workers, OpenFile(w)
    PROVE  ReceiverInv'
<1>1. /\ Shifted(w, 1) /\ 1 \in DOMAIN Queued[w] /\ Queued[w][1] = Head(hand[w])
      /\ hand' \in [Workers -> Seq(Items)] /\ \A v \in Workers : Len(hand'[v]) <= ProcessBatch
  BY QueuedDone DEF ReceiverInv, OpenFile, Current
<1> DEFINE h == Queued[w][1]
           s == h.src
<1>2. /\ h.type = "open" /\ s \in Sources /\ h.n \in Nat /\ h.n >= 1 /\ h.n <= cl.n /\ h.token \in Nat
  <2>1. h.type = "open"
    BY <1>1 DEF OpenFile, Current
  <2> QED
    BY <1>1, <2>1, QueuedType DEF ReceiverInv, NumbersOK
<1>3. h.n \in Files /\ \A r \in Sources : node[r].file # h.n
  <2>1. cl.n \in 0..MaxCommands
    BY DEF ReceiverInv, ThreadTypes, Listeners
  <2>2. h.n \in Files
    BY <1>2, <2>1, ReceiverAssumption DEF Files
  <2>3. \A r \in Sources : Opened[r] # h.n
    BY <1>1, <1>2 DEF ReceiverInv, FilesDiffer
  <2> QED
    BY <2>2, <2>3 DEF Opened
<1>4. /\ DataTypes /\ DataOK /\ ack \in Acks /\ Opened \in [Sources -> Nat]
  BY OpenedType DEF ReceiverInv, ThreadTypes
<1>5. /\ UNCHANGED <<keep_running, main, cl, closer, delayed, want, nap, rx, queue, ioVars, disk, hist,
                     stored, damaged>>
      /\ proc' \in {"up", "crashed"}
  BY DEF OpenFile, Current, Up, hist
<1>6. \/ node[s].file = 0 /\ node' = AddNode(s, h.n) /\ ack' = CompleteAck(h.token, TRUE)
         /\ faults' = faults
      \/ node' = node /\ ack' = CompleteAck(h.token, FALSE) /\ (faults' = faults \/ Fault)
  BY <1>1 DEF OpenFile, HeaderFails, Busy
<1>7. faults' \in 0..MaxFaults
  BY <1>6, FaultType
<1> HIDE DEF h
<1>8. CASE node[s].file = 0 /\ node' = AddNode(s, h.n) /\ ack' = CompleteAck(h.token, TRUE)
  <2> DEFINE nd == [known |-> TRUE, file |-> h.n, buf |-> <<>>, bytes |-> 0,
                    err |-> FALSE, count |-> IF node[s].known THEN node[s].count ELSE 0]
  <2>1. nd \in Nodes /\ nd.file = h.n /\ nd.buf = <<>>
    <3>1. node[s] \in Nodes /\ h.n \in 0..MaxCommands
      BY <1>2, <1>3, <1>4 DEF DataTypes, Files
    <3> QED
      BY <3>1 DEF Nodes
  <2>2. node' = [node EXCEPT ![s] = nd]
    BY <1>8 DEF AddNode
  <2> HIDE DEF nd
  <2>3. /\ node' \in [Sources -> Nodes] /\ node'[s] = nd
        /\ \A r \in Sources : r # s => node'[r] = node[r]
    BY <1>2, <1>4, <2>1, <2>2 DEF DataTypes
  <2>4. /\ Opened' \in [Sources -> Nat] /\ Opened'[s] = h.n
        /\ \A r \in Sources : r # s => Opened'[r] = Opened[r]
    <3>1. Opened' = [r \in Sources |-> node'[r].file]
      BY DEF Opened
    <3>2. \A r \in Sources : node'[r].file \in Nat
      BY <2>3, ReceiverAssumption DEF Nodes
    <3> QED
      BY <1>2, <2>1, <2>3, <3>1, <3>2 DEF Opened
  <2>5. /\ ack' \in Acks /\ ack'.serial = ack.serial /\ ack'.waiting = ack.waiting
        /\ ack'.done /\ ack'.success =>
              (ack.done /\ ack.success) \/ (h.token # 0 /\ h.token = ack.waiting)
    BY <1>4, <1>8, AckType
  <2>6. Handled(h, 1)
    BY <1>2, <1>5, <2>4, <2>5 DEF Handled
  <2>7. DataOK'
    <3>1. ASSUME NEW r \in Sources, node'[r].file # 0, node'[r].file \notin damaged
          PROVE  stored[node'[r].file] = disk[node'[r].file] \o node'[r].buf
      <4>1. CASE r = s
        <5>1. stored[h.n] = disk[h.n] /\ disk[h.n] \in Seq(Rows)
          BY <1>3, <1>4, <2>1, <2>3, <3>1, <4>1 DEF DataOK, DataTypes
        <5>2. disk[h.n] \o <<>> = disk[h.n]
          BY <5>1, ConcatEmptySeq
        <5> QED
          BY <2>1, <2>3, <4>1, <5>1, <5>2
      <4>2. CASE r # s
        BY <1>4, <2>3, <3>1, <4>2 DEF DataOK
      <4> QED
        BY <4>1, <4>2
    <3>2. ASSUME NEW f \in Files, f \notin damaged, \A r \in Sources : node'[r].file # f
          PROVE  stored[f] = disk[f]
      <4>1. f # 0
        BY ReceiverAssumption DEF Files
      <4>2. \A r \in Sources : node[r].file # f
        BY <1>8, <2>3, <3>2, <4>1
      <4> QED
        BY <1>4, <3>2, <4>2 DEF DataOK
    <3> QED
      BY <1>5, <3>1, <3>2 DEF DataOK
  <2> QED
    BY <1>1, <1>4, <1>5, <1>7, <2>3, <2>5, <2>6, <2>7, HandledKeeps DEF DataTypes, h
<1>9. CASE node' = node /\ ack' = CompleteAck(h.token, FALSE)
  <2>1. Opened' = Opened
    BY <1>9 DEF Opened
  <2>2. /\ ack' \in Acks /\ ack'.serial = ack.serial /\ ack'.waiting = ack.waiting
        /\ ack'.done /\ ack'.success => ack.done /\ ack.success
    BY <1>4, <1>9, AckType
  <2>3. Handled(h, 1)
    BY <1>2, <1>4, <1>5, <2>1, <2>2 DEF Handled
  <2>4. DataOK'
    BY <1>4, <1>5, <1>9 DEF DataOK
  <2>5. node' \in [Sources -> Nodes]
    BY <1>4, <1>9 DEF DataTypes
  <2> QED
    BY <1>1, <1>4, <1>5, <1>7, <2>2, <2>3, <2>4, <2>5, HandledKeeps DEF DataTypes, h
<1> QED
  BY <1>6, <1>8, <1>9

\* CLOSE: what is in the buffer is written, or the file is damaged.
LEMMA CloseWorkerFileKeeps ==
    ASSUME ReceiverInv, NEW w \in Workers, CloseWorkerFile(w)
    PROVE  ReceiverInv'
<1>1. /\ Shifted(w, 1) /\ 1 \in DOMAIN Queued[w] /\ Queued[w][1] = Head(hand[w])
      /\ hand' \in [Workers -> Seq(Items)] /\ \A v \in Workers : Len(hand'[v]) <= ProcessBatch
  BY QueuedDone DEF ReceiverInv, CloseWorkerFile, Current
<1> DEFINE h == Queued[w][1]
           s == h.src
           f == node[s].file
           closed == [node EXCEPT ![s].file = 0, ![s].buf = <<>>]
           nd == [node[s] EXCEPT !.file = 0, !.buf = <<>>]
<1>2. h.type = "close" /\ s \in Sources /\ h.token \in Nat
  <2>1. h.type = "close"
    BY <1>1 DEF CloseWorkerFile, Current
  <2> QED
    BY <1>1, <2>1, QueuedType DEF ReceiverInv
<1>3. /\ DataTypes /\ DataOK /\ ack \in Acks /\ Opened \in [Sources -> Nat] /\ node \in [Sources -> Nodes]
      /\ node[s] \in Nodes /\ f \in 0..MaxCommands /\ node[s].buf \in Seq(Rows)
      /\ node[s].known \in BOOLEAN /\ node[s].err \in BOOLEAN
  <2>1. DataTypes /\ DataOK /\ ack \in Acks /\ node \in [Sources -> Nodes]
    BY DEF ReceiverInv, ThreadTypes, DataTypes
  <2>2. Opened \in [Sources -> Nat]
    BY <2>1, ReceiverAssumption DEF Opened, Nodes
  <2> HIDE DEF h
  <2>3. node[s] \in Nodes
    BY <1>2, <2>1
  <2> QED
    BY <2>1, <2>2, <2>3 DEF Nodes
<1>4. /\ UNCHANGED <<keep_running, main, cl, closer, delayed, want, nap, rx, queue, ioVars>>
      /\ proc' \in {"up", "crashed"}
  BY DEF CloseWorkerFile, Current, Up
<1>5. \/ /\ f = 0 /\ ack' = CompleteAck(h.token, node[s].known)
         /\ UNCHANGED <<disk, node, faults, stored, damaged>>
      \/ /\ f # 0 /\ ack' = CompleteAck(h.token, ~node[s].err) /\ node' = closed
         /\ disk' = [disk EXCEPT ![f] = @ \o node[s].buf]
         /\ UNCHANGED <<faults, stored, damaged>>
      \/ /\ f # 0 /\ Fault /\ ack' = CompleteAck(h.token, FALSE) /\ node' = closed
         /\ damaged' = damaged \cup {f} /\ UNCHANGED <<disk, stored>>
  BY <1>1 DEF CloseWorkerFile, hist
<1>6. faults' \in 0..MaxFaults
  BY <1>5, FaultType
<1>7. /\ ack' \in Acks /\ ack'.serial = ack.serial /\ ack'.waiting = ack.waiting
      /\ ack'.done /\ ack'.success =>
            (ack.done /\ ack.success) \/ (h.token # 0 /\ h.token = ack.waiting)
  <2>1. \E ok \in BOOLEAN : ack' = CompleteAck(h.token, ok)
    BY <1>3, <1>5
  <2>2. PICK ok \in BOOLEAN : ack' = CompleteAck(h.token, ok)
    BY <2>1
  <2> QED
    BY <1>3, <2>2, AckType
<1>8. nd \in Nodes /\ nd.file = 0 /\ nd.buf = <<>>
  <2>1. <<>> \in Seq(Rows) /\ 0 \in 0..MaxCommands
    BY ReceiverAssumption
  <2> QED
    BY <1>3, <2>1 DEF Nodes
<1>9. closed = [node EXCEPT ![s] = nd]
  BY <1>2, <1>3
<1> HIDE DEF h, nd, closed
<1>10. CASE f = 0 /\ UNCHANGED <<disk, node, faults, stored, damaged>>
  <2>1. Opened' = Opened /\ Opened'[s] = 0
    BY <1>2, <1>10 DEF Opened
  <2>2. Handled(h, 1)
    BY <1>2, <1>3, <1>7, <1>10, <2>1 DEF Handled
  <2>3. DataOK'
    BY <1>3, <1>10 DEF DataOK
  <2> QED
    BY <1>1, <1>3, <1>4, <1>6, <1>7, <1>10, <2>2, <2>3, HandledKeeps DEF DataTypes, h
<1>11. CASE f # 0 /\ node' = closed
  <2>1. node' = [node EXCEPT ![s] = nd]
    BY <1>9, <1>11
  <2>2. /\ node' \in [Sources -> Nodes] /\ node'[s] = nd
        /\ \A r \in Sources : r # s => node'[r] = node[r]
    BY <1>2, <1>3, <1>8, <2>1
  <2>3. /\ Opened' \in [Sources -> Nat] /\ Opened'[s] = 0
        /\ \A r \in Sources : r # s => Opened'[r] = Opened[r]
    <3>1. Opened' = [r \in Sources |-> node'[r].file]
      BY DEF Opened
    <3>2. \A r \in Sources : node'[r].file \in Nat
      BY <2>2, ReceiverAssumption DEF Nodes
    <3> QED
      BY <1>2, <1>8, <2>2, <3>1, <3>2 DEF Opened
  <2>4. f \in Files
    BY <1>3, <1>11, ReceiverAssumption DEF Files
  <2>5. /\ damaged \subseteq damaged' /\ damaged' \subseteq Files
        /\ stored' = stored /\ disk' \in [Files -> Seq(Rows)]
        /\ \A g \in Files : g # f => disk'[g] = disk[g]
        /\ f \notin damaged' => disk'[f] = disk[f] \o node[s].buf
    <3>1. CASE disk' = [disk EXCEPT ![f] = @ \o node[s].buf] /\ UNCHANGED <<stored, damaged>>
      <4>1. disk[f] \o node[s].buf \in Seq(Rows)
        BY <1>3, <2>4, ConcatProperties DEF DataTypes
      <4> DEFINE x == disk[f] \o node[s].buf
      <4> HIDE DEF x
      <4>2. disk' = [disk EXCEPT ![f] = x]
        BY <3>1 DEF x
      <4> QED
        BY <1>3, <2>4, <3>1, <4>1, <4>2 DEF DataTypes, x
    <3>2. CASE damaged' = damaged \cup {f} /\ UNCHANGED <<disk, stored>>
      BY <1>3, <2>4, <3>2 DEF DataTypes
    <3> QED
      BY <1>5, <1>11, <3>1, <3>2
  <2>6. Handled(h, 1)
    BY <1>2, <1>7, <2>3, <2>5 DEF Handled
  <2>7. DataOK'
    <3>1. f \notin damaged' => stored'[f] = disk'[f]
      BY <1>2, <1>3, <1>11, <2>5 DEF DataOK
    <3> QED
      BY <1>2, <1>8, <1>11, <2>1, <2>5, <3>1, FileUpdate
  <2> QED
    BY <1>1, <1>3, <1>4, <1>6, <1>7, <2>2, <2>5, <2>6, <2>7, HandledKeeps DEF DataTypes, h
<1> QED
  BY <1>5, <1>10, <1>11

\* An event is stored: in the buffer, in the file, over a rollover.
LEMMA StoreEventKeeps ==
    ASSUME ReceiverInv, NEW w \in Workers, StoreEvent(w)
    PROVE  ReceiverInv'
<1>1. /\ Shifted(w, 0) \/ Shifted(w, 1)
      /\ 1 \in DOMAIN Queued[w] /\ Queued[w][1] = Head(hand[w])
      /\ hand' \in [Workers -> Seq(Items)] /\ \A v \in Workers : Len(hand'[v]) <= ProcessBatch
  BY QueuedRest DEF ReceiverInv, StoreEvent, Current
<1>2. PICK d \in {0, 1} : Shifted(w, d)
  BY <1>1
<1> DEFINE h == Head(hand[w])
           s == h.src
           f == node[s].file
           e == <<h.n, h.left>>
           count == node[s].count + 1
           buf == Append(node[s].buf, e)
           kept == [node[s] EXCEPT !.buf = buf, !.count = count]
           bytes == node[s].bytes + Len(buf)
           written == [kept EXCEPT !.buf = <<>>, !.bytes = bytes]
           failed == [written EXCEPT !.err = TRUE]
           lost == [written EXCEPT !.file = 0]
<1>3. /\ Queued[w][1] = h /\ h.type = "data" /\ s \in Sources /\ e \in Rows
  <2>1. Queued[w][1] = h /\ h.type = "data"
    BY <1>1 DEF StoreEvent, Current
  <2>2. h.src \in Sources /\ h.n \in Nat /\ h.left \in Nat
    BY <1>1, QueuedType DEF ReceiverInv
  <2> QED
    BY <2>1, <2>2 DEF Rows
<1>4. DataTypes /\ DataOK /\ ack \in Acks /\ node \in [Sources -> Nodes]
  BY DEF ReceiverInv, ThreadTypes, DataTypes
<1>5. Opened \in [Sources -> Nat]
  BY <1>4, ReceiverAssumption DEF Opened, Nodes
<1>6. /\ UNCHANGED <<keep_running, main, cl, closer, delayed, want, nap, rx, queue, ioVars, ack>>
      /\ proc' \in {"up", "crashed"}
  BY DEF StoreEvent, Current, Up
<1>7. \/ /\ f = 0 /\ UNCHANGED <<stored, disk, damaged, faults>>
         /\ node' = node \/ node' = [node EXCEPT ![s] = kept]
      \/ /\ f # 0 /\ stored' = [stored EXCEPT ![f] = Append(@, e)]
         /\ node' = [node EXCEPT ![s] = kept] /\ UNCHANGED <<disk, damaged, faults>>
      \/ /\ f # 0 /\ stored' = [stored EXCEPT ![f] = Append(@, e)]
         /\ disk' = [disk EXCEPT ![f] = @ \o buf] /\ UNCHANGED <<damaged, faults>>
         /\ \E x \in {written, Rolled(written)} : node' = [node EXCEPT ![s] = x]
      \/ /\ f # 0 /\ stored' = [stored EXCEPT ![f] = Append(@, e)] /\ Fault
         /\ damaged' = damaged \cup {f} /\ UNCHANGED disk
         /\ \E x \in {failed, Rolled(written)} : node' = [node EXCEPT ![s] = x]
      \/ /\ f # 0 /\ stored' = [stored EXCEPT ![f] = Append(@, e)] /\ Fault
         /\ disk' = [disk EXCEPT ![f] = @ \o buf] /\ damaged' = damaged \cup {f}
         /\ node' = [node EXCEPT ![s] = lost]
  BY DEF StoreEvent
<1>8. faults' \in 0..MaxFaults
  BY <1>7, FaultType
<1> HIDE DEF h
<1>9. node[s] \in Nodes /\ f \in 0..MaxCommands /\ node[s].buf \in Seq(Rows)
  <2>1. node[s] \in Nodes
    BY <1>3, <1>4
  <2> QED
    BY <2>1 DEF Nodes
<1> HIDE DEF e
<1>10. /\ kept \in Nodes /\ kept.file = f /\ kept.buf = buf /\ buf \in Seq(Rows)
       /\ \A x \in {written, Rolled(written), failed} : x \in Nodes /\ x.file = f /\ x.buf = <<>>
       /\ lost \in Nodes /\ lost.file = 0
  <2>1. node[s].count \in Nat /\ node[s].bytes \in Nat
    BY <1>9 DEF Nodes
  <2>2. buf \in Seq(Rows) /\ Len(buf) \in Nat
    BY <1>3, <1>9, AppendProperties
  <2> HIDE DEF buf
  <2>3. bytes \in Nat /\ count \in Nat /\ <<>> \in Seq(Rows) /\ 0 \in 0..MaxCommands
    BY <2>1, <2>2, ReceiverAssumption
  <2> HIDE DEF bytes, count
  <2>4. kept \in Nodes /\ kept.file = f /\ kept.buf = buf
    BY <1>9, <2>2, <2>3 DEF Nodes
  <2> HIDE DEF kept
  <2>5. written \in Nodes /\ written.file = kept.file /\ written.buf = <<>>
    BY <2>3, <2>4 DEF Nodes
  <2> HIDE DEF written
  <2>6. failed \in Nodes /\ failed.file = written.file /\ failed.buf = <<>>
    BY <2>5 DEF Nodes
  <2>7. lost \in Nodes /\ lost.file = 0
    BY <2>3, <2>5 DEF Nodes
  <2> HIDE DEF failed, lost
  <2>8. Rolled(written) \in Nodes /\ Rolled(written).file = written.file /\ Rolled(written).buf = <<>>
    BY <2>3, <2>5 DEF Rolled, Nodes
  <2> QED
    BY <2>2, <2>4, <2>5, <2>6, <2>7, <2>8
<1> HIDE DEF kept, written, failed, lost
<1>11. CASE f = 0 /\ UNCHANGED <<stored, disk, damaged, faults>>
            /\ (node' = node \/ node' = [node EXCEPT ![s] = kept])
  <2>1. /\ node' \in [Sources -> Nodes]
        /\ \A r \in Sources : node'[r].file = node[r].file
        /\ \A r \in Sources : node[r].file # 0 => node'[r] = node[r]
    BY <1>3, <1>4, <1>10, <1>11
  <2>2. Opened' = Opened
    BY <2>1 DEF Opened
  <2>3. Handled(h, d)
    BY <1>3, <1>5, <1>6, <1>11, <2>2 DEF Handled
  <2>4. DataOK'
    <3>1. ASSUME NEW r \in Sources, node'[r].file # 0, node'[r].file \notin damaged
          PROVE  stored[node'[r].file] = disk[node'[r].file] \o node'[r].buf
      BY <1>4, <2>1, <3>1 DEF DataOK
    <3>2. ASSUME NEW g \in Files, g \notin damaged, \A r \in Sources : node'[r].file # g
          PROVE  stored[g] = disk[g]
      BY <1>4, <2>1, <3>2 DEF DataOK
    <3> QED
      BY <1>11, <3>1, <3>2 DEF DataOK
  <2> QED
    BY <1>1, <1>2, <1>3, <1>4, <1>6, <1>8, <1>11, <2>1, <2>3, <2>4, HandledKeeps DEF DataTypes
<1>12. ASSUME f # 0, NEW nd \in Nodes, node' = [node EXCEPT ![s] = nd], nd.file \in {0, f},
              stored' = [stored EXCEPT ![f] = Append(@, e)],
              disk' = disk \/ disk' = [disk EXCEPT ![f] = @ \o buf],
              damaged' = damaged \/ damaged' = damaged \cup {f},
              nd.file = 0 => f \in damaged',
              f \notin damaged' =>
                  \/ disk' = disk /\ nd.buf = buf
                  \/ disk' = [disk EXCEPT ![f] = @ \o buf] /\ nd.buf = <<>>
       PROVE  ReceiverInv'
  <2>1. f \in Files /\ stored[f] \in Seq(Rows) /\ disk[f] \in Seq(Rows)
    <3>1. f \in Files
      <4> DEFINE m == f
      <4>1. m # 0 /\ m \in 0..MaxCommands
        BY <1>9, <1>12
      <4> HIDE DEF m
      <4>2. m \in 1..MaxCommands
        BY <4>1, ReceiverAssumption
      <4> QED
        BY <4>2 DEF Files, m
    <3> QED
      BY <1>4, <3>1 DEF DataTypes
  <2>2. disk[f] \o buf \in Seq(Rows) /\ Append(stored[f], e) \in Seq(Rows)
    BY <1>3, <1>10, <2>1, ConcatProperties, AppendProperties
  <2> DEFINE x == disk[f] \o buf
             y == Append(stored[f], e)
  <2>3. /\ stored' = [stored EXCEPT ![f] = y] /\ x \in Seq(Rows) /\ y \in Seq(Rows)
        /\ disk' = disk \/ disk' = [disk EXCEPT ![f] = x]
    BY <1>12, <2>2
  <2>4. f \notin damaged => y = x
    <3>1. f \notin damaged => stored[f] = disk[f] \o node[s].buf
      BY <1>3, <1>4, <1>12 DEF DataOK
    <3>2. disk[f] \o Append(node[s].buf, e) = Append(disk[f] \o node[s].buf, e)
      <4> DEFINE a == disk[f]
                 b == node[s].buf
      <4>1. a \in Seq(Rows) /\ b \in Seq(Rows) /\ e \in Rows
        BY <1>3, <1>9, <2>1
      <4> HIDE DEF a, b
      <4>2. a \o Append(b, e) = Append(a \o b, e)
        BY <4>1, AppendToConcat
      <4> QED
        BY <4>2 DEF a, b
    <3> QED
      BY <3>1, <3>2
  <2>5. x \o <<>> = x
    BY <2>2, ConcatEmptySeq
  <2>6. f \notin damaged' =>
            \/ disk' = disk /\ disk[f] \o nd.buf = x
            \/ disk' = [disk EXCEPT ![f] = x] /\ nd.buf = <<>>
    BY <1>12
  <2> HIDE DEF x, y, buf
  <2>7. /\ stored' \in [Files -> Seq(Rows)] /\ disk' \in [Files -> Seq(Rows)] /\ damaged' \subseteq Files
        /\ stored'[f] = y /\ damaged \subseteq damaged'
        /\ \A g \in Files : g # f => disk'[g] = disk[g] /\ stored'[g] = stored[g]
    <3>1. /\ stored \in [Files -> Seq(Rows)] /\ disk \in [Files -> Seq(Rows)] /\ damaged \subseteq Files
      BY <1>4 DEF DataTypes
    <3> HIDE DEF f
    <3>2. /\ stored' \in [Files -> Seq(Rows)] /\ stored'[f] = y
          /\ \A g \in Files : g # f => stored'[g] = stored[g]
      BY <2>1, <2>3, <3>1
    <3>3. disk' \in [Files -> Seq(Rows)] /\ \A g \in Files : g # f => disk'[g] = disk[g]
      BY <2>1, <2>3, <3>1
    <3>4. damaged' \subseteq Files /\ damaged \subseteq damaged'
      BY <1>12, <2>1, <3>1
    <3> QED
      BY <3>2, <3>3, <3>4
  <2>8. /\ node' \in [Sources -> Nodes] /\ node'[s] = nd
        /\ \A r \in Sources : r # s => node'[r] = node[r]
    BY <1>3, <1>4, <1>12
  <2>9. f \notin damaged' => nd.file # 0 /\ stored'[f] = disk'[f] \o nd.buf
    <3>1. ASSUME f \notin damaged' PROVE stored'[f] = disk'[f] \o nd.buf
      <4>1. y = x
        BY <2>4, <2>7, <3>1
      <4>2. CASE disk' = disk /\ disk[f] \o nd.buf = x
        BY <2>7, <4>1, <4>2
      <4>3. CASE disk' = [disk EXCEPT ![f] = x] /\ nd.buf = <<>>
        <5>1. disk'[f] = x
          BY <1>4, <2>1, <4>3 DEF DataTypes
        <5> QED
          BY <2>5, <2>7, <4>1, <4>3, <5>1
      <4> QED
        BY <2>6, <3>1, <4>2, <4>3
    <3> QED
      BY <1>12, <3>1
  <2>10. DataOK'
    BY <1>3, <1>12, <2>7, <2>9, FileUpdate
  <2>11. /\ Opened' \in [Sources -> Nat] /\ Opened'[s] = nd.file /\ Opened[s] = f
         /\ \A r \in Sources : r # s => Opened'[r] = Opened[r]
    <3>1. Opened' = [r \in Sources |-> node'[r].file]
      BY DEF Opened
    <3>2. \A r \in Sources : node'[r].file \in Nat
      BY <2>8, ReceiverAssumption DEF Nodes
    <3> QED
      BY <1>3, <2>8, <3>1, <3>2 DEF Opened
  <2>12. Handled(h, d)
    BY <1>3, <1>6, <1>12, <2>7, <2>11 DEF Handled
  <2> QED
    BY <1>1, <1>2, <1>3, <1>4, <1>6, <1>8, <2>7, <2>8, <2>10, <2>12, HandledKeeps
<1>13. CASE f # 0 /\ stored' = [stored EXCEPT ![f] = Append(@, e)]
            /\ node' = [node EXCEPT ![s] = kept] /\ UNCHANGED <<disk, damaged, faults>>
  BY <1>10, <1>12, <1>13
<1>14. CASE f # 0 /\ stored' = [stored EXCEPT ![f] = Append(@, e)]
            /\ disk' = [disk EXCEPT ![f] = @ \o buf] /\ UNCHANGED <<damaged, faults>>
            /\ \E x \in {written, Rolled(written)} : node' = [node EXCEPT ![s] = x]
  BY <1>10, <1>12, <1>14
<1>15. CASE f # 0 /\ stored' = [stored EXCEPT ![f] = Append(@, e)]
            /\ damaged' = damaged \cup {f} /\ UNCHANGED disk
            /\ \E x \in {failed, Rolled(written)} : node' = [node EXCEPT ![s] = x]
  BY <1>10, <1>12, <1>15
<1>16. CASE f # 0 /\ stored' = [stored EXCEPT ![f] = Append(@, e)]
            /\ disk' = [disk EXCEPT ![f] = @ \o buf] /\ damaged' = damaged \cup {f}
            /\ node' = [node EXCEPT ![s] = lost]
  BY <1>10, <1>12, <1>16
<1> QED
  BY <1>7, <1>11, <1>13, <1>14, <1>15, <1>16

\* The buffers of the worker's open files are written.
LEMMA WorkerEndsKeeps ==
    ASSUME ReceiverInv, NEW w \in Workers, WorkerEnds(w)
    PROVE  ReceiverInv'
<1> DEFINE open == {s \in Sources : WorkerOf[s] = w /\ node[s].file # 0}
           owner(f) == CHOOSE s \in open : node[s].file = f
<1>1. /\ DataTypes /\ DataOK /\ node \in [Sources -> Nodes] /\ disk \in [Files -> Seq(Rows)]
      /\ stored \in [Files -> Seq(Rows)]
  BY DEF ReceiverInv, DataTypes
<1>2. /\ disk' = [f \in Files |-> IF \E s \in open : node[s].file = f
                                  THEN disk[f] \o node[owner(f)].buf ELSE disk[f]]
      /\ node' = [s \in Sources |-> IF s \in open THEN [node[s] EXCEPT !.buf = <<>>] ELSE node[s]]
      /\ UNCHANGED <<keep_running, proc, main, queue, hand, want, nap, cl, closer, delayed, ack,
                     rx, faults, hist, ioVars, stored, damaged>>
  BY DEF WorkerEnds, hist
<1>3. \A r, s \in Sources : node[r].file = node[s].file /\ node[s].file # 0 => r = s
  BY DEF ReceiverInv, FilesDiffer, Opened
<1>4. ASSUME NEW s \in Sources
      PROVE  /\ node[s] \in Nodes /\ node[s].buf \in Seq(Rows) /\ node[s].file \in 0..MaxCommands
             /\ node'[s] \in Nodes /\ node'[s].file = node[s].file
             /\ s \in open => node'[s].buf = <<>>
             /\ s \notin open => node'[s] = node[s]
  <2>1. node[s] \in Nodes /\ node[s].buf \in Seq(Rows) /\ node[s].file \in 0..MaxCommands
    BY <1>1 DEF Nodes
  <2>2. node'[s] = IF s \in open THEN [node[s] EXCEPT !.buf = <<>>] ELSE node[s]
    BY <1>2
  <2>3. <<>> \in Seq(Rows)
    OBVIOUS
  <2>4. LET nd == [node[s] EXCEPT !.buf = <<>>] IN
        nd \in Nodes /\ nd.file = node[s].file /\ nd.buf = <<>>
    BY <2>1, <2>3 DEF Nodes
  <2> QED
    BY <2>1, <2>2, <2>4
<1>5. ASSUME NEW s \in open
      PROVE  /\ node[s].file \in Files /\ owner(node[s].file) = s
             /\ disk'[node[s].file] = disk[node[s].file] \o node[s].buf
  <2>1. node[s].file \in Files
    BY <1>4, ReceiverAssumption DEF Files
  <2>2. owner(node[s].file) = s
    BY <1>3
  <2> QED
    BY <1>2, <2>1, <2>2
<1>6. ASSUME NEW f \in Files, \A s \in open : node[s].file # f
      PROVE  disk'[f] = disk[f]
  BY <1>2, <1>6
<1>7. disk' \in [Files -> Seq(Rows)]
  <2>1. ASSUME NEW f \in Files PROVE disk'[f] \in Seq(Rows)
    <3>1. CASE \E s \in open : node[s].file = f
      <4>1. PICK s \in open : node[s].file = f
        BY <3>1
      <4>2. disk'[f] = disk[f] \o node[s].buf
        BY <1>5, <4>1
      <4>3. disk[f] \in Seq(Rows) /\ node[s].buf \in Seq(Rows)
        BY <1>1, <1>4
      <4> QED
        BY <4>2, <4>3, ConcatProperties
    <3>2. CASE \A s \in open : node[s].file # f
      BY <1>1, <1>6, <3>2
    <3> QED
      BY <3>1, <3>2
  <2> QED
    BY <1>2, <2>1
<1>8. node' \in [Sources -> Nodes]
  BY <1>2, <1>4
<1>9. Opened' = Opened /\ Queued' = Queued /\ Scheduled' = Scheduled
  <2>1. Opened' = [s \in Sources |-> node'[s].file]
    BY DEF Opened
  <2> QED
    BY <1>2, <1>4, <2>1 DEF Opened, Queued, Scheduled
<1>10. DataTypes'
  BY <1>1, <1>2, <1>7, <1>8, <1>9 DEF DataTypes
<1>11. DataOK'
  <2>1. ASSUME NEW s \in Sources, node'[s].file # 0, node'[s].file \notin damaged
        PROVE  stored[node'[s].file] = disk'[node'[s].file] \o node'[s].buf
    <3>1. node'[s].file = node[s].file /\ node[s].file \in Files
      BY <1>4, <2>1, ReceiverAssumption DEF Files
    <3>2. stored[node[s].file] = disk[node[s].file] \o node[s].buf
      BY <1>1, <2>1, <3>1 DEF DataOK
    <3>3. CASE s \in open
      <4>1. disk'[node[s].file] = stored[node[s].file] /\ node'[s].buf = <<>>
        BY <1>4, <1>5, <3>2, <3>3
      <4>2. stored[node[s].file] \o <<>> = stored[node[s].file]
        <5> DEFINE x == stored[node[s].file]
        <5>1. x \in Seq(Rows)
          BY <1>1, <3>1
        <5> HIDE DEF x
        <5>2. x \o <<>> = x
          BY <5>1, ConcatEmptySeq
        <5> QED
          BY <5>2 DEF x
      <4> QED
        BY <3>1, <4>1, <4>2
    <3>4. CASE s \notin open
      <4>1. \A r \in open : node[r].file # node[s].file
        BY <1>3, <2>1, <3>1, <3>4
      <4>2. disk'[node[s].file] = disk[node[s].file]
        BY <1>6, <3>1, <4>1
      <4> QED
        BY <1>4, <3>1, <3>2, <3>4, <4>2
    <3> QED
      BY <3>3, <3>4
  <2>2. ASSUME NEW f \in Files, f \notin damaged, \A s \in Sources : node'[s].file # f
        PROVE  stored[f] = disk'[f]
    <3>1. \A s \in Sources : node[s].file # f
      BY <1>4, <2>2
    <3>2. stored[f] = disk[f]
      BY <1>1, <2>2, <3>1 DEF DataOK
    <3> QED
      BY <1>6, <3>1, <3>2
  <2>3. stored' = stored /\ damaged' = damaged
    BY <1>2
  <2> QED
    BY <2>1, <2>2, <2>3 DEF DataOK
<1>12. ThreadTypes' /\ ThreadsOK'
  BY <1>2, ThreadsFrame DEF ReceiverInv, ThreadTypes
<1>13. QueueInv'
  BY <1>2, <1>9, QueueFrame DEF ReceiverInv, QueueInv
<1>14. ProducerTypes' /\ ProducerOK'
  BY <1>2, ProducerFrame DEF ReceiverInv
<1> QED
  BY <1>10, <1>11, <1>12, <1>13, <1>14 DEF ReceiverInv, QueueInv

-----------------------------------------------------------------------------
(* The steps that change no queue and no file *)

\* A thread that waits for room touches nothing else.
LEMMA WaitKeeps ==
    ASSUME ReceiverInv, NEW t \in Threads, WaitForRoom(t) \/ FallAsleep(t)
    PROVE  ReceiverInv'
<1>1. UNCHANGED <<keep_running, proc, main, queue, hand, node, disk, want, cl, closer, delayed,
                  ack, rx, faults, hist, ioVars>>
  BY DEF WaitForRoom, FallAsleep
<1>2. nap' \in [Threads -> {"awake", "going", "asleep"}]
  BY DEF ReceiverInv, ThreadTypes, WaitForRoom, FallAsleep
<1>3. ThreadTypes'
  BY <1>1, <1>2 DEF ReceiverInv, ThreadTypes
<1>4. ThreadsOK'
  BY <1>1, ThreadsFrame DEF ReceiverInv
<1> QED
  BY <1>1, <1>3, <1>4, QuietStep

\* A packet comes.
LEMMA PacketKeeps ==
    ASSUME ReceiverInv, NEW s \in Sources, NEW k \in PacketSizes, Packet(s, k)
    PROVE  ReceiverInv'
<1> DEFINE r == TakenFor(s)
           i == Item("data", r, rx + 1, 0, k)
<1>0. r \in Sources
  BY DEF TakenFor
<1> HIDE DEF r
<1>1. /\ UNCHANGED <<keep_running, proc, main, queue, hand, node, disk, nap, cl, closer, delayed,
                     ack, faults, hist, ioVars>>
      /\ rx < MaxPackets /\ rx' = rx + 1 /\ rx \in 0..MaxPackets
      /\ want' = [want EXCEPT !["rx"] = i]
      /\ want \in [Threads -> Items \cup {NoItem}]
  BY DEF Packet, ReceiverInv, ThreadTypes, r
<1>2. i \in Items /\ i.type = "data" /\ i.token = 0 /\ i.left >= 1
  BY <1>0, <1>1, ReceiverAssumption DEF Items, Item
<1> HIDE DEF i
<1>3. /\ want' \in [Threads -> Items \cup {NoItem}] /\ want'["rx"] = i
      /\ want'["cl"] = want["cl"] /\ want'["closer"] = want["closer"]
  BY <1>1, <1>2 DEF Threads, i
<1>4. rx' \in 0..MaxPackets
  BY <1>1, ReceiverAssumption
<1>5. ThreadTypes'
  BY <1>1, <1>3, <1>4 DEF ReceiverInv, ThreadTypes
<1>6. ThreadsOK'
  BY <1>1, <1>2, <1>3 DEF ReceiverInv, ThreadsOK
<1> QED
  BY <1>1, <1>5, <1>6, QuietStep

\* A packet of the wrong size comes, and the end of the wait for its payload.
LEMMA FramesKeep ==
    ASSUME ReceiverInv, (\E s \in Sources : WrongSizePacket(s)) \/ FramesEnd
    PROVE  ReceiverInv'
<1>1. UNCHANGED <<keep_running, proc, main, queue, hand, node, disk, want, nap, cl, closer,
                  delayed, ack, rx, hist, ioVars>>
  BY DEF WrongSizePacket, FramesEnd
<1>2. faults' \in 0..MaxFaults
  BY FaultType DEF ReceiverInv, ThreadTypes, WrongSizePacket, FramesEnd
<1>3. ThreadTypes'
  BY <1>1, <1>2 DEF ReceiverInv, ThreadTypes
<1>4. ThreadsOK'
  BY <1>1, ThreadsFrame DEF ReceiverInv
<1> QED
  BY <1>1, <1>3, <1>4, QuietStep

\* The receiver thread gives up its packet.
LEMMA DropPacketKeeps ==
    ASSUME ReceiverInv, DropPacket
    PROVE  ReceiverInv'
<1>1. /\ UNCHANGED <<keep_running, proc, main, queue, hand, node, disk, nap, cl, closer, delayed,
                     ack, rx, faults, hist, ioVars>>
      /\ want' = [want EXCEPT !["rx"] = NoItem]
      /\ want \in [Threads -> Items \cup {NoItem}]
  BY DEF DropPacket, ReceiverInv, ThreadTypes
<1>2. /\ want' \in [Threads -> Items \cup {NoItem}] /\ want'["rx"] = NoItem
      /\ want'["cl"] = want["cl"] /\ want'["closer"] = want["closer"]
  BY <1>1 DEF Threads
<1>3. ThreadTypes'
  BY <1>1, <1>2 DEF ReceiverInv, ThreadTypes
<1>4. ThreadsOK'
  BY <1>1, <1>2 DEF ReceiverInv, ThreadsOK
<1> QED
  BY <1>1, <1>3, <1>4, QuietStep

\* SIGTERM, the end of the process and the kill.
LEMMA EndKeeps ==
    ASSUME ReceiverInv, Terminate \/ JoinAll \/ Kill
    PROVE  ReceiverInv'
<1>1. /\ UNCHANGED <<main, queue, hand, node, disk, want, nap, cl, closer, delayed,
                     ack, rx, faults, hist, ioVars>>
      /\ keep_running' = keep_running \/ keep_running' = FALSE
      /\ proc' \in {"up", "ended", "killed", "crashed"}
  BY DEF Terminate, JoinAll, Kill, Up
<1>2. ThreadTypes'
  BY <1>1 DEF ReceiverInv, ThreadTypes
<1>3. ThreadsOK'
  BY <1>1, ThreadsFrame DEF ReceiverInv
<1> QED
  BY <1>1, <1>2, <1>3, QuietStep

\* The producer of a source does as the oldest command tells it.
LEMMA ChannelTail ==
    ASSUME ProducerTypes, NEW s \in Sources, chan[s] # <<>>,
           chan' = [chan EXCEPT ![s] = Tail(@)]
    PROVE  /\ chan' \in [Sources -> Seq(Publications)] /\ Head(chan[s]) \in Publications
           /\ Head(chan[s]) = chan[s][1] /\ 1 \in DOMAIN chan[s]
           /\ \A r \in Sources : r # s => chan'[r] = chan[r]
           /\ Len(chan[s]) \in Nat /\ Len(chan'[s]) = Len(chan[s]) - 1 /\ chan'[s] \in Seq(Publications)
           /\ \A j \in DOMAIN chan'[s] :
                 j \in Nat /\ j >= 1 /\ j + 1 \in DOMAIN chan[s] /\ chan'[s][j] = chan[s][j + 1]
<1>1. chan \in [Sources -> Seq(Publications)] /\ chan[s] \in Seq(Publications)
  BY DEF ProducerTypes
<1> DEFINE q == chan[s]
<1>2. q \in Seq(Publications) /\ q # <<>>
  BY <1>1
<1> HIDE DEF q
<1>3. /\ 1 \in DOMAIN q /\ q[1] = Head(q) /\ Tail(q) \in Seq(Publications) /\ Len(q) \in Nat
      /\ Len(Tail(q)) = Len(q) - 1
      /\ \A j \in DOMAIN Tail(q) :
            j \in Nat /\ j >= 1 /\ j + 1 \in DOMAIN q /\ Tail(q)[j] = q[j + 1]
  BY <1>2, TailFacts
<1>4. q[1] \in Publications
  BY <1>2, <1>3, Elements
<1>5. /\ chan' \in [Sources -> Seq(Publications)] /\ chan'[s] = Tail(q)
      /\ \A r \in Sources : r # s => chan'[r] = chan[r]
  BY <1>1, <1>3 DEF q
<1> QED
  BY <1>3, <1>4, <1>5 DEF q

\* The producer executes a command, refuses it, or never sees it.
LEMMA ProducerExecutesKeeps ==
    ASSUME ReceiverInv, NEW s \in Sources, ProducerExecutes(s) \/ PublicationLost(s)
    PROVE  ReceiverInv'
<1> DEFINE c == Head(chan[s])
<1>1. /\ UNCHANGED <<keep_running, proc, main, queue, hand, node, disk, want, nap, cl, closer,
                     delayed, ack, rx, hist, damaged>>
      /\ chan[s] # <<>> /\ chan' = [chan EXCEPT ![s] = Tail(@)]
      /\ faults' = faults \/ Fault
  BY DEF ProducerExecutes, PublicationLost, hist
<1>2. ThreadTypes /\ ProducerTypes /\ ProducerOK /\ ThreadsOK
  BY DEF ReceiverInv
<1>3. /\ chan' \in [Sources -> Seq(Publications)] /\ Head(chan[s]) \in Publications
      /\ Head(chan[s]) = chan[s][1] /\ 1 \in DOMAIN chan[s]
      /\ \A r \in Sources : r # s => chan'[r] = chan[r]
      /\ Len(chan[s]) \in Nat /\ Len(chan'[s]) = Len(chan[s]) - 1 /\ chan'[s] \in Seq(Publications)
      /\ \A j \in DOMAIN chan'[s] :
            j \in Nat /\ j >= 1 /\ j + 1 \in DOMAIN chan[s] /\ chan'[s][j] = chan[s][j + 1]
  BY <1>1, <1>2, ChannelTail
<1>4. c.n \in 0..MaxCommands /\ c.n <= cl.n /\ c = chan[s][1]
  BY <1>2, <1>3 DEF Publications, ProducerOK
<1>5. \/ /\ producer' = [producer EXCEPT ![s] = IF c.cmd \in {"start", "START_PRODUCER"} THEN "on" ELSE "off"]
         /\ acks' = IF c.n = 0 THEN acks ELSE acks \cup {[src |-> s, n |-> c.n, ok |-> TRUE]}
      \/ /\ producer' = producer
         /\ acks' = IF c.n = 0 THEN acks ELSE acks \cup {[src |-> s, n |-> c.n, ok |-> FALSE]}
      \/ producer' = producer /\ acks' = acks
  BY DEF ProducerExecutes, PublicationLost
<1> HIDE DEF c
<1>6. ASSUME NEW a \in acks', a \notin acks
      PROVE  a \in Answers /\ a.src = s /\ a.n = c.n /\ c.n # 0 /\ (a.ok => producer'[s] = Told(c.cmd) \/ c.cmd = "start")
  <2>1. \E ok \in BOOLEAN : a = [src |-> s, n |-> c.n, ok |-> ok]
    BY <1>5, <1>6
  <2>2. PICK ok \in BOOLEAN : a = [src |-> s, n |-> c.n, ok |-> ok]
    BY <2>1
  <2>3. a \in Answers /\ a.src = s /\ a.n = c.n /\ c.n # 0
    BY <1>4, <1>5, <1>6, <2>2 DEF Answers
  <2>4. ASSUME a.ok PROVE producer'[s] = Told(c.cmd) \/ c.cmd = "start"
    <3>1. producer' = [producer EXCEPT ![s] = IF c.cmd \in {"start", "START_PRODUCER"} THEN "on" ELSE "off"]
      BY <1>5, <1>6, <2>4
    <3> QED
      BY <1>2, <3>1 DEF ProducerTypes, Told
  <2> QED
    BY <2>3, <2>4
<1>7. ProducerTypes'
  <2>1. acks' \subseteq Answers
    BY <1>2, <1>6 DEF ProducerTypes
  <2>2. producer' \in [Sources -> {"on", "off"}] /\ \A r \in Sources : r # s => producer'[r] = producer[r]
    BY <1>2, <1>5 DEF ProducerTypes
  <2> QED
    BY <1>3, <2>1, <2>2 DEF ProducerTypes
<1>8. \A r \in Sources : r # s => producer'[r] = producer[r]
  BY <1>2, <1>5 DEF ProducerTypes
<1>9. ProducerOK'
  <2>1. ASSUME NEW a \in acks' PROVE a.n <= cl.n
    BY <1>2, <1>4, <1>6 DEF ProducerOK
  <2>2. ASSUME NEW r \in Sources, NEW j \in DOMAIN chan'[r] PROVE chan'[r][j].n <= cl.n
    BY <1>2, <1>3 DEF ProducerOK
  <2>3. ASSUME cl.pc = "producerWait"
        PROVE  /\ \A j \in DOMAIN chan'[cl.src] : chan'[cl.src][j].n = cl.n =>
                     j = Len(chan'[cl.src]) /\ chan'[cl.src][j].cmd = cl.op
               /\ \A a \in acks' : a.src = cl.src /\ a.n = cl.n /\ a.ok =>
                     chan'[cl.src] = <<>> /\ producer'[cl.src] = Told(cl.op)
    <3>1. /\ cl.src \in Sources /\ cl.op \in ProducerOps
          /\ \A j \in DOMAIN chan[cl.src] : chan[cl.src][j].n = cl.n =>
                j = Len(chan[cl.src]) /\ chan[cl.src][j].cmd = cl.op
          /\ \A a \in acks : a.src = cl.src /\ a.n = cl.n /\ a.ok =>
                chan[cl.src] = <<>> /\ producer[cl.src] = Told(cl.op)
      BY <1>2, <2>3 DEF ProducerOK, ThreadsOK
    <3>2. CASE cl.src # s
      BY <1>3, <1>6, <1>8, <3>1, <3>2
    <3>3. CASE cl.src = s
      <4>1. ASSUME NEW j \in DOMAIN chan'[s], chan'[s][j].n = cl.n
            PROVE  j = Len(chan'[s]) /\ chan'[s][j].cmd = cl.op
        <5>1. j + 1 = Len(chan[s]) /\ chan[s][j + 1].cmd = cl.op /\ j \in Nat
          BY <1>3, <3>1, <3>3, <4>1
        <5> QED
          BY <1>3, <5>1
      <4>2. ASSUME NEW a \in acks', a.src = s, a.n = cl.n, a.ok
            PROVE  chan'[s] = <<>> /\ producer'[s] = Told(cl.op)
        <5>1. a \notin acks
          BY <1>1, <3>1, <3>3, <4>2
        <5>2. c.n = cl.n /\ (producer'[s] = Told(c.cmd) \/ c.cmd = "start")
          BY <1>6, <4>2, <5>1
        <5>3. 1 = Len(chan[s]) /\ c.cmd = cl.op
          BY <1>3, <1>4, <3>1, <3>3, <5>2
        <5>4. Len(chan'[s]) = 0
          BY <1>3, <5>3
        <5>5. chan'[s] = <<>>
          BY <1>3, <5>4, EmptySeq
        <5> QED
          BY <3>1, <5>2, <5>3, <5>5 DEF ProducerOps
      <4> QED
        BY <3>3, <4>1, <4>2
    <3> QED
      BY <3>2, <3>3
  <2>4. ASSUME cl.pc = "poll", cl.reply = "OK", cl.op \in ProducerOps
        PROVE  chan'[cl.src] = <<>> /\ producer'[cl.src] = Told(cl.op)
    <3>1. cl.src \in Sources /\ chan[cl.src] = <<>> /\ producer[cl.src] = Told(cl.op)
      BY <1>2, <2>4 DEF ProducerOK, ThreadsOK
    <3> QED
      BY <1>1, <1>3, <1>8, <3>1
  <2>5. cl' = cl
    BY <1>1
  <2> QED
    BY <2>1, <2>2, <2>3, <2>4, <2>5 DEF ProducerOK
<1>10. ThreadTypes' /\ ThreadsOK'
  <2>1. faults' \in 0..MaxFaults
    BY <1>1, FaultType
  <2> QED
    BY <1>1, <1>2, <2>1, ThreadsFrame DEF ThreadTypes
<1>11. DataTypes' /\ DataOK'
  BY <1>1, DataFrame DEF ReceiverInv
<1>12. QueueInv'
  BY <1>1, SameQueues, QueueFrame DEF ReceiverInv, QueueInv
<1> QED
  BY <1>7, <1>9, <1>10, <1>11, <1>12 DEF ReceiverInv, QueueInv

-----------------------------------------------------------------------------
(* The listener and the delayed-close thread, off the queues *)

\* A source that is closing stays so while items and files stay.
LEMMA ClosingFrame ==
    ASSUME NEW s \in Sources, Closing(s), Queued' = Queued, Opened' = Opened
    PROVE  Closing(s)'
BY DEF Closing

\* The numbers, when a command has been taken, goes on or has ended.
LEMMA NumbersStep ==
    ASSUME NumbersOK, ThreadTypes, ThreadTypes', DataTypes, Queued' = Queued, Opened' = Opened,
           cl.n <= cl'.n,
           cl'.pc \in {"pending", "pendingWait", "put"} =>
              cl.pc \in {"pending", "pendingWait", "put"} \/ cl.n < cl'.n,
           \A s \in Sources :
              \/ delayed'[s].n = delayed[s].n \/ delayed'[s].n = 0
              \/ delayed'[s].n <= cl'.n /\ cl'.pc \notin {"pending", "pendingWait", "put"}
    PROVE  NumbersOK'
<1>1. cl.n \in Nat /\ cl'.n \in Nat
  BY ReceiverAssumption DEF ThreadTypes, Listeners
<1>2. ASSUME NEW k \in Nat, k <= cl.n,
             cl.pc \in {"pending", "pendingWait", "put"} => k < cl.n
      PROVE  k <= cl'.n /\ (cl'.pc \in {"pending", "pendingWait", "put"} => k < cl'.n)
  BY <1>1, <1>2
<1>3. ASSUME NEW w \in Workers, NEW j \in DOMAIN Queued[w]
      PROVE  LET i == Queued[w][j] IN
             /\ WorkerOf[i.src] = w
             /\ i.type = "data" => i.left >= 1 /\ i.token = 0
             /\ i.type # "data" => i.n >= 1 /\ i.n <= cl'.n
             /\ i.type # "data" /\ cl'.pc \in {"pending", "pendingWait", "put"} => i.n < cl'.n
  <2>1. Queued[w][j].n \in Nat
    BY QueuedType DEF Items
  <2>2. CASE Queued[w][j].type = "data"
    BY <2>2 DEF NumbersOK
  <2>3. CASE Queued[w][j].type # "data"
    <3>1. /\ WorkerOf[Queued[w][j].src] = w /\ Queued[w][j].n >= 1 /\ Queued[w][j].n <= cl.n
          /\ cl.pc \in {"pending", "pendingWait", "put"} => Queued[w][j].n < cl.n
      BY <2>3 DEF NumbersOK
    <3> QED
      BY <1>2, <2>1, <2>3, <3>1
  <2> QED
    BY <2>2, <2>3
<1>4. ASSUME NEW s \in Sources
      PROVE  /\ Opened[s] <= cl'.n /\ delayed'[s].n <= cl'.n
             /\ cl'.pc \in {"pending", "pendingWait", "put"} =>
                   Opened[s] < cl'.n /\ delayed'[s].n < cl'.n
  <2>1. Opened[s] \in Nat /\ delayed[s].n \in Nat
    BY ReceiverAssumption DEF Opened, DataTypes, Nodes, ThreadTypes, Closes
  <2>2. /\ Opened[s] <= cl.n /\ delayed[s].n <= cl.n
        /\ cl.pc \in {"pending", "pendingWait", "put"} => Opened[s] < cl.n /\ delayed[s].n < cl.n
    BY DEF NumbersOK
  <2>3. /\ Opened[s] <= cl'.n
        /\ cl'.pc \in {"pending", "pendingWait", "put"} => Opened[s] < cl'.n
    BY <1>2, <2>1, <2>2
  <2>4. /\ delayed[s].n <= cl'.n
        /\ cl'.pc \in {"pending", "pendingWait", "put"} => delayed[s].n < cl'.n
    BY <1>2, <2>1, <2>2
  <2>5. 0 <= cl'.n /\ (cl'.pc \in {"pending", "pendingWait", "put"} => 0 < cl'.n)
    BY <1>1, <2>1, <2>3
  <2> QED
    BY <2>3, <2>4, <2>5
<1> QED
  BY <1>3, <1>4 DEF NumbersOK

\* A step of the listener that answers nothing with OK and waits for no answer.
LEMMA ListenerStepKeeps ==
    ASSUME ReceiverInv, ThreadTypes', ThreadsOK', keep_running' = keep_running,
           UNCHANGED <<queue, hand, node, disk, hist, delayed, chan, producer>>,
           acks' \subseteq acks, closer'.pc = "mark" => closer' = closer,
           cl.n <= cl'.n,
           cl'.pc \in {"pending", "pendingWait", "put"} =>
              cl.pc \in {"pending", "pendingWait", "put"} \/ cl.n < cl'.n,
           cl'.pc = "put" /\ keep_running => delayed[cl'.src] = NoClose,
           cl'.pc \notin {"ackWait", "producerWait"}, cl'.pc = "poll" => cl'.reply # "OK",
           ack'.waiting = 0, ack'.serial = ack.serial
    PROVE  ReceiverInv'
<1>1. Queued' = Queued /\ Opened' = Opened
  BY SameQueues
<1>2. NumbersOK'
  BY <1>1, NumbersStep DEF ReceiverInv
<1>3. FilesDiffer'
  BY <1>1, FilesFrame DEF ReceiverInv
<1>4. CloseIsFresh'
  BY <1>1 DEF ReceiverInv, CloseIsFresh
<1>5. AckOK'
  <2>1. AckOK
    BY DEF ReceiverInv
  <2> QED
    BY <1>1, <2>1 DEF AckOK, ReadyOK
<1>6. ClosingOK'
  <2>1. ASSUME NEW s \in Sources, closer'.pc = "mark", closer'.src = s PROVE Closing(s)'
    <3>1. Closing(s)
      BY <2>1 DEF ReceiverInv, ClosingOK
    <3> QED
      BY <1>1, <3>1, ClosingFrame
  <2> QED
    BY <2>1 DEF ClosingOK
<1>7. DataTypes' /\ DataOK'
  BY DataFrame DEF ReceiverInv
<1>8. ProducerTypes'
  BY DEF ReceiverInv, ProducerTypes
<1>9. ProducerOK'
  <2>1. cl.n \in Nat /\ cl'.n \in Nat
    BY ReceiverAssumption DEF ReceiverInv, ThreadTypes, Listeners
  <2>2. ASSUME NEW a \in acks' PROVE a.n <= cl'.n
    <3>1. a.n \in Nat /\ a.n <= cl.n
      BY ReceiverAssumption DEF ReceiverInv, ProducerTypes, ProducerOK, Answers
    <3> QED
      BY <2>1, <3>1
  <2>3. ASSUME NEW s \in Sources, NEW j \in DOMAIN chan[s] PROVE chan[s][j].n <= cl'.n
    <3>1. chan[s] \in Seq(Publications)
      BY DEF ReceiverInv, ProducerTypes
    <3>2. chan[s][j] \in Publications
      BY <3>1, Elements
    <3>3. chan[s][j].n \in Nat /\ chan[s][j].n <= cl.n
      BY <3>2, ReceiverAssumption DEF ReceiverInv, ProducerOK, Publications
    <3> QED
      BY <2>1, <3>3
  <2> QED
    BY <2>2, <2>3 DEF ProducerOK
<1> QED
  BY <1>2, <1>3, <1>4, <1>5, <1>6, <1>7, <1>8, <1>9 DEF ReceiverInv

\* A step of the delayed-close thread that leaves the table as it is.
LEMMA CloserStepKeeps ==
    ASSUME ReceiverInv, ThreadTypes', ThreadsOK',
           UNCHANGED <<keep_running, queue, hand, node, disk, hist, cl, ack, ioVars>>,
           \A s \in Sources : /\ delayed'[s].n = delayed[s].n
                              /\ delayed'[s] = NoClose <=> delayed[s] = NoClose,
           closer'.pc = "mark" => closer' = closer
    PROVE  ReceiverInv'
<1>1. Queued' = Queued /\ Opened' = Opened /\ damaged' = damaged
  BY SameQueues DEF hist
<1>2. NumbersOK'
  <2>1. cl.n <= cl'.n
    BY ReceiverAssumption DEF ReceiverInv, ThreadTypes, Listeners
  <2> QED
    BY <1>1, <2>1, NumbersStep DEF ReceiverInv
<1>3. FilesDiffer'
  BY <1>1, FilesFrame DEF ReceiverInv
<1>4. CloseIsFresh'
  <2>1. cl.pc = "put" => cl.src \in Sources
    BY DEF ReceiverInv, ThreadsOK
  <2> QED
    BY <1>1, <2>1 DEF ReceiverInv, CloseIsFresh
<1>5. AckOK'
  <2>1. cl.pc = "ackWait" \/ ReadyOK => cl.src \in Sources
    BY DEF ReceiverInv, ThreadsOK, ReadyOK
  <2>2. Fulfilled => Fulfilled'
    BY <1>1, FulfilledFrame
  <2>3. ReadyOK' <=> ReadyOK
    BY DEF ReadyOK
  <2>4. AckOK
    BY DEF ReceiverInv
  <2> QED
    BY <1>1, <2>1, <2>2, <2>3, <2>4 DEF AckOK
<1>6. ClosingOK'
  <2>1. ASSUME NEW s \in Sources, Closing(s) PROVE Closing(s)'
    BY <1>1, <2>1, ClosingFrame
  <2> QED
    BY <2>1 DEF ReceiverInv, ClosingOK
<1>7. DataTypes' /\ DataOK'
  <2>1. Scheduled' = Scheduled
    BY DEF Scheduled
  <2> QED
    BY <2>1 DEF ReceiverInv, DataTypes, DataOK, hist
<1>8. ProducerTypes' /\ ProducerOK'
  BY ProducerFrame DEF ReceiverInv
<1> QED
  BY <1>2, <1>3, <1>4, <1>5, <1>6, <1>7, <1>8 DEF ReceiverInv

\* A file command is taken: its number is the newest.
LEMMA FileCommandKeeps ==
    ASSUME ReceiverInv, NEW s \in Sources, NEW op \in FileOps, FileCommand(op, s)
    PROVE  ReceiverInv'
<1>1. /\ UNCHANGED <<keep_running, proc, main, queue, hand, node, disk, want, nap, closer, delayed,
                     ack, rx, faults, hist, chan, acks, producer>>
      /\ cl.pc = "poll" /\ cl.n < MaxCommands
      /\ cl' = [pc |-> "pending", op |-> op, src |-> s, n |-> cl.n + 1, token |-> 0,
                reply |-> "none"]
  BY DEF FileCommand, Accepted, ioVars
<1>2. cl.n \in 0..MaxCommands /\ cl.n + 1 \in 0..MaxCommands /\ cl.n < cl.n + 1 /\ cl.n + 1 >= 1
  BY <1>1, ReceiverAssumption DEF ReceiverInv, ThreadTypes, Listeners
<1>3. cl' \in Listeners
  BY <1>1, <1>2 DEF Listeners
<1>4. ThreadTypes'
  BY <1>1, <1>3 DEF ReceiverInv, ThreadTypes
<1>5. ThreadsOK'
  BY <1>1, <1>2 DEF ReceiverInv, ThreadsOK
<1>6. ack.waiting = 0
  BY <1>1 DEF ReceiverInv, AckOK
<1>7. cl.n <= cl'.n /\ cl.n < cl'.n
  BY <1>1, <1>2, ReceiverAssumption
<1> QED
  BY <1>1, <1>4, <1>5, <1>6, <1>7, ListenerStepKeeps

\* No delayed close is pending any more: the item may be queued.
LEMMA NoPendingCloseKeeps ==
    ASSUME ReceiverInv, NoPendingClose
    PROVE  ReceiverInv'
<1> DEFINE i == Item(IF cl.op = "CLOSE_READY" THEN "close" ELSE "open", cl.src, cl.n, 0, 0)
<1>1. /\ UNCHANGED <<keep_running, proc, main, queue, hand, node, disk, nap, closer, delayed,
                     ack, rx, faults, hist, chan, acks, producer>>
      /\ cl.pc = "pending" /\ (delayed[cl.src] = NoClose \/ ~keep_running)
      /\ cl' = [cl EXCEPT !.pc = "put"] /\ want' = [want EXCEPT !["cl"] = i]
  BY DEF NoPendingClose, ioVars
<1>2. /\ cl \in Listeners /\ cl.n \in Nat /\ cl.src \in Sources /\ cl.n >= 1 /\ cl.op \in FileOps
      /\ want \in [Threads -> Items \cup {NoItem}]
  BY <1>1, ReceiverAssumption DEF ReceiverInv, ThreadTypes, ThreadsOK, Listeners
<1>3. /\ cl' \in Listeners /\ cl'.pc = "put" /\ cl'.op = cl.op /\ cl'.src = cl.src /\ cl'.n = cl.n
      /\ cl'.reply = cl.reply
  BY <1>1, <1>2 DEF Listeners
<1>4. i \in Items
  BY <1>2 DEF Item, Items
<1>5. /\ i' = i
  BY <1>3 DEF Item
<1> HIDE DEF i
<1>6. /\ want' \in [Threads -> Items \cup {NoItem}] /\ want'["cl"] = i
      /\ want'["rx"] = want["rx"] /\ want'["closer"] = want["closer"]
  BY <1>1, <1>2, <1>4 DEF Threads
<1>7. ThreadTypes'
  BY <1>1, <1>3, <1>6 DEF ReceiverInv, ThreadTypes
<1>8. ThreadsOK'
  <2>1. want'["cl"] = Item(IF cl'.op = "CLOSE_READY" THEN "close" ELSE "open", cl'.src, cl'.n, 0, 0)
    BY <1>5, <1>6 DEF i
  <2> QED
    BY <1>1, <1>2, <1>3, <1>6, <2>1 DEF ReceiverInv, ThreadsOK
<1>9. ack.waiting = 0 /\ cl.n <= cl'.n
  BY <1>1, <1>2, <1>3 DEF ReceiverInv, AckOK
<1> QED
  BY <1>1, <1>3, <1>7, <1>8, <1>9, ListenerStepKeeps

\* The listener waits for the delayed close of the run before.
LEMMA PendingCloseKeeps ==
    ASSUME ReceiverInv, PendingClose
    PROVE  ReceiverInv'
<1>1. /\ UNCHANGED <<keep_running, proc, main, queue, hand, node, disk, want, nap, closer, delayed,
                     ack, rx, faults, hist, chan, acks, producer>>
      /\ cl.pc = "pending" /\ cl' = [cl EXCEPT !.pc = "pendingWait"] /\ cl \in Listeners
  BY DEF PendingClose, ioVars, ReceiverInv, ThreadTypes
<1>2. /\ cl' \in Listeners /\ cl'.pc = "pendingWait" /\ cl'.op = cl.op /\ cl'.src = cl.src
      /\ cl'.n = cl.n /\ cl'.reply = cl.reply
  BY <1>1 DEF Listeners
<1>3. ThreadTypes' /\ ThreadsOK'
  BY <1>1, <1>2 DEF ReceiverInv, ThreadTypes, ThreadsOK
<1>4. ack.waiting = 0 /\ cl.n <= cl'.n
  BY <1>1, <1>2, ReceiverAssumption DEF ReceiverInv, AckOK, Listeners
<1> QED
  BY <1>1, <1>2, <1>3, <1>4, ListenerStepKeeps

\* The listener has answered and polls again.
LEMMA ReplyFacts ==
    ASSUME cl \in Listeners, NEW r \in {"none", "OK", "ERROR"}
    PROVE  LET c == Reply(r) IN
           /\ c \in Listeners /\ c.pc = "poll" /\ c.op = cl.op /\ c.src = cl.src /\ c.n = cl.n
           /\ c.reply = r
BY DEF Reply, Listeners

\* A command is answered with an error.
LEMMA ErrorKeeps ==
    ASSUME ReceiverInv, UNCHANGED <<keep_running, proc, main, queue, hand, node, disk, want, nap,
                                    closer, delayed, rx, faults, hist, chan, producer>>,
           cl.pc \in {"ackWait", "producerWait"}, cl' = Reply("ERROR"), acks' \subseteq acks,
           ack' \in Acks, ack'.waiting = 0, ack'.serial = ack.serial
    PROVE  ReceiverInv'
<1>1. /\ cl \in Listeners /\ cl' \in Listeners /\ cl'.pc = "poll" /\ cl'.op = cl.op
      /\ cl'.src = cl.src /\ cl'.n = cl.n /\ cl'.reply = "ERROR" /\ cl.n <= cl'.n
  BY ReplyFacts, ReceiverAssumption DEF ReceiverInv, ThreadTypes, Listeners
<1>2. ack'.waiting <= ack'.serial
  BY DEF Acks
<1>3. ThreadTypes' /\ ThreadsOK'
  BY <1>1, <1>2 DEF ReceiverInv, ThreadTypes, ThreadsOK
<1> QED
  BY <1>1, <1>3, ListenerStepKeeps

\* No acknowledgement within five seconds.
LEMMA AckTimeoutKeeps ==
    ASSUME ReceiverInv, AckTimeout
    PROVE  ReceiverInv'
<1>1. ack \in Acks /\ ack' = [ack EXCEPT !.waiting = 0]
  BY DEF AckTimeout, ReceiverInv, ThreadTypes
<1>2. ack' \in Acks /\ ack'.waiting = 0 /\ ack'.serial = ack.serial
  BY <1>1 DEF Acks
<1> QED
  BY <1>2, ErrorKeeps DEF AckTimeout, ioVars

\* No answer of the producer within ten seconds.
LEMMA ProducerTimeoutKeeps ==
    ASSUME ReceiverInv, ProducerTimeout
    PROVE  ReceiverInv'
<1>1. ack \in Acks /\ ack' = ack /\ ack.waiting = 0
  BY DEF ProducerTimeout, ReceiverInv, ThreadTypes, AckOK
<1> QED
  BY <1>1, ErrorKeeps DEF ProducerTimeout, ioVars

\* The listener ends.
LEMMA ListenerEndsKeeps ==
    ASSUME ReceiverInv, ListenerEnds
    PROVE  ReceiverInv'
<1>1. /\ UNCHANGED <<keep_running, proc, main, queue, hand, node, disk, nap, closer, delayed,
                     ack, rx, faults, hist, chan, acks, producer>>
      /\ cl.pc \in {"poll", "put"} /\ cl' = [cl EXCEPT !.pc = "done"] /\ cl \in Listeners
      /\ want' = want \/ want' = [want EXCEPT !["cl"] = NoItem]
      /\ want \in [Threads -> Items \cup {NoItem}]
  BY DEF ListenerEnds, ioVars, ReceiverInv, ThreadTypes
<1>2. /\ cl' \in Listeners /\ cl'.pc = "done" /\ cl'.op = cl.op /\ cl'.src = cl.src
      /\ cl'.n = cl.n /\ cl'.reply = cl.reply
  BY <1>1 DEF Listeners
<1>3. /\ want' \in [Threads -> Items \cup {NoItem}]
      /\ want'["rx"] = want["rx"] /\ want'["closer"] = want["closer"]
  BY <1>1 DEF Threads
<1>4. ThreadTypes' /\ ThreadsOK'
  BY <1>1, <1>2, <1>3 DEF ReceiverInv, ThreadTypes, ThreadsOK
<1>5. ack.waiting = 0 /\ cl.n <= cl'.n
  BY <1>1, <1>2, ReceiverAssumption DEF ReceiverInv, AckOK, Listeners
<1> QED
  BY <1>1, <1>2, <1>4, <1>5, ListenerStepKeeps

\* A command is answered with OK, which was earned.
LEMMA OkKeeps ==
    ASSUME ReceiverInv, UNCHANGED <<keep_running, proc, main, queue, hand, node, disk, want, nap,
                                    closer, delayed, rx, faults, hist, chan, producer>>,
           cl.pc \in {"ackWait", "producerWait"}, cl' = Reply("OK"), acks' \subseteq acks,
           ack' \in Acks, ack'.waiting = 0, ack'.serial = ack.serial,
           cl.pc = "ackWait" => ack.done /\ ack.success,
           cl.pc = "producerWait" => chan[cl.src] = <<>> /\ producer[cl.src] = Told(cl.op)
    PROVE  ReceiverInv'
<1>1. /\ cl \in Listeners /\ cl' \in Listeners /\ cl'.pc = "poll" /\ cl'.op = cl.op
      /\ cl'.src = cl.src /\ cl'.n = cl.n /\ cl'.reply = "OK" /\ cl.n <= cl'.n
  BY ReplyFacts, ReceiverAssumption DEF ReceiverInv, ThreadTypes, Listeners
<1>2. ack'.waiting <= ack'.serial
  BY DEF Acks
<1>3. ThreadTypes' /\ ThreadsOK'
  BY <1>1, <1>2 DEF ReceiverInv, ThreadTypes, ThreadsOK
<1>4. Queued' = Queued /\ Opened' = Opened /\ damaged' = damaged
  BY SameQueues DEF hist
<1>5. NumbersOK' /\ FilesDiffer'
  BY <1>1, <1>3, <1>4, NumbersStep, FilesFrame DEF ReceiverInv
<1>6. CloseIsFresh'
  BY <1>1, <1>4 DEF ReceiverInv, CloseIsFresh
<1>7. /\ cl.pc = "ackWait" => cl.op \in {"OPEN_READY", "CLOSE_READY"}
      /\ cl.pc = "producerWait" => cl.op \in ProducerOps
  BY DEF ReceiverInv, ThreadsOK
<1>8. AckOK'
  <2>1. ASSUME ReadyOK' PROVE cl.pc = "ackWait"
    BY <1>1, <1>7, <2>1 DEF ReadyOK, ProducerOps
  <2>2. cl.pc = "ackWait" => Fulfilled' /\ delayed[cl.src] = NoClose
    <3>1. cl.pc = "ackWait" => Fulfilled /\ delayed[cl.src] = NoClose
      BY DEF ReceiverInv, AckOK
    <3> QED
      BY <1>1, <1>4, <3>1, FulfilledFrame
  <2>3. \A w \in Workers : \A j \in DOMAIN Queued[w] : Queued[w][j].token <= ack.serial
    BY DEF ReceiverInv, AckOK
  <2> QED
    BY <1>1, <1>4, <2>1, <2>2, <2>3 DEF AckOK
<1>9. ClosingOK'
  <2>1. ASSUME NEW s \in Sources, closer.pc = "mark", closer.src = s PROVE Closing(s)'
    <3>1. Closing(s)
      BY <2>1 DEF ReceiverInv, ClosingOK
    <3> QED
      BY <1>4, <3>1, ClosingFrame
  <2>2. cl'.op # "CLOSE"
    BY <1>1, <1>7 DEF ProducerOps
  <2> QED
    BY <2>1, <2>2 DEF ClosingOK
<1>10. DataTypes' /\ DataOK'
  BY DataFrame DEF ReceiverInv
<1>11. ProducerTypes'
  BY DEF ReceiverInv, ProducerTypes
<1>12. ProducerOK'
  <2>1. cl'.op \in ProducerOps => cl.pc = "producerWait"
    BY <1>1, <1>7 DEF ProducerOps
  <2> QED
    BY <1>1, <2>1 DEF ReceiverInv, ProducerOK
<1> QED
  BY <1>3, <1>5, <1>6, <1>8, <1>9, <1>10, <1>11, <1>12 DEF ReceiverInv

\* The worker has answered the command under way, and no other.
LEMMA AckArrivesKeeps ==
    ASSUME ReceiverInv, AckArrives
    PROVE  ReceiverInv'
<1>1. ack \in Acks /\ ack' = [ack EXCEPT !.waiting = 0]
  BY DEF AckArrives, ReceiverInv, ThreadTypes
<1>2. ack' \in Acks /\ ack'.waiting = 0 /\ ack'.serial = ack.serial
  BY <1>1 DEF Acks
<1>3. CASE ack.waiting = cl.token /\ ack.success
  BY <1>2, <1>3, OkKeeps DEF AckArrives, ioVars
<1>4. CASE ~(ack.waiting = cl.token /\ ack.success)
  BY <1>2, <1>4, ErrorKeeps DEF AckArrives, ioVars
<1> QED
  BY <1>3, <1>4

\* An answer of the producer counts only for the command it belongs to.
LEMMA ProducerAnswerKeeps ==
    ASSUME ReceiverInv, NEW a \in acks, ProducerAnswer(a)
    PROVE  ReceiverInv'
<1>1. /\ UNCHANGED <<keep_running, proc, main, queue, hand, node, disk, want, nap,
                     closer, delayed, ack, rx, chan, producer, faults, hist>>
      /\ cl.pc = "producerWait" /\ acks' = acks \ {a}
      /\ cl' = IF IsAnswer(a) THEN Reply(IF a.ok THEN "OK" ELSE "ERROR") ELSE cl
  BY DEF ProducerAnswer
<1>2. ack \in Acks /\ ack.waiting = 0
  BY <1>1 DEF ReceiverInv, ThreadTypes, AckOK
<1>3. CASE IsAnswer(a) /\ a.ok
  <2>1. chan[cl.src] = <<>> /\ producer[cl.src] = Told(cl.op)
    BY <1>1, <1>3 DEF ReceiverInv, ProducerOK, IsAnswer
  <2> QED
    BY <1>1, <1>2, <1>3, <2>1, OkKeeps
<1>4. CASE IsAnswer(a) /\ ~a.ok
  BY <1>1, <1>2, <1>4, ErrorKeeps
<1>5. CASE ~IsAnswer(a)
  <2>1. cl' = cl
    BY <1>1, <1>5
  <2>2. ProducerTypes'
    BY <1>1 DEF ReceiverInv, ProducerTypes
  <2>3. ProducerOK'
    BY <1>1, <2>1 DEF ReceiverInv, ProducerOK
  <2>4. DataTypes' /\ DataOK'
    BY <1>1, DataFrame DEF ReceiverInv
  <2>5. ThreadTypes' /\ ThreadsOK'
    BY <1>1, <2>1, ThreadsFrame DEF ReceiverInv, ThreadTypes
  <2>6. QueueInv'
    BY <1>1, <2>1, SameQueues, QueueFrame DEF ReceiverInv, QueueInv, hist
  <2> QED
    BY <2>2, <2>3, <2>4, <2>5, <2>6 DEF ReceiverInv, QueueInv
<1> QED
  BY <1>3, <1>4, <1>5

\* The delayed-close thread reads its flag and sleeps.
LEMMA CloserMovesKeeps ==
    ASSUME ReceiverInv, CloserLoop \/ CloserSleeps
    PROVE  ReceiverInv'
<1>1. /\ UNCHANGED <<keep_running, proc, main, queue, hand, node, disk, want, nap, cl,
                     delayed, ack, rx, faults, hist, ioVars>>
      /\ closer \in Closers
      /\ \E pc \in {"scan", "asleep", "done"} : closer' = [closer EXCEPT !.pc = pc]
  BY DEF CloserLoop, CloserSleeps, ReceiverInv, ThreadTypes
<1>2. closer' \in Closers /\ closer'.pc \in {"scan", "asleep", "done"}
  BY <1>1 DEF Closers
<1>3. ThreadTypes' /\ ThreadsOK'
  BY <1>1, <1>2 DEF ReceiverInv, ThreadTypes, ThreadsOK
<1> QED
  BY <1>1, <1>2, <1>3, CloserStepKeeps

\* A close that is due is copied; its entry stays.
LEMMA CloserPicksKeeps ==
    ASSUME ReceiverInv, NEW s \in Sources, CloserPicks(s)
    PROVE  ReceiverInv'
<1> DEFINE i == Item("close", s, delayed[s].n, 0, 0)
<1>1. /\ UNCHANGED <<keep_running, proc, main, queue, hand, node, disk, nap, cl,
                     delayed, ack, rx, faults, hist, ioVars>>
      /\ delayed[s].st = "due" /\ closer' = [pc |-> "put", src |-> s]
      /\ want' = [want EXCEPT !["closer"] = i] /\ want \in [Threads -> Items \cup {NoItem}]
      /\ delayed[s].n \in Nat
  BY ReceiverAssumption DEF CloserPicks, ReceiverInv, ThreadTypes, Closes
<1>2. i \in Items
  BY <1>1 DEF Item, Items
<1> HIDE DEF i
<1>3. /\ want' \in [Threads -> Items \cup {NoItem}] /\ want'["closer"] = i
      /\ want'["rx"] = want["rx"] /\ want'["cl"] = want["cl"]
  BY <1>1, <1>2 DEF Threads
<1>4. ThreadTypes'
  BY <1>1, <1>3 DEF ReceiverInv, ThreadTypes, Closers
<1>5. ThreadsOK'
  BY <1>1, <1>3 DEF ReceiverInv, ThreadsOK, i
<1> QED
  BY <1>1, <1>4, <1>5, CloserStepKeeps

\* The delayed-close thread gives up its item.
LEMMA CloserGivesUpKeeps ==
    ASSUME ReceiverInv, CloserGivesUp
    PROVE  ReceiverInv'
<1>1. /\ UNCHANGED <<keep_running, proc, main, queue, hand, node, disk, nap, cl,
                     delayed, ack, rx, faults, hist, ioVars>>
      /\ closer' = [closer EXCEPT !.pc = "done"] /\ closer \in Closers
      /\ want' = [want EXCEPT !["closer"] = NoItem] /\ want \in [Threads -> Items \cup {NoItem}]
  BY DEF CloserGivesUp, ReceiverInv, ThreadTypes
<1>2. /\ want' \in [Threads -> Items \cup {NoItem}]
      /\ want'["rx"] = want["rx"] /\ want'["cl"] = want["cl"]
      /\ closer' \in Closers /\ closer'.pc = "done"
  BY <1>1 DEF Threads, Closers
<1>3. ThreadTypes' /\ ThreadsOK'
  BY <1>1, <1>2 DEF ReceiverInv, ThreadTypes, ThreadsOK
<1> QED
  BY <1>1, <1>2, <1>3, CloserStepKeeps

\* The signal: the thread is awake, or as it was.
LEMMA CloserWoken ==
    ASSUME closer \in Closers,
           closer' = IF closer.pc = "asleep" THEN [closer EXCEPT !.pc = "top"] ELSE closer
    PROVE  closer' \in Closers /\ (closer' = closer \/ closer'.pc = "top")
BY DEF Closers

\* The grace time of a close is over.
LEMMA GraceOverKeeps ==
    ASSUME ReceiverInv, NEW s \in Sources, GraceOver(s)
    PROVE  ReceiverInv'
<1>1. /\ UNCHANGED <<keep_running, proc, main, queue, hand, node, disk, want, nap, cl,
                     ack, rx, faults, hist, ioVars>>
      /\ delayed' = [delayed EXCEPT ![s].st = "due"] /\ delayed[s].st = "waiting"
      /\ delayed \in [Sources -> Closes] /\ closer \in Closers
      /\ closer' = IF closer.pc = "asleep" THEN [closer EXCEPT !.pc = "top"] ELSE closer
  BY DEF GraceOver, ReceiverInv, ThreadTypes
<1>2. closer' \in Closers /\ (closer' = closer \/ closer'.pc = "top")
  BY <1>1, CloserWoken
<1>3. /\ delayed' \in [Sources -> Closes]
      /\ delayed'[s].st = "due" /\ delayed'[s].n = delayed[s].n
      /\ \A r \in Sources : r # s => delayed'[r] = delayed[r]
  BY <1>1 DEF Closes
<1>4. delayed'[s] # NoClose /\ delayed[s] # NoClose
  BY <1>1, <1>3 DEF NoClose
<1>5. \A r \in Sources : /\ delayed'[r].n = delayed[r].n
                         /\ delayed'[r] = NoClose <=> delayed[r] = NoClose
                         /\ delayed[r].st = "due" => delayed'[r].st = "due"
  BY <1>1, <1>3, <1>4
<1>6. ThreadTypes'
  BY <1>1, <1>2, <1>3 DEF ReceiverInv, ThreadTypes
<1>7. ThreadsOK'
  <2>1. \A r \in Sources : delayed'[r].st = "none" <=> delayed'[r] = NoClose
    BY <1>1, <1>3, <1>4 DEF ReceiverInv, ThreadsOK
  <2>2. \A r \in Sources : delayed'[r] # NoClose => delayed'[r].n >= 1
    BY <1>5 DEF ReceiverInv, ThreadsOK
  <2>3. closer'.pc \in {"put", "mark"} =>
           closer' = closer /\ closer.src \in Sources /\ delayed[closer.src].st = "due"
    BY <1>2 DEF ReceiverInv, ThreadsOK
  <2>4. closer'.pc = "put" =>
           want["closer"] = Item("close", closer.src, delayed[closer.src].n, 0, 0)
    BY <1>2 DEF ReceiverInv, ThreadsOK
  <2> QED
    BY <1>1, <1>5, <2>1, <2>2, <2>3, <2>4 DEF ReceiverInv, ThreadsOK
<1> QED
  BY <1>1, <1>2, <1>5, <1>6, <1>7, CloserStepKeeps

\* SIGTERM: the main thread wakes whoever sleeps.
LEMMA WakeAllKeeps ==
    ASSUME ReceiverInv, WakeAll
    PROVE  ReceiverInv'
<1>1. /\ UNCHANGED <<keep_running, proc, queue, hand, node, disk, want, delayed, ack, rx, faults,
                     hist, chan, acks, producer, ioVars>>
      /\ main' = "join" /\ nap' = Woken(Workers) /\ closer \in Closers /\ cl \in Listeners
      /\ closer' = IF closer.pc = "asleep" THEN [closer EXCEPT !.pc = "top"] ELSE closer
      /\ cl' = IF cl.pc = "pendingWait" THEN [cl EXCEPT !.pc = "pending"] ELSE cl
  BY DEF WakeAll, ioVars, ReceiverInv, ThreadTypes
<1>2. closer' \in Closers /\ (closer' = closer \/ closer'.pc = "top")
  BY <1>1, CloserWoken
<1>3. nap' \in [Threads -> {"awake", "going", "asleep"}]
  BY <1>1 DEF Woken, ReceiverInv, ThreadTypes
<1>4. CASE cl.pc = "pendingWait"
  <2>1. /\ cl' \in Listeners /\ cl'.pc = "pending" /\ cl'.op = cl.op /\ cl'.src = cl.src
        /\ cl'.n = cl.n /\ cl'.reply = cl.reply
    BY <1>1, <1>4 DEF Listeners
  <2>2. ThreadTypes'
    BY <1>1, <1>2, <1>3, <2>1 DEF ReceiverInv, ThreadTypes
  <2>3. ThreadsOK'
    BY <1>1, <1>2, <1>4, <2>1 DEF ReceiverInv, ThreadsOK
  <2>4. ack.waiting = 0 /\ cl.n <= cl'.n
    BY <1>1, <1>4, <2>1, ReceiverAssumption DEF ReceiverInv, AckOK, Listeners
  <2> QED
    BY <1>1, <1>2, <1>4, <2>1, <2>2, <2>3, <2>4, ListenerStepKeeps
<1>5. CASE cl.pc # "pendingWait"
  <2>1. cl' = cl
    BY <1>1, <1>5
  <2>2. ThreadTypes'
    BY <1>1, <1>2, <1>3, <2>1 DEF ReceiverInv, ThreadTypes
  <2>3. ThreadsOK'
    BY <1>1, <1>2, <2>1 DEF ReceiverInv, ThreadsOK
  <2> QED
    BY <1>1, <1>2, <2>1, <2>2, <2>3, CloserStepKeeps
<1> QED
  BY <1>4, <1>5

\* The entry is freed once the close is on the queue.
LEMMA CloseQueuedKeeps ==
    ASSUME ReceiverInv, CloseQueued
    PROVE  ReceiverInv'
<1>0. PICK r \in Sources : r = closer.src
  BY DEF ReceiverInv, ThreadsOK, CloseQueued
<1>1. /\ UNCHANGED <<keep_running, proc, main, queue, hand, node, disk, want, nap, ack, rx, faults,
                     hist, chan, acks, producer>>
      /\ closer.pc = "mark" /\ closer' = [pc |-> "top", src |-> NoSource]
      /\ delayed' = [delayed EXCEPT ![r] = NoClose] /\ delayed \in [Sources -> Closes]
      /\ cl' = IF cl.pc = "pendingWait" THEN [cl EXCEPT !.pc = "pending"] ELSE cl
      /\ cl \in Listeners
  BY <1>0 DEF CloseQueued, ioVars, ReceiverInv, ThreadTypes
<1>2. /\ cl' \in Listeners /\ cl'.op = cl.op /\ cl'.src = cl.src /\ cl'.n = cl.n
      /\ cl'.reply = cl.reply
      /\ (cl.pc = "pendingWait" /\ cl'.pc = "pending") \/ (cl.pc # "pendingWait" /\ cl' = cl)
  <2>1. CASE cl.pc = "pendingWait"
    BY <1>1, <2>1 DEF Listeners
  <2>2. CASE cl.pc # "pendingWait"
    BY <1>1, <2>2
  <2> QED
    BY <2>1, <2>2
<1>3. /\ delayed' \in [Sources -> Closes] /\ delayed'[r] = NoClose
      /\ \A s \in Sources : s # r => delayed'[s] = delayed[s]
  <2>1. NoClose \in Closes
    BY ReceiverAssumption DEF NoClose, Closes
  <2> QED
    BY <1>1, <2>1
<1>4. ThreadTypes'
  BY <1>1, <1>2, <1>3 DEF ReceiverInv, ThreadTypes, Closers
<1>5. ThreadsOK'
  <2>1. \A s \in Sources : /\ delayed'[s].st = "none" <=> delayed'[s] = NoClose
                           /\ delayed'[s] # NoClose => delayed'[s].n >= 1
    BY <1>3 DEF ReceiverInv, ThreadsOK, NoClose
  <2> QED
    BY <1>1, <1>2, <2>1 DEF ReceiverInv, ThreadsOK
<1>6. Queued' = Queued /\ Opened' = Opened /\ damaged' = damaged
  BY <1>1, SameQueues DEF hist
<1>7. NumbersOK' /\ FilesDiffer'
  <2>1. cl.n <= cl'.n /\ (cl'.pc \in {"pending", "pendingWait", "put"} =>
                             cl.pc \in {"pending", "pendingWait", "put"})
    BY <1>2, ReceiverAssumption DEF Listeners
  <2>2. \A s \in Sources : delayed'[s].n = delayed[s].n \/ delayed'[s].n = 0
    BY <1>3 DEF NoClose
  <2> QED
    BY <1>4, <1>6, <2>1, <2>2, NumbersStep, FilesFrame DEF ReceiverInv
<1>8. CloseIsFresh'
  <2>1. ASSUME cl'.pc = "put", keep_running' PROVE delayed'[cl'.src] = NoClose
    <3>1. cl' = cl /\ cl.src \in Sources /\ delayed[cl.src] = NoClose
      BY <1>1, <1>2, <2>1 DEF ReceiverInv, ThreadsOK, CloseIsFresh
    <3> QED
      BY <1>3, <3>1
  <2>2. \A s \in Sources : delayed'[s] # NoClose => delayed'[s] = delayed[s]
    BY <1>3
  <2> QED
    BY <1>6, <2>1, <2>2 DEF ReceiverInv, CloseIsFresh
<1>9. AckOK'
  <2>1. AckOK
    BY DEF ReceiverInv
  <2>2. CASE cl.pc = "pendingWait"
    BY <1>1, <1>2, <1>6, <2>1, <2>2 DEF AckOK, ReadyOK
  <2>3. CASE cl' = cl
    <3>1. Fulfilled => Fulfilled'
      BY <1>6, <2>3, FulfilledFrame
    <3>2. ReadyOK' <=> ReadyOK
      BY <2>3 DEF ReadyOK
    <3>3. ASSUME cl.pc = "ackWait" \/ ReadyOK PROVE delayed'[cl.src] = NoClose
      <4>1. cl.src \in Sources /\ delayed[cl.src] = NoClose
        BY <2>1, <3>3 DEF AckOK, ReadyOK, ReceiverInv, ThreadsOK
      <4> QED
        BY <1>3, <4>1
    <3> QED
      BY <1>1, <1>6, <2>1, <2>3, <3>1, <3>2, <3>3 DEF AckOK
  <2> QED
    BY <1>2, <2>2, <2>3
<1>10. ClosingOK'
  <2>1. Closing(r)'
    <3>1. Closing(r)
      BY <1>0, <1>1 DEF ReceiverInv, ClosingOK
    <3> QED
      BY <1>6, <3>1, ClosingFrame
  <2>2. ASSUME NEW s \in Sources, cl'.pc = "poll", cl'.reply = "OK", cl'.op = "CLOSE", cl'.src = s
        PROVE  delayed'[s] # NoClose \/ Closing(s)'
    <3>1. delayed[s] # NoClose \/ Closing(s)
      BY <1>2, <2>2 DEF ReceiverInv, ClosingOK
    <3>2. Closing(s) => Closing(s)'
      BY <1>6, ClosingFrame
    <3> QED
      BY <1>3, <2>1, <3>1, <3>2
  <2> QED
    BY <1>1, <2>2 DEF ClosingOK
<1>11. DataTypes' /\ DataOK'
  <2>1. Scheduled' \subseteq Scheduled
    BY <1>3 DEF Scheduled
  <2>2. IsFiniteSet(Scheduled) /\ Cardinality(Scheduled) <= MaxDelayed
    BY DEF ReceiverInv, DataTypes
  <2>3. /\ IsFiniteSet(Scheduled') /\ Cardinality(Scheduled') <= Cardinality(Scheduled)
        /\ Cardinality(Scheduled') \in Nat /\ Cardinality(Scheduled) \in Nat
    BY <2>1, <2>2, FS_Subset, FS_CardinalityType
  <2>4. Cardinality(Scheduled') <= MaxDelayed
    BY <2>2, <2>3, ReceiverAssumption
  <2> QED
    BY <1>1, <2>3, <2>4 DEF ReceiverInv, DataTypes, DataOK, hist
<1>12. ProducerTypes' /\ ProducerOK'
  BY <1>1, <1>2 DEF ReceiverInv, ProducerTypes, ProducerOK
<1> QED
  BY <1>4, <1>5, <1>7, <1>8, <1>9, <1>10, <1>11, <1>12 DEF ReceiverInv

\* What a publication does to the channel of its source.
LEMMA ChannelPut ==
    ASSUME ProducerTypes, NEW s \in Sources, NEW p \in Publications,
           chan' = [chan EXCEPT ![s] = Append(@, p)]
    PROVE  /\ chan' \in [Sources -> Seq(Publications)]
           /\ \A r \in Sources : r # s => chan'[r] = chan[r]
           /\ \A j \in DOMAIN chan'[s] :
                 \/ j \in DOMAIN chan[s] /\ chan'[s][j] = chan[s][j]
                 \/ j = Len(chan'[s]) /\ chan'[s][j] = p
<1> DEFINE q == chan[s]
           a == Append(q, p)
<1>1. chan \in [Sources -> Seq(Publications)] /\ q \in Seq(Publications)
  BY DEF ProducerTypes
<1>2. /\ chan'[s] = a
      /\ \A r \in Sources : r # s => chan'[r] = chan[r]
  BY <1>1
<1> HIDE DEF q
<1>3. /\ a \in Seq(Publications) /\ Len(a) = Len(q) + 1
      /\ \A j \in 1..Len(q) : a[j] = q[j]
      /\ a[Len(q) + 1] = p
  BY <1>1, AppendProperties
<1> HIDE DEF a
<1>4. Len(q) \in Nat /\ DOMAIN q = 1..Len(q) /\ DOMAIN a = 1..(Len(q) + 1)
  BY <1>1, <1>3, LenProperties
<1>5. ASSUME NEW j \in DOMAIN a
      PROVE  (j \in DOMAIN q /\ a[j] = q[j]) \/ (j = Len(a) /\ a[j] = p)
  <2>1. j \in 1..Len(q) \/ j = Len(q) + 1
    BY <1>4
  <2> QED
    BY <1>3, <1>4, <2>1
<1> QED
  BY <1>1, <1>2, <1>3, <1>5 DEF q

\* A command is taken that goes to the producer: the numbers on the channels.
LEMMA PublishedNumbers ==
    ASSUME ReceiverInv, NEW s \in Sources, NEW p \in Publications,
           chan' = [chan EXCEPT ![s] = Append(@, p)], acks' = acks, cl.n \in Nat,
           cl'.n = cl.n + 1, p.n <= cl'.n
    PROVE  /\ \A a \in acks' : a.n <= cl.n /\ a.n <= cl'.n /\ a.n # cl'.n
           /\ \A r \in Sources : \A j \in DOMAIN chan'[r] : chan'[r][j].n <= cl'.n
           /\ \A j \in DOMAIN chan'[s] : chan'[s][j].n = cl'.n =>
                 j = Len(chan'[s]) /\ chan'[s][j] = p
<1>1. /\ ProducerTypes /\ ProducerOK
  BY DEF ReceiverInv
<1>2. /\ \A r \in Sources : r # s => chan'[r] = chan[r]
      /\ \A j \in DOMAIN chan'[s] :
            \/ j \in DOMAIN chan[s] /\ chan'[s][j] = chan[s][j]
            \/ j = Len(chan'[s]) /\ chan'[s][j] = p
  BY <1>1, ChannelPut
<1>3. ASSUME NEW r \in Sources, NEW j \in DOMAIN chan[r]
      PROVE  chan[r][j].n <= cl'.n /\ chan[r][j].n # cl'.n
  <2>1. chan[r] \in Seq(Publications)
    BY <1>1 DEF ProducerTypes
  <2>2. chan[r][j] \in Publications
    BY <2>1, Elements
  <2>3. chan[r][j].n \in Nat /\ chan[r][j].n <= cl.n
    BY <1>1, <2>2, ReceiverAssumption DEF ProducerOK, Publications
  <2> QED
    BY <2>3
<1>4. ASSUME NEW a \in acks PROVE a.n <= cl.n /\ a.n <= cl'.n /\ a.n # cl'.n
  <2>1. a.n \in Nat /\ a.n <= cl.n
    BY <1>1, ReceiverAssumption DEF ProducerOK, ProducerTypes, Answers
  <2> QED
    BY <2>1
<1>5. ASSUME NEW r \in Sources, NEW j \in DOMAIN chan'[r] PROVE chan'[r][j].n <= cl'.n
  <2>1. CASE r = s
    BY <1>2, <1>3, <2>1
  <2>2. CASE r # s
    BY <1>2, <1>3, <2>2
  <2> QED
    BY <2>1, <2>2
<1>6. ASSUME NEW j \in DOMAIN chan'[s], chan'[s][j].n = cl'.n
      PROVE  j = Len(chan'[s]) /\ chan'[s][j] = p
  BY <1>2, <1>3, <1>6
<1> QED
  BY <1>4, <1>5, <1>6

\* A producer command is taken and published.
LEMMA ProducerCommandKeeps ==
    ASSUME ReceiverInv, NEW s \in Sources, NEW op \in ProducerOps, ProducerCommand(op, s)
    PROVE  ReceiverInv'
<1> DEFINE p == [cmd |-> op, n |-> cl.n + 1]
<1>1. /\ UNCHANGED <<keep_running, proc, main, queue, hand, node, disk, want, nap, closer, delayed,
                     ack, rx, faults, hist, acks, producer>>
      /\ cl.pc = "poll" /\ cl.n < MaxCommands
      /\ cl' = [pc |-> "producerWait", op |-> op, src |-> s, n |-> cl.n + 1, token |-> 0,
                reply |-> "none"]
      /\ chan' = [chan EXCEPT ![s] = Append(@, p)]
  BY DEF ProducerCommand, Accepted, Publish
<1>2. cl.n \in Nat /\ cl.n + 1 \in 0..MaxCommands /\ cl.n <= cl.n + 1 /\ cl.n + 1 >= 1
  BY <1>1, ReceiverAssumption DEF ReceiverInv, ThreadTypes, Listeners
<1>3. cl' \in Listeners
  BY <1>1, <1>2 DEF Listeners
<1>4. p \in Publications /\ p.n = cl.n + 1 /\ p.cmd = op
  BY <1>2 DEF Publications
<1>5. cl'.n = cl.n + 1 /\ p.n <= cl'.n
  BY <1>1, <1>2, <1>4
<1> HIDE DEF p
<1>6. ThreadTypes'
  BY <1>1, <1>3 DEF ReceiverInv, ThreadTypes
<1>7. ThreadsOK'
  BY <1>1, <1>2 DEF ReceiverInv, ThreadsOK
<1>8. Queued' = Queued /\ Opened' = Opened
  BY <1>1, SameQueues
<1>9. NumbersOK' /\ FilesDiffer'
  BY <1>1, <1>2, <1>6, <1>8, NumbersStep, FilesFrame DEF ReceiverInv
<1>10. CloseIsFresh'
  BY <1>1, <1>8 DEF ReceiverInv, CloseIsFresh
<1>11. AckOK'
  <2>1. AckOK
    BY DEF ReceiverInv
  <2> QED
    BY <1>1, <1>8, <2>1 DEF AckOK, ReadyOK
<1>12. ClosingOK'
  <2>1. ASSUME NEW r \in Sources, Closing(r) PROVE Closing(r)'
    BY <1>8, <2>1, ClosingFrame
  <2> QED
    BY <1>1, <2>1 DEF ReceiverInv, ClosingOK
<1>13. DataTypes' /\ DataOK'
  BY <1>1, DataFrame DEF ReceiverInv
<1>14. ProducerTypes'
  BY <1>1, <1>4, ChannelPut DEF ReceiverInv, ProducerTypes
<1>15. ProducerOK'
  <2>1. /\ \A a \in acks' : a.n <= cl'.n /\ a.n # cl'.n
        /\ \A r \in Sources : \A j \in DOMAIN chan'[r] : chan'[r][j].n <= cl'.n
        /\ \A j \in DOMAIN chan'[s] : chan'[s][j].n = cl'.n =>
              j = Len(chan'[s]) /\ chan'[s][j] = p
    BY <1>1, <1>2, <1>4, <1>5, PublishedNumbers
  <2>2. cl'.pc = "producerWait" /\ cl'.src = s /\ cl'.op = op
    BY <1>1
  <2> QED
    BY <1>4, <2>1, <2>2 DEF ProducerOK
<1> QED
  BY <1>6, <1>7, <1>9, <1>10, <1>11, <1>12, <1>13, <1>14, <1>15 DEF ReceiverInv

\* A close is scheduled: merged with a pending one, refused, or the newest
\* command of its source.
LEMMA CloseCommandKeeps ==
    ASSUME ReceiverInv, NEW s \in Sources, CloseCommand(s)
    PROVE  ReceiverInv'
<1> DEFINE full == s \notin Scheduled /\ Cardinality(Scheduled) >= MaxDelayed
           reply == IF full THEN "ERROR" ELSE "OK"
           p == [cmd |-> "stop", n |-> 0]
           new == [st |-> "waiting", n |-> cl.n + 1]
<1>1. /\ UNCHANGED <<keep_running, proc, main, queue, hand, node, disk, want, nap,
                     ack, rx, faults, hist, acks, producer>>
      /\ cl.pc = "poll" /\ cl.n < MaxCommands
      /\ cl' = [pc |-> "poll", op |-> "CLOSE", src |-> s, n |-> cl.n + 1, token |-> 0,
                reply |-> reply]
      /\ chan' = [chan EXCEPT ![s] = Append(@, p)]
  BY DEF CloseCommand, Accepted, Publish, Scheduled
<1>2. \/ /\ s \in Scheduled \/ full
         /\ UNCHANGED <<delayed, closer>>
      \/ /\ s \notin Scheduled /\ ~full
         /\ delayed' = [delayed EXCEPT ![s] = new]
         /\ closer' = IF closer.pc = "asleep" THEN [closer EXCEPT !.pc = "top"] ELSE closer
  BY DEF CloseCommand, Scheduled
<1>3. cl.n \in Nat /\ cl.n + 1 \in 0..MaxCommands /\ cl.n <= cl.n + 1 /\ cl.n + 1 >= 1
  BY <1>1, ReceiverAssumption DEF ReceiverInv, ThreadTypes, Listeners
<1>4. /\ cl' \in Listeners /\ cl'.pc = "poll" /\ cl'.op = "CLOSE" /\ cl'.src = s
      /\ cl'.n = cl.n + 1 /\ cl'.reply = reply /\ cl.n <= cl'.n
  BY <1>1, <1>3 DEF Listeners
<1>5. p \in Publications /\ p.n = 0 /\ p.n <= cl'.n
  BY <1>3, <1>4, ReceiverAssumption DEF Publications
<1>6. new \in Closes /\ new.st = "waiting" /\ new.n = cl.n + 1 /\ new # NoClose
  BY <1>3 DEF Closes, NoClose
<1>7. closer \in Closers /\ delayed \in [Sources -> Closes]
  BY DEF ReceiverInv, ThreadTypes
<1>8. closer' \in Closers /\ (closer' = closer \/ closer'.pc = "top")
  <2>1. CASE closer' = closer
    BY <1>7, <2>1
  <2>2. CASE closer' # closer
    BY <1>2, <1>7, <2>2, CloserWoken
  <2> QED
    BY <2>1, <2>2
<1> HIDE DEF p, new
<1>9. /\ delayed' \in [Sources -> Closes]
      /\ \A r \in Sources : \/ delayed'[r] = delayed[r]
                            \/ r = s /\ delayed[r] = NoClose /\ delayed'[r] = new /\ ~full
  BY <1>2, <1>6, <1>7 DEF Scheduled
<1>10. reply = "OK" => delayed'[s] # NoClose
  BY <1>2, <1>6, <1>7 DEF Scheduled
<1>11. IsFiniteSet(Scheduled') /\ Cardinality(Scheduled') <= MaxDelayed
  <2>1. IsFiniteSet(Scheduled) /\ Cardinality(Scheduled) <= MaxDelayed
    BY DEF ReceiverInv, DataTypes
  <2>2. Cardinality(Scheduled) \in Nat
    BY <2>1, FS_CardinalityType
  <2>3. CASE s \in Scheduled \/ full
    <3>1. Scheduled' = Scheduled
      BY <1>2, <2>3 DEF Scheduled
    <3> QED
      BY <2>1, <3>1
  <2>4. CASE s \notin Scheduled /\ ~full
    <3>1. Scheduled' = Scheduled \cup {s}
      BY <1>2, <1>6, <1>7, <2>4 DEF Scheduled
    <3>2. /\ IsFiniteSet(Scheduled \cup {s})
          /\ Cardinality(Scheduled \cup {s}) = Cardinality(Scheduled) + 1
      BY <2>1, <2>4, FS_AddElement
    <3>3. Cardinality(Scheduled) + 1 <= MaxDelayed
      BY <2>2, <2>4, ReceiverAssumption
    <3> QED
      BY <3>1, <3>2, <3>3
  <2> QED
    BY <2>3, <2>4
<1> HIDE DEF full, reply
<1>12. ThreadTypes'
  BY <1>1, <1>4, <1>8, <1>9 DEF ReceiverInv, ThreadTypes
<1>13. ThreadsOK'
  <2>1. \A r \in Sources : /\ delayed'[r].st = "none" <=> delayed'[r] = NoClose
                           /\ delayed'[r] # NoClose => delayed'[r].n >= 1
    BY <1>3, <1>6, <1>9 DEF ReceiverInv, ThreadsOK
  <2>2. ASSUME closer'.pc \in {"put", "mark"}
        PROVE  /\ closer' = closer /\ closer.src \in Sources
               /\ delayed[closer.src].st = "due" /\ delayed'[closer.src] = delayed[closer.src]
    <3>1. closer' = closer /\ closer.src \in Sources /\ delayed[closer.src].st = "due"
      BY <1>8, <2>2 DEF ReceiverInv, ThreadsOK
    <3>2. delayed[closer.src] # NoClose
      BY <3>1 DEF NoClose
    <3> QED
      BY <1>9, <3>1, <3>2
  <2>3. closer'.pc = "put" =>
           want["closer"] = Item("close", closer.src, delayed[closer.src].n, 0, 0)
    BY <1>8 DEF ReceiverInv, ThreadsOK
  <2> QED
    BY <1>1, <1>3, <1>4, <2>1, <2>2, <2>3 DEF ReceiverInv, ThreadsOK
<1>14. Queued' = Queued /\ Opened' = Opened
  BY <1>1, SameQueues
<1>15. NumbersOK' /\ FilesDiffer'
  <2>1. ASSUME NEW r \in Sources PROVE delayed'[r].n = delayed[r].n \/ delayed'[r].n <= cl'.n
    BY <1>3, <1>4, <1>6, <1>9
  <2> QED
    BY <1>4, <1>12, <1>14, <2>1, NumbersStep, FilesFrame DEF ReceiverInv
<1>16. CloseIsFresh'
  <2>1. ASSUME NEW r \in Sources, delayed'[r] # NoClose
        PROVE  /\ Opened[r] <= delayed'[r].n
               /\ \A j \in DOMAIN Queued[WorkerOf[r]] :
                     LET i == Queued[WorkerOf[r]][j] IN
                     i.type = "open" /\ i.src = r => i.n < delayed'[r].n
    <3>1. CASE delayed'[r] = delayed[r]
      BY <2>1, <3>1 DEF ReceiverInv, CloseIsFresh
    <3>2. CASE delayed'[r] = new
      <4>1. Opened[r] \in Nat /\ Opened[r] <= cl.n
        BY ReceiverAssumption DEF ReceiverInv, NumbersOK, Opened, DataTypes, Nodes
      <4>2. ASSUME NEW j \in DOMAIN Queued[WorkerOf[r]], Queued[WorkerOf[r]][j].type = "open"
            PROVE  Queued[WorkerOf[r]][j].n < cl.n + 1
        <5>1. WorkerOf[r] \in Workers /\ DataTypes
          BY ReceiverAssumption DEF ReceiverInv
        <5>2. Queued[WorkerOf[r]][j].n \in Nat
          BY <5>1, QueuedType DEF Items
        <5>3. Queued[WorkerOf[r]][j].n <= cl.n
          BY <4>2, <5>1 DEF ReceiverInv, NumbersOK
        <5> QED
          BY <1>3, <5>2, <5>3
      <4> QED
        BY <1>3, <1>6, <3>2, <4>1, <4>2
    <3> QED
      BY <1>9, <3>1, <3>2
  <2> QED
    BY <1>4, <1>14, <2>1 DEF ReceiverInv, CloseIsFresh
<1>17. AckOK'
  <2>1. AckOK
    BY DEF ReceiverInv
  <2> QED
    BY <1>1, <1>4, <1>14, <2>1 DEF AckOK, ReadyOK
<1>18. ClosingOK'
  <2>1. ASSUME NEW r \in Sources, closer'.pc = "mark", closer'.src = r PROVE Closing(r)'
    <3>1. Closing(r)
      BY <1>8, <2>1 DEF ReceiverInv, ClosingOK
    <3> QED
      BY <1>14, <3>1, ClosingFrame
  <2> QED
    BY <1>4, <1>10, <2>1 DEF ClosingOK
<1>19. DataTypes' /\ DataOK'
  BY <1>1, <1>11 DEF ReceiverInv, DataTypes, DataOK, hist
<1>20. ProducerTypes'
  BY <1>1, <1>5, ChannelPut DEF ReceiverInv, ProducerTypes
<1>21. ProducerOK'
  <2>1. /\ \A a \in acks' : a.n <= cl'.n
        /\ \A r \in Sources : \A j \in DOMAIN chan'[r] : chan'[r][j].n <= cl'.n
    BY <1>1, <1>3, <1>4, <1>5, PublishedNumbers
  <2> QED
    BY <1>4, <2>1 DEF ProducerOK, ProducerOps
<1> QED
  BY <1>12, <1>13, <1>15, <1>16, <1>17, <1>18, <1>19, <1>20, <1>21 DEF ReceiverInv

-----------------------------------------------------------------------------
(* The invariant *)

\* No command, no item, no file.
LEMMA InitInv ==
    ASSUME Init
    PROVE  ReceiverInv
<1>1. ThreadTypes
  BY ReceiverAssumption DEF Init, ThreadTypes, Listeners, Closers, Closes, Acks, NoClose
<1>2. /\ Queued = [w \in Workers |-> <<>>]
  BY DEF Init, Queued
<1>3. \A w \in Workers : DOMAIN Queued[w] = {}
  <2>1. DOMAIN <<>> = {}
    OBVIOUS
  <2> QED
    BY <1>2, <2>1
<1>4. \A s \in Sources : node[s].file = 0 /\ node[s].buf = <<>> /\ Opened[s] = 0 /\ delayed[s] = NoClose
  BY DEF Init, NoNode, Opened
<1>5. DataTypes
  <2>1. Scheduled = {}
    BY <1>4 DEF Scheduled
  <2>2. IsFiniteSet(Scheduled) /\ Cardinality(Scheduled) = 0
    BY <2>1, FS_EmptySet
  <2>3. \A w \in Workers : Len(queue[w]) = 0 /\ Len(hand[w]) = 0
    BY DEF Init
  <2>4. node \in [Sources -> Nodes]
    BY ReceiverAssumption DEF Init, NoNode, Nodes
  <2>5. Cardinality(Scheduled) <= MaxDelayed
    BY <2>2, ReceiverAssumption
  <2>6. \A w \in Workers : Len(queue[w]) <= QueueSize /\ Len(hand[w]) <= ProcessBatch
    BY <2>3, ReceiverAssumption
  <2> QED
    BY <2>2, <2>4, <2>5, <2>6 DEF Init, DataTypes
<1>6. ProducerTypes /\ ProducerOK
  <2>1. DOMAIN <<>> = {}
    OBVIOUS
  <2> QED
    BY <2>1 DEF Init, ProducerTypes, ProducerOK
<1>7. ThreadsOK
  BY <1>4 DEF Init, ThreadsOK, NoClose, Threads
<1>8. NumbersOK /\ FilesDiffer /\ CloseIsFresh
  <2>1. \A s \in Sources : WorkerOf[s] \in Workers
    BY ReceiverAssumption
  <2>2. cl.pc = "poll" /\ cl.n = 0
    BY DEF Init
  <2> QED
    BY <1>3, <1>4, <2>1, <2>2 DEF NumbersOK, FilesDiffer, CloseIsFresh, NoClose
<1>9. AckOK /\ ClosingOK
  BY <1>3 DEF Init, AckOK, ReadyOK, ClosingOK
<1>10. DataOK
  BY <1>4 DEF Init, DataOK
<1> QED
  BY <1>1, <1>5, <1>6, <1>7, <1>8, <1>9, <1>10 DEF ReceiverInv

\* One case per thread of the process.
LEMMA StepInv ==
    ASSUME ReceiverInv, [Next]_vars
    PROVE  ReceiverInv'
<1>1. CASE ListenerStep
  <2>0. "cl" \in Threads
    BY DEF Threads
  <2> QED
    BY <1>1, <2>0, FileCommandKeeps, ProducerCommandKeeps, CloseCommandKeeps, NoPendingCloseKeeps,
       PendingCloseKeeps, QueueCommandKeeps, AckArrivesKeeps, AckTimeoutKeeps,
       ProducerTimeoutKeeps, ListenerEndsKeeps, ProducerAnswerKeeps, WaitKeeps DEF ListenerStep
<1>2. CASE CloserStep
  <2>0. "closer" \in Threads
    BY DEF Threads
  <2> QED
    BY <1>2, <2>0, CloserMovesKeeps, QueueCloseKeeps, CloseQueuedKeeps, CloserGivesUpKeeps,
       CloserPicksKeeps, WaitKeeps DEF CloserStep
<1>3. CASE ReceiverStep
  <2>0. "rx" \in Threads
    BY DEF Threads
  <2> QED
    BY <1>3, <2>0, QueuePacketKeeps, DropPacketKeeps, WaitKeeps DEF ReceiverStep
<1>4. ASSUME NEW w \in Workers, WorkerStep(w) PROVE ReceiverInv'
  BY <1>4, TakeItemsKeeps, OpenFileKeeps, CloseWorkerFileKeeps, DiscardKeeps, SkipEventKeeps,
     StoreEventKeeps, WorkerEndsKeeps DEF WorkerStep
<1>5. ASSUME NEW s \in Sources, NEW k \in PacketSizes, Packet(s, k) PROVE ReceiverInv'
  BY <1>5, PacketKeeps
<1>6. ASSUME NEW s \in Sources, GraceOver(s) \/ ProducerExecutes(s) \/ PublicationLost(s)
      PROVE  ReceiverInv'
  BY <1>6, GraceOverKeeps, ProducerExecutesKeeps
<1>7. CASE Terminate \/ WakeAll \/ JoinAll \/ Kill
  BY <1>7, WakeAllKeeps, EndKeeps
<1>9. CASE (\E s \in Sources : WrongSizePacket(s)) \/ FramesEnd
  BY <1>9, FramesKeep
<1>8. CASE UNCHANGED vars
  <2>1. ThreadTypes' /\ ThreadsOK'
    BY <1>8, ThreadsFrame DEF vars, ReceiverInv, ThreadTypes
  <2> QED
    BY <1>8, <2>1, QuietStep DEF vars, hist, ioVars
<1> QED
  BY <1>1, <1>2, <1>3, <1>4, <1>5, <1>6, <1>7, <1>8, <1>9 DEF Next

\* evreceiver keeps the invariant: what each thread holds, the order of the items
\* on the queues, the one acknowledgement that is waited for and the contents of
\* the files, in every reachable state.
THEOREM Invariance == Spec => []ReceiverInv
BY InitInv, StepInv, PTL DEF Spec

\* The items of a source are those of its worker.
LEMMA PendingIsQueued ==
    ASSUME NEW s \in Sources
    PROVE  WorkerOf[s] \in Workers /\ Pending(WorkerOf[s]) = Queued[WorkerOf[s]]
BY ReceiverAssumption DEF Pending, Queued

\* The queues stay within QUEUE_SIZE, the table of delayed closes within
\* MAX_DELAYED_CLOSES, and no close on its way reaches the file of a later run,
\* however the threads interleave.
THEOREM QueuesAreConsistent == Spec => []QueuesConsistent
<1>1. ReceiverInv => TypeOK
  <2> SUFFICES ASSUME ReceiverInv PROVE TypeOK
    OBVIOUS
  <2>1. ASSUME NEW w \in Workers
        PROVE  /\ Len(queue[w]) <= QueueSize /\ Len(hand[w]) <= ProcessBatch
               /\ \A j \in DOMAIN queue[w] : queue[w][j] \in Items
               /\ \A j \in DOMAIN hand[w] : hand[w][j] \in Items
    <3>1. /\ queue[w] \in Seq(Items) /\ hand[w] \in Seq(Items)
          /\ Len(queue[w]) <= QueueSize /\ Len(hand[w]) <= ProcessBatch
      BY DEF ReceiverInv, DataTypes
    <3> QED
      BY <3>1, Elements
  <2>2. \A s \in Sources : node[s].file \in 0..MaxCommands /\ node[s].err \in BOOLEAN
    BY DEF ReceiverInv, DataTypes, Nodes
  <2>3. cl \in Listeners /\ closer \in Closers /\ ack \in Acks /\ ack.waiting <= ack.serial
    BY DEF ReceiverInv, ThreadTypes
  <2>4. /\ cl.pc \in {"poll", "pending", "pendingWait", "put", "ackWait", "producerWait", "done"}
        /\ closer.pc \in {"top", "scan", "asleep", "put", "mark", "done"}
    BY <2>3 DEF Listeners, Closers
  <2>5. ack.waiting \in 0..ack.serial
    BY <2>3 DEF Acks
  <2>6. Cardinality({s \in Sources : delayed[s] # NoClose}) <= MaxDelayed
    BY DEF ReceiverInv, DataTypes, Scheduled
  <2>7. \A t \in Threads : want[t] \in Items \cup {NoItem} /\ nap[t] \in {"awake", "going", "asleep"}
    BY DEF ReceiverInv, ThreadTypes
  <2> QED
    BY <2>1, <2>2, <2>4, <2>5, <2>6, <2>7 DEF ReceiverInv, ThreadTypes, TypeOK
<1>2. ReceiverInv => NoStaleClose
  <2> SUFFICES ASSUME ReceiverInv, NEW s \in Sources
               PROVE  LET q == Queued[WorkerOf[s]] IN
                      /\ \A j \in DOMAIN q : (q[j].type = "close" /\ q[j].src = s) =>
                            /\ node[s].file <= q[j].n
                            /\ \A i \in 1..(j - 1) :
                                  (q[i].type = "open" /\ q[i].src = s) => q[i].n < q[j].n
                      /\ delayed[s] # NoClose =>
                            /\ node[s].file <= delayed[s].n
                            /\ \A i \in DOMAIN q :
                                  (q[i].type = "open" /\ q[i].src = s) => q[i].n < delayed[s].n
    BY PendingIsQueued DEF NoStaleClose
  <2> DEFINE q == Queued[WorkerOf[s]]
  <2>1. q \in Seq(Items)
    BY PendingIsQueued, QueuedType DEF ReceiverInv
  <2>2. Opened[s] = node[s].file
    BY DEF Opened
  <2>3. ASSUME NEW j \in DOMAIN q, q[j].type = "close", q[j].src = s
        PROVE  /\ Opened[s] <= q[j].n
               /\ \A i \in DOMAIN q : i < j /\ q[i].type = "open" /\ q[i].src = s => q[i].n < q[j].n
    BY <2>3 DEF ReceiverInv, CloseIsFresh
  <2>4. delayed[s] # NoClose =>
           /\ Opened[s] <= delayed[s].n
           /\ \A i \in DOMAIN q : q[i].type = "open" /\ q[i].src = s => q[i].n < delayed[s].n
    BY DEF ReceiverInv, CloseIsFresh
  <2> HIDE DEF q
  <2>5. ASSUME NEW j \in DOMAIN q, NEW i \in 1..(j - 1) PROVE i \in DOMAIN q /\ i < j
    <3>1. Len(q) \in Nat /\ DOMAIN q = 1..Len(q)
      BY <2>1, LenProperties
    <3>2. j \in 1..Len(q)
      BY <3>1
    <3>3. i \in 1..Len(q) /\ i < j
      BY <3>1, <3>2
    <3> QED
      BY <3>1, <3>3
  <2> QED
    BY <2>2, <2>3, <2>4, <2>5 DEF q
<1>3. ReceiverInv => QueuesConsistent
  BY <1>1, <1>2 DEF QueuesConsistent
<1> QED
  BY <1>3, Invariance, PTL

-----------------------------------------------------------------------------
(* The buffer of a source without a file *)

\* While no disk has failed, only the packet at the head of a hand is begun, the
\* file of its source is open, and the buffer of a source without a file is empty.
BufferOK ==
    damaged = {} =>
        /\ \A t \in Threads : want[t] # NoItem => ~want[t].begun
        /\ \A w \in Workers : \A j \in DOMAIN queue[w] : ~queue[w][j].begun
        /\ \A w \in Workers : \A j \in DOMAIN hand[w] :
              hand[w][j].begun => j = 1 /\ node[hand[w][j].src].file # 0
        /\ \A s \in Sources : node[s].file = 0 => node[s].buf = <<>>

\* A step that touches no queue and no file, and makes no item that is begun.
LEMMA BufferQuiet ==
    ASSUME BufferOK, UNCHANGED <<queue, hand, node, damaged>>,
           \A t \in Threads : want'[t] \in {want[t], NoItem} \/ ~want'[t].begun
    PROVE  BufferOK'
BY DEF BufferOK

\* A new item is not begun.
LEMMA ItemIsNew ==
    ASSUME NEW type, NEW s, NEW n, NEW token, NEW left, NEW t \in Threads,
           want \in [Threads -> Items \cup {NoItem}],
           want' = [want EXCEPT ![t] = Item(type, s, n, token, left)]
    PROVE  \A u \in Threads : want'[u] \in {want[u], NoItem} \/ ~want'[u].begun
BY DEF Item

\* Nor is one that was given up.
LEMMA ItemIsGone ==
    ASSUME NEW t \in Threads, want \in [Threads -> Items \cup {NoItem}],
           want' = [want EXCEPT ![t] = NoItem]
    PROVE  \A u \in Threads : want'[u] \in {want[u], NoItem}
OBVIOUS

\* An item joins a queue.
LEMMA BufferPut ==
    ASSUME ReceiverInv, BufferOK, NEW w \in Workers, NEW item \in Items, NEW t \in Threads,
           damaged = {} => ~item.begun,
           queue' = [queue EXCEPT ![w] = Append(@, item)], want' = [want EXCEPT ![t] = NoItem],
           UNCHANGED <<hand, node, damaged>>
    PROVE  BufferOK'
<1> SUFFICES ASSUME damaged = {} PROVE BufferOK'
  BY DEF BufferOK
<1>1. want \in [Threads -> Items \cup {NoItem}] /\ queue \in [Workers -> Seq(Items)]
  BY DEF ReceiverInv, ThreadTypes, DataTypes
<1>2. \A u \in Threads : want'[u] \in {want[u], NoItem}
  BY <1>1, ItemIsGone
<1>3. ASSUME NEW v \in Workers, NEW j \in DOMAIN queue'[v] PROVE ~queue'[v][j].begun
  <2>1. CASE v # w
    BY <1>1, <1>3, <2>1 DEF BufferOK
  <2>2. CASE v = w
    <3>1. queue[w] \in Seq(Items) /\ queue'[v] = Append(queue[w], item)
      BY <1>1, <2>2
    <3>2. /\ Len(queue[w]) \in Nat /\ DOMAIN queue[w] = 1..Len(queue[w])
          /\ DOMAIN Append(queue[w], item) = 1..(Len(queue[w]) + 1)
      BY <3>1
    <3>3. /\ Append(queue[w], item)[Len(queue[w]) + 1] = item
          /\ \A k \in 1..Len(queue[w]) : Append(queue[w], item)[k] = queue[w][k]
      BY <3>1, AppendProperties
    <3>4. j = Len(queue[w]) + 1 \/ j \in DOMAIN queue[w]
      BY <1>3, <3>1, <3>2
    <3> QED
      BY <3>1, <3>2, <3>3, <3>4 DEF BufferOK
  <2> QED
    BY <2>1, <2>2
<1> QED
  BY <1>2, <1>3 DEF BufferOK

\* The items in a hand are of sources of this worker.
LEMMA HandOwned ==
    ASSUME ReceiverInv, NEW w \in Workers, NEW j \in DOMAIN hand[w]
    PROVE  hand[w][j] \in Items /\ hand[w][j].src \in Sources /\ WorkerOf[hand[w][j].src] = w
<1>1. hand[w] \in Seq(Items) /\ queue[w] \in Seq(Items)
  BY DEF ReceiverInv, DataTypes
<1>2. j \in Nat /\ j >= 1 /\ j <= Len(hand[w]) /\ hand[w][j] \in Items
  BY <1>1, Elements
<1>3. Len(hand[w]) \in Nat /\ Len(queue[w]) \in Nat
  BY <1>1
<1>4. /\ Len(hand[w] \o queue[w]) = Len(hand[w]) + Len(queue[w])
      /\ hand[w] \o queue[w] \in Seq(Items)
      /\ \A i \in 1..Len(hand[w]) + Len(queue[w]) :
            (hand[w] \o queue[w])[i] = IF i <= Len(hand[w]) THEN hand[w][i]
                                       ELSE queue[w][i - Len(hand[w])]
  BY <1>1, ConcatProperties
<1>5. j \in 1..Len(hand[w]) + Len(queue[w])
  <2>1. ASSUME NEW a \in Nat, NEW b \in Nat, NEW k \in Nat, k >= 1, k <= a PROVE k \in 1..(a + b)
    BY <2>1
  <2> DEFINE a == Len(hand[w])
             b == Len(queue[w])
  <2>2. a \in Nat /\ b \in Nat /\ j \in Nat /\ j >= 1 /\ j <= a
    BY <1>2, <1>3
  <2> HIDE DEF a, b
  <2>3. j \in 1..(a + b)
    BY <2>1, <2>2
  <2> QED
    BY <2>3 DEF a, b
<1>6. Queued[w] = hand[w] \o queue[w]
  BY DEF Queued
<1>7. j \in DOMAIN Queued[w] /\ Queued[w][j] = hand[w][j]
  BY <1>2, <1>4, <1>5, <1>6, LenProperties
<1> QED
  BY <1>2, <1>7 DEF ReceiverInv, NumbersOK, Items

\* A worker handles the item at the head of its hand.
LEMMA BufferHandled ==
    ASSUME ReceiverInv, BufferOK, NEW w \in Workers, NEW s \in Sources, WorkerOf[s] = w,
           UNCHANGED <<queue, want, damaged>>, NEW h \in Seq(Items),
           hand' = [hand EXCEPT ![w] = h],
           \A r \in Sources : r # s => node'[r] = node[r],
           damaged = {} =>
               /\ \A j \in DOMAIN h : h[j].begun => j = 1 /\ h[j].src = s /\ node'[s].file # 0
               /\ node'[s].file = 0 => node'[s].buf = <<>>
    PROVE  BufferOK'
<1> SUFFICES ASSUME damaged = {} PROVE BufferOK'
  BY DEF BufferOK
<1>1. hand \in [Workers -> Seq(Items)]
  BY DEF ReceiverInv, DataTypes
<1>2. ASSUME NEW v \in Workers, NEW j \in DOMAIN hand'[v], hand'[v][j].begun
      PROVE  j = 1 /\ node'[hand'[v][j].src].file # 0
  <2>1. CASE v = w
    BY <1>1, <1>2, <2>1
  <2>2. CASE v # w
    <3>1. hand'[v] = hand[v]
      BY <1>1, <2>2
    <3>2. hand[v][j].src \in Sources /\ WorkerOf[hand[v][j].src] = v
      BY <1>2, <3>1, HandOwned
    <3>3. j = 1 /\ node[hand[v][j].src].file # 0
      BY <1>2, <3>1 DEF BufferOK
    <3> QED
      BY <2>2, <3>1, <3>2, <3>3
  <2> QED
    BY <2>1, <2>2
<1>3. ASSUME NEW r \in Sources, node'[r].file = 0 PROVE node'[r].buf = <<>>
  BY <1>3 DEF BufferOK
<1> QED
  BY <1>2, <1>3 DEF BufferOK

\* The rest of a hand is not begun.
LEMMA TailIsNew ==
    ASSUME ReceiverInv, BufferOK, damaged = {}, NEW w \in Workers, hand[w] # <<>>
    PROVE  /\ Tail(hand[w]) \in Seq(Items) /\ \A j \in DOMAIN Tail(hand[w]) : ~Tail(hand[w])[j].begun
<1>1. hand[w] \in Seq(Items)
  BY DEF ReceiverInv, DataTypes
<1>2. /\ Tail(hand[w]) \in Seq(Items)
      /\ \A j \in DOMAIN Tail(hand[w]) :
            j \in Nat /\ j >= 1 /\ j + 1 \in DOMAIN hand[w] /\ Tail(hand[w])[j] = hand[w][j + 1]
  BY <1>1, TailFacts
<1>3. ASSUME NEW j \in DOMAIN Tail(hand[w]) PROVE ~Tail(hand[w])[j].begun
  <2>1. j + 1 \in DOMAIN hand[w] /\ j + 1 # 1 /\ Tail(hand[w])[j] = hand[w][j + 1]
    BY <1>2
  <2> QED
    BY <2>1 DEF BufferOK
<1> QED
  BY <1>2, <1>3

\* What Rest leaves: a packet that is begun, or the next item.
LEMMA RestIsBegun ==
    ASSUME ReceiverInv, BufferOK, damaged = {}, NEW w \in Workers, hand[w] # <<>>
    PROVE  /\ Head(hand[w]).src \in Sources /\ WorkerOf[Head(hand[w]).src] = w
           /\ Head(hand[w]).begun => node[Head(hand[w]).src].file # 0
           /\ Head(hand[w]).type = "data" =>
                 /\ Rest(w) \in Seq(Items)
                 /\ \A j \in DOMAIN Rest(w) :
                       Rest(w)[j].begun => j = 1 /\ Rest(w)[j].src = Head(hand[w]).src
<1> DEFINE i == Head(hand[w])
           x == [i EXCEPT !.left = @ - 1, !.begun = TRUE]
<1>1. hand[w] \in Seq(Items)
  BY DEF ReceiverInv, DataTypes
<1>2. 1 \in DOMAIN hand[w] /\ hand[w][1] = i
  BY <1>1, TailFacts
<1>3. i \in Items /\ i.src \in Sources /\ WorkerOf[i.src] = w
  BY <1>2, HandOwned
<1>4. i.begun => node[i.src].file # 0
  BY <1>2 DEF BufferOK
<1>5. ASSUME i.type = "data", i.left = 1
      PROVE  /\ Rest(w) \in Seq(Items)
             /\ \A j \in DOMAIN Rest(w) : Rest(w)[j].begun => j = 1 /\ Rest(w)[j].src = i.src
  BY <1>5, TailIsNew DEF Rest
<1>6. ASSUME i.type = "data", i.left # 1
      PROVE  /\ Rest(w) \in Seq(Items)
             /\ \A j \in DOMAIN Rest(w) : Rest(w)[j].begun => j = 1 /\ Rest(w)[j].src = i.src
  <2>1. i.left >= 1 /\ i.left \in Nat
    <3>1. i = Queued[w][1] /\ 1 \in DOMAIN Queued[w]
      <4>1. queue[w] \in Seq(Items)
        BY DEF ReceiverInv, DataTypes
      <4>2. /\ hand[w] \o queue[w] \in Seq(Items) /\ hand[w] \o queue[w] # <<>>
            /\ Head(hand[w] \o queue[w]) = i
        BY <1>1, <4>1, TailOfConcat
      <4> QED
        BY <4>2, TailFacts DEF Queued
    <3> QED
      BY <1>3, <1>6, <3>1 DEF ReceiverInv, NumbersOK, Items
  <2>2. x \in Items /\ x.src = i.src
    <3>1. ASSUME NEW y \in Items, y.left >= 1
          PROVE  /\ [y EXCEPT !.left = @ - 1, !.begun = TRUE] \in Items
                 /\ [y EXCEPT !.left = @ - 1, !.begun = TRUE].src = y.src
      <4>1. y.left \in Nat
        BY DEF Items
      <4>2. y.left - 1 \in Nat
        BY <3>1, <4>1
      <4> QED
        BY <4>2 DEF Items
    <3> QED
      BY <1>3, <2>1, <3>1
  <2> HIDE DEF x
  <2>3. /\ <<x>> \o Tail(hand[w]) \in Seq(Items)
        /\ DOMAIN (<<x>> \o Tail(hand[w])) = DOMAIN hand[w]
        /\ (<<x>> \o Tail(hand[w]))[1] = x
        /\ \A j \in DOMAIN hand[w] : j > 1 => (<<x>> \o Tail(hand[w]))[j] = hand[w][j]
    BY <1>1, <2>2, HeadReplaced
  <2>4. Rest(w) = <<x>> \o Tail(hand[w])
    BY <1>6 DEF Rest, x
  <2>5. ASSUME NEW j \in DOMAIN hand[w], Rest(w)[j].begun
        PROVE  j = 1 /\ Rest(w)[j].src = i.src
    <3>1. j \in Nat /\ j >= 1
      BY <1>1, Elements
    <3>2. CASE j = 1
      BY <2>2, <2>3, <2>4, <3>2
    <3>3. CASE j > 1
      BY <2>3, <2>4, <2>5, <3>3 DEF BufferOK
    <3> QED
      BY <3>1, <3>2, <3>3
  <2> QED
    BY <2>3, <2>4, <2>5
<1> QED
  BY <1>3, <1>4, <1>5, <1>6

\* A worker keeps it, whatever it does.
LEMMA BufferWorker ==
    ASSUME ReceiverInv, BufferOK, NEW w \in Workers, WorkerStep(w)
    PROVE  BufferOK'
<1> SUFFICES ASSUME damaged' = {} PROVE BufferOK'
  BY DEF BufferOK
<1>0. node \in [Sources -> Nodes] /\ hand \in [Workers -> Seq(Items)]
  BY DEF ReceiverInv, DataTypes
<1>1. CASE TakeItems(w)
  <2> DEFINE q == queue[w]
             k == IF Len(q) > ProcessBatch THEN ProcessBatch ELSE Len(q)
  <2>1. /\ q \in Seq(Items) /\ Len(q) \in Nat /\ k \in 0..Len(q)
        /\ hand' = [hand EXCEPT ![w] = SubSeq(q, 1, k)]
        /\ queue' = [queue EXCEPT ![w] = SubSeq(q, k + 1, Len(q))]
        /\ UNCHANGED <<want, node, damaged>> /\ queue \in [Workers -> Seq(Items)]
    BY <1>1, ReceiverAssumption DEF TakeItems, ReceiverInv, DataTypes, hist
  <2>2. \A j \in DOMAIN q : ~q[j].begun
    BY <2>1 DEF BufferOK
  <2> HIDE DEF q, k
  <2>3. DOMAIN q = 1..Len(q)
    BY <2>1, LenProperties
  <2>4. \A j \in DOMAIN SubSeq(q, 1, k) : ~SubSeq(q, 1, k)[j].begun
    <3>1. DOMAIN SubSeq(q, 1, k) = 1..k /\ \A j \in 1..k : SubSeq(q, 1, k)[j] = q[j]
      BY <2>1
    <3> QED
      BY <2>1, <2>2, <2>3, <3>1
  <2>5. \A j \in DOMAIN SubSeq(q, k + 1, Len(q)) : ~SubSeq(q, k + 1, Len(q))[j].begun
    <3>1. /\ DOMAIN SubSeq(q, k + 1, Len(q)) = 1..(Len(q) - k)
          /\ \A j \in 1..(Len(q) - k) : SubSeq(q, k + 1, Len(q))[j] = q[k + j]
      BY <2>1
    <3>2. \A j \in 1..(Len(q) - k) : k + j \in 1..Len(q)
      BY <2>1
    <3> QED
      BY <2>2, <2>3, <3>1, <3>2
  <2>6. ASSUME NEW v \in Workers
        PROVE  /\ hand'[v] = IF v = w THEN SubSeq(q, 1, k) ELSE hand[v]
               /\ queue'[v] = IF v = w THEN SubSeq(q, k + 1, Len(q)) ELSE queue[v]
    BY <1>0, <2>1
  <2> QED
    BY <2>1, <2>4, <2>5, <2>6 DEF BufferOK
<1>2. CASE WorkerEnds(w)
  <2>1. UNCHANGED <<want, queue, hand, damaged>>
    BY <1>2 DEF WorkerEnds, hist
  <2>2. ASSUME NEW s \in Sources
        PROVE  node'[s].file = node[s].file /\ node'[s].buf \in {node[s].buf, <<>>}
    BY <1>0, <1>2 DEF WorkerEnds, Nodes
  <2>3. ASSUME NEW v \in Workers, NEW j \in DOMAIN hand[v]
        PROVE  node'[hand[v][j].src].file = node[hand[v][j].src].file
    BY <2>2, <2>3, HandOwned
  <2> QED
    BY <2>1, <2>2, <2>3 DEF BufferOK
<1> DEFINE s == Head(hand[w]).src
           f == node[s].file
<1>3. damaged \subseteq damaged'
  BY DEF WorkerStep, TakeItems, OpenFile, CloseWorkerFile, Discard, SkipEvent, StoreEvent,
         WorkerEnds, hist
<1>4. damaged = {} /\ damaged' = damaged
  BY <1>3
<1>5. ASSUME hand[w] # <<>>, Done(w), UNCHANGED <<queue, want>>,
             node' = node \/ \E nd : node' = [node EXCEPT ![s] = nd] /\ nd.buf = <<>>
      PROVE  BufferOK'
  <2>1. s \in Sources /\ WorkerOf[s] = w
    BY <1>4, <1>5, RestIsBegun
  <2>2. /\ Tail(hand[w]) \in Seq(Items)
        /\ \A j \in DOMAIN Tail(hand[w]) : ~Tail(hand[w])[j].begun
    BY <1>4, <1>5, TailIsNew
  <2> HIDE DEF s
  <2>3. \A r \in Sources : r # s => node'[r] = node[r]
    BY <1>0, <1>5
  <2>4. node'[s].file = 0 => node'[s].buf = <<>>
    BY <1>0, <1>4, <1>5, <2>1 DEF BufferOK
  <2> DEFINE h == Tail(hand[w])
  <2>5. h \in Seq(Items) /\ hand' = [hand EXCEPT ![w] = h]
    BY <1>5, <2>2 DEF Done
  <2>6. \A j \in DOMAIN h : ~h[j].begun
    BY <2>2
  <2> HIDE DEF h
  <2> QED
    BY <1>4, <1>5, <2>1, <2>3, <2>4, <2>5, <2>6, BufferHandled
<1>6. CASE OpenFile(w) \/ Discard(w)
  <2>1. hand[w] # <<>> /\ Done(w) /\ UNCHANGED <<queue, want>>
    BY <1>6 DEF OpenFile, Discard, Current
  <2>2. node' = node \/ node' = AddNode(s, Head(hand[w]).n)
    BY <1>6 DEF OpenFile, Discard
  <2> HIDE DEF s
  <2> DEFINE nd == [known |-> TRUE, file |-> Head(hand[w]).n, buf |-> <<>>, bytes |-> 0,
                    err |-> FALSE, count |-> IF node[s].known THEN node[s].count ELSE 0]
  <2>4. node' = node \/ node' = [node EXCEPT ![s] = nd]
    BY <2>2 DEF AddNode
  <2>5. nd.buf = <<>>
    OBVIOUS
  <2> HIDE DEF nd
  <2>3. node' = node \/ \E x : node' = [node EXCEPT ![s] = x] /\ x.buf = <<>>
    BY <2>4, <2>5
  <2> QED
    BY <1>5, <2>1, <2>3 DEF s
<1>7. CASE CloseWorkerFile(w)
  <2>1. hand[w] # <<>> /\ Done(w) /\ UNCHANGED <<queue, want>>
    BY <1>7 DEF CloseWorkerFile, Current
  <2>2. node' = node \/ node' = [node EXCEPT ![s].file = 0, ![s].buf = <<>>]
    BY <1>7 DEF CloseWorkerFile
  <2>3. s \in Sources
    BY <1>4, <2>1, RestIsBegun
  <2> HIDE DEF s
  <2>4. node' = node \/ \E nd : node' = [node EXCEPT ![s] = nd] /\ nd.buf = <<>>
    <3>1. [[node[s] EXCEPT !.file = 0] EXCEPT !.buf = <<>>].buf = <<>>
      BY <1>0, <2>3 DEF Nodes
    <3>2. [node EXCEPT ![s].file = 0, ![s].buf = <<>>]
              = [node EXCEPT ![s] = [[node[s] EXCEPT !.file = 0] EXCEPT !.buf = <<>>]]
      BY <1>0, <2>3
    <3> QED
      BY <2>2, <3>1, <3>2
  <2> QED
    BY <1>5, <2>1, <2>4 DEF s
<1>8. ASSUME hand[w] # <<>>, Head(hand[w]).type = "data", UNCHANGED <<queue, want>>,
             hand' = [hand EXCEPT ![w] = Rest(w)],
             node' = node \/ \E nd : node' = [node EXCEPT ![s] = nd] /\ nd.file = f,
             Head(hand[w]).begun \/ f # 0
      PROVE  BufferOK'
  <2>1. /\ s \in Sources /\ WorkerOf[s] = w /\ f # 0 /\ Rest(w) \in Seq(Items)
        /\ \A j \in DOMAIN Rest(w) : Rest(w)[j].begun => j = 1 /\ Rest(w)[j].src = s
    BY <1>4, <1>8, RestIsBegun
  <2> HIDE DEF s
  <2>2. \A r \in Sources : r # s => node'[r] = node[r]
    BY <1>0, <1>8
  <2>3. node'[s].file # 0
    BY <1>0, <1>8, <2>1
  <2> DEFINE h == Rest(w)
  <2>4. /\ h \in Seq(Items) /\ hand' = [hand EXCEPT ![w] = h]
        /\ \A j \in DOMAIN h : h[j].begun => j = 1 /\ h[j].src = s
    BY <1>8, <2>1
  <2> HIDE DEF h
  <2>5. /\ \A j \in DOMAIN h : h[j].begun => j = 1 /\ h[j].src = s /\ node'[s].file # 0
        /\ node'[s].file = 0 => node'[s].buf = <<>>
    BY <2>3, <2>4
  <2>6. s \in Sources /\ WorkerOf[s] = w /\ UNCHANGED <<queue, want, damaged>>
    BY <1>4, <1>8, <2>1
  <2> QED
    BY <2>2, <2>4, <2>5, <2>6, BufferHandled
<1>9. CASE SkipEvent(w)
  <2>1. /\ hand[w] # <<>> /\ Head(hand[w]).type = "data" /\ UNCHANGED <<queue, want, node>>
        /\ hand' = [hand EXCEPT ![w] = Rest(w)] /\ (Head(hand[w]).begun \/ f # 0)
    BY <1>9 DEF SkipEvent, Current, Busy
  <2> QED
    BY <1>8, <2>1
<1>10. CASE StoreEvent(w)
  <2> DEFINE e == <<Head(hand[w]).n, Head(hand[w]).left>>
             count == node[s].count + 1
             buf == Append(node[s].buf, e)
             kept == [node[s] EXCEPT !.buf = buf, !.count = count]
             bytes == node[s].bytes + Len(buf)
             written == [kept EXCEPT !.buf = <<>>, !.bytes = bytes]
  <2>1. /\ hand[w] # <<>> /\ Head(hand[w]).type = "data" /\ UNCHANGED <<queue, want>>
        /\ hand' = [hand EXCEPT ![w] = Rest(w)] /\ (Head(hand[w]).begun \/ f # 0)
    BY <1>10 DEF StoreEvent, Current
  <2>2. s \in Sources /\ f # 0
    BY <1>4, <2>1, RestIsBegun
  <2>3. f \notin damaged'
    BY <1>4
  <2>4. \/ node' = [node EXCEPT ![s] = kept] \/ node' = [node EXCEPT ![s] = written]
        \/ node' = [node EXCEPT ![s] = Rolled(written)]
    BY <1>10, <2>2, <2>3 DEF StoreEvent
  <2>5. node[s] \in Nodes
    BY <1>0, <2>2
  <2>6. kept.file = f /\ written.file = f /\ Rolled(written).file = f
    BY <2>5 DEF Nodes, Rolled
  <2> HIDE DEF kept, written
  <2>7. \E nd : node' = [node EXCEPT ![s] = nd] /\ nd.file = f
    BY <2>4, <2>6
  <2> QED
    BY <1>8, <2>1, <2>7
<1> QED
  BY <1>1, <1>2, <1>6, <1>7, <1>9, <1>10 DEF WorkerStep

\* No step leaves an event in the buffer of a source without a file, unless a disk
\* has failed.
LEMMA BufferStep ==
    ASSUME ReceiverInv, BufferOK, [Next]_vars
    PROVE  BufferOK'
<1>1. /\ want \in [Threads -> Items \cup {NoItem}] /\ "cl" \in Threads /\ "closer" \in Threads
      /\ "rx" \in Threads
  BY DEF ReceiverInv, ThreadTypes, Threads
<1>2. UNCHANGED <<queue, hand, node, damaged, want>> => BufferOK'
  BY BufferQuiet
<1>3. ASSUME UNCHANGED <<queue, hand, node, damaged>>, NEW t \in Threads, NEW type, NEW s, NEW n,
             NEW left, want' = [want EXCEPT ![t] = Item(type, s, n, 0, left)]
      PROVE  BufferOK'
  BY <1>1, <1>3, BufferQuiet, ItemIsNew
<1>4. ASSUME UNCHANGED <<queue, hand, node, damaged>>, NEW t \in Threads,
             want' = [want EXCEPT ![t] = NoItem]
      PROVE  BufferOK'
  BY <1>1, <1>4, BufferQuiet, ItemIsGone
<1>5. ASSUME NEW t \in Threads, CanPut(t), NEW item,
             item = want[t] \/ \E k \in Nat : item = [want[t] EXCEPT !.token = k],
             queue' = Appended(t, item), want' = [want EXCEPT ![t] = NoItem],
             UNCHANGED <<hand, node, damaged>>
      PROVE  BufferOK'
  <2>1. want[t] \in Items /\ want[t] # NoItem
    BY <1>1, <1>5 DEF CanPut
  <2>2. QueueOf(t) \in Workers
    BY <2>1, ReceiverAssumption DEF QueueOf, Items
  <2>3. item \in Items /\ item.begun = want[t].begun
    BY <1>5, <2>1 DEF Items
  <2>4. damaged = {} => ~item.begun
    BY <2>1, <2>3 DEF BufferOK
  <2> QED
    BY <1>5, <2>2, <2>3, <2>4, BufferPut DEF Appended
<1>6. CASE QueueCommand
  <2>1. /\ CanPut("cl") /\ want' = [want EXCEPT !["cl"] = NoItem] /\ UNCHANGED <<hand, node, damaged>>
        /\ \/ queue' = Appended("cl", want["cl"])
           \/ /\ ack' = BeginAck
              /\ queue' = Appended("cl", [want["cl"] EXCEPT !.token = ack'.serial])
    BY <1>6 DEF QueueCommand, hist
  <2>2. ack' = BeginAck => ack'.serial \in Nat
    BY DEF BeginAck, ReceiverInv, ThreadTypes, Acks
  <2> QED
    BY <1>1, <1>5, <2>1, <2>2
<1>7. CASE QueueClose
  BY <1>1, <1>5, <1>7 DEF QueueClose, hist
<1>8. CASE QueuePacket
  BY <1>1, <1>5, <1>8 DEF QueuePacket, hist
<1>9. ASSUME NEW w \in Workers, WorkerStep(w) PROVE BufferOK'
  BY <1>9, BufferWorker
<1>10. CASE NoPendingClose
  BY <1>1, <1>3, <1>10 DEF NoPendingClose, hist
<1>11. ASSUME NEW s \in Sources, CloserPicks(s) PROVE BufferOK'
  BY <1>1, <1>3, <1>11 DEF CloserPicks, hist
<1>12. ASSUME NEW s \in Sources, NEW k \in PacketSizes, Packet(s, k) PROVE BufferOK'
  BY <1>1, <1>3, <1>12 DEF Packet, hist
<1>13. CASE DropPacket \/ CloserGivesUp
  BY <1>1, <1>4, <1>13 DEF DropPacket, CloserGivesUp, hist
<1>14. CASE ListenerEnds
  BY <1>1, <1>2, <1>4, <1>14 DEF ListenerEnds, hist
<1>15. ASSUME NEW s \in Sources, \/ \E op \in FileOps : FileCommand(op, s)
                                 \/ \E op \in ProducerOps : ProducerCommand(op, s)
                                 \/ CloseCommand(s) \/ WrongSizePacket(s) \/ GraceOver(s)
                                 \/ ProducerExecutes(s) \/ PublicationLost(s)
       PROVE  BufferOK'
  <2>1. UNCHANGED <<queue, hand, node, damaged, want>>
    BY <1>15 DEF FileCommand, ProducerCommand, CloseCommand, WrongSizePacket, GraceOver,
                 ProducerExecutes, PublicationLost, hist
  <2> QED
    BY <1>2, <2>1
<1>16. CASE \/ PendingClose \/ AckArrives \/ AckTimeout \/ ProducerTimeout
            \/ \E a \in acks : ProducerAnswer(a)
  <2>1. UNCHANGED <<queue, hand, node, damaged, want>>
    BY <1>16 DEF PendingClose, AckArrives, AckTimeout, ProducerTimeout, ProducerAnswer, hist
  <2> QED
    BY <1>2, <2>1
<1>17. CASE \/ CloserLoop \/ CloserSleeps \/ CloseQueued \/ FramesEnd
            \/ Terminate \/ WakeAll \/ JoinAll \/ Kill
  <2>1. UNCHANGED <<queue, hand, node, damaged, want>>
    BY <1>17 DEF CloserLoop, CloserSleeps, CloseQueued, FramesEnd, Terminate, WakeAll, JoinAll,
                 Kill, hist
  <2> QED
    BY <1>2, <2>1
<1>18. ASSUME NEW t \in Threads, WaitForRoom(t) \/ FallAsleep(t) PROVE BufferOK'
  BY <1>2, <1>18 DEF WaitForRoom, FallAsleep, hist
<1>19. CASE UNCHANGED vars
  BY <1>2, <1>19 DEF vars
<1>20. CASE ListenerStep
  BY <1>1, <1>6, <1>10, <1>14, <1>15, <1>16, <1>18, <1>20 DEF ListenerStep
<1>21. CASE CloserStep
  BY <1>1, <1>7, <1>11, <1>13, <1>17, <1>18, <1>21 DEF CloserStep
<1>22. CASE ReceiverStep
  BY <1>1, <1>8, <1>13, <1>18, <1>22 DEF ReceiverStep
<1> QED
  BY <1>9, <1>12, <1>15, <1>17, <1>19, <1>20, <1>21, <1>22 DEF Next

\* evreceiver: a source without a file has an empty buffer, unless a disk has failed.
THEOREM BufferInvariance == Spec => []BufferOK
<1>1. Init => BufferOK
  <2>1. DOMAIN <<>> = {}
    OBVIOUS
  <2> QED
    BY <2>1 DEF Init, BufferOK, NoNode
<1> QED
  BY <1>1, BufferStep, Invariance, PTL DEF Spec

\* An OK of the listener is true until the next command: the file is open, or
\* closed with nothing left in the buffer unless a disk has failed, or its close is on the way, or the producer does as it was told; a late
\* acknowledgement or answer is never taken for that of another command.
THEOREM AnswersAreTrue == Spec => []ReplyIsTrue
<1>1. ReceiverInv /\ BufferOK => ReplyIsTrue
  <2> SUFFICES ASSUME ReceiverInv, BufferOK, cl.pc = "poll", cl.reply = "OK" PROVE ReplyIsTrue
    BY DEF ReplyIsTrue
  <2>1. PICK s \in Sources : s = cl.src
    BY DEF ReceiverInv, ThreadsOK
  <2> DEFINE q == Pending(WorkerOf[s])
             closing == delayed[s] # NoClose \/ \E j \in DOMAIN q : q[j].type = "close" /\ q[j].src = s
  <2>2. q = Queued[WorkerOf[s]] /\ Opened[s] = node[s].file
    BY PendingIsQueued DEF Opened
  <2>3. cl.op = "OPEN_READY" => node[s].file = cl.n \/ cl.n \in damaged
    BY <2>1, <2>2 DEF ReceiverInv, AckOK, ReadyOK, Fulfilled
  <2>4. cl.op = "CLOSE_READY" => /\ node[s].file = 0 /\ ~closing
                                 /\ node[s].buf = <<>> \/ damaged # {}
    <3> SUFFICES ASSUME cl.op = "CLOSE_READY"
                 PROVE  node[s].file = 0 /\ ~closing /\ (node[s].buf = <<>> \/ damaged # {})
      OBVIOUS
    <3>1. Fulfilled /\ delayed[s] = NoClose
      BY <2>1 DEF ReceiverInv, AckOK, ReadyOK
    <3> QED
      BY <2>1, <2>2, <3>1 DEF Fulfilled, BufferOK
  <2>5. cl.op = "CLOSE" => (node[s].file # 0 => closing)
    <3> SUFFICES ASSUME cl.op = "CLOSE", node[s].file # 0 PROVE closing
      OBVIOUS
    <3>1. delayed[s] # NoClose \/ Closing(s)
      BY <2>1 DEF ReceiverInv, ClosingOK
    <3> QED
      BY <2>2, <3>1 DEF Closing
  <2>6. cl.op \in ProducerOps => producer[s] = Told(cl.op)
    BY <2>1 DEF ReceiverInv, ProducerOK
  <2> HIDE DEF closing
  <2>7. CASE cl.op = "OPEN_READY"
    BY <2>1, <2>3, <2>7 DEF ReplyIsTrue
  <2>8. CASE cl.op = "CLOSE_READY"
    BY <2>1, <2>4, <2>8 DEF ReplyIsTrue, closing
  <2>9. CASE cl.op = "CLOSE"
    BY <2>1, <2>5, <2>9 DEF ReplyIsTrue, closing
  <2>10. CASE cl.op \in ProducerOps
    BY <2>1, <2>6, <2>10 DEF ReplyIsTrue, ProducerOps, Told
  <2>11. CASE cl.op \notin {"OPEN_READY", "CLOSE_READY", "CLOSE"} \cup ProducerOps
    BY <2>11 DEF ReplyIsTrue, ProducerOps
  <2> QED
    BY <2>7, <2>8, <2>9, <2>10, <2>11
<1> QED
  BY <1>1, Invariance, BufferInvariance, PTL

\* No event that a worker accepted for a file is lost, duplicated or reordered,
\* except by a failure of the disk: across flushes, chunk rollovers, closes and
\* the orderly end of the workers.
THEOREM FilesAreComplete == Spec => []FileComplete
<1>1. ReceiverInv => FileComplete
  <2> SUFFICES ASSUME ReceiverInv, NEW f \in Files \ damaged
               PROVE  \/ \E s \in Sources : node[s].file = f /\ stored[f] = disk[f] \o node[s].buf
                      \/ stored[f] = disk[f]
    BY DEF FileComplete
  <2>1. f # 0
    BY ReceiverAssumption DEF Files
  <2>2. CASE \E s \in Sources : node[s].file = f
    <3>1. PICK s \in Sources : node[s].file = f
      BY <2>2
    <3>2. stored[f] = disk[f] \o node[s].buf
      BY <2>1, <3>1 DEF ReceiverInv, DataOK
    <3> QED
      BY <3>1, <3>2
  <2>3. CASE \A s \in Sources : node[s].file # f
    BY <2>3 DEF ReceiverInv, DataOK
  <2> QED
    BY <2>2, <2>3
<1> QED
  BY <1>1, Invariance, PTL

=============================================================================
