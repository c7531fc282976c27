------------------------------ MODULE Receiver ------------------------------
(***************************************************************************)
(* evreceiver: the process that writes the data of the boards ("sources")  *)
(* to files, and the server's hold on it (receiver_service.py).            *)
(*                                                                         *)
(* Its threads are                                                         *)
(*   - the control listener ("cl"), which executes one command of the      *)
(*     server at a time and answers it: OPEN, OPEN_READY, CLOSE,           *)
(*     CLOSE_READY and the producer commands START, STOP and RESET;        *)
(*   - the receiver ("rx"), which takes the packets of the boards;         *)
(*   - the delayed-close thread ("closer"), which queues the closes that   *)
(*     CLOSE has scheduled once their grace time is over;                  *)
(*   - one worker per queue, the only thread that touches the files of its *)
(*     sources.  Every source belongs to one worker (a hash of its name);  *)
(*   - the main thread, which at SIGTERM wakes the others and joins them.  *)
(* The first three put items on the bounded queues of the workers and wait *)
(* there for room: a wait is modelled in two steps, the test of the        *)
(* condition (which takes the queue's lock) and the sleep (which releases  *)
(* it), because the main thread broadcasts without that lock.              *)
(*                                                                         *)
(* Data are abstracted to the events that pass the CRC and are not zero:   *)
(* the k-th event of packet b is <<b, k>>.  Chunks of one run are one file *)
(* here, named by the number of the OPEN command that made it.             *)
(***************************************************************************)
EXTENDS Naturals, Sequences, FiniteSets

CONSTANTS Sources,        \* the boards
          NoSource,       \* not a board
          Workers,        \* the worker threads (N_WORKERS)
          WorkerOf,       \* hash_fnv1a(source) % N_WORKERS
          QueueSize,      \* QUEUE_SIZE
          ProcessBatch,   \* PROCESS_BATCH_SIZE
          FlushEvery,     \* NUM_EVENTS_WRITE
          FileLimit,      \* MAX_FILE_SIZE_BYTES, in events
          MaxDelayed,     \* MAX_DELAYED_CLOSES
          Commands,       \* the commands the server sends
          MaxCommands,    \* bound: commands of the server
          MaxPackets,     \* bound: packets of the boards
          PacketSizes,    \* bound: events of a packet that reach the file
          MaxFaults       \* bound: failures of the file system, lost messages

ASSUME ReceiverAssumption ==
    /\ NoSource \notin Sources /\ WorkerOf \in [Sources -> Workers]
    /\ QueueSize \in Nat \ {0} /\ ProcessBatch \in Nat \ {0}
    /\ FlushEvery \in Nat \ {0} /\ FileLimit \in Nat \ {0}
    /\ MaxDelayed \in Nat /\ MaxCommands \in Nat /\ MaxPackets \in Nat
    /\ PacketSizes \subseteq Nat \ {0} /\ MaxFaults \in Nat

VARIABLES
    keep_running,  \* cleared by SIGTERM
    proc,          \* "up", "ended" (main returned), "killed", "crashed"
    main,          \* main thread: "sleep", "join"
    queue,         \* worker_nodes[w].items
    hand,          \* the items the worker has taken and not yet processed
    worker,        \* the worker thread: "loop", "done"
    node,          \* the worker's record of a source
    disk,          \* what is in the files
    want,          \* the item a thread has to put on a queue, or NoItem
    nap,           \* its wait for room: "awake", "going", "asleep"
    cl,            \* the control listener
    closer,        \* the delayed-close thread
    delayed,       \* delayed_closes, by source: "none", "waiting", "due", and
                   \* the number of the CLOSE command
    ack,           \* open_serial, open_waiting, open_done, open_success
    rx,            \* packets received so far
    misframed,     \* the source of a packet of the wrong size, until the next
                   \* packet is taken for its payload, or NoSource
    chan,          \* commands on their way to the producer of a source
    acks,          \* answers of the producers, not yet read
    producer,      \* external: what the producer of a source is doing
    faults,        \* failures so far
    stored,        \* history: the events a worker has accepted for a file
    damaged        \* history: files that lost events to a failure of the disk

vars == <<keep_running, proc, main, queue, hand, worker, node, disk, want, nap,
          cl, closer, delayed, ack, rx, misframed, chan, acks, producer, faults, stored, damaged>>

ioVars == <<chan, acks, producer>>
hist == <<stored, damaged>>

Threads == {"cl", "closer", "rx"}
Files == 1..MaxCommands
FileOps == {"OPEN", "OPEN_READY", "CLOSE_READY"}
ProducerOps == {"START_PRODUCER", "STOP_PRODUCER", "RESET_PRODUCER"}

NoItem == [type |-> "none"]

\* queue_item_t.  n is the number of the command or of the packet; left the
\* events of the packet still to be stored; begun whether its worker has
\* already looked at the file.
Item(type, s, n, token, left) ==
    [type |-> type, src |-> s, n |-> n, token |-> token, left |-> left, begun |-> FALSE]

\* create_node, before any OPEN: the source is not in the table.
NoNode == [known |-> FALSE, file |-> 0, buf |-> <<>>, bytes |-> 0, count |-> 0, err |-> FALSE]

NoClose == [st |-> "none", n |-> 0]

Init ==
    /\ keep_running = TRUE /\ proc = "up" /\ main = "sleep"
    /\ queue = [w \in Workers |-> <<>>]
    /\ hand = [w \in Workers |-> <<>>]
    /\ worker = [w \in Workers |-> "loop"]
    /\ node = [s \in Sources |-> NoNode]
    /\ disk = [f \in Files |-> <<>>]
    /\ want = [t \in Threads |-> NoItem]
    /\ nap = [t \in Threads |-> "awake"]
    /\ cl = [pc |-> "poll", op |-> "none", src |-> NoSource, n |-> 0, token |-> 0, reply |-> "none"]
    /\ closer = [pc |-> "top", src |-> NoSource]
    /\ delayed = [s \in Sources |-> NoClose]
    /\ ack = [serial |-> 0, waiting |-> 0, done |-> FALSE, success |-> FALSE]
    /\ rx = 0 /\ misframed = NoSource
    /\ chan = [s \in Sources |-> <<>>]
    /\ acks = {}
    /\ producer = [s \in Sources |-> "off"]
    /\ faults = 0
    /\ stored = [f \in Files |-> <<>>]
    /\ damaged = {}

Up == proc = "up"
Fault == faults < MaxFaults /\ faults' = faults + 1

-----------------------------------------------------------------------------
(* Waiting for room on a queue: pthread_cond_wait(space_available).        *)

QueueOf(t) == WorkerOf[want[t].src]
\* A thread between its test and its sleep holds the lock of the queue.
Locked(w) == \E t \in Threads : nap[t] = "going" /\ QueueOf(t) = w
Full(w) == Len(queue[w]) >= QueueSize

\* pthread_cond_broadcast(space_available): who sleeps wakes; who has not
\* gone to sleep yet does not hear it.
Woken(W) == [t \in Threads |->
                IF nap[t] = "asleep" /\ QueueOf(t) \in W THEN "awake" ELSE nap[t]]

\* The queue is full and keep_running was read as true.
WaitForRoom(t) ==
    /\ Up /\ want[t] # NoItem /\ nap[t] = "awake" /\ keep_running
    /\ ~Locked(QueueOf(t)) /\ Full(QueueOf(t))
    /\ nap' = [nap EXCEPT ![t] = "going"]
    /\ UNCHANGED <<keep_running, proc, main, queue, hand, worker, node, disk, want, cl,
                   closer, delayed, ack, rx, misframed, faults, hist, ioVars>>

FallAsleep(t) ==
    /\ Up /\ nap[t] = "going"
    /\ nap' = [nap EXCEPT ![t] = "asleep"]
    /\ UNCHANGED <<keep_running, proc, main, queue, hand, worker, node, disk, want, cl,
                   closer, delayed, ack, rx, misframed, faults, hist, ioVars>>

\* What every producer of items does once there is room.
CanPut(t) ==
    /\ Up /\ want[t] # NoItem /\ nap[t] = "awake" /\ keep_running
    /\ ~Locked(QueueOf(t)) /\ ~Full(QueueOf(t))

Appended(t, item) == [queue EXCEPT ![QueueOf(t)] = Append(@, item)]

\* ... and when the process is stopping: the item is dropped, the thread ends.
MustGiveUp(t) ==
    /\ Up /\ want[t] # NoItem /\ nap[t] = "awake" /\ ~keep_running
    /\ ~Locked(QueueOf(t))

-----------------------------------------------------------------------------
(* The acknowledgement of a READY command: one token at a time.            *)

BeginAck == [serial |-> ack.serial + 1, waiting |-> ack.serial + 1, done |-> FALSE, success |-> FALSE]

\* Mutant: the acknowledgement is not compared with the token.
CompleteAckAny(token, ok) ==
    IF token # 0 /\ ack.waiting # 0 THEN [ack EXCEPT !.done = TRUE, !.success = ok] ELSE ack

\* complete_open_ack: only the command that is still waiting is answered.
CompleteAck(token, ok) ==
    IF token # 0 /\ ack.waiting = token
    THEN [ack EXCEPT !.done = TRUE, !.success = ok]
    ELSE ack

-----------------------------------------------------------------------------
(* The control listener.                                                   *)

Reply(r) == [cl EXCEPT !.pc = "poll", !.reply = r]

Publish(s, cmd, n) == chan' = [chan EXCEPT ![s] = Append(@, [cmd |-> cmd, n |-> n])]

\* A command that parses.  (One that does not is answered with an error and
\* changes nothing.)  The listener is not bothered by a server that has given
\* up waiting: the reply is then dropped with the server's old socket.
Accepted(op, s, pc, reply) ==
    /\ Up /\ cl.pc = "poll" /\ keep_running /\ cl.n < MaxCommands /\ op \in Commands
    /\ cl' = [pc |-> pc, op |-> op, src |-> s, n |-> cl.n + 1, token |-> 0, reply |-> reply]

FileCommand(op, s) ==
    /\ Accepted(op, s, "pending", "none")
    /\ UNCHANGED <<keep_running, proc, main, queue, hand, worker, node, disk, want, nap,
                   closer, delayed, ack, rx, misframed, faults, hist, ioVars>>

\* schedule_delayed_close: a second close of a source is merged with the one
\* pending; a full table refuses.  The signal wakes the delayed-close thread.
CloseCommand(s) ==
    LET pending == {r \in Sources : delayed[r] # NoClose}
        full == s \notin pending /\ Cardinality(pending) >= MaxDelayed IN
    /\ Accepted("CLOSE", s, "poll", IF full THEN "ERROR" ELSE "OK")
    /\ Publish(s, "stop", 0)
    /\ IF s \in pending \/ full
       THEN UNCHANGED <<delayed, closer>>
       ELSE /\ delayed' = [delayed EXCEPT ![s] = [st |-> "waiting", n |-> cl.n + 1]]
            /\ closer' = IF closer.pc = "asleep" THEN [closer EXCEPT !.pc = "top"] ELSE closer
    /\ UNCHANGED <<keep_running, proc, main, queue, hand, worker, node, disk, want, nap,
                   ack, rx, misframed, acks, producer, faults, hist>>

\* publish_and_wait: the request carries its number; an answer counts only if
\* it carries the same; after ten seconds the result is unknown.
ProducerCommand(op, s) ==
    /\ Accepted(op, s, "producerWait", "none")
    /\ Publish(s, op, cl.n + 1)
    /\ UNCHANGED <<keep_running, proc, main, queue, hand, worker, node, disk, want, nap,
                   closer, delayed, ack, rx, misframed, acks, producer, faults, hist>>

\* Mutant: OPEN does not wait for the delayed close of the run before.
NoPendingCloseUnawaited ==
    /\ Up /\ cl.pc = "pending"
    /\ cl' = [cl EXCEPT !.pc = "put"]
    /\ want' = [want EXCEPT !["cl"] =
                   Item(IF cl.op = "CLOSE_READY" THEN "close" ELSE "open", cl.src, cl.n, 0, 0)]
    /\ UNCHANGED <<keep_running, proc, main, queue, hand, worker, node, disk, nap,
                   closer, delayed, ack, rx, misframed, faults, hist, ioVars>>

\* wait_for_pending_close: the delayed close of an earlier run is queued first.
NoPendingClose ==
    /\ Up /\ cl.pc = "pending" /\ (delayed[cl.src] = NoClose \/ ~keep_running)
    /\ cl' = [cl EXCEPT !.pc = "put"]
    /\ want' = [want EXCEPT !["cl"] =
                   Item(IF cl.op = "CLOSE_READY" THEN "close" ELSE "open", cl.src, cl.n, 0, 0)]
    /\ UNCHANGED <<keep_running, proc, main, queue, hand, worker, node, disk, nap,
                   closer, delayed, ack, rx, misframed, faults, hist, ioVars>>

PendingClose ==
    /\ Up /\ cl.pc = "pending" /\ delayed[cl.src] # NoClose /\ keep_running
    /\ cl' = [cl EXCEPT !.pc = "pendingWait"]
    /\ UNCHANGED <<keep_running, proc, main, queue, hand, worker, node, disk, want, nap,
                   closer, delayed, ack, rx, misframed, faults, hist, ioVars>>

\* The item is queued under the lock; a plain OPEN starts the producer first
\* and is answered without waiting for the worker.
QueueCommand ==
    /\ cl.pc = "put" /\ CanPut("cl")
    /\ want' = [want EXCEPT !["cl"] = NoItem]
    /\ IF cl.op = "OPEN"
       THEN /\ queue' = Appended("cl", want["cl"])
            /\ Publish(cl.src, "start", 0)
            /\ cl' = Reply("OK")
            /\ UNCHANGED ack
       ELSE /\ ack' = BeginAck
            /\ queue' = Appended("cl", [want["cl"] EXCEPT !.token = ack'.serial])
            /\ cl' = [cl EXCEPT !.pc = "ackWait", !.token = ack'.serial]
            /\ UNCHANGED chan
    /\ UNCHANGED <<keep_running, proc, main, hand, worker, node, disk, nap, closer, delayed,
                   rx, misframed, acks, producer, faults, hist>>

\* wait_open_ack: the worker has answered, or five seconds have passed, or the
\* process is stopping.
AckArrives ==
    /\ Up /\ cl.pc = "ackWait" /\ ack.done
    /\ cl' = Reply(IF ack.waiting = cl.token /\ ack.success THEN "OK" ELSE "ERROR")
    /\ ack' = [ack EXCEPT !.waiting = 0]
    /\ UNCHANGED <<keep_running, proc, main, queue, hand, worker, node, disk, want, nap,
                   closer, delayed, rx, misframed, faults, hist, ioVars>>

AckTimeout ==
    /\ Up /\ cl.pc = "ackWait" /\ ~ack.done
    /\ cl' = Reply("ERROR")
    /\ ack' = [ack EXCEPT !.waiting = 0]
    /\ UNCHANGED <<keep_running, proc, main, queue, hand, worker, node, disk, want, nap,
                   closer, delayed, rx, misframed, faults, hist, ioVars>>

IsAnswer(a) == a.src = cl.src /\ a.n = cl.n

ProducerAnswer(a) ==
    /\ Up /\ cl.pc = "producerWait" /\ keep_running
    /\ acks' = acks \ {a}
    /\ cl' = IF IsAnswer(a) THEN Reply(IF a.ok THEN "OK" ELSE "ERROR") ELSE cl
    /\ UNCHANGED <<keep_running, proc, main, queue, hand, worker, node, disk, want, nap,
                   closer, delayed, ack, rx, misframed, chan, producer, faults, hist>>

ProducerTimeout ==
    /\ Up /\ cl.pc = "producerWait"
    /\ cl' = Reply("ERROR")
    /\ UNCHANGED <<keep_running, proc, main, queue, hand, worker, node, disk, want, nap,
                   closer, delayed, ack, rx, misframed, faults, hist, ioVars>>

\* The loop ends, from the poll or from the wait for room.
ListenerEnds ==
    /\ \/ Up /\ cl.pc = "poll" /\ ~keep_running /\ UNCHANGED <<want, nap>>
       \/ cl.pc = "put" /\ MustGiveUp("cl") /\ want' = [want EXCEPT !["cl"] = NoItem] /\ UNCHANGED nap
    /\ cl' = [cl EXCEPT !.pc = "done"]
    /\ UNCHANGED <<keep_running, proc, main, queue, hand, worker, node, disk,
                   closer, delayed, ack, rx, misframed, faults, hist, ioVars>>

-----------------------------------------------------------------------------
(* The delayed-close thread.                                               *)

\* The top of its loop: keep_running is read, then the table is searched.
CloserLoop ==
    /\ Up /\ closer.pc = "top"
    /\ closer' = [closer EXCEPT !.pc = IF keep_running THEN "scan" ELSE "done"]
    /\ UNCHANGED <<keep_running, proc, main, queue, hand, worker, node, disk, want, nap, cl,
                   delayed, ack, rx, misframed, faults, hist, ioVars>>

\* The entry whose deadline is nearest has expired: it is copied, the table is
\* unlocked and the entry stays active until the item is on the queue.
CloserPicks(s) ==
    /\ Up /\ closer.pc = "scan" /\ delayed[s].st = "due"
    /\ closer' = [pc |-> "put", src |-> s]
    /\ want' = [want EXCEPT !["closer"] = Item("close", s, delayed[s].n, 0, 0)]
    /\ UNCHANGED <<keep_running, proc, main, queue, hand, worker, node, disk, nap, cl,
                   delayed, ack, rx, misframed, faults, hist, ioVars>>

\* Nothing is due: the thread sleeps until the nearest deadline, if there is
\* one, or until a signal.  keep_running is not read again before the sleep.
CloserSleeps ==
    /\ Up /\ closer.pc = "scan" /\ \A s \in Sources : delayed[s].st # "due"
    /\ closer' = [closer EXCEPT !.pc = "asleep"]
    /\ UNCHANGED <<keep_running, proc, main, queue, hand, worker, node, disk, want, nap, cl,
                   delayed, ack, rx, misframed, faults, hist, ioVars>>

\* CLOSE_GRACE_TIME_S after the CLOSE command.
GraceOver(s) ==
    /\ Up /\ delayed[s].st = "waiting"
    /\ delayed' = [delayed EXCEPT ![s].st = "due"]
    /\ closer' = IF closer.pc = "asleep" THEN [closer EXCEPT !.pc = "top"] ELSE closer
    /\ UNCHANGED <<keep_running, proc, main, queue, hand, worker, node, disk, want, nap, cl,
                   ack, rx, misframed, faults, hist, ioVars>>

QueueClose ==
    /\ closer.pc = "put" /\ CanPut("closer")
    /\ queue' = Appended("closer", want["closer"])
    /\ want' = [want EXCEPT !["closer"] = NoItem]
    /\ closer' = [closer EXCEPT !.pc = "mark"]
    /\ UNCHANGED <<keep_running, proc, main, hand, worker, node, disk, nap, cl,
                   delayed, ack, rx, misframed, faults, hist, ioVars>>

\* Mutant: the entry is freed and nobody is woken.
CloseQueuedSilently ==
    /\ Up /\ closer.pc = "mark"
    /\ delayed' = [delayed EXCEPT ![closer.src] = NoClose]
    /\ closer' = [pc |-> "top", src |-> NoSource]
    /\ UNCHANGED <<keep_running, proc, main, queue, hand, worker, node, disk, want, nap, cl,
                   ack, rx, misframed, faults, hist, ioVars>>

\* Only then is the entry free, and whoever waits for it is woken.
CloseQueued ==
    /\ Up /\ closer.pc = "mark"
    /\ delayed' = [delayed EXCEPT ![closer.src] = NoClose]
    /\ closer' = [pc |-> "top", src |-> NoSource]
    /\ cl' = IF cl.pc = "pendingWait" THEN [cl EXCEPT !.pc = "pending"] ELSE cl
    /\ UNCHANGED <<keep_running, proc, main, queue, hand, worker, node, disk, want, nap,
                   ack, rx, misframed, faults, hist, ioVars>>

CloserGivesUp ==
    /\ closer.pc = "put" /\ MustGiveUp("closer")
    /\ want' = [want EXCEPT !["closer"] = NoItem]
    /\ closer' = [closer EXCEPT !.pc = "done"]
    /\ UNCHANGED <<keep_running, proc, main, queue, hand, worker, node, disk, nap, cl,
                   delayed, ack, rx, misframed, faults, hist, ioVars>>

-----------------------------------------------------------------------------
(* The receiver thread.                                                    *)

\* The source a packet of s is taken for: after one of the wrong size the
\* thread has not left the loop over its frames.
TakenFor(s) == IF misframed \in Sources THEN misframed ELSE s

\* A packet of whole events from a source.  While it waits for room the thread
\* takes no packet of any other source.
Packet(s, k) ==
    /\ Up /\ keep_running /\ want["rx"] = NoItem /\ rx < MaxPackets
    /\ rx' = rx + 1
    /\ misframed' = NoSource
    /\ want' = [want EXCEPT !["rx"] = Item("data", TakenFor(s), rx + 1, 0, k)]
    /\ UNCHANGED <<keep_running, proc, main, queue, hand, worker, node, disk, nap, cl,
                   closer, delayed, ack, faults, hist, ioVars>>

\* A packet that is not a number of events, or for which there is no memory, is
\* dropped, but the next frame is awaited as its payload: the name of the next
\* source is too short for one, the payload behind it is not.
WrongSizePacket(s) ==
    /\ Up /\ keep_running /\ want["rx"] = NoItem /\ Fault
    /\ misframed' = TakenFor(s)
    /\ UNCHANGED <<keep_running, proc, main, queue, hand, worker, node, disk, want, nap, cl,
                   closer, delayed, ack, rx, hist, ioVars>>

\* The thread waits there for a frame, not in the poll with a timeout: at the
\* stop a packet, or the signal, may end the wait.
FramesEnd ==
    /\ Up /\ ~keep_running /\ misframed # NoSource
    /\ misframed' = NoSource
    /\ UNCHANGED <<keep_running, proc, main, queue, hand, worker, node, disk, want, nap, cl,
                   closer, delayed, ack, rx, faults, hist, ioVars>>

QueuePacket ==
    /\ CanPut("rx")
    /\ queue' = Appended("rx", want["rx"])
    /\ want' = [want EXCEPT !["rx"] = NoItem]
    /\ UNCHANGED <<keep_running, proc, main, hand, worker, node, disk, nap, cl, closer,
                   delayed, ack, rx, misframed, faults, hist, ioVars>>

DropPacket ==
    /\ MustGiveUp("rx")
    /\ want' = [want EXCEPT !["rx"] = NoItem]
    /\ UNCHANGED <<keep_running, proc, main, queue, hand, worker, node, disk, nap, cl,
                   closer, delayed, ack, rx, misframed, faults, hist, ioVars>>

-----------------------------------------------------------------------------
(* A worker.                                                               *)

TakeItems(w) ==
    LET k == IF Len(queue[w]) > ProcessBatch THEN ProcessBatch ELSE Len(queue[w]) IN
    /\ Up /\ worker[w] = "loop" /\ keep_running /\ hand[w] = <<>>
    /\ queue[w] # <<>> /\ ~Locked(w)
    /\ hand' = [hand EXCEPT ![w] = SubSeq(queue[w], 1, k)]
    /\ queue' = [queue EXCEPT ![w] = SubSeq(@, k + 1, Len(@))]
    /\ nap' = Woken({w})
    /\ UNCHANGED <<keep_running, proc, main, worker, node, disk, want, cl, closer, delayed,
                   ack, rx, misframed, faults, hist, ioVars>>

Current(w, type) == Up /\ hand[w] # <<>> /\ Head(hand[w]).type = type
Done(w) == hand' = [hand EXCEPT ![w] = Tail(@)]

\* add_node: the node of the source with its new file; what was left in the
\* buffer is forgotten.
AddNode(s, n) ==
    [node EXCEPT ![s] = [known |-> TRUE, file |-> n, buf |-> <<>>, bytes |-> 0,
                         err |-> FALSE, count |-> IF @.known THEN @.count ELSE 0]]

\* open_worker_file: a file of the source is open already.
Busy(s) == node[s].file # 0

\* fopen, write_header or the flush behind it fails.
HeaderFails(s) == ~Busy(s) /\ Fault

OpenFile(w) ==
    /\ Current(w, "open") /\ Done(w)
    /\ LET i == Head(hand[w])
           s == i.src IN
       \/ /\ ~Busy(s)
          /\ node' = AddNode(s, i.n)
          /\ ack' = CompleteAck(i.token, TRUE)
          /\ UNCHANGED faults
       \/ /\ \/ Busy(s) /\ UNCHANGED faults
             \/ HeaderFails(s)
          /\ ack' = CompleteAck(i.token, FALSE)
          /\ UNCHANGED node
    /\ UNCHANGED <<keep_running, proc, main, queue, worker, disk, want, nap, cl, closer,
                   delayed, rx, misframed, hist, ioVars>>

\* close_worker_file: what is in the buffer is written and the file closed; a
\* source never opened is an error, one already closed is not.  The write may
\* fail, and so may have an earlier one on the same FILE (ferror).
CloseWorkerFile(w) ==
    /\ Current(w, "close") /\ Done(w)
    /\ LET i == Head(hand[w])
           s == i.src
           f == node[s].file
           closed == [node EXCEPT ![s].file = 0, ![s].buf = <<>>] IN
       \/ /\ f = 0
          /\ ack' = CompleteAck(i.token, node[s].known)
          /\ UNCHANGED <<disk, node, faults, hist>>
       \/ /\ f # 0
          /\ ack' = CompleteAck(i.token, ~node[s].err)
          /\ disk' = [disk EXCEPT ![f] = @ \o node[s].buf]
          /\ node' = closed
          /\ UNCHANGED <<faults, hist>>
       \/ /\ f # 0 /\ node[s].buf # <<>> /\ Fault
          /\ ack' = CompleteAck(i.token, FALSE)
          /\ node' = closed
          /\ damaged' = damaged \cup {f}
          /\ UNCHANGED <<disk, stored>>
    /\ UNCHANGED <<keep_running, proc, main, queue, worker, want, nap, cl, closer, delayed,
                   rx, misframed, ioVars>>

\* Data of a source that has no open file are discarded.
Discard(w) ==
    /\ Current(w, "data") /\ Done(w)
    /\ ~Head(hand[w]).begun /\ node[Head(hand[w]).src].file = 0
    /\ UNCHANGED <<keep_running, proc, main, queue, worker, node, disk, want, nap, cl, closer,
                   delayed, ack, rx, misframed, faults, hist, ioVars>>

\* rollover_file, when the next chunk opens: a new FILE, without errors.
Rolled(nd) == [nd EXCEPT !.bytes = 0, !.err = FALSE]

\* The packet in hand without the event that was handled last.
Rest(w) ==
    LET i == Head(hand[w]) IN
    IF i.left = 1 THEN Tail(hand[w])
    ELSE <<[i EXCEPT !.left = @ - 1, !.begun = TRUE]>> \o Tail(hand[w])

\* check_crc: an event that was damaged on its way is left out, uncounted.
SkipEvent(w) ==
    /\ Current(w, "data") /\ worker[w] = "loop"
    /\ Head(hand[w]).begun \/ Busy(Head(hand[w]).src)
    /\ Fault
    /\ hand' = [hand EXCEPT ![w] = Rest(w)]
    /\ UNCHANGED <<keep_running, proc, main, queue, worker, node, disk, want, nap, cl, closer,
                   delayed, ack, rx, misframed, hist, ioVars>>

\* An event is copied to the buffer; every FlushEvery events the buffer is
\* written.  The result of the write is not looked at.  A file that has
\* reached its limit is closed and the next chunk opened: a failure leaves the
\* source without a file.  Whether there is one is tested once per packet, so
\* the next write of the same packet goes to a null FILE and the process dies.
StoreEvent(w) ==
    /\ Current(w, "data") /\ worker[w] = "loop"
    /\ LET i == Head(hand[w])
           s == i.src
           f == node[s].file
           e == <<i.n, i.left>>
           count == node[s].count + 1
           buf == Append(node[s].buf, e)
           kept == [node[s] EXCEPT !.buf = buf, !.count = count]
           bytes == node[s].bytes + Len(buf)
           written == [kept EXCEPT !.buf = <<>>, !.bytes = bytes] IN
       /\ i.begun \/ f # 0
       /\ hand' = [hand EXCEPT ![w] = Rest(w)]
       /\ stored' = IF f = 0 THEN stored ELSE [stored EXCEPT ![f] = Append(@, e)]
       /\ IF count % FlushEvery # 0
          THEN /\ node' = [node EXCEPT ![s] = kept]
               /\ UNCHANGED <<proc, disk, faults, damaged>>
          ELSE IF f = 0
          THEN /\ proc' = "crashed"
               /\ UNCHANGED <<node, disk, faults, damaged>>
          ELSE \/ /\ disk' = [disk EXCEPT ![f] = @ \o buf]
                  /\ node' = [node EXCEPT ![s] = IF bytes < FileLimit THEN written ELSE Rolled(written)]
                  /\ UNCHANGED <<proc, faults, damaged>>
               \/ /\ Fault                                  \* the write fails
                  /\ node' = [node EXCEPT ![s] = IF bytes < FileLimit THEN [written EXCEPT !.err = TRUE]
                                                  ELSE Rolled(written)]
                  /\ damaged' = damaged \cup {f}
                  /\ UNCHANGED <<proc, disk>>
               \/ /\ bytes >= FileLimit /\ Fault           \* the rollover fails
                  /\ disk' = [disk EXCEPT ![f] = @ \o buf]
                  /\ node' = [node EXCEPT ![s] = [written EXCEPT !.file = 0]]
                  /\ damaged' = damaged \cup {f}
                  /\ UNCHANGED proc
    /\ UNCHANGED <<keep_running, main, queue, worker, want, nap, cl, closer, delayed, ack,
                   rx, misframed, ioVars>>

\* Mutant: the buffers are forgotten.
WorkerEndsUnflushed(w) ==
    /\ Up /\ worker[w] = "loop" /\ ~keep_running /\ hand[w] = <<>> /\ ~Locked(w)
    /\ worker' = [worker EXCEPT ![w] = "done"]
    /\ node' = [s \in Sources |-> [node[s] EXCEPT !.buf = <<>>]]
    /\ UNCHANGED <<keep_running, proc, main, queue, hand, disk, want, nap, cl, closer, delayed, ack,
                   rx, misframed, faults, hist, ioVars>>

\* The loop ends once the items in hand are processed; the buffers of the open
\* files are written; what is still on the queue is lost.
WorkerEnds(w) ==
    LET open == {s \in Sources : WorkerOf[s] = w /\ node[s].file # 0} IN
    /\ Up /\ worker[w] = "loop" /\ ~keep_running /\ hand[w] = <<>> /\ ~Locked(w)
    /\ worker' = [worker EXCEPT ![w] = "done"]
    /\ disk' = [f \in Files |-> IF \E s \in open : node[s].file = f
                                THEN disk[f] \o node[CHOOSE s \in open : node[s].file = f].buf
                                ELSE disk[f]]
    /\ node' = [s \in Sources |-> IF s \in open THEN [node[s] EXCEPT !.buf = <<>>] ELSE node[s]]
    /\ UNCHANGED <<keep_running, proc, main, queue, hand, want, nap, cl, closer, delayed, ack,
                   rx, misframed, faults, hist, ioVars>>

-----------------------------------------------------------------------------
(* The main thread and the server that supervises the process.             *)

\* stop_persistent_receiver: process.terminate().
Terminate ==
    /\ Up /\ keep_running
    /\ keep_running' = FALSE
    /\ UNCHANGED <<proc, main, queue, hand, worker, node, disk, want, nap, cl, closer,
                   delayed, ack, rx, misframed, faults, hist, ioVars>>

\* The broadcasts on the queues do not take their locks; the one on the table
\* of delayed closes does.
WakeAll ==
    /\ Up /\ main = "sleep" /\ ~keep_running
    /\ main' = "join"
    /\ nap' = Woken(Workers)
    /\ closer' = IF closer.pc = "asleep" THEN [closer EXCEPT !.pc = "top"] ELSE closer
    /\ cl' = IF cl.pc = "pendingWait" THEN [cl EXCEPT !.pc = "pending"] ELSE cl
    /\ UNCHANGED <<keep_running, proc, queue, hand, worker, node, disk, want, delayed, ack,
                   rx, misframed, faults, hist, ioVars>>

JoinAll ==
    /\ Up /\ main = "join" /\ want["rx"] = NoItem /\ misframed = NoSource
    /\ closer.pc = "done"
    /\ cl.pc = "done" /\ \A w \in Workers : worker[w] = "done"
    /\ proc' = "ended"
    /\ UNCHANGED <<keep_running, main, queue, hand, worker, node, disk, want, nap, cl, closer,
                   delayed, ack, rx, misframed, faults, hist, ioVars>>

\* Mutant: the server waits without a timeout.
KillNever == FALSE /\ UNCHANGED vars

\* process.wait(timeout=5.0) has expired: process.kill().  The main thread looks
\* at keep_running every second, so it has woken the others by then.
Kill ==
    /\ Up /\ main = "join"
    /\ proc' = "killed"
    /\ UNCHANGED <<keep_running, main, queue, hand, worker, node, disk, want, nap, cl, closer,
                   delayed, ack, rx, misframed, faults, hist, ioVars>>

-----------------------------------------------------------------------------
(* External: the producer of a source executes its commands in order and   *)
(* answers those that carry a number; a publication may be lost.           *)

ProducerExecutes(s) ==
    /\ Up /\ chan[s] # <<>>
    /\ chan' = [chan EXCEPT ![s] = Tail(@)]
    /\ LET c == Head(chan[s])
           on == IF c.cmd \in {"start", "START_PRODUCER"} THEN "on" ELSE "off" IN
       \/ /\ producer' = [producer EXCEPT ![s] = on]
          /\ acks' = IF c.n = 0 THEN acks ELSE acks \cup {[src |-> s, n |-> c.n, ok |-> TRUE]}
          /\ UNCHANGED faults
       \/ /\ Fault                            \* the producer refuses
          /\ acks' = IF c.n = 0 THEN acks ELSE acks \cup {[src |-> s, n |-> c.n, ok |-> FALSE]}
          /\ UNCHANGED producer
    /\ UNCHANGED <<keep_running, proc, main, queue, hand, worker, node, disk, want, nap, cl,
                   closer, delayed, ack, rx, misframed, hist>>

PublicationLost(s) ==
    /\ Up /\ chan[s] # <<>> /\ Fault
    /\ chan' = [chan EXCEPT ![s] = Tail(@)]
    /\ UNCHANGED <<keep_running, proc, main, queue, hand, worker, node, disk, want, nap, cl,
                   closer, delayed, ack, rx, misframed, acks, producer, hist>>

-----------------------------------------------------------------------------
ListenerStep ==
    \/ \E s \in Sources, op \in FileOps : FileCommand(op, s)
    \/ \E s \in Sources, op \in ProducerOps : ProducerCommand(op, s)
    \/ \E s \in Sources : CloseCommand(s)
    \/ NoPendingClose \/ PendingClose \/ QueueCommand
    \/ AckArrives \/ AckTimeout \/ ProducerTimeout \/ ListenerEnds
    \/ \E a \in acks : ProducerAnswer(a)
    \/ WaitForRoom("cl") \/ FallAsleep("cl")

CloserStep ==
    \/ CloserLoop \/ CloserSleeps \/ QueueClose \/ CloseQueued \/ CloserGivesUp
    \/ \E s \in Sources : CloserPicks(s)
    \/ WaitForRoom("closer") \/ FallAsleep("closer")

ReceiverStep ==
    \/ QueuePacket \/ DropPacket
    \/ WaitForRoom("rx") \/ FallAsleep("rx")

WorkerStep(w) ==
    \/ TakeItems(w) \/ OpenFile(w) \/ CloseWorkerFile(w) \/ Discard(w)
    \/ SkipEvent(w) \/ StoreEvent(w) \/ WorkerEnds(w)

Next ==
    \/ ListenerStep \/ CloserStep \/ ReceiverStep
    \/ \E w \in Workers : WorkerStep(w)
    \/ \E s \in Sources, k \in PacketSizes : Packet(s, k)
    \/ \E s \in Sources : WrongSizePacket(s)
    \/ FramesEnd
    \/ \E s \in Sources : GraceOver(s) \/ ProducerExecutes(s) \/ PublicationLost(s)
    \/ Terminate \/ WakeAll \/ JoinAll \/ Kill

Spec == Init /\ [][Next]_vars

\* A command may never come; everything a thread has begun it carries on.
ListenerGoesOn ==
    ListenerStep /\ (cl.pc # "poll" \/ ~keep_running)

FairSpec ==
    /\ Spec
    /\ WF_vars(ListenerGoesOn) /\ WF_vars(CloserStep) /\ WF_vars(ReceiverStep)
    /\ \A w \in Workers : WF_vars(WorkerStep(w))
    /\ \A s \in Sources : WF_vars(GraceOver(s))
    /\ WF_vars(WakeAll) /\ WF_vars(JoinAll) /\ WF_vars(Kill)

-----------------------------------------------------------------------------
(* Properties.                                                             *)

Items == [type : {"open", "close", "data"}, src : Sources, n : Nat, token : Nat, left : Nat,
          begun : BOOLEAN]

\* The queues never exceed their size and every record has its type.
TypeOK ==
    /\ keep_running \in BOOLEAN
    /\ proc \in {"up", "ended", "killed", "crashed"} /\ main \in {"sleep", "join"}
    /\ \A w \in Workers :
          /\ Len(queue[w]) <= QueueSize /\ Len(hand[w]) <= ProcessBatch
          /\ \A j \in DOMAIN queue[w] : queue[w][j] \in Items
          /\ \A j \in DOMAIN hand[w] : hand[w][j] \in Items
    /\ \A s \in Sources : node[s].file \in 0..MaxCommands /\ node[s].err \in BOOLEAN
    /\ \A t \in Threads : want[t] \in Items \cup {NoItem} /\ nap[t] \in {"awake", "going", "asleep"}
    /\ cl.pc \in {"poll", "pending", "pendingWait", "put", "ackWait", "producerWait", "done"}
    /\ closer.pc \in {"top", "scan", "asleep", "put", "mark", "done"}
    /\ ack.waiting \in 0..ack.serial
    /\ rx \in 0..MaxPackets /\ faults \in 0..MaxFaults
    /\ Cardinality({s \in Sources : delayed[s] # NoClose}) <= MaxDelayed

Pending(w) == hand[w] \o queue[w]

\* The delayed close of a run never closes the file of the next one: ahead of
\* a close on its way to the worker there is no OPEN of a later command, and no
\* file of a later command is open (wait_for_pending_close, the FIFO queue and
\* an entry that stays active until its item is queued).
NoStaleClose ==
    Up => \A s \in Sources :
        LET w == WorkerOf[s]
            q == Pending(w) IN
        /\ \A j \in DOMAIN q : (q[j].type = "close" /\ q[j].src = s) =>
              /\ node[s].file <= q[j].n
              /\ \A i \in 1..(j - 1) : (q[i].type = "open" /\ q[i].src = s) => q[i].n < q[j].n
        /\ delayed[s] # NoClose =>
              /\ node[s].file <= delayed[s].n
              /\ \A i \in DOMAIN q : (q[i].type = "open" /\ q[i].src = s) => q[i].n < delayed[s].n

\* Queues within their limits, in an order in which no close can reach the file
\* of a later run.
QueuesConsistent == TypeOK /\ NoStaleClose

\* An OK is true until the next command: after OPEN_READY the file of this
\* command is open (or its disk has failed), after CLOSE_READY none is, no close
\* is on its way and nothing is left in the buffer, unless a disk has failed
\* (after a rollover that failed the rest of the packet may be in the buffer of
\* a source without a file, and the close is answered with OK), after CLOSE the
\* file is closed or a close is on its way, after a producer command the
\* producer does as it was told.
\* A late acknowledgement or answer of an earlier command is never taken for it.
ReplyIsTrue ==
    (Up /\ keep_running /\ cl.pc = "poll" /\ cl.reply = "OK") =>
        LET s == cl.src
            q == Pending(WorkerOf[s])
            closing == delayed[s] # NoClose \/ \E j \in DOMAIN q : q[j].type = "close" /\ q[j].src = s IN
        CASE cl.op = "OPEN_READY" -> node[s].file = cl.n \/ cl.n \in damaged
          [] cl.op = "CLOSE_READY" -> /\ node[s].file = 0 /\ ~closing
                                      /\ node[s].buf = <<>> \/ damaged # {}
          [] cl.op = "CLOSE" -> node[s].file # 0 => closing
          [] cl.op = "START_PRODUCER" -> producer[s] = "on"
          [] cl.op \in {"STOP_PRODUCER", "RESET_PRODUCER"} -> producer[s] = "off"
          [] OTHER -> TRUE

\* No event accepted for a file is lost, duplicated or reordered: it is in the
\* file or in the buffer of the open file, also after an orderly stop, unless
\* the disk has failed.
FileComplete ==
    proc \in {"up", "ended"} =>
        \A f \in Files \ damaged :
            \/ \E s \in Sources : node[s].file = f /\ stored[f] = disk[f] \o node[s].buf
            \/ stored[f] = disk[f]

\* Every command is answered while the receiver runs: no wait of the listener
\* (for a pending close, for room, for the worker, for the producer) is for ever.
CommandAnswered ==
    (cl.pc \notin {"poll", "done"}) ~> (cl.pc \in {"poll", "done"} \/ ~keep_running \/ ~Up)

\* A receiver that is told to stop is gone in the end, although a broadcast of
\* the main thread can be missed: the server kills what does not end by itself.
StopEnds == ~keep_running ~> ~Up

=============================================================================
