---------------------------- MODULE MonitorStreams ----------------------------
(***************************************************************************)
(* A sample stream of a board (server/services/monitor_stream_service.py):  *)
(* who wants it, what the board was told, and how the two are brought      *)
(* together after the board was away.                                      *)
(*                                                                         *)
(* The threads are the command line (subscribe, unsubscribe), the worker   *)
(* that starts the streams again, and the I/O threads of the monitoring    *)
(* and of the control plane, which both invalidate the stream when they    *)
(* lose the board.  A command goes through the outgoing queue, which only   *)
(* the monitoring thread empties, over the wire to the board, and its reply *)
(* comes back through that thread as well.  Interval 0 stands for None.    *)
(***************************************************************************)
EXTENDS Integers, Sequences, FiniteSets, FiniteSetsExt

CONSTANTS
    Consumers,         \* "show", "prometheus", "persistence"
    Intervals,         \* sampling intervals, positive
    Attempts,          \* STREAM_RECONCILE_ATTEMPTS
    MaxCalls,          \* bound: commands sent to the board
    MaxFaults,         \* bound: losses and restarts of the board
    None

ASSUME StreamsAssumption ==
    /\ Intervals \subseteq Nat \ {0} /\ IsFiniteSet(Intervals)
    /\ Attempts \in Nat \ {0} /\ MaxCalls \in Nat /\ MaxFaults \in Nat
    /\ None \notin Consumers \cup {"cli", "worker"}
    /\ None \notin [consumer : Consumers, interval : Intervals \cup {0}]

Threads == {"monitoring", "control"}     \* I/O threads
Callers == {"cli", "worker"}

VARIABLES
    stream,            \* _streamers entry: known, consumers, desired, actual
    lock,              \* holder of the producer lock of the stream, or None
    cli,               \* the user's command
    worker,            \* _reconcile_worker: its step and attempt
    again,             \* the board is in _reconcile_again
    reported,          \* the last reconciliation was reported as failed
    io,                \* per I/O thread: its step, and if a hello waits behind it
    registered,        \* the board has a record, which the control plane keeps
    on_plane,          \* the board is on the monitoring plane
    call,              \* command of the holder of the lock: "none", "waiting", "ok", "failed"
    request,           \* number of the last command
    outgoing,          \* mon_outgoing_queue
    wire, replies,     \* to the board, and from it
    hello,             \* a hello of the board is on its way
    config,            \* config of the section on the board
    faults,
    doubt              \* a command failed after it was sent
plane == <<registered, on_plane>>
server == <<stream, lock, cli, worker, again, reported, io, plane, call, request,
            outgoing, doubt>>
vars == <<server, wire, replies, hello, config, faults>>

Absent == [known |-> FALSE, consumers |-> [c \in Consumers |-> 0], desired |-> 0, actual |-> 0]
IdleCli == [pc |-> "idle", consumer |-> None, interval |-> 0, previous |-> Absent]
OffWorker == [pc |-> "off", attempt |-> 0]

Init ==
    /\ stream = Absent /\ lock = None
    /\ cli = IdleCli
    /\ worker = OffWorker
    /\ again = FALSE /\ reported = FALSE
    /\ io = [t \in Threads |-> [pc |-> "idle", hello |-> FALSE]]
    /\ registered = TRUE /\ on_plane = TRUE
    /\ call = "none" /\ request = 0 /\ outgoing = <<>> /\ wire = <<>> /\ replies = <<>>
    /\ hello = FALSE /\ config = 0 /\ faults = 0 /\ doubt = FALSE

------------------------------------------------------------------------------
(* The stream *)

\* _compute_producer_interval_ns_locked: the shortest interval that is wanted.
ComputeProducerInterval(consumers) ==
    LET wanted == {consumers[c] : c \in Consumers} \ {0}
    IN  IF wanted = {} THEN 0 ELSE Min(wanted)

\* _determine_producer_action_locked.
DetermineProducerAction(s) ==
    CASE s.actual = 0 /\ s.desired # 0 -> "start"
      [] s.actual # 0 /\ s.desired = 0 -> "stop"
      [] s.actual # 0 /\ s.desired # 0 /\ s.actual # s.desired -> "reconfigure"
      [] OTHER -> "none"

\* add_or_update_subscription and remove_subscription, for interval 0.
Updated(c, interval) ==
    LET consumers == [stream.consumers EXCEPT ![c] = interval]
    IN  [stream EXCEPT !.known = TRUE, !.consumers = consumers,
                       !.desired = ComputeProducerInterval(consumers)]

Release == lock' = None

------------------------------------------------------------------------------
(* Commands to the board, by the thread that holds the lock *)

\* A command fails at once when the board is off the plane.
Send(t, failsAnyway) ==
    /\ lock = t /\ call = "none"
    /\ IF t = "cli" THEN cli.pc = "apply" ELSE worker.pc = "apply"
    /\ \/ /\ ~on_plane \/ failsAnyway
          /\ call' = "failed"
          /\ UNCHANGED <<request, outgoing>>
       \/ /\ on_plane /\ request < MaxCalls
          /\ call' = "waiting"
          /\ request' = request + 1
          /\ outgoing' = Append(outgoing, [id |-> request + 1, interval |-> stream.desired])
    /\ UNCHANGED <<stream, lock, cli, worker, again, reported, io, plane, wire,
                   replies, hello, config, faults, doubt>>

\* A start, or another interval, needs the clock of the board synchronized.
StartSample(t) == stream.desired # 0 /\ Send(t, TRUE)
StopSample(t) == stream.desired = 0 /\ Send(t, FALSE)

TimeOut ==
    /\ call = "waiting"
    /\ call' = "failed" /\ doubt' = TRUE
    /\ UNCHANGED <<stream, lock, cli, worker, again, reported, io, plane, request,
                   outgoing, wire, replies, hello, config, faults>>

\* _set_active_producer_state after a success.
SetActive == stream' = [stream EXCEPT !.actual = stream.desired]

------------------------------------------------------------------------------
(* subscribe and unsubscribe *)

\* show_start and the others that want samples; interval 0 is their end.
Order(c, interval) ==
    /\ cli.pc = "idle"
    /\ cli' = [IdleCli EXCEPT !.pc = "lock", !.consumer = c, !.interval = interval]
    /\ UNCHANGED <<stream, lock, worker, again, reported, io, plane, call, request,
                   outgoing, wire, replies, hello, config, faults, doubt>>

\* Under the lock the book is changed first, with the former state kept aside.
ChangeBook ==
    LET new == Updated(cli.consumer, cli.interval) IN
    /\ cli.pc = "lock" /\ lock = None
    /\ stream' = new
    /\ IF DetermineProducerAction(new) = "none"
       THEN cli' = IdleCli /\ UNCHANGED lock
       ELSE cli' = [cli EXCEPT !.pc = "apply", !.previous = stream] /\ lock' = "cli"
    /\ UNCHANGED <<worker, again, reported, io, plane, call, request, outgoing, wire,
                   replies, hello, config, faults, doubt>>

Subscribe == cli.pc = "lock" /\ cli.interval # 0 /\ ChangeBook
Unsubscribe ==
    cli.pc = "lock" /\ cli.interval = 0 /\ stream.consumers[cli.consumer] # 0 /\ ChangeBook

\* Nobody to unsubscribe.
UnsubscribeRefused ==
    /\ cli.pc = "lock" /\ lock = None
    /\ cli.interval = 0 /\ stream.consumers[cli.consumer] = 0
    /\ cli' = IdleCli
    /\ UNCHANGED <<stream, lock, worker, again, reported, io, plane, call, request,
                   outgoing, wire, replies, hello, config, faults, doubt>>

\* Mutant: a failed command removes the stream, also one that was there before.
SubscribeAppliedPops ==
    /\ lock = "cli" /\ call \in {"ok", "failed"}
    /\ IF call = "ok" THEN SetActive ELSE stream' = Absent
    /\ doubt' = (call = "failed" /\ doubt)
    /\ cli' = IdleCli /\ call' = "none" /\ Release
    /\ UNCHANGED <<worker, again, reported, io, plane, request, outgoing, wire, replies,
                   hello, config, faults>>

\* The command failed: _restore_stream_state.
SubscribeApplied ==
    /\ lock = "cli" /\ call \in {"ok", "failed"}
    /\ IF call = "ok" THEN SetActive ELSE stream' = cli.previous
    /\ doubt' = (call = "failed" /\ doubt)
    /\ cli' = IdleCli /\ call' = "none" /\ Release
    /\ UNCHANGED <<worker, again, reported, io, plane, request, outgoing, wire, replies,
                   hello, config, faults>>

------------------------------------------------------------------------------
(* The reconciliation *)

WorkerGoto(pc) == worker' = [worker EXCEPT !.pc = pc]

\* reconcile_client_streams_in_background.
ReconcileInBackground ==
    IF worker.pc # "off" THEN again' = TRUE /\ UNCHANGED <<worker, reported>>
    ELSE worker' = [pc |-> "check", attempt |-> 1] /\ reported' = FALSE /\ UNCHANGED again

WorkerKeeps == UNCHANGED <<cli, io, plane, request, outgoing, wire, replies, hello,
                           config, faults>>

\* _reconcile_with_retries: a board that is gone again is given up; no stream to
\* start is a success.
ReconcileCheck ==
    /\ worker.pc = "check"
    /\ WorkerGoto(IF ~on_plane THEN "failed" ELSE IF stream.desired = 0 THEN "done" ELSE "lock")
    /\ WorkerKeeps /\ UNCHANGED <<stream, lock, again, reported, call, doubt>>

\* reconcile_client_streams: what is missing now, under the lock.
ReconcileStream ==
    /\ worker.pc = "lock" /\ lock = None
    /\ IF stream.known /\ DetermineProducerAction(stream) # "none"
       THEN WorkerGoto("apply") /\ lock' = "worker"
       ELSE WorkerGoto("done") /\ UNCHANGED lock
    /\ WorkerKeeps /\ UNCHANGED <<stream, again, reported, call, doubt>>

ReconcileApplied ==
    /\ lock = "worker" /\ call \in {"ok", "failed"}
    /\ IF call = "ok" THEN SetActive /\ WorkerGoto("done")
       ELSE UNCHANGED stream /\ WorkerGoto(IF worker.attempt < Attempts THEN "sleep" ELSE "failed")
    /\ doubt' = (call = "failed" /\ doubt)
    /\ call' = "none" /\ Release
    /\ WorkerKeeps /\ UNCHANGED <<again, reported>>

\* Mutant: the next attempt waits for another return of the board.
ReconcileRetryWaits ==
    /\ worker.pc = "sleep" /\ again
    /\ worker' = [pc |-> "check", attempt |-> worker.attempt + 1]
    /\ WorkerKeeps /\ UNCHANGED <<stream, lock, again, reported, call, doubt>>

ReconcileRetry ==
    /\ worker.pc = "sleep"
    /\ worker' = [pc |-> "check", attempt |-> worker.attempt + 1]
    /\ WorkerKeeps /\ UNCHANGED <<stream, lock, again, reported, call, doubt>>

\* Mutant: the worker ends without a look at _reconcile_again.
ReconcileEndForgets ==
    /\ worker.pc \in {"done", "failed"}
    /\ worker' = OffWorker /\ reported' = (worker.pc = "failed") /\ again' = FALSE
    /\ WorkerKeeps /\ UNCHANGED <<stream, lock, call, doubt>>

\* The end of _reconcile_worker, and _report_stream_reconciliation.
ReconcileEnd ==
    /\ worker.pc \in {"done", "failed"}
    /\ IF again THEN worker' = [pc |-> "check", attempt |-> 1] /\ again' = FALSE /\ UNCHANGED reported
       ELSE worker' = OffWorker /\ reported' = (worker.pc = "failed") /\ UNCHANGED again
    /\ WorkerKeeps /\ UNCHANGED <<stream, lock, call, doubt>>

\* An exception ends the worker: both sets forget the board.
ReconcileRaises ==
    /\ worker.pc = "apply" /\ call = "none"
    /\ worker' = OffWorker /\ again' = FALSE /\ reported' = TRUE
    /\ Release
    /\ WorkerKeeps /\ UNCHANGED <<stream, call, doubt>>

------------------------------------------------------------------------------
(* The I/O threads *)

IoGoto(t, pc) == io' = [io EXCEPT ![t].pc = pc]
IoKeeps == UNCHANGED <<cli, request, faults, config, wire, hello>>

\* remove_client of the manager, in the thread that has lost the board.
Lose(t) ==
    /\ io[t].pc = "idle" /\ on_plane /\ faults < MaxFaults
    /\ on_plane' = FALSE /\ faults' = faults + 1
    /\ IoGoto(t, "list")
    /\ UNCHANGED <<stream, lock, cli, worker, again, reported, registered, call, request,
                   outgoing, wire, replies, hello, config, doubt>>

\* The control thread removes the record at the end, and with it a board that
\* the monitoring thread has admitted meanwhile.
Forget ==
    /\ io["control"].pc = "forget"
    /\ registered' = FALSE /\ on_plane' = FALSE
    /\ IoGoto("control", "cancel")
    /\ UNCHANGED <<stream, lock, worker, again, reported, call, outgoing, replies, doubt>>
    /\ IoKeeps

\* The control handshake of a board that is back.
Registered ==
    /\ io["control"].pc = "idle" /\ ~registered
    /\ registered' = TRUE
    /\ UNCHANGED <<stream, lock, worker, again, reported, io, on_plane, call, outgoing,
                   replies, doubt>>
    /\ IoKeeps

\* _accept_hello: refused without a record; a board that is still on the plane
\* was away unnoticed, and is lost first.
AcceptHello ==
    /\ io["monitoring"].pc = "idle" /\ hello
    /\ hello' = FALSE
    /\ io' = IF ~registered THEN io
             ELSE [io EXCEPT !["monitoring"] = [pc |-> IF on_plane THEN "list" ELSE "admit",
                                                hello |-> TRUE]]
    /\ on_plane' = (on_plane /\ ~registered)
    /\ UNCHANGED <<stream, lock, cli, worker, again, reported, registered, call, request,
                   outgoing, wire, replies, config, faults, doubt>>

\* add_client, which does nothing for a board whose record is gone.
Admit ==
    /\ io["monitoring"].pc = "admit"
    /\ on_plane' = registered
    /\ IoGoto("monitoring", "relist")
    /\ UNCHANGED <<stream, lock, worker, again, reported, registered, call, outgoing,
                   replies, doubt>>
    /\ IoKeeps

AfterInvalidation(t) == IF t = "control" THEN "forget" ELSE "cancel"

\* invalidate_client_actual_state: the streams of the board are listed...
ListStreams(t) ==
    /\ io[t].pc \in {"list", "relist"}
    /\ IoGoto(t, CASE io[t].pc = "list" /\ stream.known -> "invalidate"
                   [] io[t].pc = "list" /\ ~stream.known -> AfterInvalidation(t)
                   [] io[t].pc = "relist" /\ stream.known -> "reinvalidate"
                   [] io[t].pc = "relist" /\ ~stream.known -> "background")
    /\ UNCHANGED <<stream, lock, worker, again, reported, plane, call, outgoing, replies, doubt>>
    /\ IoKeeps

\* ...and marked as stopped, one after the other, under their locks.
Invalidate(t) ==
    /\ io[t].pc \in {"invalidate", "reinvalidate"} /\ lock = None
    /\ stream' = [stream EXCEPT !.actual = 0]
    /\ IoGoto(t, IF io[t].pc = "invalidate" THEN AfterInvalidation(t) ELSE "background")
    /\ UNCHANGED <<lock, worker, again, reported, plane, call, outgoing, replies, doubt>>
    /\ IoKeeps

\* _cancel_pending_replies comes after remove_client.
CancelReplies(t) ==
    /\ io[t].pc = "cancel"
    /\ call' = IF call = "waiting" THEN "failed" ELSE call
    /\ doubt' = (doubt \/ call = "waiting")
    /\ IoGoto(t, IF io[t].hello THEN "admit" ELSE "idle")
    /\ UNCHANGED <<stream, lock, worker, again, reported, plane, outgoing, replies>>
    /\ IoKeeps

\* _on_monitoring_client_reconnected.
Reconnected ==
    /\ io["monitoring"].pc = "background"
    /\ ReconcileInBackground
    /\ io' = [io EXCEPT !["monitoring"] = [pc |-> "idle", hello |-> FALSE]]
    /\ UNCHANGED <<stream, lock, plane, call, outgoing, replies, doubt>>
    /\ IoKeeps

\* The loop of the monitoring thread: replies in, commands out.
DeliverReply ==
    /\ io["monitoring"].pc = "idle" /\ replies # <<>>
    /\ replies' = Tail(replies)
    /\ LET reply == Head(replies)
           mine == call = "waiting" /\ reply.id = request
       IN  /\ call' = IF mine THEN IF reply.ok THEN "ok" ELSE "failed" ELSE call
           /\ doubt' = doubt
    /\ UNCHANGED <<stream, lock, worker, again, reported, io, plane, outgoing>>
    /\ IoKeeps

SendNext ==
    /\ io["monitoring"].pc = "idle" /\ outgoing # <<>>
    /\ outgoing' = Tail(outgoing)
    /\ wire' = IF on_plane THEN Append(wire, Head(outgoing)) ELSE wire
    /\ UNCHANGED <<stream, lock, cli, worker, again, reported, io, plane, call, request,
                   replies, hello, config, faults, doubt>>

------------------------------------------------------------------------------
(* The board *)

\* The command is answered.
SendMonitoringReply(ok) ==
    /\ wire' = Tail(wire)
    /\ replies' = Append(replies, [id |-> Head(wire).id, ok |-> ok])
    /\ UNCHANGED <<server, hello, faults>>

\* start_section and stop_section of the MonitorSampleService; the loop of the
\* section reads the interval before every sample.
StartSection == config' = Head(wire).interval
StopSection == config' = 0

\* handle_commands: the next command.
HandleCommand == wire # <<>>

\* A start fails without the HV service.
HandleSampleStart(ok) ==
    /\ HandleCommand /\ Head(wire).interval # 0
    /\ IF ok THEN StartSection ELSE UNCHANGED config
    /\ SendMonitoringReply(ok)

HandleSampleStop ==
    /\ HandleCommand /\ Head(wire).interval = 0
    /\ StopSection
    /\ SendMonitoringReply(TRUE)

\* The handshake on a new socket: what was on the way to the old one is lost.
Handshake ==
    /\ wire' = <<>> /\ hello' = TRUE
    /\ UNCHANGED <<server, replies>>

\* recover_connection, in the same process: the sections go on.
RecoverConnection ==
    /\ ~on_plane /\ ~hello /\ \A t \in Threads : io[t].pc = "idle"
    /\ Handshake
    /\ UNCHANGED <<config, faults>>

\* A new process of the board.
Restarts ==
    /\ faults < MaxFaults
    /\ faults' = faults + 1
    /\ config' = 0
    /\ Handshake

------------------------------------------------------------------------------
UserStep == Subscribe \/ Unsubscribe \/ UnsubscribeRefused \/ SubscribeApplied
WorkerStep == \/ ReconcileCheck \/ ReconcileStream \/ ReconcileApplied \/ ReconcileRetry
              \/ ReconcileEnd
IoStep(t) == ListStreams(t) \/ Invalidate(t) \/ CancelReplies(t)
LoopStep == Forget \/ AcceptHello \/ Admit \/ Reconnected \/ DeliverReply \/ SendNext

Next ==
    \/ \E c \in Consumers, i \in Intervals \cup {0} : Order(c, i)
    \/ UserStep
    \/ \E t \in Callers : StartSample(t) \/ StopSample(t)
    \/ TimeOut
    \/ WorkerStep \/ ReconcileRaises
    \/ \E t \in Threads : Lose(t) \/ IoStep(t)
    \/ LoopStep \/ Registered
    \/ \E ok \in BOOLEAN : HandleSampleStart(ok)
    \/ HandleSampleStop
    \/ RecoverConnection \/ Restarts

Spec == Init /\ [][Next]_vars

\* The threads run and a wait for a reply ends.  Between two orders of a user the
\* lock is free for much longer than a thread that wants it needs: strong fairness.
Fairness ==
    /\ WF_vars(UserStep) /\ SF_vars(WorkerStep) /\ WF_vars(LoopStep) /\ WF_vars(Forget)
    /\ WF_vars(TimeOut)
    /\ \A t \in Callers : WF_vars(StartSample(t) \/ StopSample(t))
    /\ \A t \in Threads : SF_vars(IoStep(t))

FairSpec == Spec /\ Fairness

------------------------------------------------------------------------------
(* Properties *)

Settled == /\ lock = None /\ worker.pc = "off" /\ ~hello
           /\ \A t \in Threads : io[t].pc = "idle"

\* desired is the shortest interval of the book, a command has a holder of the
\* lock behind it, and the lock has at most one holder that works under it.
TypeOK ==
    /\ stream.consumers \in [Consumers -> Intervals \cup {0}]
    /\ stream.desired = ComputeProducerInterval(stream.consumers)
    /\ stream.actual \in Intervals \cup {0} /\ config \in Intervals \cup {0}
    /\ lock \in Callers \cup {None}
    /\ call # "none" => lock # None
    /\ lock = "cli" <=> cli.pc = "apply"
    /\ lock = "worker" <=> worker.pc = "apply"
    /\ worker.attempt \in 0..Attempts /\ again \in BOOLEAN
    /\ request \in 0..MaxCalls /\ faults \in 0..MaxFaults

\* A stream that the server believes running is running on the board at that
\* interval, unless a command failed whose effect nobody knows, or the board has
\* just come back and the server has not got to its hello.
ActiveIsReal ==
    Settled /\ on_plane /\ stream.actual # 0 /\ ~doubt => config = stream.actual

\* A board that is back gets its streams again or the user is told: two returns
\* in a row, a worker about to end and a user's command cannot make the service
\* forget a stream that is wanted.
NoForgottenReturn ==
    Settled /\ on_plane /\ stream.desired # 0 /\ stream.actual = 0 => reported

\* The stream record, the lock and the commands agree; when nothing is under
\* way, what the server believes is what the board does, and what it believes
\* stopped though it is wanted has been reported.
StreamConsistent == TypeOK /\ ActiveIsReal /\ NoForgottenReturn

\* The orders of the user and nothing else change who wants samples: a failed
\* command, a loss, a return and the reconciliation leave the book as it was.
Book == INSTANCE SubscriptionBook WITH
    book <- IF cli.pc = "apply" THEN cli.previous.consumers ELSE stream.consumers,
    order <- IF cli.pc = "idle" THEN None
             ELSE [consumer |-> cli.consumer, interval |-> cli.interval]
BookKept == Book!Spec

\* A stream that is wanted by a board on the plane runs or is reported.
WantedComesBack ==
    (on_plane /\ stream.desired # 0 /\ stream.actual = 0)
        ~> (~on_plane \/ stream.desired = 0 \/ stream.actual # 0 \/ reported)

\* What the comments of _on_monitoring_client_reconnected and _notify_client_lost
\* say: the I/O thread does not wait for the network.
IoNeverWaitsForNetwork ==
    \A t \in Threads : io[t].pc \in {"invalidate", "reinvalidate"} => call # "waiting"

==============================================================================
