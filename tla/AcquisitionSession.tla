-------------------------- MODULE AcquisitionSession --------------------------
(***************************************************************************)
(* One acquisition after the other, at the level of the hardware           *)
(* (run_acquisition_session in server/services/acquisition_service.py): the *)
(* session thread opens a file per board at the receiver, starts the       *)
(* board's producer, enables its channels (RC19), waits, and undoes all of  *)
(* it, while the I/O threads lose and admit boards and tell on_client_lost. *)
(*                                                                         *)
(* A command to a board or to the receiver is confirmed, or its outcome is *)
(* unknown: it may have had its effect or not.  A write of RC19 whose reply *)
(* timed out may also still be queued at the board; the queue is FIFO, so a *)
(* later confirmed command to the same board comes after it.  The loops    *)
(* over clients are a set of clients still to do, in any order.            *)
(***************************************************************************)
EXTENDS FiniteSets

CONSTANT
    Clients            \* the boards

VARIABLES
    \* the boards and the receiver
    file,              \* boards whose file is open at the receiver
    producer,          \* boards whose producer is sending
    rc19,              \* boards with enabled channels
    late,              \* boards with a write of RC19 still in their queue
    \* the registry, as the session sees it
    on_plane,          \* boards on the acquisition plane
    known,             \* boards whose identity (numeric id) is known
    notifying,         \* boards removed, on_client_lost not called yet
    \* AcquisitionService, shared between the threads
    stop_requested,    \* _stop_requested
    session_clients,   \* _session_clients
    acquiring_clients, \* _acquiring_clients
    lost_clients,      \* _lost_clients
    run,               \* the session thread: its step and its locals
    \* history
    unclosed,          \* the last CLOSE sent for the board was not confirmed
    away               \* boards removed from the plane during the wait

hardware == <<file, producer, rc19, late>>
registry == <<on_plane, known, notifying>>
shared == <<session_clients, acquiring_clients, lost_clients>>
history == <<unclosed, away>>
vars == <<hardware, registry, stop_requested, shared, run, history>>

\* client_ids is the batch; todo what the present loop has still to visit; masks
\* the clients that passed the checks; opened and started are
\* opened_client_ids and acquiring_client_ids; lost the copy of _lost_clients;
\* failed the clients with an error of any kind; raised an error propagating.
IdleRun == [pc |-> "idle", client_ids |-> {}, todo |-> {}, masks |-> {},
            opened |-> {}, started |-> {}, lost |-> {}, failed |-> {},
            raised |-> FALSE, successful |-> {}]

Init ==
    /\ file = {} /\ producer = {} /\ rc19 = {} /\ late = {}
    /\ on_plane = Clients /\ known = Clients /\ notifying = {}
    /\ stop_requested = FALSE
    /\ session_clients = {} /\ acquiring_clients = {} /\ lost_clients = {}
    /\ run = IdleRun
    /\ unclosed = {} /\ away = {}

------------------------------------------------------------------------------
(* Commands *)

\* Values of a set of boards after a command that puts c in it (on) or takes
\* it out: a command that is not confirmed may have had no effect.
Command(S, c, on, confirmed) ==
    LET after == IF on THEN S \cup {c} ELSE S \ {c}
    IN  IF confirmed THEN {after} ELSE {S, after}

\* A confirmed command to a board needs the acquisition plane, and comes after
\* everything queued before it.
Reaches(c) == c \in on_plane /\ c \notin late

\* flush_client: refused while RC19 is enabled; stops the producer and resets.
FlushClient(c, ok) ==
    /\ ok => Reaches(c) /\ c \in known /\ c \notin rc19
    /\ producer' \in IF c \in on_plane \cap known /\ c \notin rc19
                     THEN Command(producer, c, FALSE, ok) ELSE {producer}

\* The receiver's CLOSE_READY.
CloseFile(c, ok) ==
    /\ file' \in Command(file, c, FALSE, ok)
    /\ unclosed' = IF ok THEN unclosed \ {c} ELSE unclosed \cup {c}

\* close_file_for_client: without an identity nothing is sent.
CloseFileForClient(c, ok) ==
    IF c \in known THEN CloseFile(c, ok)
    ELSE ~ok /\ UNCHANGED <<file, unclosed>>

Visit(c) == c \in run.todo

FailIf(c, failure) == IF failure THEN run.failed \cup {c} ELSE run.failed

------------------------------------------------------------------------------
(* The start of a session *)

\* Preparation has written RC19 = 0 on each client, and begin_session has
\* cleared the stop.
BeginSession(cs) ==
    /\ run.pc = "idle"
    /\ cs # {} /\ cs \subseteq on_plane \cap known
    /\ cs \cap late = {}
    /\ rc19' = rc19 \ cs
    /\ run' = [IdleRun EXCEPT !.pc = "register", !.client_ids = cs]
    /\ stop_requested' = FALSE
    /\ UNCHANGED <<file, producer, late, registry, shared, history>>

Register ==
    /\ run.pc = "register"
    /\ session_clients' = run.client_ids
    /\ run' = [run EXCEPT !.pc = "check", !.todo = run.client_ids]
    /\ UNCHANGED <<hardware, registry, stop_requested, acquiring_clients,
                   lost_clients, history>>

\* RC19 is read (it must be disabled) and the board is flushed; only then it
\* takes part.
CheckClient(c, ok) ==
    /\ run.pc = "check" /\ Visit(c)
    /\ FlushClient(c, ok)
    /\ run' = [run EXCEPT !.todo = @ \ {c}, !.masks = IF ok THEN @ \cup {c} ELSE @]
    /\ UNCHANGED <<file, rc19, late, registry, stop_requested, shared, history>>

Checked ==
    /\ run.pc = "check" /\ run.todo = {}
    /\ run' = [run EXCEPT !.pc = "open", !.todo = run.masks, !.masks = {}]
    /\ UNCHANGED <<hardware, registry, stop_requested, shared, history>>

\* OPEN_READY.  When it is not confirmed the file may be open: it is closed.
OpenClient(c, ok) ==
    /\ run.pc = "open" /\ Visit(c)
    /\ ~stop_requested
    /\ \/ /\ ok /\ c \in known
          /\ file' = file \cup {c}
          /\ unclosed' = unclosed \ {c}
       \/ /\ ~ok /\ c \in known
          /\ \/ file' = file \ {c} /\ unclosed' = unclosed \ {c}
             \/ /\ file' \in {file, file \ {c}, file \cup {c}}
                /\ unclosed' = unclosed \cup {c}
       \/ ~ok /\ c \notin known /\ UNCHANGED <<file, unclosed>>
    /\ run' = [run EXCEPT !.pc = IF ok THEN "start" ELSE @,
                          !.todo = @ \ {c},
                          !.opened = IF ok THEN @ \cup {c} ELSE @]
    /\ UNCHANGED <<producer, rc19, late, registry, stop_requested, shared, away>>

\* The client whose file was opened last and whose start is not decided yet.
Starting(c) == c \in (run.opened \ run.started) \ run.failed

\* Mutant: the channels are enabled without a confirmed start.
StartProducerUnconfirmed(c, ok) ==
    /\ run.pc = "start" /\ Starting(c)
    /\ IF stop_requested \/ c \notin known
       THEN ~ok /\ UNCHANGED producer
       ELSE producer' \in Command(producer, c, TRUE, ok)
    /\ run' = [run EXCEPT !.pc = "enable"]
    /\ UNCHANGED <<file, rc19, late, registry, stop_requested, shared, history>>

\* START_PRODUCER, addressed by the numeric id.
StartProducer(c, ok) ==
    /\ run.pc = "start" /\ Starting(c)
    /\ IF stop_requested \/ c \notin known
       THEN ~ok /\ UNCHANGED producer
       ELSE producer' \in Command(producer, c, TRUE, ok)
    /\ run' = [run EXCEPT !.pc = IF ok THEN "enable" ELSE "open",
                          !.failed = FailIf(c, ~ok)]
    /\ UNCHANGED <<file, rc19, late, registry, stop_requested, shared, history>>

\* RC19 with the prepared mask.
EnableChannels(c, ok) ==
    /\ run.pc = "enable" /\ Starting(c)
    /\ IF stop_requested \/ c \notin on_plane
       THEN ~ok /\ UNCHANGED <<rc19, late>>
       ELSE /\ ok => Reaches(c)
            /\ rc19' \in Command(rc19, c, TRUE, ok)
            /\ late' \in {late} \cup (IF ok THEN {} ELSE {late \cup {c}})
    /\ run' = [run EXCEPT !.pc = "open",
                          !.started = IF ok THEN @ \cup {c} ELSE @,
                          !.failed = FailIf(c, ~ok)]
    /\ UNCHANGED <<file, producer, registry, stop_requested, shared, history>>

\* _all_acquiring_clients_lost_locked
AllLost(acquiring, gone) == acquiring # {} /\ acquiring \subseteq gone

\* Mutant: the losses before the publication are not looked at.
OpenedWithoutCheck ==
    /\ run.pc = "open" /\ (run.todo = {} \/ stop_requested)
    /\ IF run.opened = {}
       THEN /\ session_clients' = {} /\ lost_clients' = {}
            /\ run' = [run EXCEPT !.pc = "ended", !.todo = {}]
            /\ UNCHANGED acquiring_clients
       ELSE /\ acquiring_clients' = run.started
            /\ run' = [run EXCEPT !.pc = "wait", !.todo = {}]
            /\ UNCHANGED <<session_clients, lost_clients>>
    /\ UNCHANGED <<hardware, registry, stop_requested, history>>

\* No more clients to open, or a stop: without an open file the session ends
\* here, else the acquiring clients are published and checked under the lock.
Opened ==
    /\ run.pc = "open" /\ (run.todo = {} \/ stop_requested)
    /\ IF run.opened = {}
       THEN /\ session_clients' = {} /\ lost_clients' = {}
            /\ run' = [run EXCEPT !.pc = "ended", !.todo = {}]
            /\ UNCHANGED <<stop_requested, acquiring_clients>>
       ELSE /\ acquiring_clients' = run.started
            /\ stop_requested' = (stop_requested \/ AllLost(run.started, lost_clients))
            /\ run' = [run EXCEPT !.pc = "wait", !.todo = {}]
            /\ UNCHANGED <<session_clients, lost_clients>>
    /\ UNCHANGED <<hardware, registry, history>>

\* _stop_requested is set, the duration elapses, or nobody has started.  The
\* lost clients are copied under the lock.
WaitOver(elapsed) ==
    /\ run.pc = "wait"
    /\ stop_requested \/ elapsed \/ run.started = {}
    /\ run' = [run EXCEPT !.pc = "leave", !.lost = lost_clients]
    /\ UNCHANGED <<hardware, registry, stop_requested, shared, history>>

\* The finally clause.
Leave ==
    /\ run.pc = "leave"
    /\ session_clients' = {} /\ acquiring_clients' = {} /\ lost_clients' = {}
    /\ run' = [run EXCEPT !.pc = "disable", !.todo = run.opened \ run.lost]
    /\ UNCHANGED <<hardware, registry, stop_requested, history>>

\* An unexpected error while starting or waiting: every requested client is
\* finalized as if it were there.
UnexpectedError ==
    /\ run.pc \in {"check", "open", "start", "enable", "wait"}
    /\ run' = [run EXCEPT !.pc = "disable", !.todo = run.client_ids, !.raised = TRUE]
    /\ UNCHANGED <<hardware, registry, stop_requested, shared, history>>

------------------------------------------------------------------------------
(* Finalization: run_hardware_stop_and_flush, then the lost clients *)

Finalized == IF run.raised THEN run.client_ids ELSE run.opened \ run.lost

\* The loops of finalization, one after the other.
NextPhase ==
    /\ run.todo = {}
    /\ \/ /\ run.pc = "disable"
          /\ run' = [run EXCEPT !.pc = "flush", !.todo = Finalized]
       \/ /\ run.pc = "flush"
          /\ run' = [run EXCEPT !.pc = "close", !.todo = Finalized]
       \/ /\ run.pc = "close"
          /\ run' = [run EXCEPT !.pc = "close_lost",
                                !.todo = IF run.raised THEN {} ELSE run.opened \cap run.lost]
    /\ UNCHANGED <<hardware, registry, stop_requested, shared, history>>

DisableChannels(c, ok) ==
    /\ run.pc = "disable" /\ Visit(c)
    /\ IF c \in on_plane
       THEN /\ ok => Reaches(c)
            /\ rc19' \in Command(rc19, c, FALSE, ok)
       ELSE ~ok /\ UNCHANGED rc19
    /\ run' = [run EXCEPT !.todo = @ \ {c}, !.failed = FailIf(c, ~ok)]
    /\ UNCHANGED <<file, producer, late, registry, stop_requested, shared, history>>

\* Mutant: the outcome of the flush is not part of the result.
FlushAndResetTriggerIgnoresFlush(c, flushed, reset) ==
    /\ run.pc = "flush" /\ Visit(c)
    /\ FlushClient(c, flushed)
    /\ run' = [run EXCEPT !.todo = @ \ {c}, !.failed = FailIf(c, ~reset)]
    /\ UNCHANGED <<file, rc19, late, registry, stop_requested, shared, history>>

\* flush_client, and the reset of the trigger configuration.
FlushAndResetTrigger(c, flushed, reset) ==
    /\ run.pc = "flush" /\ Visit(c)
    /\ FlushClient(c, flushed)
    /\ run' = [run EXCEPT !.todo = @ \ {c}, !.failed = FailIf(c, ~flushed \/ ~reset)]
    /\ UNCHANGED <<file, rc19, late, registry, stop_requested, shared, history>>

CloseClient(c, ok) ==
    /\ run.pc = "close" /\ Visit(c)
    /\ CloseFileForClient(c, ok)
    /\ run' = [run EXCEPT !.todo = @ \ {c}, !.failed = FailIf(c, ~ok)]
    /\ UNCHANGED <<producer, rc19, late, registry, stop_requested, shared, away>>

\* _close_lost_client, with the numeric id resolved before the session.
CloseLostClient(c, stopped, ok) ==
    /\ run.pc = "close_lost" /\ Visit(c)
    /\ producer' \in Command(producer, c, FALSE, stopped)
    /\ CloseFile(c, ok)
    /\ run' = [run EXCEPT !.todo = @ \ {c}, !.failed = FailIf(c, TRUE)]
    /\ UNCHANGED <<rc19, late, registry, stop_requested, shared, away>>

\* The result of each client: a start error or a loss is never a success.
SessionEnded ==
    /\ run.pc = "close_lost" /\ run.todo = {}
    /\ run' = [run EXCEPT !.pc = "ended",
                          !.successful = IF run.raised THEN {}
                                         ELSE (run.started \ run.failed) \ run.lost]
    /\ session_clients' = {} /\ acquiring_clients' = {} /\ lost_clients' = {}
    /\ UNCHANGED <<hardware, registry, stop_requested, history>>

\* close_session: the next acquisition may start.
CloseSession ==
    /\ run.pc = "ended"
    /\ run' = IdleRun
    /\ away' = {}
    /\ UNCHANGED <<hardware, registry, stop_requested, shared, unclosed>>

\* Every step of the session thread but the end of the duration and errors.
SessionStep ==
    \/ Register \/ Checked \/ Opened \/ WaitOver(FALSE) \/ Leave
    \/ NextPhase \/ SessionEnded \/ CloseSession
    \/ \E c \in Clients, ok \in BOOLEAN :
          \/ CheckClient(c, ok) \/ OpenClient(c, ok)
          \/ StartProducer(c, ok) \/ EnableChannels(c, ok)
          \/ DisableChannels(c, ok) \/ CloseClient(c, ok)
          \/ \E reset \in BOOLEAN : FlushAndResetTrigger(c, ok, reset)
          \/ \E stopped \in BOOLEAN : CloseLostClient(c, stopped, ok)

------------------------------------------------------------------------------
(* The other threads and the boards *)

\* `acquisition stop`, from the CLI or the web panel.
RequestStop ==
    /\ run.pc # "idle" /\ ~stop_requested
    /\ stop_requested' = TRUE
    /\ UNCHANGED <<hardware, registry, shared, run, history>>

\* A board is found unreachable and removed; the loss of the control plane
\* also forgets its identity.
ClientLost(c, control) ==
    /\ c \in on_plane \/ (control /\ c \in known)
    /\ on_plane' = on_plane \ {c}
    /\ known' = IF control THEN known \ {c} ELSE known
    /\ notifying' = notifying \cup {c}
    /\ away' = IF run.pc = "wait" /\ c \in on_plane THEN away \cup {c} ELSE away
    /\ UNCHANGED <<hardware, stop_requested, shared, run, unclosed>>

OnClientLost(c) ==
    /\ c \in notifying
    /\ notifying' = notifying \ {c}
    /\ IF c \in session_clients
       THEN /\ lost_clients' = lost_clients \cup {c}
            /\ stop_requested' =
                  (stop_requested \/ AllLost(acquiring_clients, lost_clients \cup {c}))
       ELSE UNCHANGED <<lost_clients, stop_requested>>
    /\ UNCHANGED <<hardware, on_plane, known, session_clients, acquiring_clients,
                   run, history>>

\* The board greets again on both planes.
ClientBack(c) ==
    /\ c \notin on_plane /\ c \notin notifying
    /\ on_plane' = on_plane \cup {c}
    /\ known' = known \cup {c}
    /\ UNCHANGED <<hardware, notifying, stop_requested, shared, run, history>>

\* A queued write of RC19 takes effect after its sender gave up on it.
LateEnable(c) ==
    /\ c \in late
    /\ late' = late \ {c}
    /\ rc19' = rc19 \cup {c}
    /\ UNCHANGED <<file, producer, registry, stop_requested, shared, run, history>>

Next ==
    \/ \E cs \in SUBSET Clients : BeginSession(cs)
    \/ SessionStep
    \/ WaitOver(TRUE)
    \/ UnexpectedError
    \/ RequestStop
    \/ \E c \in Clients :
          \/ \E control \in BOOLEAN : ClientLost(c, control)
          \/ OnClientLost(c) \/ ClientBack(c) \/ LateEnable(c)

Spec == Init /\ [][Next]_vars

\* Every command of the session thread has a timeout and the I/O threads do not
\* block in a callback: both always go on.  Nothing obliges a user to stop, a
\* run to have a duration or a board to return.
FairSpec == Spec /\ WF_vars(SessionStep) /\ \A c \in Clients : WF_vars(OnClientLost(c))

------------------------------------------------------------------------------
(* Properties *)

\* The sets of the session thread are nested as in the code, and the shared
\* ones are empty outside a session.
TypeOK ==
    /\ file \cup producer \cup rc19 \cup late \subseteq Clients
    /\ on_plane \subseteq known /\ known \cup notifying \subseteq Clients
    /\ stop_requested \in BOOLEAN
    /\ run.client_ids \subseteq Clients /\ run.todo \subseteq run.client_ids
    /\ run.started \subseteq run.opened /\ run.opened \subseteq run.client_ids
    /\ lost_clients \subseteq session_clients
    /\ run.pc \in {"idle", "register"} => session_clients = {}

\* "file aperto e header scritto (OPEN_READY), START confermato del producer e,
\* solo dopo, RC19": until its channels are disabled, a client of the session
\* that produces data has a running producer and an open file, whichever
\* replies were lost and however late a write takes effect.
DataHasFile ==
    \A c \in run.opened \cap rc19 :
        /\ run.pc \in {"open", "start", "enable", "wait", "leave", "disable", "flush"}
              => c \in file
        /\ run.pc \in {"open", "start", "enable", "wait", "leave", "disable"}
              => c \in producer

\* The sets of the session, of its boards and of the receiver agree at every
\* step of run_acquisition_session, and data never lacks its file.
SessionConsistent == TypeOK /\ DataHasFile

\* A client reported successful is clean: channels disabled for good, producer
\* stopped and file closed.  Lost replies, losses and returns in the middle of
\* the finalization never turn into a success.
SuccessIsClean ==
    run.pc = "ended" =>
        run.successful \cap (rc19 \cup late \cup producer \cup file) = {}

\* A session whose stop was requested, or whose acquiring clients are all gone
\* from the plane, ends: no wakeup is lost between the listener and the thread.
RunEnds ==
    (run.pc # "idle" /\ (stop_requested \/ (run.pc = "wait" /\ run.started \cap on_plane = {})))
        ~> run.pc \in {"ended", "idle"}

\* "Clients still alive: complete finalization. Lost clients: only what the
\* server can do" (run_acquisition_session): at the end of a session each file
\* is closed, unless the receiver did not confirm the CLOSE it was sent.
FilesClosed == run.pc = "ended" => file \cap run.client_ids \subseteq unclosed

\* "The file of a lost client is partial: never a success, even if it has been
\* closed" (run_acquisition_session).
LostNeverSuccess == run.pc = "ended" => run.successful \cap away = {}
==============================================================================
