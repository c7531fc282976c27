--------------------------- MODULE ServerLifecycle ---------------------------
(***************************************************************************)
(* The threads of the server around ServerState:                           *)
(*   - the CLI thread, which runs one command at a time (connect,          *)
(*     change_mode, reconfigure, force hv_sync, acquisition start, TTP     *)
(*     scan);                                                              *)
(*   - the web thread, which may stop or quit at any moment, with a lock   *)
(*     of its own that the CLI does not take;                              *)
(*   - the I/O threads of the control and acquisition planes, which admit  *)
(*     clients and handle their loss in several locked steps               *)
(*     (ClientLivenessService);                                            *)
(*   - the session threads, which end a run.                               *)
(* Only the calls on ServerState are atomic: everything a thread reads     *)
(* before is stale when it acts.  The monitoring plane does not touch the  *)
(* FSM and is left to ClientLiveness; what a run does with the boards is   *)
(* in AcquisitionSession.                                                  *)
(***************************************************************************)
EXTENDS ServerState

CONSTANT
    Sessions                \* session threads that may coexist (a bound)

VARIABLES
    cli,                    \* the CLI thread: its step and local variables
    io,                     \* the I/O threads: step of a loss, and the client
    session,                \* the session threads: their step
    hv_previous,            \* per session thread: clients whose HV override it has
                            \*   to undo, then the ones where that failed
    sockets,                \* planes whose socket is open
    left_out,               \* history: clients reported as left out of the
                            \*   next acquisitions, until configured again
    hit_by_loss             \* history: clients a loss touched since the
                            \*   running configuration was requested

threadVars == <<cli, io, session, hv_previous, sockets, left_out, hit_by_loss>>
vars == <<stateVars, threadVars>>

IdleCli == [pc |-> "idle", kind |-> "none", targets |-> {}, todo |-> {}, ok |-> {}]

IdleIo == [pc |-> "idle", client |-> "none"]

LifecycleInit ==
    /\ Init
    /\ cli = IdleCli
    /\ io = [plane \in {"control", "acquisition"} |-> IdleIo]
    /\ session = [s \in Sessions |-> "none"]
    /\ hv_previous = [s \in Sessions |-> {}]
    /\ sockets = {}
    /\ left_out = {}
    /\ hit_by_loss = {}

------------------------------------------------------------------------------
(* connect *)

DoConnect ==
    /\ cli.pc = "idle"
    /\ run_state \in {"disconnected", "control_connected"}
    /\ cli' = [cli EXCEPT !.pc = IF run_state = "disconnected"
                                 THEN "wait_control" ELSE "rewait_control"]
    /\ sockets' = sockets \cup {"control"}
    /\ UNCHANGED <<stateVars, io, session, hv_previous, left_out, hit_by_loss>>

\* wait_for_clients returned.  The event is sent only if the server was
\* DISCONNECTED when the command started; a rejected one ends the command.
ConnectControl ==
    /\ cli.pc \in {"wait_control", "rewait_control"}
    /\ LET event == IF Registered = {} THEN "control_connection_failed"
                    ELSE "control_connection_succeeded"
       IN  IF Registered # {} /\ cli.pc = "rewait_control"
           THEN UNCHANGED stateVars /\ cli' = [cli EXCEPT !.pc = "wait_acquisition"]
           ELSE \/ /\ ConnectionEvent(event)
                   /\ cli' = IF Registered = {} THEN IdleCli
                             ELSE [cli EXCEPT !.pc = "wait_acquisition"]
                \/ /\ ~InTable(event)
                   /\ UNCHANGED stateVars
                   /\ cli' = IdleCli
    /\ sockets' = IF cli'.pc = "wait_acquisition"
                  THEN sockets \cup {"acquisition"} ELSE sockets
    /\ UNCHANGED <<io, session, hv_previous, left_out, hit_by_loss>>

\* The handshake of the acquisition plane is over (every client there, or no
\* more hellos): it succeeds with at least one client.
ConnectAcquisition ==
    /\ cli.pc = "wait_acquisition"
    /\ LET event == IF acquisition = {} THEN "acquisition_connection_failed"
                    ELSE "acquisition_connection_succeeded"
       IN  \/ /\ ConnectionEvent(event)
              /\ cli' = IF acquisition = {} THEN IdleCli
                        ELSE [cli EXCEPT !.pc = "list"]
           \/ /\ ~InTable(event)
              /\ UNCHANGED stateVars
              /\ cli' = IdleCli
    /\ UNCHANGED <<io, session, hv_previous, sockets, left_out, hit_by_loss>>

------------------------------------------------------------------------------
(* The commands that configure clients *)

\* The commands differ in their guard (command_guard, or the state check of the
\* orchestrators) and in what they do: a mode synchronization of every client, of
\* the ones that are not operational only (partial), or the preparation of a run.
Commands ==
    { [kind |-> "full", states |-> {"disconnected", "connected", "ready"}], \* change_mode
      [kind |-> "full", states |-> ServerFSM \ {"disconnected"}],           \* force hv_sync
      [kind |-> "partial", states |-> {"connected", "ready"}],              \* reconfigure
      [kind |-> "acquisition", states |-> {"ready"}],                       \* acquisition start
      [kind |-> "scan", states |-> {"ready"}] }                             \* calibration scan

\* Targets a command reads from the registry before it asks for the event.
Targets(kind) ==
    IF kind = "full" THEN CommonPlaneClients
    ELSE IF kind = "partial" THEN CommonPlaneClients \ operational
    ELSE acquisition \cap operational

\* hv_sync and the mode synchronization use the control plane, the
\* preparation of a run the acquisition plane.
CommandPlane(kind) == IF kind = "acquisition" THEN acquisition ELSE Registered

\* A command passes its guard and reads its targets.  A scan also finds out
\* here which of them have channels ready, and configures nothing.
DoCommand(command, ready) ==
    /\ cli.pc = "idle" /\ run_state \in command.states
    /\ Targets(command.kind) # {}
    /\ ready \subseteq Targets(command.kind)
    /\ command.kind = "scan" <=> ready # {}
    /\ cli' = [cli EXCEPT !.pc = IF command.kind = "scan" THEN "start" ELSE "request",
                          !.kind = command.kind,
                          !.targets = Targets(command.kind),
                          !.ok = ready]
    /\ hit_by_loss' = {}
    /\ UNCHANGED <<stateVars, io, session, hv_previous, sockets, left_out>>

\* The end of connect.
ConnectConfigure ==
    /\ cli.pc = "list"
    /\ cli' = IF CommonPlaneClients = {} THEN IdleCli
              ELSE [cli EXCEPT !.pc = "request", !.kind = "full",
                               !.targets = CommonPlaneClients]
    /\ hit_by_loss' = {}
    /\ UNCHANGED <<stateVars, io, session, hv_previous, sockets, left_out>>

\* CONFIGURATION_STARTED with the targets read before.
RequestConfiguration ==
    /\ cli.pc = "request"
    /\ \/ /\ ConfigurationStarted(cli.targets, cli.kind = "partial")
          /\ cli' = [cli EXCEPT !.pc = "sync", !.todo = cli.targets]
          /\ left_out' = IF cli.kind = "acquisition" THEN left_out
                         ELSE left_out \ cli.targets
       \/ /\ ConfigurationStartRejected(cli.targets)
          /\ cli' = IdleCli
          /\ UNCHANGED left_out
    /\ UNCHANGED <<io, session, hv_previous, sockets, hit_by_loss>>

\* One target: the command is only sent to a client on the plane it uses, and
\* its answer may be negative, late or missing.
SyncOne(c, ok) ==
    /\ cli.pc = "sync" /\ c \in cli.todo
    /\ ok => c \in CommandPlane(cli.kind)
    /\ cli' = [cli EXCEPT !.todo = @ \ {c}, !.ok = IF ok THEN @ \cup {c} ELSE @]
    /\ UNCHANGED <<stateVars, io, session, hv_previous, sockets, left_out,
                   hit_by_loss>>

\* The result of the batch.  An accepted result of an acquisition start goes on
\* to ACQUISITION_STARTED; a rejected success falls back on a failure.
ReportSuccess ==
    /\ cli.pc = "sync" /\ cli.todo = {} /\ cli.ok # {}
    /\ LET ko == cli.targets \ cli.ok
       IN  \/ /\ ConfigurationSucceeded(cli.ok, ko)
              /\ cli' = IF cli.kind = "acquisition"
                        THEN [cli EXCEPT !.pc = "start", !.targets = cli.ok]
                        ELSE IdleCli
           \/ /\ ~ConfigurationSucceededAccepted(cli.ok, ko)
              /\ UNCHANGED stateVars
              /\ cli' = [cli EXCEPT !.pc = "fallback"]
    /\ UNCHANGED <<io, session, hv_previous, sockets, left_out, hit_by_loss>>

ReportFailure ==
    /\ cli.pc = "sync" /\ cli.todo = {} /\ cli.ok = {}
    /\ \/ ConfigurationFailed(cli.targets)
       \/ ~CanFailConfiguration(cli.targets) /\ UNCHANGED stateVars
    /\ cli' = IdleCli
    /\ UNCHANGED <<io, session, hv_previous, sockets, left_out, hit_by_loss>>

\* CONFIGURATION_FAILED without metadata: every client under configuration.
\* Also how an unexpected error in the preparation of a run ends.
Fallback ==
    /\ \/ cli.pc = "fallback"
       \/ cli.pc = "sync" /\ cli.kind = "acquisition"
    /\ \/ ConfigurationFailed(UnderConfiguration)
       \/ run_state # "configuring" /\ UNCHANGED stateVars
    /\ cli' = IdleCli
    /\ UNCHANGED <<io, session, hv_previous, sockets, left_out, hit_by_loss>>

\* An exception a command does not catch reaches onecmd_plus_hooks: in the
\* middle of a configuration, or in a command that leaves the FSM alone.
CommandException ==
    /\ cli.pc \in {"idle", "sync"} /\ cli.kind # "acquisition"
    /\ FatalError
    /\ cli' = IdleCli
    /\ UNCHANGED <<io, session, hv_previous, sockets, left_out, hit_by_loss>>

\* ACQUISITION_STARTED with the clients prepared, then begin_session and the
\* session thread.  The command ends without it when the FSM refuses, or before
\* the event when there is no id for the folder of the run.  That the session
\* or its thread cannot be made, which closes the session again, is left out.
StartAcquisition ==
    /\ cli.pc = "start"
    /\ \/ /\ AcquisitionStarted(cli.ok)
          /\ \E s \in Sessions :
                /\ session[s] \in {"none", "crashed"}
                /\ session' = [session EXCEPT
                      ![s] = IF cli.kind = "scan" THEN "scanning" ELSE "running"]
                /\ hv_previous' = [hv_previous EXCEPT
                      ![s] = IF cli.kind = "scan" THEN {} ELSE cli.ok]
       \/ UNCHANGED <<stateVars, session, hv_previous>>
    /\ cli' = IdleCli
    /\ UNCHANGED <<io, sockets, left_out, hit_by_loss>>

Cli ==
    \/ DoConnect \/ ConnectControl \/ ConnectAcquisition \/ ConnectConfigure
    \/ \E command \in Commands, ready \in SUBSET Clients : DoCommand(command, ready)
    \/ RequestConfiguration
    \/ \E c \in Clients, ok \in BOOLEAN : SyncOne(c, ok)
    \/ ReportSuccess \/ ReportFailure \/ Fallback \/ CommandException
    \/ StartAcquisition

------------------------------------------------------------------------------
(* The web thread.  The state do_quit and stop check is read before the event  *)
(* is sent, so it may be any earlier one: the check of quit (neither           *)
(* CONFIGURING nor FINALIZING) forbids no event, and the one of stop is made   *)
(* again by the event.                                                         *)

WebQuit == DisconnectRequested /\ UNCHANGED threadVars

WebStop == StopRequested /\ UNCHANGED threadVars

------------------------------------------------------------------------------
(* A session thread *)

\* The duration elapsed before any stop.
DurationElapsed(s) ==
    /\ session[s] = "running"
    /\ ReceiverCompleted
    /\ UNCHANGED threadVars

\* The run is over, the HV overrides are restored where possible and
\* close_session begins.
CloseSession(s, failed) ==
    /\ session[s] \in {"running", "scanning"}
    /\ \/ StopRequested
       \/ run_state # "acquiring" /\ UNCHANGED stateVars
    /\ failed \subseteq hv_previous[s]
    /\ session' = [session EXCEPT ![s] = "closing"]
    /\ hv_previous' = [hv_previous EXCEPT ![s] = failed]
    /\ UNCHANGED <<cli, io, sockets, left_out, hit_by_loss>>

\* Mutant: FINALIZATION_* is not sent.
FinalizeSessionSilent(s) ==
    /\ session[s] = "closing"
    /\ session' = [session EXCEPT ![s] = IF hv_previous[s] = {} THEN "none"
                                         ELSE "leaving_out"]
    /\ UNCHANGED <<stateVars, cli, io, hv_previous, sockets, left_out, hit_by_loss>>

FinalizeSession(s) ==
    /\ session[s] = "closing"
    /\ \/ FinalizationEnded
       \/ run_state # "finalizing" /\ UNCHANGED stateVars
    /\ session' = [session EXCEPT ![s] = IF hv_previous[s] = {} THEN "none"
                                         ELSE "leaving_out"]
    /\ UNCHANGED <<cli, io, hv_previous, sockets, left_out, hit_by_loss>>

\* After the session: the clients whose restore failed lose the flag.
LeaveOut(s, c) ==
    /\ session[s] = "leaving_out" /\ c \in hv_previous[s]
    /\ RemoveOperationalClient(c)
    /\ left_out' = left_out \cup {c}
    /\ hv_previous' = [hv_previous EXCEPT ![s] = @ \ {c}]
    /\ session' = [session EXCEPT ![s] = IF hv_previous[s] = {c} THEN "none" ELSE @]
    /\ UNCHANGED <<cli, io, sockets, hit_by_loss>>

\* The loop of a scan has no exception handler: an error that leaves
\* run_acquisition_session ends the thread, and the FSM is not told.
ScanCrash(s) ==
    /\ session[s] = "scanning"
    /\ session' = [session EXCEPT ![s] = "crashed"]
    /\ UNCHANGED <<stateVars, cli, io, hv_previous, sockets, left_out, hit_by_loss>>

Session(s) ==
    \/ DurationElapsed(s) \/ ScanCrash(s)
    \/ \E failed \in SUBSET Clients : CloseSession(s, failed)
    \/ FinalizeSession(s)
    \/ \E c \in Clients : LeaveOut(s, c)

------------------------------------------------------------------------------
(* The I/O threads: losses and admissions.  What a thread reads before its     *)
(* first call is checked again by that call, so the two are one step.  A       *)
(* client that greets again while it is registered is first lost, then         *)
(* admitted: ClientLost steps followed by Hello.                               *)

\* Acquisition plane: ACQUISITION_PLANE_LOST, then the removal.
AcquisitionLossEvent(c) ==
    /\ "acquisition" \in sockets /\ io["acquisition"] = IdleIo
    /\ c \in acquisition
    /\ \/ ClientAcquisitionPlaneLost(c)
       \/ client_state[c] = "disconnected" /\ UNCHANGED stateVars
    /\ io' = [io EXCEPT !["acquisition"] = [pc |-> "remove", client |-> c]]
    /\ hit_by_loss' = hit_by_loss \cup {c}
    /\ UNCHANGED <<cli, session, hv_previous, sockets, left_out>>

AcquisitionLossRemove ==
    /\ io["acquisition"].pc = "remove"
    /\ RemoveAcquisitionClient(io["acquisition"].client)
    /\ io' = [io EXCEPT !["acquisition"] = IdleIo]
    /\ hit_by_loss' = hit_by_loss \cup {io["acquisition"].client}
    /\ UNCHANGED <<cli, session, hv_previous, sockets, left_out>>

\* Control plane: off the acquisition plane, out of the operational clients,
\* then the record is forgotten.
ControlLossRemoveAcquisition(c) ==
    /\ "control" \in sockets /\ io["control"] = IdleIo
    /\ c \in Registered
    /\ IF c \in acquisition THEN RemoveAcquisitionClient(c) ELSE UNCHANGED stateVars
    /\ io' = [io EXCEPT !["control"] = [pc |-> "operational", client |-> c]]
    /\ hit_by_loss' = hit_by_loss \cup {c}
    /\ UNCHANGED <<cli, session, hv_previous, sockets, left_out>>

ControlLossRemoveOperational ==
    /\ io["control"].pc = "operational"
    /\ RemoveOperationalClient(io["control"].client)
    /\ io' = [io EXCEPT !["control"].pc = "forget"]
    /\ UNCHANGED <<cli, session, hv_previous, sockets, left_out, hit_by_loss>>

ControlLossForget ==
    /\ io["control"].pc = "forget"
    /\ RemoveClient(io["control"].client)
    /\ io' = [io EXCEPT !["control"] = IdleIo]
    /\ hit_by_loss' = hit_by_loss \cup {io["control"].client}
    /\ UNCHANGED <<cli, session, hv_previous, sockets, left_out>>

\* A hello, and add_client of the plane's manager: the acquisition plane only
\* takes clients of the control plane.
Hello(plane, c) ==
    /\ plane \in sockets /\ io[plane] = IdleIo
    /\ \/ plane = "control" /\ AddControlClient(c)
       \/ plane = "acquisition" /\ c \notin acquisition /\ AddAcquisitionClient(c)
    /\ UNCHANGED threadVars

Io ==
    \/ \E c \in Clients :
          \/ AcquisitionLossEvent(c)
          \/ ControlLossRemoveAcquisition(c)
          \/ \E plane \in {"control", "acquisition"} : Hello(plane, c)
    \/ AcquisitionLossRemove
    \/ ControlLossRemoveOperational \/ ControlLossForget

------------------------------------------------------------------------------

LifecycleNext ==
    \/ Cli
    \/ WebQuit \/ WebStop
    \/ \E s \in Sessions : Session(s)
    \/ Io

LifecycleSpec == LifecycleInit /\ [][LifecycleNext]_vars

------------------------------------------------------------------------------
(* Properties *)

\* Every thread is at one of its steps, and the CLI command treats and reports
\* only clients it read as its targets.
LifecycleTypeOK ==
    /\ TypeOK
    /\ cli.pc \in {"idle", "wait_control", "rewait_control", "wait_acquisition",
                   "list", "request", "sync", "fallback", "start"}
    /\ cli.targets \subseteq Clients /\ cli.todo \subseteq cli.targets
    /\ cli.ok \subseteq cli.targets
    /\ session \in [Sessions -> {"none", "running", "scanning", "closing",
                               "leaving_out", "crashed"}]
    /\ hv_previous \in [Sessions -> SUBSET Clients]

\* The acquisition I/O thread is between ACQUISITION_PLANE_LOST and the removal
\* of the client.
BetweenLossSteps(c) == io["acquisition"].pc = "remove" /\ io["acquisition"].client = c

\* The client FSM follows the server FSM: outside the two steps of its own
\* loss, an operational client is in the state the server is in (READY when no
\* run is on), whatever threads interleave.
OperationalFollowsServer ==
    \A c \in operational :
        ~BetweenLossSteps(c) =>
            client_state[c] = IF run_state \in {"acquiring", "finalizing"}
                              THEN run_state ELSE "ready"

\* The threads are at their steps and the clients follow the server.
LifecycleConsistent == LifecycleTypeOK /\ OperationalFollowsServer

\* No command leaves the server in CONFIGURING: "(or back to CONNECTED if every
\* client fails)" (StartupService).  The code does not keep this: see
\* RefusedOnlyBehindStale for what it does keep.
ConfigurationConcludes == cli.pc \in {"idle", "start"} => run_state # "configuring"

\* The result of a batch is refused for good, leaving the server in CONFIGURING
\* with nobody to close it, only if a client outside the batch is still
\* CONFIGURING, left so by a configuration a quit or an error cut short.  Clients
\* vanishing, returning or failing during the batch never cause it.
RefusedOnlyBehindStale ==
    [][ (cli.pc \in {"sync", "fallback"} /\ cli'.pc \in {"idle", "start"}
            /\ run_state' = "configuring")
        => UnderConfiguration \ cli.targets # {} ]_vars

\* The session threads that will still send FINALIZATION_*.
Owners == {s \in Sessions : session[s] \in {"running", "scanning", "closing"}}

\* A run always has a session thread that will finish it: "use 'acquisition
\* stop' to abort early" (scan_ttp) supposes somebody is there to stop.  The
\* thread of a scan does not keep this.
RunHasOwner == run_state \in {"acquiring", "finalizing"} => Owners # {}

\* The server is left ACQUIRING or FINALIZING with nobody to finish the run only
\* when the thread of a scan crashed: never by quits, stops, losses, errors in
\* commands or a preparation that ends while the FSM moves.
RunAbandonedOnlyByScan ==
    run_state \in {"acquiring", "finalizing"}
        => Owners # {} \/ \E s \in Sessions : session[s] = "crashed"

\* "A failure on one client never blocks the others: every client gets an
\* explicit successful/failed outcome" (StartupService): a client that
\* answered and was not itself lost is READY after the result.
FailureNeverBlocksOthers ==
    [][ (cli.pc \in {"sync", "fallback"} /\ cli'.pc = "idle"
            /\ run_state = "configuring" /\ run_state' \in {"ready", "connected"}
            /\ cli.kind # "acquisition")
        => \A c \in cli.ok \ hit_by_loss : client_state'[c] = "ready" ]_vars

\* "the client is excluded from the next acquisitions" (_run_session): once
\* that is reported, no run includes the client until it is configured again.
LeftOutStaysOut ==
    [][ (run_state = "ready" /\ run_state' = "acquiring")
        => left_out \cap operational' = {} ]_vars
==============================================================================
