----------------------------- MODULE ServerState -----------------------------
(***************************************************************************)
(* The logical state of the multiDAQ server and its client registry        *)
(* (server/core/server_state.py).  Every method of the class takes one     *)
(* re-entrant lock around its whole body, so each method is one atomic     *)
(* action here.  The callers (CLI, web panel, I/O threads, session thread) *)
(* are composed with it in ServerLifecycle; in this module they are the    *)
(* most general ones: any event the program produces, with any metadata,   *)
(* at any moment.                                                          *)
(*                                                                         *)
(* A client record exists from add_control_client to remove_client, and    *)
(* on_control_plane is set with it and never cleared, so the record, its   *)
(* on_control_plane flag and "client_state[c] # absent" are one fact.      *)
(* Contexts, timestamps and previous states only feed the log.             *)
(***************************************************************************)
EXTENDS FiniteSets

CONSTANT
    Clients                        \* identities of the boards (ZMQ routing ids)

VARIABLES
    run_state,                     \* ServerState.run_state
    pending_terminal_state,        \* where FINALIZING will lead, or "none"
    pending_configuration_source,  \* where a failed configuration goes back to
    pending_configuration_partial, \* the running configuration keeps the others
    client_state,                  \* ClientRecord.state, "absent": no record
    acquisition,                   \* clients with on_acquisition_plane
    monitoring,                    \* clients with on_monitoring_plane
    operational                    \* clients with the operational flag

pendingVars == <<pending_terminal_state, pending_configuration_source,
                 pending_configuration_partial>>
registryVars == <<client_state, acquisition, monitoring, operational>>
stateVars == <<run_state, pendingVars, registryVars>>

ServerFSM == {"disconnected", "control_connected", "connected", "configuring",
              "ready", "acquiring", "finalizing", "error"}

ClientFSM == {"disconnected", "connected", "configuring", "ready",
              "acquiring", "finalizing", "error"}

\* (present state, event, next state).  The rows of the events no code
\* produces (the *_lost and recovery_* ones) are part of the table.
TRANSITION_TABLE ==
    { <<"disconnected", "control_connection_succeeded", "control_connected">>,
      <<"disconnected", "control_connection_failed", "disconnected">>,
      <<"disconnected", "acquisition_connection_failed", "disconnected">>,
      <<"disconnected", "disconnect_requested", "disconnected">>,
      <<"disconnected", "fatal_error", "error">>,
      <<"control_connected", "acquisition_connection_succeeded", "connected">>,
      <<"control_connected", "acquisition_connection_failed", "control_connected">>,
      <<"control_connected", "control_connection_lost", "disconnected">>,
      <<"control_connected", "disconnect_requested", "disconnected">>,
      <<"control_connected", "fatal_error", "error">>,
      <<"connected", "configuration_started", "configuring">>,
      <<"connected", "control_connection_lost", "disconnected">>,
      <<"connected", "acquisition_connection_lost", "control_connected">>,
      <<"connected", "disconnect_requested", "disconnected">>,
      <<"connected", "fatal_error", "error">>,
      <<"configuring", "configuration_succeeded", "ready">>,
      <<"configuring", "configuration_failed", "connected">>,
      <<"configuring", "recovery_succeeded", "ready">>,
      <<"configuring", "recovery_failed", "error">>,
      <<"configuring", "control_connection_lost", "error">>,
      <<"configuring", "acquisition_connection_lost", "error">>,
      <<"configuring", "disconnect_requested", "disconnected">>,
      <<"configuring", "fatal_error", "error">>,
      <<"ready", "configuration_started", "configuring">>,
      <<"ready", "acquisition_started", "acquiring">>,
      <<"ready", "control_connection_lost", "disconnected">>,
      <<"ready", "acquisition_connection_lost", "control_connected">>,
      <<"ready", "disconnect_requested", "disconnected">>,
      <<"ready", "fatal_error", "error">>,
      <<"acquiring", "stop_requested", "finalizing">>,
      <<"acquiring", "receiver_completed", "finalizing">>,
      <<"acquiring", "disconnect_requested", "finalizing">>,
      <<"acquiring", "control_connection_lost", "finalizing">>,
      <<"acquiring", "acquisition_connection_lost", "finalizing">>,
      <<"acquiring", "fatal_error", "error">>,
      <<"finalizing", "finalization_succeeded", "ready">>,
      <<"finalizing", "finalization_failed", "ready">>,
      <<"finalizing", "disconnect_requested", "finalizing">>,
      <<"finalizing", "fatal_error", "error">>,
      <<"error", "recovery_started", "configuring">>,
      <<"error", "disconnect_requested", "disconnected">>,
      <<"error", "fatal_error", "error">> }

\* The table of the client FSM for the one client event the code produces.
AcquisitionPlaneLostTable ==
    [s \in ClientFSM \ {"disconnected"} |->
        IF s \in {"connected", "ready"} THEN "connected" ELSE "error"]

\* The FSM and each client are in a state of their enumerations; a configuration
\* starts from CONNECTED or READY, and a finalization leads to READY or
\* DISCONNECTED.
TypeOK ==
    /\ run_state \in ServerFSM
    /\ pending_terminal_state \in {"none", "ready", "disconnected"}
    /\ pending_configuration_source \in {"none", "connected", "ready"}
    /\ pending_configuration_partial \in BOOLEAN
    /\ client_state \in [Clients -> ClientFSM \cup {"absent"}]
    /\ acquisition \subseteq Clients
    /\ monitoring \subseteq Clients
    /\ operational \subseteq Clients

Init ==
    /\ run_state = "disconnected"
    /\ pending_terminal_state = "none"
    /\ pending_configuration_source = "none"
    /\ pending_configuration_partial = FALSE
    /\ client_state = [c \in Clients |-> "absent"]
    /\ acquisition = {}
    /\ monitoring = {}
    /\ operational = {}

------------------------------------------------------------------------------
(* Queries *)

Registered == {c \in Clients : client_state[c] # "absent"}

CommonPlaneClients == Registered \cap acquisition

ListClientsInState(s) == {c \in Clients : client_state[c] = s}

UnderConfiguration == ListClientsInState("configuring")

\* What a rejected event means to its caller: process_event returned False.
InTable(event) ==
    \E next \in ServerFSM : <<run_state, event, next>> \in TRANSITION_TABLE

\* _set_client_state_locked over a set of clients.
SetClientState(cs, s) ==
    client_state' = [c \in Clients |->
        IF c \in cs /\ client_state[c] # "absent" THEN s ELSE client_state[c]]

------------------------------------------------------------------------------
(* process_event *)

\* Connection outcomes reported by the connect command: no client effect.
ConnectionEvent(event) ==
    /\ event \in {"control_connection_succeeded", "control_connection_failed",
                  "acquisition_connection_succeeded",
                  "acquisition_connection_failed"}
    /\ \E next \in ServerFSM :
          /\ <<run_state, event, next>> \in TRANSITION_TABLE
          /\ run_state' = next
    /\ UNCHANGED <<pendingVars, registryVars>>

\* CONFIGURATION_STARTED is validated after the table lookup.
CanStartConfiguration(targets) ==
    /\ InTable("configuration_started")
    /\ targets # {}
    /\ targets \subseteq CommonPlaneClients

ConfigurationStarted(targets, partial) ==
    /\ CanStartConfiguration(targets)
    /\ run_state' = "configuring"
    /\ pending_configuration_source' = run_state
    /\ pending_configuration_partial' = partial
    /\ operational' = IF partial THEN operational \ targets ELSE {}
    /\ SetClientState(targets, "configuring")
    /\ UNCHANGED <<pending_terminal_state, acquisition, monitoring>>

\* A rejected CONFIGURATION_STARTED has already recorded where it came from
\* when only the validation of its targets failed.
ConfigurationStartRejected(targets) ==
    /\ ~CanStartConfiguration(targets)
    /\ pending_configuration_source' =
          IF InTable("configuration_started") THEN run_state
          ELSE pending_configuration_source
    /\ UNCHANGED <<run_state, pending_terminal_state,
                   pending_configuration_partial, registryVars>>

\* Clients lost meanwhile are dropped from the result; when no successful one
\* is left the result is handled as CONFIGURATION_FAILED.
AllSuccessesLost(successful, failed) ==
    /\ (successful \cup failed) \ UnderConfiguration # {}
    /\ successful \cap UnderConfiguration = {}

\* Mutant: the lost clients are not dropped from the failed ones.
CanFailConfigurationUnfiltered(failed) ==
    run_state = "configuring" /\ failed = UnderConfiguration

CanFailConfiguration(failed) ==
    /\ run_state = "configuring"
    /\ failed \cap UnderConfiguration = UnderConfiguration

CanSucceedConfiguration(successful, failed) ==
    LET ok == successful \cap UnderConfiguration
    IN  /\ run_state = "configuring"
        /\ ok # {}
        /\ ok \cap failed = {}
        /\ ok \cup (failed \cap UnderConfiguration) = UnderConfiguration
        /\ ok \subseteq CommonPlaneClients

\* Mutant: a failed partial configuration clears every flag.
ConfigurationFailedClearsAll(failed) ==
    /\ CanFailConfiguration(failed)
    /\ run_state' = IF pending_configuration_source # "none"
                    THEN pending_configuration_source ELSE "connected"
    /\ operational' = {}
    /\ SetClientState(UnderConfiguration, "error")
    /\ pending_configuration_source' = "none"
    /\ pending_configuration_partial' = FALSE
    /\ UNCHANGED <<pending_terminal_state, acquisition, monitoring>>

ConfigurationFailed(failed) ==
    /\ CanFailConfiguration(failed)
    /\ run_state' = IF pending_configuration_source # "none"
                    THEN pending_configuration_source ELSE "connected"
    /\ operational' = IF pending_configuration_partial
                      THEN operational \ UnderConfiguration ELSE {}
    /\ SetClientState(UnderConfiguration, "error")
    /\ pending_configuration_source' = "none"
    /\ pending_configuration_partial' = FALSE
    /\ UNCHANGED <<pending_terminal_state, acquisition, monitoring>>

\* Mutant: the clients that failed are left CONFIGURING.
ConfigurationAppliedForgetsFailed(successful, failed) ==
    LET ok == successful \cap UnderConfiguration
    IN  /\ CanSucceedConfiguration(successful, failed)
        /\ run_state' = "ready"
        /\ operational' = IF pending_configuration_partial
                          THEN operational \cup ok ELSE ok
        /\ SetClientState(ok, "ready")
        /\ pending_configuration_source' = "none"
        /\ pending_configuration_partial' = FALSE
        /\ UNCHANGED <<pending_terminal_state, acquisition, monitoring>>

ConfigurationApplied(successful, failed) ==
    LET ok == successful \cap UnderConfiguration
    IN  /\ CanSucceedConfiguration(successful, failed)
        /\ run_state' = "ready"
        /\ operational' = IF pending_configuration_partial
                          THEN operational \cup ok ELSE ok
        /\ client_state' = [c \in Clients |->
              IF c \in ok THEN "ready"
              ELSE IF c \in UnderConfiguration THEN "error"
              ELSE client_state[c]]
        /\ pending_configuration_source' = "none"
        /\ pending_configuration_partial' = FALSE
        /\ UNCHANGED <<pending_terminal_state, acquisition, monitoring>>

ConfigurationSucceeded(successful, failed) ==
    IF AllSuccessesLost(successful, failed)
    THEN ConfigurationFailed(failed)
    ELSE ConfigurationApplied(successful, failed)

ConfigurationSucceededAccepted(successful, failed) ==
    IF AllSuccessesLost(successful, failed)
    THEN CanFailConfiguration(failed)
    ELSE CanSucceedConfiguration(successful, failed)

CanStartAcquisition(active) ==
    /\ InTable("acquisition_started")
    /\ active # {}
    /\ active \subseteq operational
    /\ \A c \in active : client_state[c] = "ready"

AcquisitionStarted(active) ==
    /\ CanStartAcquisition(active)
    /\ run_state' = "acquiring"
    /\ operational' = active
    /\ SetClientState(active, "acquiring")
    /\ UNCHANGED <<pendingVars, acquisition, monitoring>>

\* Entering FINALIZING, or a shutdown request while already there: the pending
\* terminal state is the one of the last such event.
EnterFinalizing(event) ==
    /\ <<run_state, event, "finalizing">> \in TRANSITION_TABLE
    /\ run_state' = "finalizing"
    /\ pending_terminal_state' = IF event = "disconnect_requested"
                                 THEN "disconnected" ELSE "ready"
    /\ SetClientState(operational, "finalizing")
    /\ UNCHANGED <<pending_configuration_source, pending_configuration_partial,
                   acquisition, monitoring, operational>>

StopRequested == EnterFinalizing("stop_requested")

ReceiverCompleted == EnterFinalizing("receiver_completed")

\* From every other state a shutdown request goes to DISCONNECTED at once and
\* leaves the registry as it is.
DisconnectRequested ==
    \/ EnterFinalizing("disconnect_requested")
    \/ /\ <<run_state, "disconnect_requested", "disconnected">> \in TRANSITION_TABLE
       /\ run_state' = "disconnected"
       /\ UNCHANGED <<pendingVars, registryVars>>

\* Mutant: the table's READY, whatever is pending.
FinalizationEndedAlwaysReady ==
    /\ run_state = "finalizing"
    /\ run_state' = "ready"
    /\ SetClientState(operational, "ready")
    /\ pending_terminal_state' = "none"
    /\ UNCHANGED <<pending_configuration_source, pending_configuration_partial,
                   acquisition, monitoring, operational>>

\* Mutant: the clients stay FINALIZING.
FinalizationEndedForgetsClients ==
    /\ run_state = "finalizing"
    /\ run_state' = pending_terminal_state
    /\ operational' = IF pending_terminal_state = "ready" THEN operational ELSE {}
    /\ pending_terminal_state' = "none"
    /\ UNCHANGED <<pending_configuration_source, pending_configuration_partial,
                   client_state, acquisition, monitoring>>

\* FINALIZATION_SUCCEEDED and FINALIZATION_FAILED have the same effect: the
\* outcome is only reported.
FinalizationEnded ==
    /\ run_state = "finalizing"
    /\ run_state' = pending_terminal_state
    /\ IF pending_terminal_state = "ready"
       THEN /\ SetClientState(operational, "ready")
            /\ UNCHANGED operational
       ELSE /\ SetClientState(operational, "disconnected")
            /\ operational' = {}
    /\ pending_terminal_state' = "none"
    /\ UNCHANGED <<pending_configuration_source, pending_configuration_partial,
                   acquisition, monitoring>>

FatalError ==
    /\ run_state' = "error"
    /\ SetClientState(operational, "error")
    /\ operational' = {}
    /\ pending_terminal_state' = IF run_state = "finalizing"
                                 THEN "none" ELSE pending_terminal_state
    /\ UNCHANGED <<pending_configuration_source, pending_configuration_partial,
                   acquisition, monitoring>>

------------------------------------------------------------------------------
(* The client registry and the client FSM *)

AddControlClient(c) ==
    /\ client_state[c] = "absent"
    /\ client_state' = [client_state EXCEPT ![c] = "connected"]
    /\ UNCHANGED <<run_state, pendingVars, acquisition, monitoring, operational>>

\* Mutant: a client that is still READY gets its flag back.
AddAcquisitionClientRestoresFlag(c) ==
    /\ c \in Registered
    /\ acquisition' = acquisition \cup {c}
    /\ operational' = IF client_state[c] = "ready" THEN operational \cup {c}
                      ELSE operational
    /\ UNCHANGED <<run_state, pendingVars, client_state, monitoring>>

AddAcquisitionClient(c) ==
    /\ c \in Registered
    /\ acquisition' = acquisition \cup {c}
    /\ UNCHANGED <<run_state, pendingVars, client_state, monitoring, operational>>

AddMonitoringClient(c) ==
    /\ c \in Registered
    /\ monitoring' = monitoring \cup {c}
    /\ UNCHANGED <<run_state, pendingVars, client_state, acquisition, operational>>

\* The state of the client FSM is left as it is: the caller has to send
\* ACQUISITION_PLANE_LOST itself.
RemoveAcquisitionClient(c) ==
    /\ acquisition' = acquisition \ {c}
    /\ operational' = operational \ {c}
    /\ UNCHANGED <<run_state, pendingVars, client_state, monitoring>>

RemoveMonitoringClient(c) ==
    /\ monitoring' = monitoring \ {c}
    /\ UNCHANGED <<run_state, pendingVars, client_state, acquisition, operational>>

RemoveOperationalClient(c) ==
    /\ operational' = operational \ {c}
    /\ UNCHANGED <<run_state, pendingVars, client_state, acquisition, monitoring>>

\* Mutant: a registration on the acquisition plane survives the record.
RemoveClientKeepsAcquisition(c) ==
    /\ client_state' = [client_state EXCEPT ![c] = "absent"]
    /\ monitoring' = monitoring \ {c}
    /\ operational' = operational \ {c}
    /\ UNCHANGED <<run_state, pendingVars, acquisition>>

\* The whole record is popped, with every flag it carries.
RemoveClient(c) ==
    /\ client_state' = [client_state EXCEPT ![c] = "absent"]
    /\ acquisition' = acquisition \ {c}
    /\ monitoring' = monitoring \ {c}
    /\ operational' = operational \ {c}
    /\ UNCHANGED <<run_state, pendingVars>>

ClientAcquisitionPlaneLost(c) ==
    /\ client_state[c] \in DOMAIN AcquisitionPlaneLostTable
    /\ client_state' = [client_state EXCEPT
                           ![c] = AcquisitionPlaneLostTable[client_state[c]]]
    /\ UNCHANGED <<run_state, pendingVars, acquisition, monitoring, operational>>

------------------------------------------------------------------------------

Configure ==
    \/ \E targets \in SUBSET Clients, partial \in BOOLEAN :
          ConfigurationStarted(targets, partial)
    \/ \E targets \in SUBSET Clients : ConfigurationStartRejected(targets)
    \/ \E successful, failed \in SUBSET Clients :
          ConfigurationSucceeded(successful, failed)
    \/ \E failed \in SUBSET Clients : ConfigurationFailed(failed)

Acquire ==
    \/ \E active \in SUBSET Clients : AcquisitionStarted(active)
    \/ StopRequested
    \/ ReceiverCompleted
    \/ FinalizationEnded

Registry ==
    \E c \in Clients :
        \/ AddControlClient(c)
        \/ AddAcquisitionClient(c)
        \/ AddMonitoringClient(c)
        \/ RemoveAcquisitionClient(c)
        \/ RemoveMonitoringClient(c)
        \/ RemoveOperationalClient(c)
        \/ RemoveClient(c)
        \/ ClientAcquisitionPlaneLost(c)

Next ==
    \/ \E event \in {"control_connection_succeeded", "control_connection_failed",
                     "acquisition_connection_succeeded",
                     "acquisition_connection_failed"} : ConnectionEvent(event)
    \/ Configure
    \/ Acquire
    \/ DisconnectRequested
    \/ FatalError
    \/ Registry

Spec == Init /\ [][Next]_stateVars

------------------------------------------------------------------------------
(* Properties *)

\* Whatever the threads do, a client with the operational flag is on the
\* control and on the acquisition plane: "Only clients connected on both
\* planes may become operational" (set_operational_clients), kept by every
\* path that removes a client.
OperationalOnBothPlanes == operational \subseteq CommonPlaneClients

\* A client on the acquisition or on the monitoring plane has a record, hence
\* is on the control plane (add_acquisition_client, add_monitoring_client and
\* the removal order of remove_client).
PlanesNeedControl == acquisition \cup monitoring \subseteq Registered

\* A terminal state is pending exactly while the server is finalizing: a stale
\* one would send a later finalization to the wrong state.
PendingOnlyWhileFinalizing ==
    pending_terminal_state # "none" <=> run_state = "finalizing"

\* A client under configuration is never used by acquisition commands.
ConfiguringNotOperational == operational \cap UnderConfiguration = {}

\* What every operation of ServerState keeps, whichever threads call it in
\* whichever order: planes, flags, client states and the server FSM agree with
\* one another.  The parts are kept together: an operational client stays on
\* both planes because a record is only removed together with its planes.
RegistryConsistent ==
    /\ TypeOK
    /\ OperationalOnBothPlanes
    /\ PlanesNeedControl
    /\ PendingOnlyWhileFinalizing
    /\ ConfiguringNotOperational

\* A configuration that ends with a result leaves no client under
\* configuration: "every client gets an explicit successful/failed outcome
\* before the batch is considered closed" (StartupService).
EveryTargetGetsOutcome ==
    [][ (run_state = "configuring" /\ run_state' \in {"ready", "connected"})
        => ListClientsInState("configuring")' = {} ]_stateVars

\* A client becomes operational only as the result of its own configuration,
\* in READY: a reconnection alone never gives the flag back.
OperationalOnlyByConfiguration ==
    [][ \A c \in operational' \ operational :
           /\ client_state[c] = "configuring"
           /\ client_state'[c] = "ready"
           /\ run_state' = "ready" ]_stateVars

\* Once a shutdown has been requested during a run, the finalization in
\* progress is completed and leads to DISCONNECTED (or to ERROR): no later
\* event puts READY back.
ShutdownHonoured ==
    [][ pending_terminal_state = "disconnected"
        => \/ run_state' = "finalizing" /\ pending_terminal_state' = "disconnected"
           \/ run_state' \in {"disconnected", "error"} ]_stateVars

\* "With `partial` only these clients change: the operational flag of the
\* others is kept" (configure_clients), from the start to the result.
PartialKeepsOthers ==
    [][ /\ \/ run_state' = "configuring" /\ run_state # "configuring"
              /\ pending_configuration_partial'
           \/ run_state = "configuring" /\ pending_configuration_partial
              /\ run_state' \in {"ready", "connected"}
        => \A c \in Clients :
              {client_state[c], client_state'[c]} \cap {"configuring"} = {}
              => (c \in operational' <=> c \in operational) ]_stateVars
==============================================================================
