----------------------------- MODULE ServerProofs -----------------------------
(***************************************************************************)
(* Theorems about the server, for every set of boards and of session       *)
(* threads and every interleaving:                                         *)
(*   - ServerState: RegistryConsistent is inductive as it stands;          *)
(*     OperationalOnBothPlanes needs PlanesNeedControl (a record is popped *)
(*     with its flags), TypeOK' needs the pending terminal state of        *)
(*     FINALIZING to be a real one;                                        *)
(*   - ServerLifecycle: it implements ServerState, so the registry's       *)
(*     theorems carry over; its threads keep their own invariant;          *)
(*   - SessionStop: a step of its threads is a step of ServerState too, and *)
(*     every run has its one owner.                                        *)
(***************************************************************************)
EXTENDS ServerLifecycle, SessionStop, TLAPS

------------------------------------------------------------------------------
(* ServerState: one lemma per part of the invariant, one step per action. *)

\* Every row of the table leads to a state of the FSM, and only the events of a
\* run enter or stay in FINALIZING.
LEMMA TableFacts ==
    ASSUME NEW s, NEW e, NEW next, <<s, e, next>> \in TRANSITION_TABLE
    PROVE  /\ next \in ServerFSM
           /\ (e \in {"control_connection_succeeded", "control_connection_failed",
                      "acquisition_connection_succeeded",
                      "acquisition_connection_failed"})
                => s # "finalizing" /\ next # "finalizing"
           /\ (e \in {"control_connection_succeeded", "control_connection_failed",
                      "acquisition_connection_succeeded",
                      "acquisition_connection_failed"})
                => s # "acquiring" /\ next # "acquiring" /\ next # "configuring"
           /\ (e = "configuration_started") => s \in {"connected", "ready"}
           /\ (e = "acquisition_started") => s = "ready"
           /\ (e = "disconnect_requested" /\ next = "disconnected")
                => s # "finalizing" /\ s # "acquiring"
           /\ (e \in {"stop_requested", "receiver_completed"})
                => s = "acquiring" /\ next = "finalizing"
           /\ (e = "disconnect_requested" /\ next = "finalizing")
                => s \in {"acquiring", "finalizing"}
BY DEF TRANSITION_TABLE, ServerFSM

\* The initial state: no client and no pending transition.
LEMMA InitConsistent == Init => RegistryConsistent
BY DEF Init, RegistryConsistent, TypeOK, ServerFSM, OperationalOnBothPlanes, PlanesNeedControl,
       PendingOnlyWhileFinalizing, ConfiguringNotOperational,
       CommonPlaneClients, Registered

\* Every action of the registry and of process_event keeps the types.
LEMMA TypeStep == ASSUME RegistryConsistent, [Next]_stateVars PROVE TypeOK'
<1> USE DEF RegistryConsistent, TypeOK
<1>1. CASE UNCHANGED stateVars
  BY <1>1 DEF stateVars, pendingVars, registryVars
<1>2. ASSUME NEW e \in {"control_connection_succeeded", "control_connection_failed",
                        "acquisition_connection_succeeded",
                        "acquisition_connection_failed"},
             ConnectionEvent(e)
      PROVE  TypeOK'
  BY <1>2 DEF ConnectionEvent, pendingVars, registryVars
<1>3. CASE Configure
  <2>1. ASSUME NEW t \in SUBSET Clients, NEW p \in BOOLEAN, ConfigurationStarted(t, p)
        PROVE  TypeOK'
    <3>1. run_state \in {"connected", "ready"}
      BY <2>1, TableFacts DEF ConfigurationStarted, CanStartConfiguration, InTable
    <3> QED
      BY <2>1, <3>1 DEF ConfigurationStarted, SetClientState, ServerFSM, ClientFSM
  <2>2. ASSUME NEW t \in SUBSET Clients, ConfigurationStartRejected(t)
        PROVE  TypeOK'
    <3>1. InTable("configuration_started") => run_state \in {"connected", "ready"}
      BY TableFacts DEF InTable
    <3> QED
      BY <2>2, <3>1 DEF ConfigurationStartRejected, registryVars
  <2>3. ASSUME NEW f \in SUBSET Clients, ConfigurationFailed(f)
        PROVE  TypeOK'
    BY <2>3 DEF ConfigurationFailed, SetClientState, ServerFSM, ClientFSM
  <2>4. ASSUME NEW s \in SUBSET Clients, NEW f \in SUBSET Clients,
               ConfigurationApplied(s, f)
        PROVE  TypeOK'
    BY <2>4 DEF ConfigurationApplied, ServerFSM, ClientFSM, UnderConfiguration,
                ListClientsInState
  <2> QED
    BY <1>3, <2>1, <2>2, <2>3, <2>4 DEF Configure, ConfigurationSucceeded
<1>4. CASE Acquire
  <2>1. ASSUME NEW a \in SUBSET Clients, AcquisitionStarted(a)
        PROVE  TypeOK'
    BY <2>1 DEF AcquisitionStarted, SetClientState, ServerFSM, ClientFSM, pendingVars
  <2>2. CASE StopRequested \/ ReceiverCompleted
    BY <2>2 DEF StopRequested, ReceiverCompleted, EnterFinalizing, SetClientState,
                ServerFSM, ClientFSM
  <2>3. CASE FinalizationEnded
    BY <2>3 DEF FinalizationEnded, PendingOnlyWhileFinalizing, SetClientState,
                ServerFSM, ClientFSM
  <2> QED
    BY <1>4, <2>1, <2>2, <2>3 DEF Acquire
<1>5. CASE DisconnectRequested
  BY <1>5 DEF DisconnectRequested, EnterFinalizing, SetClientState, ServerFSM,
              ClientFSM, pendingVars, registryVars
<1>6. CASE FatalError
  BY <1>6 DEF FatalError, SetClientState, ServerFSM, ClientFSM
<1>7. CASE Registry
  <2> SUFFICES ASSUME NEW c \in Clients,
                      \/ AddControlClient(c) \/ AddAcquisitionClient(c)
                      \/ AddMonitoringClient(c) \/ RemoveAcquisitionClient(c)
                      \/ RemoveMonitoringClient(c) \/ RemoveOperationalClient(c)
                      \/ RemoveClient(c) \/ ClientAcquisitionPlaneLost(c)
               PROVE  TypeOK'
    BY <1>7 DEF Registry
  <2>1. CASE AddControlClient(c) \/ RemoveClient(c)
    BY <2>1 DEF AddControlClient, RemoveClient, ClientFSM, pendingVars
  <2>2. CASE \/ AddAcquisitionClient(c) \/ AddMonitoringClient(c)
             \/ RemoveAcquisitionClient(c) \/ RemoveMonitoringClient(c)
             \/ RemoveOperationalClient(c)
    BY <2>2 DEF AddAcquisitionClient, AddMonitoringClient, RemoveAcquisitionClient,
                RemoveMonitoringClient, RemoveOperationalClient, pendingVars
  <2>3. CASE ClientAcquisitionPlaneLost(c)
    BY <2>3 DEF ClientAcquisitionPlaneLost, AcquisitionPlaneLostTable, ClientFSM,
                pendingVars
  <2> QED
    BY <2>1, <2>2, <2>3
<1> QED
  BY <1>1, <1>2, <1>3, <1>4, <1>5, <1>6, <1>7 DEF Next

\* A pending terminal state exists exactly while finalizing: the events that
\* enter FINALIZING set it, the ones that leave it clear it.
LEMMA PendingStep == ASSUME RegistryConsistent, [Next]_stateVars PROVE PendingOnlyWhileFinalizing'
<1> USE DEF RegistryConsistent, PendingOnlyWhileFinalizing
<1>1. CASE UNCHANGED stateVars \/ Registry
  BY <1>1 DEF stateVars, pendingVars, Registry, AddControlClient,
     AddAcquisitionClient, AddMonitoringClient, RemoveAcquisitionClient,
     RemoveMonitoringClient, RemoveOperationalClient, RemoveClient,
     ClientAcquisitionPlaneLost
<1>2. ASSUME NEW e \in {"control_connection_succeeded", "control_connection_failed",
                        "acquisition_connection_succeeded",
                        "acquisition_connection_failed"},
             ConnectionEvent(e)
      PROVE  PendingOnlyWhileFinalizing'
  BY <1>2, TableFacts DEF ConnectionEvent, pendingVars
<1>3. CASE Configure
  <2>1. ASSUME NEW t, NEW p, ConfigurationStarted(t, p)
        PROVE  PendingOnlyWhileFinalizing'
    BY <2>1, TableFacts DEF ConfigurationStarted, CanStartConfiguration, InTable
  <2>2. ASSUME NEW t, ConfigurationStartRejected(t)
        PROVE  PendingOnlyWhileFinalizing'
    BY <2>2 DEF ConfigurationStartRejected
  <2>3. ASSUME NEW f, ConfigurationFailed(f)
        PROVE  PendingOnlyWhileFinalizing'
    BY <2>3 DEF ConfigurationFailed, CanFailConfiguration, TypeOK
  <2>4. ASSUME NEW s, NEW f, ConfigurationApplied(s, f)
        PROVE  PendingOnlyWhileFinalizing'
    BY <2>4 DEF ConfigurationApplied, CanSucceedConfiguration
  <2> QED
    BY <1>3, <2>1, <2>2, <2>3, <2>4 DEF Configure, ConfigurationSucceeded
<1>4. CASE Acquire
  <2>1. ASSUME NEW a, AcquisitionStarted(a)
        PROVE  PendingOnlyWhileFinalizing'
    BY <2>1, TableFacts DEF AcquisitionStarted, CanStartAcquisition, InTable, pendingVars
  <2> QED
    BY <1>4, <2>1 DEF Acquire, StopRequested, ReceiverCompleted, EnterFinalizing,
                      FinalizationEnded, TypeOK
<1>5. CASE DisconnectRequested
  BY <1>5, TableFacts DEF DisconnectRequested, EnterFinalizing, pendingVars
<1>6. CASE FatalError
  BY <1>6 DEF FatalError
<1> QED
  BY <1>1, <1>2, <1>3, <1>4, <1>5, <1>6 DEF Next

\* The flags of a client never outlive its record, and the operational flag
\* never outlives the acquisition plane.
LEMMA PlanesStep ==
    ASSUME RegistryConsistent, [Next]_stateVars
    PROVE  OperationalOnBothPlanes' /\ PlanesNeedControl'
<1> USE DEF RegistryConsistent, TypeOK, OperationalOnBothPlanes, PlanesNeedControl,
            CommonPlaneClients, Registered
<1>1. CASE UNCHANGED stateVars
  BY <1>1 DEF stateVars, registryVars
<1>2. ASSUME NEW e, ConnectionEvent(e)
      PROVE  OperationalOnBothPlanes' /\ PlanesNeedControl'
  BY <1>2 DEF ConnectionEvent, registryVars
<1>3. CASE Configure
  <2>1. ASSUME NEW t \in SUBSET Clients, NEW p \in BOOLEAN, ConfigurationStarted(t, p)
        PROVE  OperationalOnBothPlanes' /\ PlanesNeedControl'
    BY <2>1 DEF ConfigurationStarted, SetClientState
  <2>2. ASSUME NEW t, ConfigurationStartRejected(t)
        PROVE  OperationalOnBothPlanes' /\ PlanesNeedControl'
    BY <2>2 DEF ConfigurationStartRejected, registryVars
  <2>3. ASSUME NEW f, ConfigurationFailed(f)
        PROVE  OperationalOnBothPlanes' /\ PlanesNeedControl'
    BY <2>3 DEF ConfigurationFailed, SetClientState
  <2>4. ASSUME NEW s, NEW f, ConfigurationApplied(s, f)
        PROVE  OperationalOnBothPlanes' /\ PlanesNeedControl'
    BY <2>4 DEF ConfigurationApplied, CanSucceedConfiguration, UnderConfiguration,
                ListClientsInState
  <2> QED
    BY <1>3, <2>1, <2>2, <2>3, <2>4 DEF Configure, ConfigurationSucceeded
<1>4. CASE Acquire
  BY <1>4 DEF Acquire, AcquisitionStarted, CanStartAcquisition, StopRequested,
              ReceiverCompleted, EnterFinalizing, FinalizationEnded, SetClientState
<1>5. CASE DisconnectRequested
  BY <1>5 DEF DisconnectRequested, EnterFinalizing, SetClientState, registryVars
<1>6. CASE FatalError
  BY <1>6 DEF FatalError, SetClientState
<1>7. CASE Registry
  BY <1>7 DEF Registry, AddControlClient, AddAcquisitionClient, AddMonitoringClient,
     RemoveAcquisitionClient, RemoveMonitoringClient, RemoveOperationalClient,
     RemoveClient, ClientAcquisitionPlaneLost, AcquisitionPlaneLostTable, ClientFSM
<1> QED
  BY <1>1, <1>2, <1>3, <1>4, <1>5, <1>6, <1>7 DEF Next

\* A client under configuration is not operational: the flag is cleared with
\* the start and given back only with the result.
LEMMA ConfiguringStep == ASSUME RegistryConsistent, [Next]_stateVars PROVE ConfiguringNotOperational'
<1> USE DEF RegistryConsistent, TypeOK, ConfiguringNotOperational, UnderConfiguration,
            ListClientsInState
<1>1. CASE UNCHANGED stateVars
  BY <1>1 DEF stateVars, registryVars
<1>2. ASSUME NEW e, ConnectionEvent(e)
      PROVE  ConfiguringNotOperational'
  BY <1>2 DEF ConnectionEvent, registryVars
<1>3. CASE Configure
  <2>1. ASSUME NEW t \in SUBSET Clients, NEW p \in BOOLEAN, ConfigurationStarted(t, p)
        PROVE  ConfiguringNotOperational'
    BY <2>1 DEF ConfigurationStarted, SetClientState
  <2>2. ASSUME NEW t, ConfigurationStartRejected(t)
        PROVE  ConfiguringNotOperational'
    BY <2>2 DEF ConfigurationStartRejected, registryVars
  <2>3. ASSUME NEW f, ConfigurationFailed(f)
        PROVE  ConfiguringNotOperational'
    BY <2>3 DEF ConfigurationFailed, SetClientState
  <2>4. ASSUME NEW s, NEW f, ConfigurationApplied(s, f)
        PROVE  ConfiguringNotOperational'
    BY <2>4 DEF ConfigurationApplied, CanSucceedConfiguration
  <2> QED
    BY <1>3, <2>1, <2>2, <2>3, <2>4 DEF Configure, ConfigurationSucceeded
<1>4. CASE Acquire
  BY <1>4 DEF Acquire, AcquisitionStarted, CanStartAcquisition, StopRequested,
              ReceiverCompleted, EnterFinalizing, FinalizationEnded, SetClientState
<1>5. CASE DisconnectRequested
  BY <1>5 DEF DisconnectRequested, EnterFinalizing, SetClientState, registryVars
<1>6. CASE FatalError
  BY <1>6 DEF FatalError, SetClientState
<1>7. CASE Registry
  BY <1>7 DEF Registry, AddControlClient, AddAcquisitionClient, AddMonitoringClient,
     RemoveAcquisitionClient, RemoveMonitoringClient, RemoveOperationalClient,
     RemoveClient, ClientAcquisitionPlaneLost, AcquisitionPlaneLostTable, ClientFSM,
     OperationalOnBothPlanes, CommonPlaneClients, Registered
<1> QED
  BY <1>1, <1>2, <1>3, <1>4, <1>5, <1>6, <1>7 DEF Next

\* The inductive invariant holds in every reachable state of the registry.
THEOREM RegistryIsConsistent == Spec => []RegistryConsistent
<1>1. Init => RegistryConsistent
  BY InitConsistent
<1>2. RegistryConsistent /\ [Next]_stateVars => RegistryConsistent'
  BY TypeStep, PendingStep, PlanesStep, ConfiguringStep DEF RegistryConsistent
<1> QED
  BY <1>1, <1>2, PTL DEF Spec

\* Types of the registry, in every reachable state and for any set of clients.
THEOREM TypeCorrect == Spec => []TypeOK
<1>1. RegistryConsistent => TypeOK
  BY DEF RegistryConsistent
<1> QED
  BY <1>1, RegistryIsConsistent, PTL

\* "Only clients connected on both planes may become operational": for every
\* set of clients and every order of configurations, losses and reconnections.
THEOREM OperationalSafe == Spec => []OperationalOnBothPlanes
<1>1. RegistryConsistent => OperationalOnBothPlanes
  BY DEF RegistryConsistent
<1> QED
  BY <1>1, RegistryIsConsistent, PTL

\* A client on the acquisition or on the monitoring plane has a record, whatever
\* order its planes are taken and lost in (add_*_client, remove_client).
THEOREM PlanesSafe == Spec => []PlanesNeedControl
<1>1. RegistryConsistent => PlanesNeedControl
  BY DEF RegistryConsistent
<1> QED
  BY <1>1, RegistryIsConsistent, PTL

\* A stale terminal state can never redirect a later finalization.
THEOREM PendingSafe == Spec => []PendingOnlyWhileFinalizing
<1>1. RegistryConsistent => PendingOnlyWhileFinalizing
  BY DEF RegistryConsistent
<1> QED
  BY <1>1, RegistryIsConsistent, PTL

\* Acquisition commands never address a client under configuration.
THEOREM ConfiguringSafe == Spec => []ConfiguringNotOperational
<1>1. RegistryConsistent => ConfiguringNotOperational
  BY DEF RegistryConsistent
<1> QED
  BY <1>1, RegistryIsConsistent, PTL

------------------------------------------------------------------------------
(* Action properties: what no single step may do. *)

\* A shutdown requested during a run survives until the finalization ends.
THEOREM ShutdownSurvives == Spec => ShutdownHonoured
<1> DEFINE A == pending_terminal_state = "disconnected"
                => \/ run_state' = "finalizing" /\ pending_terminal_state' = "disconnected"
                   \/ run_state' \in {"disconnected", "error"}
<1>1. ASSUME RegistryConsistent, Next PROVE A
  <2> SUFFICES ASSUME pending_terminal_state = "disconnected" PROVE A
    OBVIOUS
  <2>1. run_state = "finalizing"
    BY <1>1 DEF RegistryConsistent, PendingOnlyWhileFinalizing
  <2>2. ASSUME NEW e \in {"control_connection_succeeded", "control_connection_failed",
                          "acquisition_connection_succeeded",
                          "acquisition_connection_failed"},
               ConnectionEvent(e)
        PROVE  FALSE
    BY <2>1, <2>2, TableFacts DEF ConnectionEvent
  <2>3. CASE Configure
    <3>1. ~InTable("configuration_started")
      BY <2>1, TableFacts DEF InTable
    <3> QED
      BY <2>1, <2>3, <3>1 DEF Configure, ConfigurationStarted, CanStartConfiguration,
         ConfigurationStartRejected, ConfigurationSucceeded, ConfigurationFailed,
         ConfigurationApplied, CanFailConfiguration, CanSucceedConfiguration
  <2>4. CASE Acquire
    <3>1. ~InTable("acquisition_started")
      BY <2>1, TableFacts DEF InTable
    <3>2. ~StopRequested /\ ~ReceiverCompleted
      BY <2>1 DEF StopRequested, ReceiverCompleted, EnterFinalizing, TRANSITION_TABLE
    <3> QED
      BY <2>1, <2>4, <3>1, <3>2 DEF Acquire, AcquisitionStarted, CanStartAcquisition,
         FinalizationEnded
  <2>5. CASE DisconnectRequested
    BY <2>5 DEF DisconnectRequested, EnterFinalizing
  <2>6. CASE FatalError
    BY <2>6 DEF FatalError
  <2>7. CASE Registry
    BY <2>1, <2>7 DEF Registry, pendingVars, AddControlClient, AddAcquisitionClient,
       AddMonitoringClient, RemoveAcquisitionClient, RemoveMonitoringClient,
       RemoveOperationalClient, RemoveClient, ClientAcquisitionPlaneLost
  <2> QED
    BY <1>1, <2>2, <2>3, <2>4, <2>5, <2>6, <2>7 DEF Next
<1>2. RegistryConsistent /\ [Next]_stateVars => [A]_stateVars
  BY <1>1
<1> QED
  BY <1>2, RegistryIsConsistent, PTL DEF Spec, ShutdownHonoured

\* The operational flag is only ever gained as the result of a configuration.
THEOREM FlagOnlyByConfiguration == Spec => OperationalOnlyByConfiguration
<1> DEFINE A == \A c \in operational' \ operational :
                   /\ client_state[c] = "configuring"
                   /\ client_state'[c] = "ready"
                   /\ run_state' = "ready"
<1>1. ASSUME RegistryConsistent, Next PROVE A
  <2>1. ASSUME NEW e, ConnectionEvent(e) PROVE A
    BY <2>1 DEF ConnectionEvent, registryVars
  <2>2. CASE Configure
    <3>1. ASSUME NEW s, NEW f, ConfigurationApplied(s, f) PROVE A
      BY <1>1, <3>1 DEF ConfigurationApplied, UnderConfiguration, ListClientsInState,
                   RegistryConsistent, TypeOK
    <3> QED
      BY <2>2, <3>1 DEF Configure, ConfigurationStarted, ConfigurationStartRejected,
         ConfigurationSucceeded, ConfigurationFailed, registryVars
  <2>3. CASE Acquire
    BY <2>3 DEF Acquire, AcquisitionStarted, CanStartAcquisition, StopRequested,
                ReceiverCompleted, EnterFinalizing, FinalizationEnded
  <2>4. CASE DisconnectRequested \/ FatalError
    BY <2>4 DEF DisconnectRequested, FatalError, EnterFinalizing, registryVars
  <2>5. CASE Registry
    BY <2>5 DEF Registry, AddControlClient, AddAcquisitionClient, AddMonitoringClient,
       RemoveAcquisitionClient, RemoveMonitoringClient, RemoveOperationalClient,
       RemoveClient, ClientAcquisitionPlaneLost
  <2> QED
    BY <1>1, <2>1, <2>2, <2>3, <2>4, <2>5 DEF Next
<1>2. RegistryConsistent /\ [Next]_stateVars => [A]_stateVars
  BY <1>1
<1> QED
  BY <1>2, RegistryIsConsistent, PTL DEF Spec, OperationalOnlyByConfiguration

\* No result of a configuration leaves a client under configuration.
THEOREM OutcomeForEveryTarget == Spec => EveryTargetGetsOutcome
<1> DEFINE A == (run_state = "configuring" /\ run_state' \in {"ready", "connected"})
                => ListClientsInState("configuring")' = {}
<1>1. ASSUME RegistryConsistent, Next PROVE A
  <2> SUFFICES ASSUME run_state = "configuring", run_state' \in {"ready", "connected"}
               PROVE  ListClientsInState("configuring")' = {}
    OBVIOUS
  <2>1. ASSUME NEW e, ConnectionEvent(e),
               e \in {"control_connection_succeeded", "control_connection_failed",
                       "acquisition_connection_succeeded",
                       "acquisition_connection_failed"}
        PROVE  FALSE
    BY <2>1 DEF ConnectionEvent, TRANSITION_TABLE
  <2>2. CASE Configure
    <3>1. ASSUME NEW s, NEW f, ConfigurationApplied(s, f)
          PROVE  ListClientsInState("configuring")' = {}
      BY <3>1 DEF ConfigurationApplied, UnderConfiguration, ListClientsInState
    <3>2. ASSUME NEW f, ConfigurationFailed(f)
          PROVE  ListClientsInState("configuring")' = {}
      BY <3>2 DEF ConfigurationFailed, SetClientState, UnderConfiguration,
                  ListClientsInState
    <3> QED
      BY <2>2, <3>1, <3>2 DEF Configure, ConfigurationStarted,
         ConfigurationStartRejected, ConfigurationSucceeded
  <2>3. CASE Acquire \/ DisconnectRequested \/ FatalError \/ Registry
    BY <2>3 DEF Acquire, AcquisitionStarted, StopRequested, ReceiverCompleted,
       EnterFinalizing, FinalizationEnded, DisconnectRequested, FatalError,
       Registry, AddControlClient, AddAcquisitionClient, AddMonitoringClient,
       RemoveAcquisitionClient, RemoveMonitoringClient, RemoveOperationalClient,
       RemoveClient, ClientAcquisitionPlaneLost
  <2> QED
    BY <1>1, <2>1, <2>2, <2>3 DEF Next, ConnectionEvent
<1>2. RegistryConsistent /\ [Next]_stateVars => [A]_stateVars
  BY <1>1
<1> QED
  BY <1>2, RegistryIsConsistent, PTL DEF Spec, EveryTargetGetsOutcome

\* A partial configuration leaves the flag of every other client alone, from
\* its start to its result.
THEOREM PartialIsPartial == Spec => PartialKeepsOthers
<1> DEFINE Others == \A c \in Clients :
                        {client_state[c], client_state'[c]} \cap {"configuring"} = {}
                        => (c \in operational' <=> c \in operational)
           Started == /\ run_state' = "configuring" /\ run_state # "configuring"
                      /\ pending_configuration_partial'
           Ended == /\ run_state = "configuring" /\ pending_configuration_partial
                    /\ run_state' \in {"ready", "connected"}
<1>1. ASSUME RegistryConsistent, Next, Started \/ Ended PROVE Others
  <2>1. ASSUME NEW e, ConnectionEvent(e) PROVE FALSE
    BY <1>1, <2>1, TableFacts DEF ConnectionEvent, TRANSITION_TABLE
  <2>2. CASE Configure
    <3>1. ASSUME NEW t \in SUBSET Clients, NEW p \in BOOLEAN, ConfigurationStarted(t, p)
          PROVE  Others
      <4>1. p /\ t \subseteq Registered
        BY <1>1, <3>1 DEF ConfigurationStarted, CanStartConfiguration, CommonPlaneClients
      <4>2. \A c \in t : client_state'[c] = "configuring"
        BY <3>1, <4>1 DEF ConfigurationStarted, SetClientState, Registered
      <4>3. operational' = operational \ t
        BY <3>1, <4>1 DEF ConfigurationStarted
      <4> QED
        BY <4>2, <4>3
    <3>2. ASSUME NEW t, ConfigurationStartRejected(t) PROVE FALSE
      BY <1>1, <3>2 DEF ConfigurationStartRejected
    <3>3. ASSUME NEW f, ConfigurationFailed(f) PROVE Others
      <4>1. Ended
        BY <1>1, <3>3 DEF ConfigurationFailed, CanFailConfiguration
      <4> QED
        BY <3>3, <4>1 DEF ConfigurationFailed, UnderConfiguration, ListClientsInState
    <3>4. ASSUME NEW k, NEW f, ConfigurationApplied(k, f) PROVE Others
      <4>1. Ended
        BY <1>1, <3>4 DEF ConfigurationApplied, CanSucceedConfiguration
      <4> QED
        BY <3>4, <4>1 DEF ConfigurationApplied, UnderConfiguration, ListClientsInState
    <3> QED
      BY <2>2, <3>1, <3>2, <3>3, <3>4 DEF Configure, ConfigurationSucceeded
  <2>3. ~Acquire
    BY <1>1, TableFacts DEF Acquire, AcquisitionStarted, CanStartAcquisition,
       InTable, StopRequested, ReceiverCompleted, EnterFinalizing, FinalizationEnded,
       RegistryConsistent, TypeOK
  <2>4. ~DisconnectRequested /\ ~FatalError /\ ~Registry
    BY <1>1 DEF EnterFinalizing, DisconnectRequested, FatalError, Registry,
       AddControlClient, AddAcquisitionClient, AddMonitoringClient,
       RemoveAcquisitionClient, RemoveMonitoringClient, RemoveOperationalClient,
       RemoveClient, ClientAcquisitionPlaneLost
  <2> QED
    BY <1>1, <2>1, <2>2, <2>3, <2>4 DEF Next
<1>2. RegistryConsistent /\ [Next]_stateVars => [Started \/ Ended => Others]_stateVars
  BY <1>1
<1> QED
  BY <1>2, RegistryIsConsistent, PTL DEF Spec, PartialKeepsOthers

------------------------------------------------------------------------------
(* ServerLifecycle *)

\* The CLI thread: a command has nothing to do and no result before it has read
\* its targets, and never treats another client.
CliOK ==
    /\ cli \in [pc : {"idle", "wait_control", "rewait_control", "wait_acquisition",
                      "list", "request", "sync", "fallback", "start"},
                kind : {"none", "full", "partial", "acquisition", "scan"},
                targets : SUBSET Clients, todo : SUBSET Clients, ok : SUBSET Clients]
    /\ cli.todo \subseteq cli.targets /\ cli.ok \subseteq cli.targets
    /\ cli.pc \in {"idle", "wait_control", "rewait_control", "wait_acquisition", "list"}
          => cli.todo = {} /\ cli.ok = {}

\* An I/O thread in the middle of a loss has a client.
IoOK ==
    /\ DOMAIN io = {"control", "acquisition"}
    /\ \A p \in {"control", "acquisition"} :
          \/ io[p] = IdleIo
          \/ io[p] \in [pc : {"remove", "operational", "forget"}, client : Clients]

SessionsOK ==
    /\ session \in [Sessions -> {"none", "running", "scanning", "closing",
                                 "leaving_out", "crashed"}]
    /\ hv_previous \in [Sessions -> SUBSET Clients]

\* Stronger than RunAbandonedOnlyByScan: in ACQUIRING a thread that is only
\* closing does not count, since its FINALIZATION_* may come too early for the
\* run and leaves it alone.
RunHasRunner ==
    /\ run_state = "acquiring" =>
          \E s \in Sessions : session[s] \in {"running", "scanning", "crashed"}
    /\ run_state = "finalizing" =>
          \E s \in Sessions : session[s] \in {"running", "scanning", "closing", "crashed"}

LifecycleInv ==
    /\ RegistryConsistent
    /\ CliOK /\ IoOK /\ SessionsOK
    /\ OperationalFollowsServer
    /\ RunHasRunner

\* Every operation of ServerState but ACQUISITION_STARTED, which alone begins a
\* run, and ACQUISITION_PLANE_LOST, which alone may part the state of an
\* operational client from the one of the server.
ServerStep ==
    \/ UNCHANGED stateVars
    \/ \E e \in {"control_connection_succeeded", "control_connection_failed",
                 "acquisition_connection_succeeded",
                 "acquisition_connection_failed"} : ConnectionEvent(e)
    \/ Configure \/ StopRequested \/ ReceiverCompleted \/ FinalizationEnded
    \/ DisconnectRequested \/ FatalError
    \/ \E c \in Clients :
          \/ AddControlClient(c) \/ AddAcquisitionClient(c)
          \/ RemoveAcquisitionClient(c) \/ RemoveOperationalClient(c) \/ RemoveClient(c)

\* The threads begin at rest, with an empty registry.
LEMMA LifecycleInitInv == LifecycleInit => LifecycleInv
<1> SUFFICES ASSUME LifecycleInit PROVE LifecycleInv
  OBVIOUS
<1>1. RegistryConsistent
  BY InitConsistent DEF LifecycleInit
<1>2. CliOK /\ IoOK /\ SessionsOK
  BY DEF LifecycleInit, CliOK, IoOK, SessionsOK, IdleCli
<1>3. OperationalFollowsServer /\ RunHasRunner
  BY DEF LifecycleInit, Init, OperationalFollowsServer, RunHasRunner
<1> QED
  BY <1>1, <1>2, <1>3 DEF LifecycleInv

\* What a thread does to the server is one of the operations of ServerState,
\* and only the two steps of a loss move the I/O thread of the acquisition
\* plane.
LEMMA ThreadStep ==
    ASSUME CliOK, IoOK, [LifecycleNext]_vars
    PROVE  \/ ServerStep /\ io'["acquisition"] = io["acquisition"]
           \/ \E c \in Clients : AcquisitionLossEvent(c)
           \/ AcquisitionLossRemove
           \/ StartAcquisition
<1> USE DEF ServerStep
<1>1. CASE UNCHANGED vars
  BY <1>1 DEF vars, threadVars
<1>2. CASE Cli
  <2>1. CASE DoConnect \/ ConnectConfigure
    BY <2>1 DEF DoConnect, ConnectConfigure
  <2>2. CASE ConnectControl
    BY <2>2 DEF ConnectControl
  <2>3. CASE ConnectAcquisition
    BY <2>3 DEF ConnectAcquisition
  <2>4. CASE \E command \in Commands, ready \in SUBSET Clients : DoCommand(command, ready)
    BY <2>4 DEF DoCommand
  <2>5. CASE RequestConfiguration
    <3>1. cli.targets \in SUBSET Clients /\ (cli.kind = "partial") \in BOOLEAN
      BY DEF CliOK
    <3>2. Configure
      BY <2>5, <3>1 DEF RequestConfiguration, Configure
    <3> QED
      BY <2>5, <3>2 DEF RequestConfiguration
  <2>6. CASE \E c \in Clients, ok \in BOOLEAN : SyncOne(c, ok)
    BY <2>6 DEF SyncOne
  <2>7. CASE ReportSuccess
    <3>1. cli.ok \in SUBSET Clients /\ cli.targets \ cli.ok \in SUBSET Clients
      BY DEF CliOK
    <3>2. Configure \/ UNCHANGED stateVars
      BY <2>7, <3>1 DEF ReportSuccess, Configure
    <3> QED
      BY <2>7, <3>2 DEF ReportSuccess
  <2>8. CASE ReportFailure \/ Fallback
    <3>1. cli.targets \in SUBSET Clients /\ UnderConfiguration \in SUBSET Clients
      BY DEF CliOK, UnderConfiguration, ListClientsInState
    <3>2. Configure \/ UNCHANGED stateVars
      BY <2>8, <3>1 DEF ReportFailure, Fallback, Configure
    <3> QED
      BY <2>8, <3>2 DEF ReportFailure, Fallback
  <2>9. CASE CommandException
    BY <2>9 DEF CommandException
  <2> QED
    BY <1>2, <2>1, <2>2, <2>3, <2>4, <2>5, <2>6, <2>7, <2>8, <2>9 DEF Cli
<1>3. CASE WebQuit \/ WebStop
  BY <1>3 DEF WebQuit, WebStop, threadVars
<1>4. CASE \E s \in Sessions : Session(s)
  BY <1>4 DEF Session, DurationElapsed, ScanCrash, CloseSession, FinalizeSession,
              LeaveOut, threadVars
<1>5. CASE Io
  <2>1. ASSUME NEW c \in Clients, NEW plane \in {"control", "acquisition"}, Hello(plane, c)
        PROVE  ServerStep /\ io'["acquisition"] = io["acquisition"]
    BY <2>1 DEF Hello, threadVars
  <2>2. ASSUME NEW c \in Clients, ControlLossRemoveAcquisition(c)
        PROVE  ServerStep /\ io'["acquisition"] = io["acquisition"]
    BY <2>2 DEF ControlLossRemoveAcquisition, IoOK
  <2>3. CASE ControlLossRemoveOperational \/ ControlLossForget
    <3>1. io["control"].client \in Clients
      BY <2>3 DEF ControlLossRemoveOperational, ControlLossForget, IoOK, IdleIo
    <3> QED
      BY <2>3, <3>1 DEF ControlLossRemoveOperational, ControlLossForget, IoOK
  <2> QED
    BY <1>5, <2>1, <2>2, <2>3 DEF Io
<1> QED
  BY <1>1, <1>2, <1>3, <1>4, <1>5 DEF LifecycleNext

\* Each step of the threads is a step of ServerState or leaves it alone.
LEMMA LifecycleServerStep ==
    ASSUME CliOK, IoOK, [LifecycleNext]_vars
    PROVE  [Next]_stateVars
<1>1. CASE ServerStep
  BY <1>1 DEF ServerStep, Next, Acquire, Registry
<1>2. CASE \E c \in Clients : AcquisitionLossEvent(c)
  BY <1>2 DEF AcquisitionLossEvent, Next, Registry
<1>3. CASE AcquisitionLossRemove
  <2>1. io["acquisition"].client \in Clients
    BY <1>3 DEF AcquisitionLossRemove, IoOK, IdleIo
  <2> QED
    BY <1>3, <2>1 DEF AcquisitionLossRemove, Next, Registry
<1>4. CASE StartAcquisition
  <2>1. cli.ok \in SUBSET Clients
    BY DEF CliOK
  <2> QED
    BY <1>4, <2>1 DEF StartAcquisition, Next, Acquire
<1> QED
  BY <1>1, <1>2, <1>3, <1>4, ThreadStep

\* The CLI thread keeps its own invariant; no other thread writes its locals.
LEMMA CliInvStep ==
    ASSUME RegistryConsistent, CliOK, [LifecycleNext]_vars
    PROVE  CliOK'
<1> USE DEF CliOK
<1>1. CASE cli' = cli
  BY <1>1
<1>2. CASE cli' = IdleCli
  BY <1>2 DEF IdleCli
<1>3. CASE Cli
  <2>1. CASE DoConnect
    BY <2>1 DEF DoConnect
  <2>2. CASE ConnectControl \/ ConnectAcquisition
    <3>1. \/ cli' = IdleCli
          \/ /\ cli.pc \in {"wait_control", "rewait_control", "wait_acquisition"}
             /\ \/ cli' = [cli EXCEPT !.pc = "wait_acquisition"]
                \/ cli' = [cli EXCEPT !.pc = "list"]
      BY <2>2 DEF ConnectControl, ConnectAcquisition
    <3> QED
      BY <1>2, <3>1
  <2>3. ASSUME NEW command \in Commands, NEW ready \in SUBSET Clients,
               DoCommand(command, ready)
        PROVE  CliOK'
    <3>1. command.kind \in {"full", "partial", "acquisition", "scan"}
      BY DEF Commands
    <3>2. Targets(command.kind) \in SUBSET Clients
      BY DEF Targets, CommonPlaneClients, Registered, RegistryConsistent, TypeOK
    <3> QED
      BY <2>3, <3>1, <3>2 DEF DoCommand
  <2>4. CASE ConnectConfigure
    <3>1. CommonPlaneClients \in SUBSET Clients
      BY DEF CommonPlaneClients, Registered
    <3> QED
      BY <1>2, <2>4, <3>1 DEF ConnectConfigure
  <2>5. CASE RequestConfiguration
    BY <1>2, <2>5 DEF RequestConfiguration
  <2>6. ASSUME NEW c \in Clients, NEW ok \in BOOLEAN, SyncOne(c, ok)
        PROVE  CliOK'
    BY <2>6 DEF SyncOne
  <2>7. CASE ReportSuccess
    <3>1. \/ cli' = IdleCli
          \/ cli' = [cli EXCEPT !.pc = "start", !.targets = cli.ok] /\ cli.todo = {}
          \/ cli' = [cli EXCEPT !.pc = "fallback"]
      BY <2>7 DEF ReportSuccess
    <3> QED
      BY <1>2, <3>1
  <2>8. CASE ReportFailure \/ Fallback \/ CommandException \/ StartAcquisition
    BY <1>2, <2>8 DEF ReportFailure, Fallback, CommandException, StartAcquisition
  <2> QED
    BY <1>3, <2>1, <2>2, <2>3, <2>4, <2>5, <2>6, <2>7, <2>8 DEF Cli
<1>4. CASE WebQuit \/ WebStop \/ Io
  BY <1>1, <1>4 DEF WebQuit, WebStop, threadVars, Io, AcquisitionLossEvent,
     ControlLossRemoveAcquisition, Hello, AcquisitionLossRemove,
     ControlLossRemoveOperational, ControlLossForget
<1>5. CASE \E s \in Sessions : Session(s)
  BY <1>1, <1>5 DEF Session, DurationElapsed, ScanCrash, CloseSession,
     FinalizeSession, LeaveOut, threadVars
<1> QED
  BY <1>1, <1>3, <1>4, <1>5 DEF LifecycleNext, vars, threadVars

\* An I/O thread takes a client of Clients when a loss begins and keeps it to
\* the end.
LEMMA IoInvStep ==
    ASSUME IoOK, [LifecycleNext]_vars
    PROVE  IoOK'
<1> USE DEF IoOK
<1>1. CASE UNCHANGED io
  BY <1>1
<1>2. CASE Io
  <2>1. ASSUME NEW c \in Clients, AcquisitionLossEvent(c) PROVE IoOK'
    BY <2>1 DEF AcquisitionLossEvent
  <2>2. ASSUME NEW c \in Clients, ControlLossRemoveAcquisition(c) PROVE IoOK'
    BY <2>2 DEF ControlLossRemoveAcquisition
  <2>3. ASSUME NEW c \in Clients, NEW plane \in {"control", "acquisition"}, Hello(plane, c)
        PROVE  IoOK'
    BY <1>1, <2>3 DEF Hello, threadVars
  <2>4. CASE AcquisitionLossRemove \/ ControlLossForget
    BY <2>4 DEF AcquisitionLossRemove, ControlLossForget
  <2>5. CASE ControlLossRemoveOperational
    BY <2>5 DEF ControlLossRemoveOperational, IdleIo
  <2> QED
    BY <1>2, <2>1, <2>2, <2>3, <2>4, <2>5 DEF Io
<1>3. CASE Cli
  BY <1>1, <1>3 DEF Cli, DoConnect, ConnectControl, ConnectAcquisition,
     ConnectConfigure, DoCommand, RequestConfiguration, SyncOne, ReportSuccess,
     ReportFailure, Fallback, CommandException, StartAcquisition
<1>4. CASE WebQuit \/ WebStop \/ \E s \in Sessions : Session(s)
  BY <1>1, <1>4 DEF WebQuit, WebStop, Session, DurationElapsed, ScanCrash,
     CloseSession, FinalizeSession, LeaveOut, threadVars
<1> QED
  BY <1>1, <1>2, <1>3, <1>4 DEF LifecycleNext, vars, threadVars

\* The session threads stay at their steps, with clients to restore.
LEMMA SessionsInvStep ==
    ASSUME CliOK, SessionsOK, [LifecycleNext]_vars
    PROVE  SessionsOK'
<1> USE DEF SessionsOK
<1>1. CASE UNCHANGED <<session, hv_previous>>
  BY <1>1
<1>2. CASE Cli
  <2>1. CASE StartAcquisition
    <3>1. cli.ok \in SUBSET Clients
      BY DEF CliOK
    <3> QED
      BY <2>1, <3>1 DEF StartAcquisition
  <2>2. CASE ~StartAcquisition
    BY <1>1, <1>2, <2>2 DEF Cli, DoConnect, ConnectControl, ConnectAcquisition,
       ConnectConfigure, DoCommand, RequestConfiguration, SyncOne, ReportSuccess,
       ReportFailure, Fallback, CommandException
  <2> QED
    BY <2>1, <2>2
<1>3. CASE WebQuit \/ WebStop \/ Io
  BY <1>1, <1>3 DEF WebQuit, WebStop, threadVars, Io, AcquisitionLossEvent,
     ControlLossRemoveAcquisition, Hello, AcquisitionLossRemove,
     ControlLossRemoveOperational, ControlLossForget
<1>4. ASSUME NEW s \in Sessions, Session(s) PROVE SessionsOK'
  <2>1. CASE DurationElapsed(s)
    BY <1>1, <2>1 DEF DurationElapsed, threadVars
  <2>2. CASE ScanCrash(s)
    BY <2>2 DEF ScanCrash
  <2>3. ASSUME NEW failed \in SUBSET Clients, CloseSession(s, failed) PROVE SessionsOK'
    BY <2>3 DEF CloseSession
  <2>4. CASE FinalizeSession(s)
    BY <2>4 DEF FinalizeSession
  <2>5. ASSUME NEW c \in Clients, LeaveOut(s, c) PROVE SessionsOK'
    BY <2>5 DEF LeaveOut
  <2> QED
    BY <1>4, <2>1, <2>2, <2>3, <2>4, <2>5 DEF Session
<1> QED
  BY <1>1, <1>2, <1>3, <1>4 DEF LifecycleNext, vars, threadVars

\* The operational clients follow the server through every event and every
\* removal, while the I/O thread of the acquisition plane does not move.
LEMMA FollowsServerStep ==
    ASSUME RegistryConsistent, OperationalFollowsServer, ServerStep,
           io'["acquisition"] = io["acquisition"]
    PROVE  OperationalFollowsServer'
<1> USE DEF RegistryConsistent, TypeOK, OperationalFollowsServer, BetweenLossSteps
<1>0. operational \subseteq Registered
  BY DEF OperationalOnBothPlanes, CommonPlaneClients
<1>1. CASE UNCHANGED stateVars
  BY <1>1 DEF stateVars, registryVars
<1>2. ASSUME NEW e, ConnectionEvent(e),
             e \in {"control_connection_succeeded", "control_connection_failed",
                    "acquisition_connection_succeeded", "acquisition_connection_failed"}
      PROVE  OperationalFollowsServer'
  BY <1>2, TableFacts DEF ConnectionEvent, registryVars
<1>3. CASE Configure
  <2>1. ASSUME NEW t \in SUBSET Clients, NEW p \in BOOLEAN, ConfigurationStarted(t, p)
        PROVE  OperationalFollowsServer'
    <3>1. run_state \in {"connected", "ready"}
      BY <2>1, TableFacts DEF ConfigurationStarted, CanStartConfiguration, InTable
    <3> QED
      BY <2>1, <3>1 DEF ConfigurationStarted, SetClientState
  <2>2. ASSUME NEW t \in SUBSET Clients, ConfigurationStartRejected(t)
        PROVE  OperationalFollowsServer'
    BY <2>2 DEF ConfigurationStartRejected, registryVars
  <2>3. ASSUME NEW f \in SUBSET Clients, ConfigurationFailed(f)
        PROVE  OperationalFollowsServer'
    BY <2>3 DEF ConfigurationFailed, CanFailConfiguration, SetClientState
  <2>4. ASSUME NEW k \in SUBSET Clients, NEW f \in SUBSET Clients,
               ConfigurationApplied(k, f)
        PROVE  OperationalFollowsServer'
    BY <2>4 DEF ConfigurationApplied, CanSucceedConfiguration,
                ConfiguringNotOperational
  <2> QED
    BY <1>3, <2>1, <2>2, <2>3, <2>4 DEF Configure, ConfigurationSucceeded
<1>4. CASE StopRequested \/ ReceiverCompleted
  BY <1>0, <1>4 DEF StopRequested, ReceiverCompleted, EnterFinalizing,
                    SetClientState, Registered
<1>5. CASE DisconnectRequested
  <2>1. CASE EnterFinalizing("disconnect_requested")
    BY <1>0, <2>1 DEF EnterFinalizing, SetClientState, Registered
  <2>2. CASE ~EnterFinalizing("disconnect_requested")
    BY <1>5, <2>2, TableFacts DEF DisconnectRequested, registryVars
  <2> QED
    BY <2>1, <2>2
<1>6. CASE FatalError
  BY <1>6 DEF FatalError
<1>7. ASSUME NEW c \in Clients,
             \/ AddControlClient(c) \/ AddAcquisitionClient(c)
             \/ RemoveAcquisitionClient(c) \/ RemoveOperationalClient(c) \/ RemoveClient(c)
      PROVE  OperationalFollowsServer'
  BY <1>0, <1>7 DEF AddControlClient, AddAcquisitionClient, RemoveAcquisitionClient,
                    RemoveOperationalClient, RemoveClient, Registered
<1>8. CASE FinalizationEnded
  BY <1>0, <1>8 DEF FinalizationEnded, SetClientState, Registered
<1> QED
  BY <1>1, <1>2, <1>3, <1>4, <1>5, <1>6, <1>7, <1>8 DEF ServerStep

\* A loss takes its client out of the flag before the thread is idle again.
LEMMA FollowsStep ==
    ASSUME LifecycleInv, [LifecycleNext]_vars
    PROVE  OperationalFollowsServer'
<1> USE DEF OperationalFollowsServer, BetweenLossSteps
<1>1. CASE ServerStep /\ io'["acquisition"] = io["acquisition"]
  BY <1>1, FollowsServerStep DEF LifecycleInv
<1>2. ASSUME NEW c \in Clients, AcquisitionLossEvent(c)
      PROVE  OperationalFollowsServer'
  <2>1. /\ io["acquisition"].pc # "remove"
        /\ io'["acquisition"] = [pc |-> "remove", client |-> c]
    BY <1>2 DEF AcquisitionLossEvent, LifecycleInv, IoOK, IdleIo
  <2>2. /\ operational' = operational /\ run_state' = run_state
        /\ \A d \in Clients \ {c} : client_state'[d] = client_state[d]
    BY <1>2 DEF AcquisitionLossEvent, ClientAcquisitionPlaneLost, stateVars,
                registryVars, LifecycleInv, RegistryConsistent, TypeOK
  <2> QED
    BY <2>1, <2>2 DEF LifecycleInv, RegistryConsistent, TypeOK
<1>3. CASE AcquisitionLossRemove
  BY <1>3 DEF AcquisitionLossRemove, RemoveAcquisitionClient, LifecycleInv
<1>4. CASE StartAcquisition
  <2>1. io' = io
    BY <1>4 DEF StartAcquisition
  <2>2. CASE AcquisitionStarted(cli.ok)
    BY <2>2 DEF AcquisitionStarted, CanStartAcquisition, SetClientState, LifecycleInv,
                RegistryConsistent, TypeOK
  <2>3. CASE UNCHANGED stateVars
    BY <2>1, <2>3 DEF stateVars, registryVars, LifecycleInv
  <2> QED
    BY <1>4, <2>2, <2>3 DEF StartAcquisition
<1> QED
  BY <1>1, <1>2, <1>3, <1>4, ThreadStep DEF LifecycleInv

\* Without ACQUISITION_STARTED no run begins: ACQUIRING is kept at most, and
\* FINALIZING is entered from it only.
LEMMA RunStateStep ==
    ASSUME RegistryConsistent, ServerStep
    PROVE  /\ run_state' = "acquiring" => run_state = "acquiring"
           /\ run_state' = "finalizing" => run_state \in {"acquiring", "finalizing"}
<1> USE DEF RegistryConsistent, TypeOK
<1>1. ASSUME NEW e, ConnectionEvent(e),
             e \in {"control_connection_succeeded", "control_connection_failed",
                    "acquisition_connection_succeeded", "acquisition_connection_failed"}
      PROVE  run_state' \notin {"acquiring", "finalizing"}
  BY <1>1, TableFacts DEF ConnectionEvent
<1>2. CASE Configure
  BY <1>2 DEF Configure, ConfigurationStarted, ConfigurationStartRejected,
     ConfigurationSucceeded, ConfigurationFailed, ConfigurationApplied
<1>3. ASSUME NEW e, EnterFinalizing(e),
             e \in {"stop_requested", "receiver_completed", "disconnect_requested"}
      PROVE  run_state \in {"acquiring", "finalizing"} /\ run_state' = "finalizing"
  BY <1>3, TableFacts DEF EnterFinalizing
<1>4. CASE FinalizationEnded \/ FatalError
  BY <1>4 DEF FinalizationEnded, FatalError
<1>5. CASE UNCHANGED stateVars
  BY <1>5 DEF stateVars
<1>6. ASSUME NEW c \in Clients,
             \/ AddControlClient(c) \/ AddAcquisitionClient(c)
             \/ RemoveAcquisitionClient(c) \/ RemoveOperationalClient(c) \/ RemoveClient(c)
      PROVE  run_state' = run_state
  BY <1>6 DEF AddControlClient, AddAcquisitionClient, RemoveAcquisitionClient,
              RemoveOperationalClient, RemoveClient
<1> QED
  BY <1>1, <1>2, <1>3, <1>4, <1>5, <1>6
     DEF ServerStep, StopRequested, ReceiverCompleted, DisconnectRequested

\* A run keeps a thread that ends it, unless the thread of a scan crashes.
LEMMA RunnerStep ==
    ASSUME LifecycleInv, [LifecycleNext]_vars
    PROVE  RunHasRunner'
<1> USE DEF RunHasRunner
<1>1. CASE StartAcquisition
  <2>1. CASE UNCHANGED <<stateVars, session, hv_previous>>
    BY <2>1 DEF stateVars, LifecycleInv
  <2>2. ASSUME NEW s \in Sessions,
               session' = [session EXCEPT
                  ![s] = IF cli.kind = "scan" THEN "scanning" ELSE "running"]
        PROVE  RunHasRunner'
    <3>1. session'[s] \in {"running", "scanning"}
      BY <2>2 DEF LifecycleInv, SessionsOK
    <3> QED
      BY <3>1
  <2> QED
    BY <1>1, <2>1, <2>2, Zenon DEF StartAcquisition
<1>2. ASSUME NEW s \in Sessions, FinalizeSession(s) PROVE RunHasRunner'
  <2>1. run_state' # "finalizing"
    BY <1>2 DEF FinalizeSession, FinalizationEnded, stateVars, LifecycleInv,
                RegistryConsistent, TypeOK
  <2>2. CASE run_state' = "acquiring"
    <3>1. run_state = "acquiring"
      BY <1>2, <2>2 DEF FinalizeSession, FinalizationEnded, stateVars, LifecycleInv,
                        RegistryConsistent, TypeOK
    <3>2. PICK t \in Sessions : session[t] \in {"running", "scanning", "crashed"}
      BY <3>1 DEF LifecycleInv
    <3>3. session'[t] = session[t]
      BY <1>2, <3>2 DEF FinalizeSession, LifecycleInv, SessionsOK
    <3> QED
      BY <2>1, <3>2, <3>3
  <2> QED
    BY <2>1, <2>2
<1>3. ASSUME NEW s \in Sessions, NEW failed, CloseSession(s, failed)
      PROVE  RunHasRunner'
  <2>1. run_state' # "acquiring"
    BY <1>3 DEF CloseSession, StopRequested, EnterFinalizing, stateVars
  <2>2. session'[s] = "closing"
    BY <1>3 DEF CloseSession, LifecycleInv, SessionsOK
  <2> QED
    BY <2>1, <2>2
<1>4. ASSUME NEW s \in Sessions, ScanCrash(s) PROVE RunHasRunner'
  <2>1. session'[s] = "crashed"
    BY <1>4 DEF ScanCrash, LifecycleInv, SessionsOK
  <2> QED
    BY <2>1
<1>5. ASSUME NEW s \in Sessions, NEW c \in Clients, LeaveOut(s, c)
      PROVE  RunHasRunner'
  <2>1. /\ run_state' = run_state
        /\ \A t \in Sessions : t # s => session'[t] = session[t]
        /\ session[s] = "leaving_out"
    BY <1>5 DEF LeaveOut, RemoveOperationalClient, LifecycleInv, SessionsOK
  <2> QED
    BY <2>1 DEF LifecycleInv
<1>6. CASE session' = session /\ ~StartAcquisition
  <2>1. CASE ServerStep
    BY <1>6, <2>1, RunStateStep DEF LifecycleInv
  <2>2. CASE \E c \in Clients : AcquisitionLossEvent(c)
    BY <1>6, <2>2 DEF AcquisitionLossEvent, ClientAcquisitionPlaneLost, stateVars,
                      LifecycleInv
  <2>3. CASE AcquisitionLossRemove
    BY <1>6, <2>3 DEF AcquisitionLossRemove, RemoveAcquisitionClient, LifecycleInv
  <2> QED
    BY <1>6, <2>1, <2>2, <2>3, ThreadStep DEF LifecycleInv
<1>7. CASE Cli
  BY <1>1, <1>6, <1>7 DEF Cli, DoConnect, ConnectControl, ConnectAcquisition,
     ConnectConfigure, DoCommand, RequestConfiguration, SyncOne, ReportSuccess,
     ReportFailure, Fallback, CommandException
<1>8. CASE WebQuit \/ WebStop \/ UNCHANGED vars
  BY <1>1, <1>6, <1>8 DEF WebQuit, WebStop, vars, threadVars
<1>9. CASE Io
  BY <1>1, <1>6, <1>9 DEF Io, AcquisitionLossEvent, ControlLossRemoveAcquisition,
     Hello, AcquisitionLossRemove, ControlLossRemoveOperational, ControlLossForget,
     threadVars
<1>10. CASE \E s \in Sessions : DurationElapsed(s)
  BY <1>1, <1>6, <1>10 DEF DurationElapsed, threadVars
<1> QED
  BY <1>2, <1>3, <1>4, <1>5, <1>7, <1>8, <1>9, <1>10 DEF LifecycleNext, Session

\* The invariant of the threads, for any number of them: every interleaving of
\* commands, losses, stops and session threads keeps it.
THEOREM LifecycleInvariance == LifecycleSpec => []LifecycleInv
<1>1. ASSUME LifecycleInv, [LifecycleNext]_vars PROVE LifecycleInv'
  <2>1. RegistryConsistent'
    BY <1>1, LifecycleServerStep, TypeStep, PendingStep, PlanesStep, ConfiguringStep
       DEF LifecycleInv, RegistryConsistent
  <2>2. CliOK' /\ IoOK' /\ SessionsOK'
    BY <1>1, CliInvStep, IoInvStep, SessionsInvStep DEF LifecycleInv
  <2> QED
    BY <1>1, <2>1, <2>2, FollowsStep, RunnerStep DEF LifecycleInv
<1> QED
  BY <1>1, LifecycleInitInv, PTL DEF LifecycleSpec

\* The threads of the server only use its state through its operations: the
\* detailed specification implements ServerState, whose theorems hold for it.
THEOREM LifecycleImplementsServerState == LifecycleSpec => Spec
<1>1. LifecycleInit => Init
  BY DEF LifecycleInit
<1>2. LifecycleInv /\ [LifecycleNext]_vars => [Next]_stateVars
  BY LifecycleServerStep DEF LifecycleInv
<1> QED
  BY <1>1, <1>2, LifecycleInvariance, PTL DEF LifecycleSpec, Spec

\* Threads at their steps, a command that treats only its own targets, and
\* operational clients in the state of the server, whatever interleaves.
THEOREM LifecycleIsConsistent == LifecycleSpec => []LifecycleConsistent
<1>1. LifecycleInv => LifecycleConsistent
  BY DEF LifecycleInv, LifecycleConsistent, LifecycleTypeOK, RegistryConsistent,
         CliOK, SessionsOK
<1> QED
  BY <1>1, LifecycleInvariance, PTL

\* Quits, stops, losses, errors in commands and overlapping session threads
\* never leave a run without a thread to end it; the crash of a scan does.
THEOREM RunNeverAbandoned == LifecycleSpec => []RunAbandonedOnlyByScan
<1>1. LifecycleInv => RunAbandonedOnlyByScan
  BY DEF LifecycleInv, RunHasRunner, RunAbandonedOnlyByScan, Owners
<1> QED
  BY <1>1, LifecycleInvariance, PTL

\* The result of a batch is refused for good only behind a client outside the
\* batch that an earlier, interrupted configuration left CONFIGURING: lost,
\* returned and failed clients of the batch never cause it.
THEOREM RefusedBehindStale == LifecycleSpec => RefusedOnlyBehindStale
<1> DEFINE Left == /\ cli.pc \in {"sync", "fallback"} /\ cli'.pc \in {"idle", "start"}
                   /\ run_state' = "configuring"
           Stale == UnderConfiguration \ cli.targets # {}
<1>1. ASSUME LifecycleInv, LifecycleNext, Left PROVE Stale
  <2> USE DEF LifecycleInv, RegistryConsistent, TypeOK
  <2>1. cli' # cli
    BY <1>1
  <2>2. Cli
    BY <1>1, <2>1 DEF LifecycleNext, WebQuit, WebStop, Session, DurationElapsed,
       ScanCrash, CloseSession, FinalizeSession, LeaveOut, threadVars, Io,
       AcquisitionLossEvent, ControlLossRemoveAcquisition, Hello,
       AcquisitionLossRemove, ControlLossRemoveOperational, ControlLossForget
  <2>3. ASSUME NEW f, ConfigurationFailed(f) PROVE FALSE
    BY <1>1, <2>3 DEF ConfigurationFailed
  <2>4. CASE ReportSuccess
    <3>1. cli'.pc # "fallback"
      BY <1>1
    <3>2. ConfigurationSucceeded(cli.ok, cli.targets \ cli.ok)
      BY <1>1, <2>4, <3>1 DEF ReportSuccess, CliOK
    <3>3. run_state' = "ready"
      BY <2>3, <3>2 DEF ConfigurationSucceeded, ConfigurationApplied
    <3> QED
      BY <1>1, <3>3
  <2>5. CASE ReportFailure
    <3>1. ~CanFailConfiguration(cli.targets) /\ run_state = "configuring"
      BY <1>1, <2>3, <2>5 DEF ReportFailure, stateVars
    <3> QED
      BY <3>1 DEF CanFailConfiguration
  <2>6. CASE Fallback
    BY <1>1, <2>3, <2>6 DEF Fallback, stateVars
  <2>7. CASE CommandException
    BY <1>1, <2>7 DEF CommandException, FatalError
  <2>8. ASSUME NEW c \in Clients, NEW ok \in BOOLEAN, SyncOne(c, ok) PROVE FALSE
    BY <1>1, <2>8 DEF SyncOne, CliOK
  <2> QED
    BY <1>1, <2>2, <2>4, <2>5, <2>6, <2>7, <2>8 DEF Cli, DoConnect, ConnectControl,
       ConnectAcquisition, ConnectConfigure, DoCommand, RequestConfiguration,
       StartAcquisition
<1>2. LifecycleInv /\ [LifecycleNext]_vars => [Left => Stale]_vars
  BY <1>1
<1> QED
  BY <1>2, LifecycleInvariance, PTL DEF LifecycleSpec, RefusedOnlyBehindStale

------------------------------------------------------------------------------
(* SessionStop *)

\* The run belongs to somebody exactly while the server is in it, and a thread
\* that is about to send FINALIZATION_* finds the server FINALIZING.
OwnershipOK ==
    /\ (starter # "idle" \/ RunOwners # {}) <=> run_state \in {"acquiring", "finalizing"}
    /\ \A s \in RunThreads : thread[s] = "finalize" => run_state = "finalizing"

StopInv == RegistryConsistent /\ StopTypeOK /\ RunIsOwned /\ OwnershipOK

\* What the events these threads send do to the state of the server.
LEMMA StopEvents ==
    ASSUME RegistryConsistent
    PROVE  /\ InTable("stop_requested") <=> run_state = "acquiring"
           /\ InTable("receiver_completed") <=> run_state = "acquiring"
           /\ StopRequested \/ ReceiverCompleted =>
                 run_state = "acquiring" /\ run_state' = "finalizing"
           /\ DisconnectRequested =>
                 \/ run_state \in {"acquiring", "finalizing"} /\ run_state' = "finalizing"
                 \/ run_state \notin {"acquiring", "finalizing"} /\ run_state' = "disconnected"
           /\ FinalizationEnded =>
                 run_state = "finalizing" /\ run_state' \notin {"acquiring", "finalizing"}
           /\ \A a : AcquisitionStarted(a) => run_state = "ready" /\ run_state' = "acquiring"
<1>1. /\ InTable("stop_requested") <=> run_state = "acquiring"
      /\ InTable("receiver_completed") <=> run_state = "acquiring"
  <2>1. <<"acquiring", "stop_requested", "finalizing">> \in TRANSITION_TABLE
    BY DEF TRANSITION_TABLE
  <2>2. <<"acquiring", "receiver_completed", "finalizing">> \in TRANSITION_TABLE
    BY DEF TRANSITION_TABLE
  <2> QED
    BY <2>1, <2>2, TableFacts DEF InTable, ServerFSM
<1>2. StopRequested \/ ReceiverCompleted =>
         run_state = "acquiring" /\ run_state' = "finalizing"
  BY TableFacts DEF StopRequested, ReceiverCompleted, EnterFinalizing
<1>3. DisconnectRequested =>
         \/ run_state \in {"acquiring", "finalizing"} /\ run_state' = "finalizing"
         \/ run_state \notin {"acquiring", "finalizing"} /\ run_state' = "disconnected"
  BY TableFacts DEF DisconnectRequested, EnterFinalizing
<1>4. FinalizationEnded =>
         run_state = "finalizing" /\ run_state' \notin {"acquiring", "finalizing"}
  BY DEF FinalizationEnded, RegistryConsistent, TypeOK
<1>5. \A a : AcquisitionStarted(a) => run_state = "ready" /\ run_state' = "acquiring"
  BY TableFacts DEF AcquisitionStarted, CanStartAcquisition, InTable
<1> QED
  BY <1>1, <1>2, <1>3, <1>4, <1>5

\* Every step of these threads is a step of ServerState or leaves it alone.
LEMMA StopServerStep ==
    ASSUME RegistryConsistent, [StopNext]_stopVars
    PROVE  [Next]_stateVars
<1>1. CASE UNCHANGED stopVars
  BY <1>1 DEF stopVars
<1>2. CASE Start
  <2>1. operational \in SUBSET Clients
    BY DEF RegistryConsistent, TypeOK
  <2> QED
    BY <1>2, <2>1 DEF Start, Next, Acquire
<1>3. CASE CliStep \/ WebStopCommand \/ WebQuitCommand \/ WebStep
  BY <1>3 DEF CliStep, BeginSession, SpawnSession, WebStopCommand, WebQuitCommand,
     WebStep, WebQuitStop, WebStopEvent, WebRequestStop, Next, Acquire
<1>4. CASE \E s \in RunThreads : SessionStep(s) \/ WaitElapsed(s)
  BY <1>4 DEF SessionStep, WaitStopped, CloseStop, CloseFinalize, CloseComplete,
     WaitElapsed, Next, Acquire
<1> QED
  BY <1>1, <1>2, <1>3, <1>4 DEF StopNext

\* The flags and threads keep their types.
LEMMA StopTypeStep ==
    ASSUME StopInv, TypeOK', [StopNext]_stopVars
    PROVE  StopTypeOK'
<1> USE DEF StopInv, StopTypeOK, flags, GoesOn
<1>1. CASE UNCHANGED stopVars
  BY <1>1 DEF stopVars, threads
<1>2. CASE Start \/ BeginSession
  BY <1>2 DEF Start, BeginSession
<1>3. ASSUME NEW s \in RunThreads, SpawnSession(s) PROVE StopTypeOK'
  BY <1>3 DEF SpawnSession
<1>4. ASSUME NEW s \in RunThreads, SessionStep(s) \/ WaitElapsed(s) PROVE StopTypeOK'
  BY <1>4 DEF SessionStep, WaitElapsed, WaitStopped, CloseStop, CloseFinalize,
              CloseComplete
<1>5. CASE WebStopCommand \/ WebQuitCommand \/ WebStep
  BY <1>5 DEF WebStopCommand, WebQuitCommand, WebStep, WebQuitStop, WebStopEvent,
              WebRequestStop, AfterStopRead
<1> QED
  BY <1>1, <1>2, <1>3, <1>4, <1>5 DEF StopNext, CliStep

\* Ownership passes from the starter to its session thread, and ends with the
\* FINALIZATION_* of that thread.
LEMMA OwnershipStep ==
    ASSUME StopInv, [StopNext]_stopVars
    PROVE  RunIsOwned' /\ OwnershipOK'
<1> USE DEF StopInv, StopTypeOK, RunIsOwned, OwnershipOK, RunOwners
<1>1. CASE UNCHANGED stopVars
  BY <1>1 DEF stopVars, threads, stateVars
<1>2. CASE Start
  <2>1. run_state = "ready" /\ run_state' = "acquiring" /\ starter' # "idle" /\ thread' = thread
    BY <1>2, StopEvents DEF Start
  <2> QED
    BY <2>1
<1>3. CASE BeginSession
  BY <1>3 DEF BeginSession, stateVars
<1>4. ASSUME NEW s \in RunThreads, SpawnSession(s) PROVE RunIsOwned' /\ OwnershipOK'
  <2>1. /\ run_state' = run_state /\ starter # "idle" /\ starter' = "idle"
        /\ thread'[s] = "running"
        /\ \A t \in RunThreads : t # s => thread'[t] = thread[t]
    BY <1>4 DEF SpawnSession, stateVars
  <2> QED
    BY <2>1
<1>5. ASSUME NEW s \in RunThreads, WaitStopped(s) \/ WaitElapsed(s) \/ CloseStop(s)
      PROVE  RunIsOwned' /\ OwnershipOK'
  <2>1. s \in RunOwners /\ run_state \in {"acquiring", "finalizing"} /\ starter = "idle"
    BY <1>5 DEF WaitStopped, WaitElapsed, CloseStop, GoesOn
  <2>2. run_state' \in {"acquiring", "finalizing"}
    BY <1>5, <2>1, StopEvents DEF WaitStopped, WaitElapsed, CloseStop, stateVars
  <2>3. thread'[s] = "finalize" => run_state' = "finalizing"
    BY <1>5, <2>1, StopEvents DEF WaitStopped, WaitElapsed, CloseStop, GoesOn, stateVars
  <2>4. thread'[s] \in {"close", "finalize"} /\ starter' = starter
    BY <1>5 DEF WaitStopped, WaitElapsed, CloseStop, GoesOn
  <2>5. \A t \in RunThreads : t # s => thread'[t] = thread[t]
    BY <1>5 DEF WaitStopped, WaitElapsed, CloseStop, GoesOn
  <2> QED
    BY <2>1, <2>2, <2>3, <2>4, <2>5
<1>6. ASSUME NEW s \in RunThreads, CloseFinalize(s) PROVE RunIsOwned' /\ OwnershipOK'
  <2>1. s \in RunOwners /\ run_state = "finalizing" /\ starter = "idle"
    BY <1>6 DEF CloseFinalize, GoesOn
  <2>2. run_state' \notin {"acquiring", "finalizing"}
    BY <1>6, <2>1, StopEvents DEF CloseFinalize
  <2>3. /\ thread'[s] = "complete" /\ starter' = starter
        /\ \A t \in RunThreads : t # s => thread'[t] = thread[t]
    BY <1>6 DEF CloseFinalize, GoesOn
  <2> QED
    BY <2>1, <2>2, <2>3
<1>7. ASSUME NEW s \in RunThreads, CloseComplete(s) PROVE RunIsOwned' /\ OwnershipOK'
  <2>1. /\ thread[s] = "complete" /\ thread'[s] = "none"
        /\ starter' = starter /\ run_state' = run_state
        /\ \A t \in RunThreads : t # s => thread'[t] = thread[t]
    BY <1>7 DEF CloseComplete, GoesOn, stateVars
  <2> QED
    BY <2>1
<1>8. CASE WebStopCommand \/ WebQuitCommand \/ WebStep
  <2>1. starter' = starter /\ thread' = thread
    BY <1>8 DEF WebStopCommand, WebQuitCommand, WebStep, WebQuitStop, WebStopEvent,
                WebRequestStop
  <2>2. \/ run_state' = run_state
        \/ run_state \in {"acquiring", "finalizing"} /\ run_state' = "finalizing"
        \/ run_state \notin {"acquiring", "finalizing"} /\ run_state' = "disconnected"
    BY <1>8, StopEvents DEF WebStopCommand, WebQuitCommand, WebStep, WebQuitStop,
       WebStopEvent, WebRequestStop, stateVars
  <2> QED
    BY <2>1, <2>2
<1> QED
  BY <1>1, <1>2, <1>3, <1>4, <1>5, <1>6, <1>7, <1>8 DEF StopNext, CliStep, SessionStep

\* For any number of boards and of session threads, a run has one owner from
\* ACQUISITION_STARTED to FINALIZATION_*, however starts, stops, quits and the
\* ends of runs interleave.
THEOREM EveryRunIsOwned == StopSpec => []StopConsistent
<1>1. StopInit => StopInv
  BY DEF StopInit, StopInv, RegistryConsistent, TypeOK, ServerFSM, ClientFSM,
     OperationalOnBothPlanes, PlanesNeedControl, PendingOnlyWhileFinalizing,
     ConfiguringNotOperational, CommonPlaneClients, Registered, UnderConfiguration,
     ListClientsInState, StopTypeOK, RunIsOwned, RunOwners, OwnershipOK
<1>2. ASSUME StopInv, [StopNext]_stopVars PROVE StopInv'
  <2>1. RegistryConsistent'
    BY <1>2, StopServerStep, TypeStep, PendingStep, PlanesStep, ConfiguringStep
       DEF StopInv, RegistryConsistent
  <2> QED
    BY <1>2, <2>1, StopTypeStep, OwnershipStep DEF StopInv, RegistryConsistent
<1>3. StopInv => StopConsistent
  BY DEF StopInv, StopConsistent
<1> QED
  BY <1>1, <1>2, <1>3, PTL DEF StopSpec

==============================================================================
