----------------------------- MODULE SessionStop -----------------------------
(***************************************************************************)
(* Who stops a run.  `acquisition start` sends ACQUISITION_STARTED, then    *)
(* begin_session clears the stop flag, then the session thread waits on    *)
(* that flag; `acquisition stop` and `quit` of the web panel send their    *)
(* event to the FSM, then set the flag (acquisition_orchestrator.py,       *)
(* acquisition_service.py).  The FSM is ServerState's; the boards are all  *)
(* configured, and none is lost.                                           *)
(***************************************************************************)
EXTENDS ServerState

CONSTANT
    RunThreads            \* session threads that may coexist (a bound)

VARIABLES
    stop_requested,       \* AcquisitionService._stop_requested
    session_complete,     \* AcquisitionService._session_complete_event
    starter,              \* the thread that starts the run
    thread,               \* the session threads
    web                   \* the web thread

flags == <<stop_requested, session_complete>>
threads == <<starter, thread, web>>
stopVars == <<stateVars, flags, threads>>

StopInit ==
    /\ run_state = "ready"
    /\ pending_terminal_state = "none"
    /\ pending_configuration_source = "none"
    /\ pending_configuration_partial = FALSE
    /\ client_state = [c \in Clients |-> "ready"]
    /\ acquisition = Clients /\ monitoring = {} /\ operational = Clients
    /\ stop_requested = FALSE /\ session_complete = TRUE
    /\ starter = "idle" /\ web = "idle"
    /\ thread = [s \in RunThreads |-> "none"]

------------------------------------------------------------------------------
(* The thread that starts the run *)

Start ==
    /\ starter = "idle"
    /\ AcquisitionStarted(operational)
    /\ starter' = "begin"
    /\ UNCHANGED <<flags, thread, web>>

BeginSession ==
    /\ starter = "begin"
    /\ session_complete' = FALSE
    /\ stop_requested' = FALSE
    /\ starter' = "spawn"
    /\ UNCHANGED <<stateVars, thread, web>>

SpawnSession(s) ==
    /\ starter = "spawn"
    /\ thread[s] = "none"
    /\ thread' = [thread EXCEPT ![s] = "running"]
    /\ starter' = "idle"
    /\ UNCHANGED <<stateVars, flags, web>>

------------------------------------------------------------------------------
(* A session thread *)

GoesOn(s, from, to) == thread[s] = from /\ thread' = [thread EXCEPT ![s] = to]

\* The wait ends by the flag, or by the duration of the run.
WaitStopped(s) ==
    /\ GoesOn(s, "running", "close")
    /\ stop_requested
    /\ UNCHANGED <<stateVars, flags, starter, web>>

WaitElapsed(s) ==
    /\ GoesOn(s, "running", "close")
    /\ ~stop_requested
    /\ \/ ReceiverCompleted
       \/ ~InTable("receiver_completed") /\ UNCHANGED stateVars
    /\ UNCHANGED <<flags, starter, web>>

\* close_session: STOP_REQUESTED if the run is still on, FINALIZATION_*, then
\* the event quit waits for.
CloseStop(s) ==
    /\ GoesOn(s, "close", "finalize")
    /\ \/ StopRequested
       \/ ~InTable("stop_requested") /\ UNCHANGED stateVars
    /\ UNCHANGED <<flags, starter, web>>

\* Mutant: FINALIZATION_* is not sent.
CloseFinalizeSilent(s) ==
    /\ GoesOn(s, "finalize", "complete")
    /\ UNCHANGED <<stateVars, flags, starter, web>>

CloseFinalize(s) ==
    /\ GoesOn(s, "finalize", "complete")
    /\ \/ FinalizationEnded
       \/ run_state # "finalizing" /\ UNCHANGED stateVars
    /\ UNCHANGED <<flags, starter, web>>

CloseComplete(s) ==
    /\ GoesOn(s, "complete", "none")
    /\ session_complete' = TRUE
    /\ UNCHANGED <<stateVars, stop_requested, starter, web>>

------------------------------------------------------------------------------
(* The web thread *)

\* stop() reads the state of the server.
AfterStopRead ==
    IF run_state = "finalizing" THEN "request"
    ELSE IF run_state = "acquiring" THEN "event" ELSE "idle"

WebStopCommand ==
    /\ web = "idle"
    /\ run_state \in {"acquiring", "finalizing"}
    /\ web' = AfterStopRead
    /\ UNCHANGED <<stateVars, flags, starter, thread>>

\* quit: DISCONNECT_REQUESTED, then stop().
WebQuitCommand ==
    /\ web = "idle"
    /\ DisconnectRequested
    /\ web' = "quit"
    /\ UNCHANGED <<flags, starter, thread>>

WebQuitStop ==
    /\ web = "quit"
    /\ web' = AfterStopRead
    /\ UNCHANGED <<stateVars, flags, starter, thread>>

\* STOP_REQUESTED; when it is rejected nothing is requested.
WebStopEvent ==
    /\ web = "event"
    /\ \/ StopRequested /\ web' = "request"
       \/ ~InTable("stop_requested") /\ UNCHANGED stateVars /\ web' = "idle"
    /\ UNCHANGED <<flags, starter, thread>>

\* Mutant: only the FSM is told, the session thread is not woken.
WebRequestStopFlagUnset ==
    /\ web = "request"
    /\ web' = "idle"
    /\ UNCHANGED <<stateVars, flags, starter, thread>>

WebRequestStop ==
    /\ web = "request"
    /\ stop_requested' = TRUE
    /\ web' = "idle"
    /\ UNCHANGED <<stateVars, session_complete, starter, thread>>

------------------------------------------------------------------------------

CliStep == BeginSession \/ \E s \in RunThreads : SpawnSession(s)

SessionStep(s) ==
    WaitStopped(s) \/ CloseStop(s) \/ CloseFinalize(s) \/ CloseComplete(s)

WebStep == WebQuitStop \/ WebStopEvent \/ WebRequestStop

StopNext ==
    \/ Start \/ CliStep
    \/ \E s \in RunThreads : SessionStep(s) \/ WaitElapsed(s)
    \/ WebStopCommand \/ WebQuitCommand \/ WebStep

StopSpec == StopInit /\ [][StopNext]_stopVars

\* Every thread goes on with what it has begun; nobody has to start, stop or
\* quit, and a run need not have a duration.
FairStopSpec ==
    /\ StopSpec
    /\ WF_stopVars(CliStep) /\ WF_stopVars(WebStep)
    /\ \A s \in RunThreads : WF_stopVars(SessionStep(s))

\* A user who asks again as long as the run has not stopped.
InsistentStopSpec == FairStopSpec /\ WF_stopVars(WebStopCommand)

------------------------------------------------------------------------------
(* Properties *)

\* Every thread is at one of its steps of the start, the end or the stop of a run.
StopTypeOK ==
    /\ TypeOK
    /\ stop_requested \in BOOLEAN /\ session_complete \in BOOLEAN
    /\ starter \in {"idle", "begin", "spawn"}
    /\ thread \in [RunThreads -> {"none", "running", "close", "finalize", "complete"}]
    /\ web \in {"idle", "quit", "event", "request"}

\* The session threads that have not ended their run yet.
RunOwners == {s \in RunThreads : thread[s] \in {"running", "close", "finalize"}}

\* A run belongs to the thread that starts it, then to one session thread: the
\* server is ACQUIRING or FINALIZING only while there is one to end the run,
\* and no other one is still there to end it too, though the threads of two
\* runs may overlap.
RunIsOwned ==
    /\ \A s, t \in RunOwners : s = t
    /\ run_state \in {"acquiring", "finalizing"} => starter # "idle" \/ RunOwners # {}
    /\ starter # "idle" => RunOwners = {}

\* Flags and threads have their types and every run has its one owner.
StopConsistent == StopTypeOK /\ RunIsOwned

\* "Stop requested; finalization is running in the background." (stop): a run
\* that has entered FINALIZING leaves it.  One stop alone does not ensure it: a
\* stop between ACQUISITION_STARTED and begin_session is forgotten.
StopEndsRun == run_state = "finalizing" ~> run_state # "finalizing"
==============================================================================
