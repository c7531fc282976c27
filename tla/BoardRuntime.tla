----------------------------- MODULE BoardRuntime -----------------------------
(***************************************************************************)
(* The threads of the board around the HVService: the command threads that *)
(* apply an acquisition mode or forward an HV command of the server, the   *)
(* thread that brings the board to the safe state when the control         *)
(* connection is lost or the client starts, the thread that makes only the *)
(* acquisition safe, and the main loop that connects again.                *)
(*                                                                         *)
(* Losing the connection stops the command loops, but not a command that   *)
(* is being executed: it goes on next to the safe state.                   *)
(***************************************************************************)
EXTENDS HvService

CONSTANTS
    Threads,      \* the command threads
    UserCommands, \* the HV commands that the server sends
    MaxEvents     \* how many commands the board is given and how many times
                  \* a connection is lost, together

ASSUME CallersAssumption ==
    Callers = Threads \cup {"safe"} /\ {"safe", "none"} \cap Threads = {}
\* The server has no name for the checks, which only the board queues.
ASSUME CommandsAssumption == UserCommands \subseteq Commands \ Checks
ASSUME EventsAssumption == MaxEvents \in Nat

VARIABLES
    cmd,       \* per command thread: its place and the mode it applies
    safe,      \* the safe state in progress, or the last one
    acqSafe,   \* the place of the acquisition safe state
    service,   \* the HVService exists and its thread runs
    producer,  \* "none", "spawned" (the runtime does not know it yet) or "known"
    rc19,      \* RC19: channels enabled for the acquisition
    session,   \* "up", "closing" (server_shutdown received) or "down"
    reconnect, \* reconnect_requested
    quiet,     \* nothing has worked against the safe state since it began
    events     \* commands taken and connections lost

runtimeVars == <<cmd, safe, acqSafe, service, mode, producer, rc19, session,
                 reconnect, events>>
vars == <<hvVars, ramp, runtimeVars, quiet>>

Modes == {"test", "calibration", "multipmt"}
\* The places of a command thread: set_acq_mode_sync, or waiting for the reply
\* of a command of the server ("user").
CommandSteps == {"idle", "user", "acq_start", "prepare", "prepare_off", "fix",
                 "sync", "policy", "test_off", "serial", "config", "on", "spawn",
                 "record", "mode", "check"}
IdleCmd == [pc |-> "idle", mode |-> "test", fixed |-> {}, chans |-> {}]
\* The steps of enter_safe_state, in order.
SafeSteps == {"stopcheck", "first", "producer", "link", "off", "force",
              "last", "mode", "done"}

\* The previous client may have died with the channels on and the registers set.
Init ==
    /\ ch = NoLists /\ queue = <<>> /\ job = NoJob /\ pending = {}
    /\ hw \in [Channels -> {"UP", "DOWN"}]
    /\ ramp = {}
    /\ link \in BOOLEAN
    /\ policy = "full_control" /\ acqCheck = FALSE /\ params = {}
    /\ reply = [k \in Callers |-> NoReply]
    /\ faults = MaxFaults
    /\ cmd = [t \in Threads |-> IdleCmd]
    /\ safe = [pc |-> "start", ok |-> TRUE, hv |-> FALSE]
    /\ acqSafe = "idle"
    /\ service = FALSE
    /\ mode = "test" /\ producer = "none"
    /\ rc19 = link
    /\ session = "down" /\ reconnect = FALSE
    /\ quiet = TRUE
    /\ events = 0

Happens == events < MaxEvents /\ events' = events + 1

\* A command of the RC service is executed, or fails.
RcWorks == UNCHANGED faults
RcFails == faults > 0 /\ faults' = faults - 1

\* ensure_hv_service: the link is opened, and the channels are scanned. A
\* channel that does not answer is bad.
Ensure(fixed) ==
    /\ service' = TRUE
    /\ rc19' = FALSE
    /\ \/ /\ RcWorks
          /\ link' = TRUE
          /\ ch' = Scanned(fixed, {})
       \/ /\ RcFails
          /\ link' = link
          /\ \E silent \in SUBSET Channels :
                 /\ ~link => silent = Channels
                 /\ ch' = Scanned(fixed, silent)

----------------------------------------------------------------------------
(* Applying an acquisition mode.                                           *)

At(t, pc) == cmd[t].pc = pc
Goto(t, pc) == cmd' = [cmd EXCEPT ![t].pc = pc]
Gives(t) == cmd' = [cmd EXCEPT ![t] = IdleCmd]

restOfRuntime == <<safe, acqSafe, session, reconnect>>

\* A command is taken only while the plane listens.
TakesCommand ==
    /\ session = "up"
    /\ Happens

\* set_acq_mode_sync: the mode, the fixed bad channels and, in the multipmt
\* mode, the channels that have a configuration.
ApplyMode(t, m, fixed, chans) ==
    /\ At(t, "idle")
    /\ m # "multipmt" => chans = Channels
    /\ TakesCommand
    /\ cmd' = [cmd EXCEPT ![t] = [pc |-> "acq_start", mode |-> m,
                                  fixed |-> fixed, chans |-> chans]]
    /\ UNCHANGED <<hvVars, safe, acqSafe, service, mode, producer, rc19,
                   session, reconnect>>

\* rc_acq_start puts the FEBs in data mode.
AcqStart(t) ==
    /\ At(t, "acq_start")
    /\ \/ RcWorks /\ link' = TRUE /\ Goto(t, "prepare")
       \/ RcFails /\ UNCHANGED link /\ Gives(t)
    /\ UNCHANGED <<ch, hw, queue, job, pending, policy, acqCheck, params, reply,
                   service, mode, producer, rc19, events, restOfRuntime>>

\* _prepare_hv_service: a new service knows the fixed bad channels; with an
\* old one the channels that become fixed bad and are on are switched off
\* first.
Prepare(t) ==
    LET newlyOn == (cmd[t].fixed \ ch.fixed) \cap ch.on
    IN  /\ At(t, "prepare")
        /\ \/ /\ ~service
              /\ Ensure(cmd[t].fixed)
              /\ Goto(t, "policy")
              /\ UNCHANGED <<queue, reply>>
           \/ /\ service
              /\ IF newlyOn # {}
                 THEN /\ Submit(t, "hv_off_and_wait", newlyOn, CONTROL)
                      /\ Goto(t, "prepare_off")
                 ELSE /\ Goto(t, "fix")
                      /\ UNCHANGED <<queue, reply>>
              /\ UNCHANGED <<ch, link, service, rc19, faults>>
        /\ UNCHANGED <<hw, job, pending, policy, acqCheck, params, mode,
                       producer, events, restOfRuntime>>

\* The reply of an HV command: the next step, or the end of the mode.
Replied(t, pc) == At(t, pc) /\ reply[t].st \in {"ok", "error"}
GoodReply(t, pc) == At(t, pc) /\ reply[t].st = "ok"

GivesUp(t) ==
    /\ \E pc \in {"prepare_off", "sync", "test_off", "config", "on"} :
           Replied(t, pc) /\ reply[t].st = "error"
    /\ Gives(t)
    /\ reply' = [reply EXCEPT ![t] = NoReply]
    /\ UNCHANGED <<ch, hw, link, queue, job, pending, policy, acqCheck, params,
                   faults, service, mode, producer, rc19, events, restOfRuntime>>

\* set_fixed_bad_channels changes the lists in this thread, then the HV
\* thread synchronizes them.
FixChannels(t) ==
    /\ At(t, "fix") \/ GoodReply(t, "prepare_off")
    /\ ch' = SetFixedBad(ch, cmd[t].fixed)
    /\ Submit(t, "set_hv_sync", Channels, CONTROL)
    /\ Goto(t, "sync")
    /\ UNCHANGED <<hw, link, job, pending, policy, acqCheck, params, faults,
                   service, mode, producer, rc19, events, restOfRuntime>>

\* The policy of the mode; the test mode switches every channel off.
SetPolicy(t) ==
    /\ At(t, "policy") \/ GoodReply(t, "sync")
    /\ IF cmd[t].mode = "test"
       THEN /\ policy' = "monitor_only"
            /\ Submit(t, "hv_off_and_wait", Channels, CONTROL)
            /\ Goto(t, "test_off")
       ELSE /\ policy' = "full_control"
            /\ Goto(t, "serial")
            /\ reply' = [reply EXCEPT ![t] = NoReply]
            /\ UNCHANGED queue
    /\ UNCHANGED <<ch, hw, link, job, pending, acqCheck, params, faults,
                   service, mode, producer, rc19, events, restOfRuntime>>

\* check_missing_serial: an OK channel whose serial cannot be read, or is
\* empty, goes to the list of the missing serials, on or off as it is. Then
\* the channels of the mode are configured.
CheckSerials(t) ==
    /\ At(t, "serial")
    /\ \E missing \in SUBSET ch.ok :
           /\ ~link => missing = ch.ok
           /\ IF missing = {} \/ ~link THEN UNCHANGED faults ELSE RcFails
           /\ ch' = MoveToMissingSerial(ch, missing)
    /\ IF cmd[t].chans = {}
       THEN Gives(t) /\ UNCHANGED <<queue, reply>>
       ELSE /\ Submit(t, "set_acquisition_configuration", cmd[t].chans, CONTROL)
            /\ Goto(t, "config")
    /\ UNCHANGED <<hw, link, job, pending, policy, acqCheck, params,
                   service, mode, producer, rc19, events, restOfRuntime>>

\* store_multipmt_hv_parameters: what the mode was given, for the acquisition
\* recovery.
Stored(t) == IF cmd[t].mode = "multipmt" THEN params \cup cmd[t].chans ELSE params

SwitchOn(t) ==
    /\ GoodReply(t, "config")
    /\ params' = Stored(t)
    /\ Submit(t, "hv_on", cmd[t].chans, CONTROL)
    /\ Goto(t, "on")
    /\ UNCHANGED <<ch, hw, link, job, pending, policy, acqCheck, faults,
                   service, mode, producer, rc19, events, restOfRuntime>>

\* set_acquisition_mode: leaving the multipmt mode ends the acquisition
\* recovery.
Enters(m) ==
    /\ mode' = m
    /\ acqCheck' = IF mode = "multipmt" /\ m # "multipmt" THEN FALSE ELSE acqCheck

\* The test mode sets the mode before it starts the producer, the others
\* after.
SetTestMode(t) ==
    /\ GoodReply(t, "test_off")
    /\ Enters("test")
    /\ Goto(t, "spawn")
    /\ reply' = [reply EXCEPT ![t] = NoReply]
    /\ UNCHANGED <<ch, hw, link, queue, job, pending, policy, params, faults,
                   service, producer, rc19, events, restOfRuntime>>

\* evproducer.start: the process is spawned, watched for a second and only
\* then recorded. One that is running already is left alone.
SpawnProducer(t) ==
    /\ At(t, "spawn") \/ GoodReply(t, "on")
    /\ reply' = [reply EXCEPT ![t] = NoReply]
    /\ producer' = IF producer = "none" THEN "spawned" ELSE producer
    /\ Goto(t, "record")
    /\ UNCHANGED <<ch, hw, link, queue, job, pending, policy, acqCheck, params,
                   faults, service, mode, rc19, events, restOfRuntime>>

RecordProducer(t) ==
    /\ At(t, "record")
    /\ producer' = IF producer = "spawned" THEN "known" ELSE producer
    /\ IF cmd[t].mode = "test" THEN Gives(t) ELSE Goto(t, "mode")
    /\ UNCHANGED <<hvVars, service, mode, rc19, events, restOfRuntime>>

SetMode(t) ==
    /\ At(t, "mode")
    /\ Enters(cmd[t].mode)
    /\ IF cmd[t].mode = "multipmt" THEN Goto(t, "check") ELSE Gives(t)
    /\ UNCHANGED <<ch, hw, link, queue, job, pending, policy, params, reply,
                   faults, service, producer, rc19, events, restOfRuntime>>

StartAcqCheck(t) ==
    /\ At(t, "check")
    /\ acqCheck' = TRUE
    /\ Gives(t)
    /\ UNCHANGED <<ch, hw, link, queue, job, pending, policy, params, reply,
                   faults, service, mode, producer, rc19, events, restOfRuntime>>

----------------------------------------------------------------------------
(* The other commands of the server.                                       *)

\* An HV command needs the service; one that only reads creates it.
HvCommand(t, k, chans) ==
    /\ At(t, "idle")
    /\ service
    /\ TakesCommand
    /\ Submit(t, k, chans, IF k = "hv_monitor_snapshot" THEN MONITORING ELSE CONTROL)
    /\ Goto(t, "user")
    /\ UNCHANGED <<ch, hw, link, job, pending, policy, acqCheck, params, faults,
                   service, mode, producer, rc19, restOfRuntime>>

HvCommandEnds(t) ==
    /\ Replied(t, "user")
    /\ Gives(t)
    /\ reply' = [reply EXCEPT ![t] = NoReply]
    /\ UNCHANGED <<ch, hw, link, queue, job, pending, policy, acqCheck, params,
                   faults, service, mode, producer, rc19, events, restOfRuntime>>

FirstRead(t) ==
    /\ At(t, "idle")
    /\ ~service
    /\ TakesCommand
    /\ Ensure({})
    /\ policy' = "monitor_only"
    /\ UNCHANGED <<hw, queue, job, pending, acqCheck, params, reply, cmd, mode,
                   producer, restOfRuntime>>

\* set_rc_acq enables the channels for the acquisition.
EnableChannels(t) ==
    /\ At(t, "idle")
    /\ TakesCommand
    /\ RcWorks
    /\ rc19' = TRUE
    /\ UNCHANGED <<ch, hw, link, queue, job, pending, policy, acqCheck, params,
                   reply, cmd, service, mode, producer, restOfRuntime>>

CommandStep(t) ==
    \/ AcqStart(t) \/ Prepare(t) \/ GivesUp(t) \/ FixChannels(t) \/ SetPolicy(t)
    \/ CheckSerials(t) \/ SwitchOn(t) \/ SetTestMode(t) \/ SpawnProducer(t)
    \/ RecordProducer(t) \/ SetMode(t) \/ StartAcqCheck(t) \/ HvCommandEnds(t)

NewCommand(t) ==
    \/ \E m \in Modes, fixed, chans \in SUBSET Channels : ApplyMode(t, m, fixed, chans)
    \/ \E k \in UserCommands, chans \in SUBSET Channels \ {{}} : HvCommand(t, k, chans)
    \/ FirstRead(t)
    \/ EnableChannels(t)

----------------------------------------------------------------------------
(* The safe state.                                                         *)

restOfBoard == <<cmd, acqSafe, session, reconnect, events>>

SafeGoes(pc, ok) == safe' = [safe EXCEPT !.pc = pc, !.ok = @ /\ ok]

\* startup_safe_state: an HVService for the occasion, since the previous
\* client may have left the channels on.
Startup ==
    /\ safe.pc = "start"
    /\ producer' = "none"
    /\ Ensure({})
    /\ safe' = [safe EXCEPT !.pc = "stopcheck", !.hv = TRUE, !.ok = link']
    /\ UNCHANGED <<hw, queue, job, pending, policy, acqCheck, params, reply,
                   mode, restOfBoard>>

\* The recovery thread would switch the channels on again.
StopAcqCheck ==
    /\ safe.pc = "stopcheck"
    /\ acqCheck' = FALSE
    /\ SafeGoes("first", TRUE)
    /\ UNCHANGED <<ch, hw, link, queue, job, pending, policy, params, reply,
                   faults, service, mode, producer, rc19, restOfBoard>>

ZeroFirst ==
    /\ safe.pc = "first"
    /\ \/ RcWorks /\ rc19' = FALSE /\ SafeGoes("producer", TRUE)
       \/ RcFails /\ UNCHANGED rc19 /\ SafeGoes("producer", FALSE)
    /\ UNCHANGED <<ch, hw, link, queue, job, pending, policy, acqCheck, params,
                   reply, service, mode, producer, restOfBoard>>

\* evproducer.stop: nothing to do while the process is not recorded.
ProducerStopped == producer' = IF producer = "known" THEN "none" ELSE producer

StopProducer ==
    /\ safe.pc = "producer"
    /\ ProducerStopped
    /\ SafeGoes(IF service THEN "link" ELSE "last", TRUE)
    /\ UNCHANGED <<hvVars, service, mode, rc19, restOfBoard>>

\* The FEBs back in data mode, then every channel off, before anything else
\* in the queue.
OpenLink ==
    /\ safe.pc = "link"
    /\ \/ RcWorks /\ link' = TRUE /\ rc19' = FALSE /\ SafeGoes("off", TRUE)
       \/ RcFails /\ UNCHANGED <<link, rc19>> /\ SafeGoes("off", FALSE)
    /\ Submit("safe", "hv_off_and_wait", Channels, EMERGENCY)
    /\ UNCHANGED <<ch, hw, job, pending, policy, acqCheck, params, service,
                   mode, producer, restOfBoard>>

\* Mutant: the skipped channels are left alone.
SwitchedOffLeavesSkipped ==
    /\ safe.pc = "off"
    /\ reply["safe"].st \in {"ok", "error"}
    /\ reply' = [reply EXCEPT !["safe"] = NoReply]
    /\ SafeGoes("last", reply["safe"].st = "ok")
    /\ UNCHANGED <<ch, hw, link, queue, job, pending, policy, acqCheck, params,
                   faults, service, mode, producer, rc19, restOfBoard>>

\* The channels that are not OK are skipped: they are forced off.
SwitchedOff ==
    /\ safe.pc = "off"
    /\ reply["safe"].st \in {"ok", "error"}
    /\ IF reply["safe"].st = "ok" /\ reply["safe"].skipped # {}
       THEN /\ Submit("safe", "hv_force_off", reply["safe"].skipped, EMERGENCY)
            /\ SafeGoes("force", TRUE)
       ELSE /\ reply' = [reply EXCEPT !["safe"] = NoReply]
            /\ UNCHANGED queue
            /\ SafeGoes("last", reply["safe"].st = "ok")
    /\ UNCHANGED <<ch, hw, link, job, pending, policy, acqCheck, params,
                   faults, service, mode, producer, rc19, restOfBoard>>

ForcedOff ==
    /\ safe.pc = "force"
    /\ reply["safe"].st \in {"ok", "error"}
    /\ reply' = [reply EXCEPT !["safe"] = NoReply]
    /\ SafeGoes("last", reply["safe"].st = "ok")
    /\ UNCHANGED <<ch, hw, link, queue, job, pending, policy, acqCheck, params,
                   faults, service, mode, producer, rc19, restOfBoard>>

ZeroLast ==
    /\ safe.pc = "last"
    /\ \/ RcWorks /\ link' = FALSE /\ SafeGoes("mode", TRUE)
       \/ RcFails /\ UNCHANGED link /\ SafeGoes("mode", FALSE)
    /\ UNCHANGED <<ch, hw, queue, job, pending, policy, acqCheck, params,
                   reply, service, mode, producer, rc19, restOfBoard>>

TestMode ==
    /\ safe.pc = "mode"
    /\ Enters("test")
    /\ SafeGoes("done", TRUE)
    /\ UNCHANGED <<ch, hw, link, queue, job, pending, policy, params, reply,
                   faults, service, producer, rc19, restOfBoard>>

\* The end of the thread: the main loop is asked to connect again. At the
\* start of the client the service is dropped, and the client connects
\* whatever the outcome was.
SafeEnds ==
    /\ safe.pc = "done"
    /\ safe' = [safe EXCEPT !.pc = "idle"]
    /\ reconnect' = TRUE
    /\ IF events = 0
       THEN /\ service' = FALSE /\ ch' = NoLists /\ queue' = <<>>
            /\ job' = NoJob /\ pending' = {}
       ELSE UNCHANGED <<service, ch, queue, job, pending>>
    /\ UNCHANGED <<hw, link, policy, acqCheck, params, reply, faults, cmd,
                   acqSafe, mode, producer, rc19, session, events>>

SafeStep ==
    \/ Startup \/ StopAcqCheck \/ ZeroFirst \/ StopProducer \/ OpenLink
    \/ SwitchedOff \/ ForcedOff \/ ZeroLast \/ TestMode \/ SafeEnds

----------------------------------------------------------------------------
(* The connections.                                                        *)

restOfHv == <<hvVars, cmd, service, mode, rc19>>

\* The control connection is lost. A second safe state while one is running
\* returns at once, and the main loop is asked to connect again.
ControlLost ==
    /\ \/ session = "up" /\ Happens
       \/ session = "closing" /\ UNCHANGED events
    /\ session' = "down"
    /\ IF safe.pc = "idle"
       THEN safe' = [pc |-> "stopcheck", ok |-> TRUE, hv |-> service]
            /\ UNCHANGED reconnect
       ELSE UNCHANGED safe /\ reconnect' = TRUE
    /\ UNCHANGED <<restOfHv, acqSafe, producer>>

\* server_shutdown: the producer is stopped and the client connects again;
\* the high voltage stays as it is.
ServerShutdown ==
    /\ session = "up"
    /\ Happens
    /\ session' = "closing"
    /\ reconnect' = TRUE
    /\ ProducerStopped
    /\ UNCHANGED <<restOfHv, safe, acqSafe>>

\* The main loop: the connections are closed, and the handshakes done again.
Connects ==
    /\ reconnect
    /\ reconnect' = FALSE
    /\ session' = "up"
    /\ UNCHANGED <<restOfHv, safe, acqSafe, producer, events>>

\* The acquisition connection is lost: RC19 and the producer only.
AcquisitionLost ==
    /\ session = "up"
    /\ acqSafe = "idle"
    /\ Happens
    /\ acqSafe' = "rc19"
    /\ UNCHANGED <<restOfHv, safe, session, reconnect, producer>>

AcquisitionSafe ==
    /\ acqSafe # "idle"
    /\ IF acqSafe = "rc19"
       THEN /\ \/ RcWorks /\ rc19' = FALSE
               \/ RcFails /\ UNCHANGED rc19
            /\ acqSafe' = "producer"
            /\ UNCHANGED producer
       ELSE /\ ProducerStopped
            /\ acqSafe' = "idle"
            /\ UNCHANGED <<rc19, faults>>
    /\ UNCHANGED <<ch, hw, link, queue, job, pending, policy, acqCheck, params, reply,
                   cmd, safe, service, mode, session, reconnect, events>>

----------------------------------------------------------------------------

\* An energising command in the queue or in execution, a command thread that
\* is busy, or a session in which commands are taken, works against the safe
\* state.
Against ==
    \/ \E i \in DOMAIN queue : queue[i].cmd \in Energising
    \/ job.cmd \in Energising
    \/ \E t \in Threads : ~At(t, "idle")
    \/ session = "up"

HvStep ==
    /\ \/ service /\ (WorkerStep \/ CheckSafety \/ CheckPower \/ CheckRecovery
                        \/ CheckAcquisition \/ CheckExpires)
       \/ \E k \in Callers : RequestTimeout(k)
       \/ \E c \in Channels : Trip(c)
    /\ UNCHANGED runtimeVars

Step ==
    \/ HvStep
    \/ SafeStep
    \/ \E t \in Threads : CommandStep(t) \/ NewCommand(t)
    \/ ControlLost \/ ServerShutdown \/ Connects
    \/ AcquisitionLost \/ AcquisitionSafe

\* quiet is a history variable: it starts with the safe state.
Quiets == quiet' = (~Against' /\ (quiet \/ (safe.pc = "idle" /\ safe'.pc # "idle")))

Next ==
    \/ Step /\ Quiets /\ Ramps
    \/ \E c \in Channels : RampChanges(c) /\ UNCHANGED <<runtimeVars, quiet>>

Spec == Init /\ [][Next]_vars

\* The HV thread and the check thread run.
Runs(A) == service /\ A /\ UNCHANGED runtimeVars /\ Quiets /\ Ramps
Fairness == WF_vars(Runs(WorkerStep)) /\ WF_vars(Runs(CheckSafety))

FairSpec == Spec /\ Fairness

----------------------------------------------------------------------------
(* Properties.                                                             *)

\* Every variable keeps its type: lists of channels, requests in the queue,
\* the request under execution, and the place of every thread.
TypeOK ==
    /\ HvTypeOK
    /\ ramp \subseteq Channels
    /\ cmd \in [Threads -> [pc : CommandSteps, mode : Modes,
                            fixed : SUBSET Channels, chans : SUBSET Channels]]
    /\ safe \in [pc : SafeSteps \cup {"start", "idle"}, ok : BOOLEAN, hv : BOOLEAN]
    /\ acqSafe \in {"idle", "rc19", "producer"}
    /\ service \in BOOLEAN /\ rc19 \in BOOLEAN /\ reconnect \in BOOLEAN
    /\ mode \in Modes
    /\ producer \in {"none", "spawned", "known"}
    /\ session \in {"up", "closing", "down"}
    /\ quiet \in BOOLEAN /\ events \in 0..MaxEvents

\* The lists of the HV interface and the requests of its queue are consistent
\* whatever commands, checks, modes and safe states run beside one another.
BoardConsistent == TypeOK /\ ListsConsistent /\ PendingAccounted

\* A safe state that reports success, and that nothing worked against, has
\* switched everything off: every channel, the OK ones and the ones that are
\* in no other list or moved between the lists by checks meanwhile, the
\* producer, the channels of the RC and the link to the FEBs, in test mode.
SafeMeansOff ==
    safe.pc = "done" /\ safe.ok /\ safe.hv /\ quiet =>
        /\ \A c \in Channels : hw[c] # "UP"
        /\ producer = "none"
        /\ ~rc19 /\ ~link
        /\ mode = "test"

\* The recovery switches on only channels that have a voltage and a
\* threshold: "Only the channels sent by the server are configured and
\* powered: the others (e.g. without a matching calibration) have no
\* voltage/threshold and stay off."
OthersStayOff ==
    [][\A c \in Channels :
           hw[c] # "UP" /\ hw'[c] = "UP" /\ job.cmd = "check_channel_acquisition"
               => c \in params]_vars

=============================================================================
