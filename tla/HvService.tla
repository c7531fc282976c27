------------------------------ MODULE HvService ------------------------------
(***************************************************************************)
(* The high voltage of a board: the channel lists of the HV interface, the *)
(* HVService thread that executes the HV commands one at a time from a     *)
(* priority queue, and the two check threads that queue commands of their  *)
(* own (safety, power and recovery checks; the acquisition recovery).      *)
(*                                                                         *)
(* A command handles its channels one at a time, and the lists may be      *)
(* changed by another thread in between.  The HV boards answer on the      *)
(* Modbus only while the FEBs are in data mode (link); an access may also  *)
(* fail, and then the command it carried may or may not have been obeyed.  *)
(* Voltages, thresholds and readings are left out: a channel is DOWN, UP   *)
(* or in TRIP.  One that is UP and not at its voltage (ramp) reads as RUP; *)
(* a ramp down counts as its end.  A ramp that lasts too long is an outcome *)
(* of the commands that wait for it.                                       *)
(***************************************************************************)
EXTENDS Integers, Sequences, FiniteSets, FiniteSetsExt, SequencesExt

CONSTANTS
    Channels,     \* the HV channels of the board, a set of integers
    Callers,      \* the threads that wait for the reply of an HV command
    MaxFaults     \* how many accesses fail, requests expire or channels trip

ASSUME ChannelsAreNumbers == Channels \subseteq Nat /\ IsFiniteSet(Channels)
ASSUME FaultsAssumption == MaxFaults \in Nat

VARIABLES
    ch,        \* the channel lists: ok, bad, on, off, fixed, missing
    hw,        \* the status of every channel
    ramp,      \* the channels that are up and not at their voltage
    link,      \* the FEBs are in data mode: the HV boards answer
    queue,     \* the requests, by priority and then by arrival
    job,       \* the command that the HV thread is executing
    pending,   \* the checks that are queued or being executed
    policy,    \* "monitor_only" or "full_control"
    acqCheck,  \* the acquisition recovery thread runs
    params,    \* the channels with a stored voltage and threshold
    mode,      \* acq_mode of the runtime, which owns it
    reply,     \* what every caller waits for or has got
    faults     \* faults left

hvVars == <<ch, hw, link, queue, job, pending, policy, acqCheck, params,
            reply, faults>>

Status == {"UP", "DOWN", "TRIP"}
\* What getStatus returns: RUP stands for RUP, TUP and TDN.
Readings == Status \cup {"RUP"}
Reads(c) == IF c \in ramp THEN "RUP" ELSE hw[c]
Checks == {"check_channel_safety", "check_channel_power",
           "check_recovery_bad", "check_channel_acquisition"}
\* The commands on the channels that are in the OK list; they skip the
\* channels that are not.  set_common stands for set_common_voltage and
\* set_common_threshold, get_volt_thr for the three that read these back.
OnOkChannels == {"hv_on", "hv_off", "hv_on_and_wait", "hv_off_and_wait",
                 "set_acquisition_configuration", "set_common", "get_volt_thr"}
StoresParameters == {"set_common", "set_acquisition_configuration"}
Commands == OnOkChannels \cup Checks \cup
            {"hv_force_off", "get_power_state", "set_hv_sync", "hv_set_user_bad",
             "hv_unset_user_bad", "set_pmt_serials", "hv_monitor_snapshot",
             "feb_change_address"}
Energising == {"hv_on", "hv_on_and_wait", "check_channel_acquisition"}

\* HVMessagePriority
EMERGENCY  == 0
CONTROL    == 1
MONITORING == 3

NoReply == [st |-> "none", skipped |-> {}]
Waiting == [st |-> "wait", skipped |-> {}]
NoJob   == [cmd |-> "idle", from |-> "none", used |-> {}, todo |-> {},
            wait |-> {}, skipped |-> {}, failed |-> {}, read |-> "none"]
NoLists == [ok |-> {}, bad |-> {}, on |-> {}, off |-> {}, fixed |-> {},
            missing |-> {}]

----------------------------------------------------------------------------
(* The lists.  Each operator is the list change that one method of HV makes *)
(* under channels_lock.                                                    *)

MoveToOk(l, c) ==
    [l EXCEPT !.bad = @ \ {c}, !.ok = @ \cup {c},
              !.off = IF c \in l.on THEN @ ELSE @ \cup {c}]

MoveToOn(l, c) ==
    IF c \in l.ok THEN [l EXCEPT !.off = @ \ {c}, !.on = @ \cup {c}] ELSE l

MoveToOff(l, c) == [l EXCEPT !.on = @ \ {c}, !.off = @ \cup {c}]

\* The ones that the code also calls for each of several channels (cs).
MoveToBad(l, cs) ==
    [l EXCEPT !.ok = @ \ cs, !.bad = @ \cup cs,
              !.on = @ \ cs, !.off = @ \cup cs]

Removed(l, cs) == [l EXCEPT !.on = @ \ cs, !.off = @ \ cs,
                            !.ok = @ \ cs, !.bad = @ \ cs]
MoveToFixedBad(l, cs) == [Removed(l, cs) EXCEPT !.fixed = @ \cup cs]
MoveToMissingSerial(l, cs) == [Removed(l, cs) EXCEPT !.missing = @ \cup cs]

RemoveFromFixedBad(l, cs) == MoveToBad([l EXCEPT !.fixed = @ \ cs], cs)
RemoveFromMissingSerial(l, cs) == MoveToBad([l EXCEPT !.missing = @ \ cs], cs)

\* The on or off list that a status that was read puts a channel in.
Aligned(l, c, read) == IF read = "UP" THEN MoveToOn(l, c) ELSE MoveToOff(l, c)

\* set_fixed_bad_channels: the new set of fixed bad channels.  The code
\* changes one channel after the other, and takes the lock twice for one
\* that is no longer fixed bad: one step here.
SetFixedBad(l, new) ==
    MoveToFixedBad(RemoveFromFixedBad(l, l.fixed \ new), new \ l.fixed)

\* HV(): the scan of the channels that are not fixed bad; the silent ones
\* are bad, and the status of the others tells on from off: any status
\* other than UP, a ramp too, is off.
Scanned(fixed, silent) ==
    LET found == Channels \ (fixed \cup silent)
    IN  [ok |-> found, bad |-> silent \ fixed,
         on |-> {c \in found : Reads(c) = "UP"}, off |-> {c \in found : Reads(c) # "UP"},
         fixed |-> fixed, missing |-> {}]

----------------------------------------------------------------------------
(* The queue.                                                              *)

\* PriorityQueue: before the requests of lower priority, after the others.
Put(r) ==
    LET before == Cardinality({i \in 1..Len(queue) : queue[i].prio <= r.prio})
    IN  queue' = InsertAt(queue, before + 1, r)

Request(cmd, chans, prio, from) ==
    [cmd |-> cmd, chans |-> chans, prio |-> prio, from |-> from, late |-> FALSE]

\* _submit_command and request: the request is queued, the caller waits.
Submit(k, cmd, chans, prio) ==
    /\ Put(Request(cmd, chans, prio, k))
    /\ reply' = [reply EXCEPT ![k] = Waiting]

\* The wait ends before the reply: the deadline of the request has passed
\* too, so that it is skipped if the thread has not begun it; if it has, the
\* command goes on and nobody reads its reply.
RequestTimeout(k) ==
    /\ faults > 0
    /\ reply[k].st = "wait"
    /\ faults' = faults - 1
    /\ reply' = [reply EXCEPT ![k] = [NoReply EXCEPT !.st = "error"]]
    /\ queue' = [i \in DOMAIN queue |->
                    IF queue[i].from = k THEN [queue[i] EXCEPT !.late = TRUE]
                                         ELSE queue[i]]
    /\ job' = IF job.from = k THEN [job EXCEPT !.from = "none"] ELSE job
    /\ UNCHANGED <<ch, hw, link, pending, policy, acqCheck, params>>

\* A check waits in the queue for longer than its deadline.
CheckExpires ==
    /\ faults > 0
    /\ \E i \in DOMAIN queue :
           /\ queue[i].cmd \in Checks
           /\ ~queue[i].late
           /\ queue' = [queue EXCEPT ![i].late = TRUE]
    /\ faults' = faults - 1
    /\ UNCHANGED <<ch, hw, link, job, pending, policy, acqCheck, params, reply>>

----------------------------------------------------------------------------
(* The check threads.                                                      *)

\* One check of the loop: it is queued unless one is pending already.
QueueCheck(cmd, chans, prio) ==
    /\ cmd \notin pending
    /\ pending' = pending \cup {cmd}
    /\ Put(Request(cmd, chans, prio, "none"))
    /\ UNCHANGED <<ch, hw, link, job, policy, acqCheck, params, reply, faults>>

CheckSafety ==
    /\ ch.on # {}
    /\ QueueCheck("check_channel_safety", ch.on, EMERGENCY)
CheckPower ==
    /\ ch.ok # {}
    /\ QueueCheck("check_channel_power", ch.ok, MONITORING)
CheckRecovery ==
    /\ ch.bad # {}
    /\ QueueCheck("check_recovery_bad", {}, MONITORING)
CheckAcquisition ==
    /\ acqCheck
    /\ ch.ok \cap ch.off # {}
    /\ QueueCheck("check_channel_acquisition", {}, MONITORING)

----------------------------------------------------------------------------
(* The HV thread.                                                          *)

Blocked(cmd) == policy = "monitor_only" /\ cmd \in Energising

\* The channels a command goes through, and the ones it reports as skipped.
Scope(r) ==
    CASE r.cmd \in OnOkChannels \cup {"check_channel_safety"} -> r.chans \cap ch.ok
      [] r.cmd = "check_recovery_bad" -> ch.bad
      [] r.cmd = "check_channel_acquisition" ->
             IF params = {} THEN {} ELSE ch.ok \cap ch.off
      [] r.cmd = "set_hv_sync" -> ch.bad \cup (r.chans \ ch.fixed)
      [] r.cmd = "hv_monitor_snapshot" -> r.chans \ ch.fixed
      [] OTHER -> r.chans
Skipped(r) ==
    CASE r.cmd \in OnOkChannels -> r.chans \ ch.ok
      [] r.cmd = "set_hv_sync"  -> ch.fixed
      [] OTHER -> {}

\* What the caller that still waits gets.
Answer(k, st, skipped) ==
    reply' = IF k \in Callers /\ reply[k].st = "wait"
             THEN [reply EXCEPT ![k] = [st |-> st, skipped |-> skipped]]
             ELSE reply

\* The flags that the thread clears: not the one of the acquisition check.
Cleared(cmd) == pending \ ({cmd} \ {"check_channel_acquisition"})

\* Mutant: an expired or blocked check leaves its flag set.
WorkerSkipsKeepsFlag ==
    /\ job = NoJob
    /\ queue # <<>>
    /\ Head(queue).late \/ Blocked(Head(queue).cmd)
    /\ queue' = Tail(queue)
    /\ Answer(Head(queue).from, "error", {})
    /\ UNCHANGED <<ch, hw, link, job, pending, policy, acqCheck, params, faults>>

\* The next request: one that has expired or that the policy blocks is only
\* answered.
WorkerSkips ==
    /\ job = NoJob
    /\ queue # <<>>
    /\ Head(queue).late \/ Blocked(Head(queue).cmd)
    /\ queue' = Tail(queue)
    /\ IF Head(queue).late THEN UNCHANGED reply
                           ELSE Answer(Head(queue).from, "error", {})
    /\ pending' = Cleared(Head(queue).cmd)
    /\ UNCHANGED <<ch, hw, link, job, policy, acqCheck, params, faults>>

WorkerBegins ==
    /\ job = NoJob
    /\ queue # <<>>
    /\ ~Head(queue).late
    /\ ~Blocked(Head(queue).cmd)
    /\ queue' = Tail(queue)
    /\ job' = [NoJob EXCEPT !.cmd = Head(queue).cmd, !.from = Head(queue).from,
                            !.todo = Scope(Head(queue)),
                            !.used = Scope(Head(queue)),
                            !.skipped = Skipped(Head(queue))]
    /\ UNCHANGED <<ch, hw, link, pending, policy, acqCheck, params, reply, faults>>

\* An access to the HV boards.
Works  == link /\ UNCHANGED faults
Breaks == \/ ~link /\ UNCHANGED faults
          \/ link /\ faults > 0 /\ faults' = faults - 1
\* The status of c after commands that failed: obeyed or not.
MayBe(c, S) ==
    hw' \in {[hw EXCEPT ![c] = s] : s \in IF link THEN S ELSE {hw[c]}}
Now(c, s) == hw' = [hw EXCEPT ![c] = s]

\* powerOn and powerOff leave a channel in TRIP as it is; reset ends a TRIP.
PowerOn(c)  == IF hw[c] = "TRIP" THEN "TRIP" ELSE "UP"
PowerOff(c) == IF hw[c] = "TRIP" THEN "TRIP" ELSE "DOWN"

Handled(c) == job' = [job EXCEPT !.todo = @ \ {c}, !.wait = @ \ {c}, !.read = "none"]
Failed(c) == job' = [job EXCEPT !.todo = @ \ {c}, !.wait = @ \ {c},
                                !.failed = @ \cup {c}]
ToWait(c) == job' = [job EXCEPT !.todo = @ \ {c}, !.wait = @ \cup {c}]

\* A channel that fails a command is moved to the bad list.
GoesBad(c) == ch' = MoveToBad(ch, {c}) /\ Failed(c)

Access(c) ==
    \/ Works /\ UNCHANGED <<ch, hw>> /\ Handled(c)
    \/ Breaks /\ UNCHANGED hw /\ GoesBad(c)

SetCommon(c) == Access(c)
GetVoltThr(c) == Access(c)

\* monitor_snapshot reads every register of a channel, OK or not.
MonitorSnapshot(c) == Access(c)

\* set_acquisition_configuration: a channel without a configuration only
\* fails; one that is on ramps to the new voltage, and is reset and switched
\* off if the ramp fails, which may fail too.
Configure(c) ==
    \/ Access(c)
    \/ UNCHANGED <<ch, hw, faults>> /\ Failed(c)
    \/ Works /\ c \in ch.on /\ Now(c, "DOWN") /\ GoesBad(c)
    \/ Breaks /\ c \in ch.on /\ MayBe(c, {hw[c], "DOWN"}) /\ GoesBad(c)

On(c) ==
    \/ Works /\ Now(c, PowerOn(c)) /\ ch' = MoveToOn(ch, c) /\ Handled(c)
    \/ Breaks /\ MayBe(c, {hw[c], PowerOn(c), "DOWN"}) /\ GoesBad(c)

Off(c) ==
    \/ Works /\ Now(c, PowerOff(c)) /\ ch' = MoveToOff(ch, c) /\ Handled(c)
    \/ Breaks /\ MayBe(c, {hw[c], PowerOff(c)}) /\ GoesBad(c)

\* force_off: the same for any channel, OK or not.
ForceOff(c) == Off(c)

PowerOnAndWait(c) ==
    \/ Works /\ Now(c, PowerOn(c)) /\ UNCHANGED ch /\ ToWait(c)
    \/ Breaks /\ MayBe(c, {hw[c], PowerOn(c), "DOWN"}) /\ GoesBad(c)

\* The wait for UP: TRIP, an alarm or too long a ramp is a reset and a power
\* off.
WaitUp(c) ==
    \/ Works /\ Reads(c) = "UP" /\ UNCHANGED hw /\ ch' = MoveToOn(ch, c) /\ Handled(c)
    \/ Works /\ Now(c, "DOWN") /\ GoesBad(c)
    \/ Breaks /\ MayBe(c, {hw[c], "DOWN"}) /\ GoesBad(c)

PowerOffAndWait(c) ==
    \/ Works /\ Now(c, PowerOff(c)) /\ UNCHANGED ch /\ ToWait(c)
    \/ Breaks /\ MayBe(c, {hw[c], PowerOff(c)}) /\ GoesBad(c)

WaitDown(c) ==
    \/ Works /\ hw[c] = "DOWN" /\ UNCHANGED hw /\ ch' = MoveToOff(ch, c) /\ Handled(c)
    \/ Works /\ hw[c] = "DOWN" /\ UNCHANGED hw /\ GoesBad(c)
    \/ Works /\ hw[c] = "TRIP" /\ Now(c, "DOWN") /\ GoesBad(c)
    \/ Breaks /\ UNCHANGED hw /\ GoesBad(c)

\* get_power_state waits for the end of a ramp, for so long; a ramp that lasts
\* longer, or a status that is not known, fails the channel and no more.
GetPowerState(c) ==
    \/ Works /\ Reads(c) \in {"UP", "DOWN"} /\ UNCHANGED hw
       /\ ch' = Aligned(ch, c, Reads(c)) /\ Handled(c)
    \/ Works /\ hw[c] # "TRIP" /\ UNCHANGED <<ch, hw>> /\ Failed(c)
    \/ Works /\ hw[c] = "TRIP" /\ UNCHANGED hw /\ GoesBad(c)
    \/ Breaks /\ UNCHANGED hw /\ GoesBad(c)

\* Mutant: a channel in TRIP is only reported.
SafetyCheckOnlyWarns(c) ==
    \/ Works /\ UNCHANGED <<ch, hw>> /\ Handled(c)
    \/ Breaks /\ UNCHANGED hw /\ GoesBad(c)

\* A channel in TRIP is reset, forced off and moved to bad whatever these do.
SafetyCheck(c) ==
    \/ Works /\ hw[c] # "TRIP" /\ UNCHANGED <<ch, hw>> /\ Handled(c)
    \/ Works /\ hw[c] = "TRIP" /\ Now(c, "DOWN") /\ GoesBad(c)
    \/ Breaks /\ MayBe(c, {hw[c], IF hw[c] = "TRIP" THEN "DOWN" ELSE hw[c]})
       /\ GoesBad(c)

\* check_channel_power: UP and off, or DOWN and on, changes the list.
PowerAligned(l, c) ==
    CASE Reads(c) = "UP" /\ c \in l.off  -> MoveToOn(l, c)
      [] Reads(c) = "DOWN" /\ c \in l.on -> MoveToOff(l, c)
      [] OTHER -> l
PowerCheck(c) ==
    \/ Works /\ UNCHANGED hw /\ ch' = PowerAligned(ch, c) /\ Handled(c)
    \/ Breaks /\ UNCHANGED <<ch, hw>> /\ Handled(c)

\* recover_bad_channels: a channel that answers becomes OK; then, in a section
\* of its own, the status that was read tells on from off.
Recovering == {"check_recovery_bad", "set_hv_sync"}
ToList(c) == job' = [job EXCEPT !.todo = @ \ {c}, !.wait = @ \cup {c}, !.read = Reads(c)]
Recover(c) ==
    \/ Works /\ UNCHANGED hw /\ ch' = MoveToOk(ch, c) /\ ToList(c)
    \/ Breaks /\ UNCHANGED <<ch, hw>> /\ Handled(c)

\* Mutant: a recovered channel is taken for one that is off.
RecoveredOff(l, c) == MoveToOff(l, c)

Recovered(l, c) == Aligned(l, c, job.read)
RecoverEnds(c) == ch' = Recovered(ch, c) /\ Handled(c) /\ UNCHANGED <<hw, faults>>

\* command_hv_sync: the presence and the power of a channel, unless it is fixed
\* bad, after the recovery of the bad ones.
Present(l, c) ==
    LET active == c \notin job.skipped
    IN  /\ \/ Works /\ ch' = IF active THEN PowerAligned(l, c) ELSE l
           \/ Breaks /\ ch' = IF active THEN MoveToBad(l, {c}) ELSE l
        /\ UNCHANGED hw /\ Handled(c)
Sync(c) ==
    \/ c \notin ch.bad /\ Present(ch, c)
    \/ c \in ch.bad /\ Works /\ UNCHANGED hw /\ ch' = MoveToOk(ch, c) /\ ToList(c)
    \/ /\ c \in ch.bad /\ Breaks /\ UNCHANGED hw /\ Handled(c)
       /\ ch' \in {ch} \cup {MoveToBad(ch, {x}) : x \in {c} \ job.skipped}
SyncEnds(c) == Present(Recovered(ch, c), c)

\* recover_ok_off_acquisition: the channels that answer, not in TRIP, are
\* given their voltage and threshold, when there are any, and switched on.
AcquisitionCheck(c) ==
    \/ Works /\ hw[c] # "TRIP" /\ Now(c, "UP") /\ UNCHANGED ch /\ ToWait(c)
    \/ Works /\ hw[c] = "TRIP" /\ UNCHANGED <<ch, hw>> /\ Handled(c)
    \/ Breaks /\ UNCHANGED hw /\ Handled(c)
       /\ ch' \in {ch} \cup {MoveToBad(ch, {x}) : x \in params \cap {c}}

WriteSerial(c) ==
    \/ Works /\ UNCHANGED hw /\ ch' = RemoveFromMissingSerial(ch, {c}) /\ Handled(c)
    \/ Breaks /\ UNCHANGED <<ch, hw>> /\ Failed(c)

ChangeAddress(c) ==
    \/ Works /\ UNCHANGED hw /\ ch' = MoveToOk(ch, c) /\ Handled(c)
    \/ Breaks /\ UNCHANGED <<ch, hw>> /\ Failed(c)

SetUserBad(c) ==
    /\ ch' = MoveToFixedBad(ch, {c}) /\ Handled(c) /\ UNCHANGED <<hw, faults>>
UnsetUserBad(c) ==
    /\ ch' = RemoveFromFixedBad(ch, {c}) /\ Handled(c) /\ UNCHANGED <<hw, faults>>

\* COMMAND_HANDLERS: the part of the command on one channel.
OnChannel(c) ==
    \/ job.cmd = "set_common" /\ SetCommon(c)
    \/ job.cmd = "get_volt_thr" /\ GetVoltThr(c)
    \/ job.cmd = "hv_monitor_snapshot" /\ MonitorSnapshot(c)
    \/ job.cmd = "set_acquisition_configuration" /\ Configure(c)
    \/ job.cmd = "hv_on" /\ On(c)
    \/ job.cmd = "hv_off" /\ Off(c)
    \/ job.cmd = "hv_force_off" /\ ForceOff(c)
    \/ job.cmd = "hv_on_and_wait" /\ PowerOnAndWait(c)
    \/ job.cmd = "hv_off_and_wait" /\ PowerOffAndWait(c)
    \/ job.cmd = "get_power_state" /\ GetPowerState(c)
    \/ job.cmd = "set_hv_sync" /\ Sync(c)
    \/ job.cmd = "check_channel_safety" /\ SafetyCheck(c)
    \/ job.cmd = "check_channel_power" /\ PowerCheck(c)
    \/ job.cmd = "check_recovery_bad" /\ Recover(c)
    \/ job.cmd = "check_channel_acquisition" /\ AcquisitionCheck(c)
    \/ job.cmd = "set_pmt_serials" /\ WriteSerial(c)
    \/ job.cmd = "feb_change_address" /\ ChangeAddress(c)
    \/ job.cmd = "hv_set_user_bad" /\ SetUserBad(c)
    \/ job.cmd = "hv_unset_user_bad" /\ UnsetUserBad(c)

WorkerHandles ==
    /\ job.todo # {}
    /\ job.cmd \in Recovering => job.wait = {}
    /\ OnChannel(Min(job.todo))
    /\ UNCHANGED <<link, queue, pending, policy, acqCheck, params, reply>>

\* What is left for a channel: the wait for its status, or the section of the
\* recovery that lists it, before the next channel.
Concludes(c) ==
    CASE job.cmd = "hv_off_and_wait"    -> WaitDown(c)
      [] job.cmd = "check_recovery_bad" -> RecoverEnds(c)
      [] job.cmd = "set_hv_sync"        -> SyncEnds(c)
      [] OTHER                          -> WaitUp(c)

WorkerWaits ==
    /\ job.wait # {}
    /\ job.todo = {} \/ job.cmd \in Recovering
    /\ Concludes(Min(job.wait))
    /\ UNCHANGED <<link, queue, pending, policy, acqCheck, params, reply>>

\* update_hv_parameters_after_command: in the multipmt mode the runtime keeps
\* the values of a command that succeeded.
Parameters ==
    IF job.cmd \in StoresParameters /\ mode = "multipmt" /\ job.failed = {}
    THEN params \cup job.used ELSE params

\* The reply, and the flag of the check.
WorkerEnds ==
    /\ job # NoJob
    /\ job.todo = {} /\ job.wait = {}
    /\ Answer(job.from, IF job.failed = {} THEN "ok" ELSE "error", job.skipped)
    /\ pending' = Cleared(job.cmd)
    /\ job' = NoJob
    /\ params' = Parameters
    /\ UNCHANGED <<ch, hw, link, queue, policy, acqCheck, faults>>

WorkerStep == \/ WorkerSkips \/ WorkerBegins \/ WorkerHandles
              \/ WorkerWaits \/ WorkerEnds

\* A channel that is on trips.
Trip(c) ==
    /\ faults > 0
    /\ hw[c] = "UP"
    /\ Now(c, "TRIP")
    /\ faults' = faults - 1
    /\ UNCHANGED <<ch, link, queue, job, pending, policy, acqCheck, params, reply>>

\* External: a channel that is switched on begins to ramp, and one that is not
\* up does not.
Ramps == ramp' = {c \in Channels : hw'[c] = "UP" /\ (c \in ramp \/ hw[c] # "UP")}

\* External: a ramp ends; a channel that is up ramps again, to a new voltage or
\* back to the one it had.
RampChanges(c) ==
    /\ hw[c] = "UP"
    /\ ramp' = IF c \in ramp THEN ramp \ {c} ELSE ramp \cup {c}
    /\ UNCHANGED hvVars

----------------------------------------------------------------------------
(* Properties.                                                             *)

Lists == [ok : SUBSET Channels, bad : SUBSET Channels, on : SUBSET Channels,
          off : SUBSET Channels, fixed : SUBSET Channels, missing : SUBSET Channels]
Requests == [cmd : Commands, chans : SUBSET Channels, prio : 0..3,
             from : Callers \cup {"none"}, late : BOOLEAN]
Jobs == [cmd : Commands \cup {"idle"}, from : Callers \cup {"none"},
         used : SUBSET Channels, todo : SUBSET Channels, wait : SUBSET Channels,
         skipped : SUBSET Channels, failed : SUBSET Channels,
         read : Readings \cup {"none"}]
Replies == [st : {"none", "wait", "ok", "error"}, skipped : SUBSET Channels]

\* Every list is a set of channels, and every request, reply and flag is one the
\* service knows.
HvTypeOK ==
    /\ ch \in Lists
    /\ hw \in [Channels -> Status]
    /\ link \in BOOLEAN /\ acqCheck \in BOOLEAN
    /\ queue \in Seq(Requests)
    /\ job \in Jobs
    /\ pending \subseteq Checks
    /\ policy \in {"monitor_only", "full_control"}
    /\ params \subseteq Channels
    /\ reply \in [Callers -> Replies]
    /\ faults \in 0..MaxFaults

\* The lists never contradict each other, whatever commands, checks and
\* direct changes by the acquisition thread overlap: no channel is both OK
\* and bad, or both on and off, and the on list, the only one the safety
\* check and the register 39 of the RC follow, has only OK channels.
ListsConsistent ==
    /\ ch.ok \cap ch.bad = {}
    /\ ch.on \cap ch.off = {}
    /\ ch.on \subseteq ch.ok

\* A safety, power or recovery check is pending exactly while its request is
\* in the queue or being executed, and only one is: a flag left set by an
\* expired or blocked request would end the checks for good.
Outstanding(cmd) ==
    Cardinality({i \in DOMAIN queue : queue[i].cmd = cmd})
        + (IF job.cmd = cmd THEN 1 ELSE 0)
PendingAccounted ==
    \A cmd \in Checks \ {"check_channel_acquisition"} :
        Outstanding(cmd) = IF cmd \in pending THEN 1 ELSE 0

\* A channel that is up and is taken for an OK channel that is off: nothing
\* watches it.  Outside the commands that are waiting for its ramp or are about
\* to list it, a channel becomes hidden only because it was ramping when its
\* status was read (RUP counts as off in the recovery and in the scan, and the
\* next power check that reads UP finds it), or by the change of address of a
\* FEB, which does not read the status.
Hidden(c) == hw[c] = "UP" /\ c \in ch.ok \cap ch.off /\ c \notin job.wait
NothingHidden ==
    [][\A c \in Channels : Hidden(c)' /\ ~Hidden(c) =>
           \/ "RUP" \in {Reads(c), job.read}
           \/ job.cmd = "feb_change_address"]_<<hvVars, ramp>>

\* A channel of the on list that trips is found by the safety check, or by
\* another command, and leaves the list.
TripIsHandled ==
    \A c \in Channels :
        (hw[c] = "TRIP" /\ c \in ch.on) ~> (hw[c] # "TRIP" \/ c \notin ch.on)

=============================================================================
