# A TLA+ model of multiDAQ

multiDAQ runs a data acquisition from a server over a set of boards (multi-PMT
modules), each with a client process. This directory holds TLA+ modules of the
parts of it whose correctness depends on the order in which threads, messages
and failures come, the TLC configurations that check them on small instances,
and TLAPS proofs of the properties that carry most weight.

`PROJECT.json` lists the components, the runs, the mutants that each property
must catch, the source lines behind every definition, the hazards and the theorems.

## 1. The system

A **server** talks to each **board** over three ZeroMQ planes (ROUTER on the
server, DEALER on the board). There are no tests in the repository and no
documents besides a short README: docstrings and comments say what is meant.

| Component | State | Operations | Hard part |
|---|---|---|---|
| Server state (`server/core/server_state.py`) | server FSM, pending terminal state, pending configuration, one record per client with a state and its planes, the operational flag | `process_event`, `process_client_event`, add/remove per plane | any thread may call any operation between two others |
| Commands (`server/commands`, `startup_service`, orchestrators) | the local variables of a running command | connect, change_mode, reconfigure, force hv_sync, acquisition start/stop, scan, quit | they read the registry, talk to boards for seconds, then report |
| Web page (`server/web/web_app.py`) | a lock the CLI does not take | stop, quit, status | runs beside the CLI |
| Acquisition session (`acquisition_service.py`) | stop flag, session/acquiring/lost boards, completion event | open, start, enable, wait, disable, flush, reset, close | replies get lost, boards vanish and return |
| Client liveness (`client_liveness_service.py`) | announced and seen boards, reported losses | loss and admission on a plane | three I/O threads |
| Control handshake (both sides) | per-board session on the server, attempt on the board | hello, ready, startup_ack, end | retries, restarts, messages that outlive their attempt |
| MAC registry (`mac_id_registry.py`) | ids in memory and in a JSON file | lookup, registration, save | failed and cut writes |
| Request/reply (`common/reply_handler.py`) | table of waiters, outgoing queue | register, wait, deliver, cancel | loss and timeout against a reply |
| Receiver (`evreceiver.c`, `worker_dispatcher.c`) | a bounded queue and a file record per worker, delayed closes, the acknowledgement of an OPEN | OPEN, OPEN_READY, CLOSE, CLOSE_READY, producer commands, packets, SIGTERM | five kinds of threads, condition variables, late acknowledgements |
| Monitoring streams (`monitor_stream_service.py`) | who wants a section and how often, what the board was told, boards to reconcile | subscribe, unsubscribe, invalidate, reconcile | two I/O threads, a worker and the user around one lock, a board that restarts |
| Monitoring persistence (`monitor_persistence_service.py`, `monitoring_orchestrator.py`) | queue, pool of workers, buffers, files, counters, metadata | save start/stop, enqueue, flush, stop, configuration events | the same batch may be taken by a worker, the CLI or quit |
| Board HV service (`client/hardware/hv`) | six lists of channels, a priority queue, flags of queued checks, policy | HV commands, safety, power, recovery and acquisition checks | lists change between two channels of one command; accesses fail with unknown effect |
| Board runtime (`client/core`, `client/main.py`, handlers) | services, mode, RC19, producer, safe state | commands, modes, safe state, acquisition safe state, reconnection | a command outlives the connection that brought it |
| Metrics, parsing, drivers of RC, FEB and main board | registers, gauges | read and write | I/O |

How they interact: the CLI and the web thread call services, services queue
messages that the I/O thread of the plane sends, and wait at the `ReplyHandler`
for the reply that the same I/O thread delivers. The I/O threads also probe the
boards, and a loss calls `ClientLivenessService`, which changes the registry in
several steps, cancels the waiters and calls the listeners
(`AcquisitionService.on_client_lost`, the streams). Samples come in through the
dispatcher, which hands them to the persistence pool; the data of a run go to the
receiver, a process of its own that the server commands over a socket. A run is ended by a session thread of its
own. Only single calls on `ServerState` are atomic.

## 2. Modules

| Module | Models | Extends |
|---|---|---|
| `ServerState` | FSM and registry, one action per accepted (or half applied) call | - |
| `ServerLifecycle` | CLI, web, I/O and session threads around the FSM | `ServerState` |
| `SessionStop` | start, stop and quit of a run with their flags | `ServerState` |
| `AcquisitionSession` | one session after the other on the hardware | - |
| `ClientLiveness` | three I/O threads losing and admitting a board | - |
| `ControlHandshake` | board and server handshake over FIFO wires | - |
| `MacRegistry` | numeric ids, memory and file | - |
| `ReplyHandler` | waiters, callers, queue, I/O thread | - |
| `MonitorPersistence` | queue, workers, buffers, files, metadata, save start/stop | - |
| `SubscriptionBook` | abstract: who wants samples, changed only by orders | - |
| `MonitorStreams` | one stream of one board, all its threads and the wire | `SubscriptionBook` as `Book` (refinement) |
| `Receiver` | the threads of `evreceiver` and the server's stop of it | - |
| `HvService` | channel lists, HV thread, checks | - |
| `BoardRuntime` | command threads, modes, safe states around the HV service | `HvService` |
| `ServerProofs` | theorems about `ServerState`, `ServerLifecycle` and `SessionStop`, which share one registry | these three, TLAPS |
| `ControlPlaneProofs` | theorems about `ControlHandshake`, `MacRegistry` and `ReplyHandler` | these three, TLAPS |
| `BoardRuntimeProofs` | theorems about `BoardRuntime` and the `HvService` inside it | `BoardRuntime`, TLAPS |
| `*Proofs` | theorems about the module of the same name | that module, TLAPS |
| `MC*` | symmetry, views, constraints and the liveness restriction for TLC | their module |

### ServerState
`client_state`, `acquisition`, `monitoring` and `operational` are the fields of
the client records ("absent": no record). A rejected event changes nothing and is
no action, with one exception: a `CONFIGURATION_STARTED` whose targets are
refused has already stored `pending_configuration_source`
(`ConfigurationStartRejected`). `ConfigurationSucceeded` includes the removal of
boards lost meanwhile and the turn into a failure when none is left. The
arguments of an event are any sets of boards, more than the callers pass.

### ServerLifecycle
`cli` is the command that runs and its locals (`targets` read before the event,
`todo`, `ok`); `io` the place of each I/O thread inside a loss; `session` the
session threads. A command is its reads, its event, one step per board, and its
report; each is a step of its own, because other threads run between them. What
board replies say is a free choice. The checks a start can fail at
(`acquisition_orchestrator.py:86`, `:292`) are one refusal, and the session and its
thread can always be made. The monitoring plane does not touch the FSM and is left
out here.

### SessionStop
The same FSM with one run at a time in full detail of `_stop_requested`,
`_session_complete_event` and the FSM reads of `stop`, which act on what they
read. Boards do not get lost in this module.

### AcquisitionSession
A command to a board or to the receiver is confirmed or has an unknown outcome.
An RC19 write that timed out may still wait at the board (`late`); a later
confirmed command to that board comes behind it. `notifying` holds boards the
registry has lost and whose listener has not run yet.

### ClientLiveness
Each plane's thread takes a loss or a hello through its steps; the reads of the
three planes by `handle_client_plane_connected` are three steps. While `connect` runs
the messages of an announcement are suppressed (`_connecting`): output only, left out.

### ControlHandshake
A message is its phase and the attempt it belongs to (the request ids of the
code identify no more). The wires are FIFO and keep what a board sends before the
server listens, as a DEALER socket does. When a board starts over, its old socket drops
what it still holds, but not what the server's ROUTER has received: `BoardRestart` keeps
any prefix of the wire to the server, and `former` counts the messages of the former
life on it. An answer of the server to a connection that is gone is lost. `Fresh` gives
a new attempt a name that no message or session carries: the code uses a UUID.

### MacRegistry, ReplyHandler
`Current` is the registry in force after the lazy load. `trouble` records that a
save failed or was cut. In `ReplyHandler`, `blind` marks calls that registered
their waiter after their board was already off the plane; `in_time` replies
that came while the call was on.

### MonitorPersistence
An item is its dataset and its number in the order of acceptance; what is written,
dropped and given up without a counter are sets of numbers, so that the accounting
properties can speak of each item. `job[t]` holds the batches thread `t` has taken
and not yet written: taking a batch, taking the lock of the file and writing are
three steps. The metadata of the board have a copy in memory, one on disk and one
inside a transaction (`transaction`); `missed` records that a change could not be
followed: its event was lost on the way (the board drops it when its monitoring plane is
down, when a send fails and when it clears its queues), or there was no answer, no
timestamp or a failed write. The conversion of a sample to
rows works or fails.

### MonitorStreams and SubscriptionBook
`stream` is the entry of `_streamers`; interval 0 is `None`. Under the producer lock
the CLI or the worker changes the stream and sends the command the new interval
calls for; only the monitoring I/O thread moves commands from the queue to the wire
and replies back, and it is also one of the two threads that invalidate the stream
when the board is lost, which needs the same lock. `config` is what the board does.
`SubscriptionBook` is what the users of a stream are promised: an order is granted as
a whole or refused as a whole, and nothing else changes the book. The mapping shows
the book before the order while an order is under way, because a failed command
restores it.

### Receiver
A wait on a condition variable is two steps, test and sleep, because the main thread
broadcasts at the end without the lock: a thread in between misses it, and the
server's kill after 5 s is what ends the process then. A file is named by the number
of the command that opened it (its chunks are one file here), an event by its packet
and place. `damaged` holds files on which an access failed, after which the code
promises nothing about them; writing to a chunk that could not be opened crashes the
process, and after a rollover that failed the rest of the packet may stay in the buffer
of a source without a file. After a packet of the wrong size, or one for which there is
no memory, the receive thread has not left the loop over its frames: it waits there,
outside the poll, and takes the next payload for one of the same source (`misframed`).

### HvService and BoardRuntime
A command of the HV thread goes over its channels one at a time, and each access
works, fails without effect, or fails with effect. `ch` are the six lists, `hw` what
the channels really do. Checks are queued by two threads if their flag is clear.
Voltages are left out. A channel that is switched on ramps (`ramp`) and reads RUP, which
also stands for TUP and TDN, until it is at its voltage: the recovery and the scan list it
as off then, until a power check reads UP. A ramp down counts as its end. The recovery
changes the lists in two sections of the lock, as the code does, with the status read
before the first; `SetFixedBad` is one step for all its channels. `BoardRuntime` adds
the steps of `enter_safe_state`, of the acquisition safe state and of the three modes
with every early return; `quiet` is a history variable: no other thread has worked
against the safe state since it began. At the start the previous client may have
left channels on.

## 3. Runs

States and times are of a two-worker run.

| Run | Instance | Checks | Result |
|---|---|---|---|
| MCServerLifecycle | 2 boards, 1 session thread | registry and FSM agree (`RegistryConsistent`); board states follow the server; a run is abandoned only by a crashed scan; the flag comes only from a configuration; a shutdown is honoured; a partial batch leaves others alone; a result is refused only behind a stale board | 2.6 M states, 3 min |
| MCAcquisitionSession | 2 boards | data has a file; a success is clean | 2.0 M states |
| MCRunEnds | 2 boards, one session | a stopped or deserted session ends | |
| MCSessionStop | 2 boards, 2 session threads | one owner per run; an insistent stop works | |
| MCClientLiveness | 1 board, 3 planes | returns are announced; no plane without control | 258 k states |
| MCMacRegistry | 3 boards | ids distinct; ids for life | |
| MCReplyHandler | 1 board, 2 requests | no leak, no missed reply, no caller left waiting | |
| MCControlHandshake | 2 boards, 2 ids, 3 attempts | unique ids; only connected boards admitted, but for a conclusion sent in a former life; with a timely server a board with nothing stale gets in | 989 k states, 2 min |
| MCMonitorPersistence | 2 workers, queue of 1, batch of 2 | each item in one place; stop drains; files sound; flush complete but for a batch already due; metadata agree unless a change was missed | 1.0 M states |
| MCMonitorStreams | 1 consumer, 2 intervals, 2 faults | belief is reality; no forgotten return; implements `SubscriptionBook`; a wanted stream comes back | 351 k states |
| MCReceiver | 1 source, 1 worker, queue of 1 | answers are true; no stale close; nothing accepted is lost; every command is answered; a stop ends | 361 k states |
| MCBoardRuntime | 1 channel, 1 command thread | lists and flags consistent; safe means off; a channel becomes hidden only by a read during its ramp or a change of address; a trip is handled | 1.3 M states, 3 min |

Invariants that belong together are checked as one conjunction of named parts, with
the type invariant among them: `RegistryConsistent`, `LifecycleConsistent`,
`SessionConsistent`, `StopConsistent`, `PlanesConsistent`, `ItemsAccounted`,
`MetadataConsistent`, `StreamConsistent`, `QueuesConsistent`, `BoardConsistent`. The
types of `MacRegistry` and `ReplyHandler` are part of what is proved about them.
`MCControlHandshakeTypes.cfg` (module `ControlHandshake`) checks the types of the handshake.
`MCServerState.cfg` checks the registry alone, with arguments no caller passes, in a
few seconds (13 k states). `MCReceiverTwoSources.cfg` (module `MCReceiver`) checks the
invariants of the receiver with two sources, where a mis-framed packet is taken for the
other one (2.8 M states).

Bounds. Two boards are enough for one to fail while another does not, for a batch
with a board outside, and for two boards with one id; the boards are
interchangeable, so `MCServerLifecycle` and `MCAcquisitionSession` use symmetry (never
with a liveness property). `VIEW WithoutHistory` hides history variables that guard
no action and that no property of that run reads. `Sessions` bounds the session
threads that exist at one time; two are needed for runs that overlap. One board is
enough for `ClientLiveness`, whose sets are indexed by the board. Two requests show a
reply and a cancellation that must not touch each other. Three attempts are one more
than the messages of `MaxStale = 1` stale attempt can name; `MaxRestarts = 1` allows
one restart of a board at any point, with any of its messages already delivered.
`MacRegistry` is finite because a lookup registers each MAC once.

In `MCMonitorPersistence` a queue of one item is full after one, a batch of two makes
a partial and a full batch, and the two workers, the CLI and quit are four threads on
one file; the user saves one dataset, of samples or of events. `PoolOrChanges` keeps
the two halves of the module apart that meet only in the CLI: the register changes
while the pool is down and before the first item, or not at all. Two changes
(`MaxChanges = 2`) are one that is lost and one that is not. `MCMonitorStreams` allows
a restart during the reconciliation of an earlier loss (`MaxFaults = 2`) and a second command after a
first of unknown effect (`MaxCalls = 2`; when the bound is spent a start can only
fail at once, as for a board whose clock is not synchronized, and must be reported); with one
consumer every order changes the interval. In `MCReceiver` one worker makes commands, packets and delayed closes
compete for one queue of one item; two commands are an OPEN and its close or the
next OPEN, packets of five events roll a file of two over more than once, and
`StopIsACommand` lets SIGTERM take the place of the last command. In `MCBoardRuntime`
all lists and properties are per channel and the commands of two channels meet only
in the order of the queue, so one channel is checked; `MaxEvents = 2` is a command
and a loss, two commands or two losses, `MaxFaults = 1` one failed access, expired
request or trip anywhere. Ramps end and begin freely.

Fairness. `RunEnds`: the session thread goes on because each of its commands has
a timeout, and I/O threads do not block in callbacks; nobody has to stop a run
and no duration has to elapse. The liveness instance leaves out late writes,
unconfirmed CLOSEs and unexpected exceptions (which decide what a step records,
not whether there is one). `FairStopSpec`: the CLI, web and session threads finish
what they began. `InsistentStopSpec` adds a user who repeats the stop, which is
the work-around for the lost one. `TimelySpec`: the server listens some day, its
I/O thread reads and answers before the board's 20 s are over, and no send fails;
it is the most favourable environment, and a board still may not get in.

The other liveness properties:

- `CleanBoardGetsIn`: `MCControlHandshake` chooses at the start whether the server is
  timely, and only such behaviours are fair; the others may do anything.
- `WantedComesBack`: a stream that is wanted by a board on the plane and does not run
  runs again or is reported, unless the board is lost or the user gives it up. The
  threads go on (weak fairness); the worker and the I/O threads
  need a lock that others hold for one command at a time, so that it is free again and
  again: strong fairness. A command that nobody answers times out.
- `CommandAnswered`, `StopEnds`: each thread of the receiver goes on, the grace time
  of a delayed close ends, and the server kills a process that has not ended in 5 s.
  Packets and commands need not come.
- `TripIsHandled`: the HV thread executes what is queued and the thread of the safety
  check comes round. The queue is by priority, and the bound on commands stands for
  a server that does not send for ever.

Deadlock is checked except where everything may have been done: boards that are all
connected, a receiver that has ended, a bounded number of commands and faults that
has been spent.

## 4. Where the code departs from what it says

Each of these has a configuration beside the runs that states one property, for
which TLC gives a counterexample (`tlc -config X.cfg M`):

| Configuration, module | What the code says | What happens |
|---|---|---|
| `MCStopLost`, `SessionStop` | "Stop requested; finalization is running in the background." (`acquisition_orchestrator.py:478`) | a web stop between `ACQUISITION_STARTED` and `begin_session` is wiped; the server stays FINALIZING until the duration ends |
| `MCBoardGetsIn`, `ControlHandshake` | "retrying until success" (`client/communication/control_manager.py:435`) | after one timed-out hello each attempt reads the answer of an earlier one; the acquisition plane's handshake skips such answers, the control plane's does not |
| `MCFailureNeverBlocksOthers`, `MCServerLifecycle` | "A failure on one client never blocks the others" (`startup_service.py:12`) | a result reported between the steps of one board's loss is rejected as a whole, and the fallback puts all boards in ERROR |
| `MCConfigurationConcludes`, `MCServerLifecycle` | "(or back to CONNECTED if every client fails)" (`startup_service.py:10`) | the failure path ignores a rejection by the FSM, which stays CONFIGURING behind a board of an interrupted batch |
| `MCLeftOutStaysOut`, `MCServerLifecycle` | "the client is excluded from the next acquisitions" (`acquisition_orchestrator.py:456`) | the server is READY before the exclusion |
| `MCRunHasOwner`, `MCServerLifecycle` | "use 'acquisition stop' to abort early" (`calibration_orchestrator.py:176`) | an exception in the scan loop leaves ACQUIRING with nobody to end it |
| `MCFilesClosed`, `MCAcquisitionSession` | "Clients still alive: complete finalization. Lost clients: only what the server can do." (`acquisition_service.py:1484`) | a board forgotten during the finalization has no numeric id any more, and no CLOSE is sent |
| `MCLostNeverSuccess`, `MCAcquisitionSession` | "The file of a lost client is partial: never a success" (`acquisition_service.py:1497`) | the listener runs after the sets of the session were reset; the board returns before its finalization |
| `MCAnnouncedIsComplete`, `ClientLiveness` | "Clients found complete ... since their last loss" (`client_liveness_service.py:22`) | the planes are read outside the lock; the next return is then not announced |
| `MCFlushWaitsForWrites`, `MCMonitorPersistence` | "Flush residual partial batch and wait for any write already in flight." (`monitoring_orchestrator.py:2010`) | a worker that has taken a full batch and not yet the lock of the file is not waited for: its rows come after save_stop has reported |
| `MCIoNeverWaits`, `MonitorStreams` | "it must not wait for the network" (`server/main.py:317`) | the I/O thread waits for the producer lock of a caller that waits for a reply this thread has to deliver, until the timeout |
| `MCOthersStayOff`, `BoardRuntime` | "Only the channels sent by the server are configured and powered: the others ... stay off." (`acquisition_service.py` of the board) | the acquisition recovery switches on every channel of its list, with parameters or not |

Passing runs say what does hold instead: `StopEndsRun` with a repeated stop,
`CleanBoardGetsIn`, `RefusedOnlyBehindStale`, `RunAbandonedOnlyByScan`,
`SuccessIsClean`, `CompleteIsAnnounced`, `FlushedUnlessDue`, `WantedComesBack`.

More that the models follow as they are: a `handshake_end` the server had received when
its board started over admits the board, which is not connected (`AdmittedIsConnected`
names the case; the new attempt admits it again); a change event the board drops is not
repeated, and the metadata stay wrong; CLOSE_READY is answered with OK after a failed
rollover although events are in the buffer (`evreceiver.c:1657`); a bad channel that is
recovered while it ramps up is listed as off (`hv_interface.py:1263`), and no check
watches it until a power check reads UP; the flag of the acquisition check of
the HV service is never reset, so the recovery of channels is queued once; and a
switch-on queued before the connection is lost is executed after the EMERGENCY off of
the safe state, which is why `SafeMeansOff` speaks of safe states nothing worked
against.

## 5. Proofs

The theorems are of the form `Spec => []P`, `Spec => [][A]_vars` or
`Detailed => Abstract`, for every value of the constants: any boards, threads, queue
sizes, attempts and bounds. They assume what the modules assume of their constants
and nothing else: `ReceiverAssumption` (sizes and bounds are numbers, every source has
a worker), `StreamsAssumption` (intervals are positive, and `None` is neither a
consumer, a thread nor an order), `PersistenceAssumption` (sizes are positive, samples
are not events, the workers are finitely many and neither the CLI nor quit),
`NoneAssumption` (`None` is no dataset, thread, item, register or metadata),
`ChannelsAreNumbers` (the HV channels are natural numbers, as the code sorts them),
`FaultsAssumption` and `EventsAssumption` (the bounds are numbers), `CallersAssumption`
(who waits for a reply of the HV thread is a command thread or the safe state) and
`CommandsAssumption` (the server sends HV commands, and no check, for which it has no
name). TLC evaluates them in the runs.

Hardly any of the invariants is inductive. Each module states the invariant that is.
TLC has checked those of `MonitorStreams`, `Receiver`, `MonitorPersistence` and
`BoardRuntime` on the instances of the runs as well (in that of `MonitorPersistence`
the two quantifiers of `Split` that have no bound range over the numbers that occur).

| Proof module | Theorem | Property of the runs | Inductive invariant |
|---|---|---|---|
| `ServerProofs` | `RegistryIsConsistent`, `ShutdownSurvives`, `FlagOnlyByConfiguration`, `OutcomeForEveryTarget`, `PartialIsPartial` | `RegistryConsistent`, `ShutdownHonoured`, `OperationalOnlyByConfiguration`, `EveryTargetGetsOutcome`, `PartialKeepsOthers` | `RegistryConsistent` itself |
| | `LifecycleImplementsServerState` | `LifecycleSpec => Spec` | `LifecycleInv` |
| | `LifecycleIsConsistent`, `RunNeverAbandoned`, `RefusedBehindStale` | `LifecycleConsistent`, `RunAbandonedOnlyByScan`, `RefusedOnlyBehindStale` | `LifecycleInv` |
| | `EveryRunIsOwned` | `StopConsistent` | `StopInv` |
| `ClientLivenessProofs` | `PlanesAreConsistent`, `NoReturnMissed` | `PlanesConsistent`, `CompleteIsAnnounced` | `Inv` |
| `AcquisitionSessionProofs` | `SessionIsConsistent`, `ReportedIsClean` | `SessionConsistent`, `SuccessIsClean` | `SessionInv` |
| `MonitorStreamsProofs` | `StreamsAreConsistent`, `BookIsKept` | `StreamConsistent`, `BookKept` | `StreamsInv` |
| `ReceiverProofs` | `QueuesAreConsistent`, `AnswersAreTrue`, `FilesAreComplete` | `QueuesConsistent`, `ReplyIsTrue`, `FileComplete` | `ReceiverInv`, for `ReplyIsTrue` also `BufferOK` |
| `MonitorPersistenceProofs` | `SpecItemsAccounted`, `SpecStopDrains`, `SpecFileIsSound`, `SpecFlushedUnlessDue`, `SpecMetadataConsistent` | `ItemsAccounted`, `StopDrains`, `FileIsSound`, `FlushedUnlessDue`, `MetadataConsistent` | `PersistenceInv` |
| `BoardRuntimeProofs` | `SpecBoardConsistent`, `SpecSafeMeansOff`, `SpecNothingHidden` | `BoardConsistent`, `SafeMeansOff`, `NothingHidden` | `BoardInv`, for `NothingHidden` also `ReadIsTrue` |
| `ControlPlaneProofs` | `IdsDistinct`, `IdsStable` | `DistinctIds`, `IdsForLife` | `RegistryInv` |
| | `NoWaiterLeaks`, `RepliesReturned`, `LossWakesCallers` | `NoLeak`, `ReplyInTimeIsReturned`, `LostClientWakesCallers` | `RepliesInv` |
| | `IdsUnique` | `UniqueMultipmtIds` | that property |
| | `AdmissionIsMutual` | `AdmittedIsConnected` | `HandshakeInv` |

How the arguments go:

- **ServerState.** `RegistryConsistent` is the conjunction of the type invariant,
  `OperationalOnBothPlanes`, `PlanesNeedControl`, `PendingOnlyWhileFinalizing` and
  `ConfiguringNotOperational`, and it is inductive: the flag is cleared with the plane,
  so the first needs the second; the third is needed to know what a finalization does.
  One lemma per conjunct goes through the actions; `TableFacts` gives what is needed of
  the transition table. The action properties follow from it and each action.
- **ServerLifecycle.** Every step of a thread is a step of `ServerState` or leaves the
  registry alone (`LifecycleServerStep`), which is the refinement and brings
  `RegistryConsistent` along. `LifecycleInv` adds what the locals of the threads can be
  (a command reports only boards it has read as its targets) and `RunHasRunner`: in
  ACQUIRING a session thread that is only closing does not count, since the
  finalization event it sends may come too early and change nothing. That is stronger
  than `RunAbandonedOnlyByScan`.
- **SessionStop.** `OwnershipOK`: the run has an owner exactly while the FSM is in it,
  and a thread about to send the end of the finalization finds the FSM FINALIZING, so
  its event is never lost. `StopEvents` says what the events of these threads do.
- **ClientLiveness.** `CompleteIsAnnounced` says nothing while a thread handles the
  board; `CompleteIsSeen` does: somebody is announcing it. `Discard` keeps it because
  the thread that discards has taken the board off its own plane and is the only one
  that could put it back (`DiscardedIsOff`).
- **AcquisitionSession.** One board at a time is being started, and its channels are
  off, in its queue too, until its producer runs (`StartOK`, `HardwareOK`);
  `FinalOK` says what each loop of the finalization has done to the boards it has
  visited.
- **MonitorStreams.** Commands and replies travel in the order of their numbers
  (`PipeOK`), so the reply to the last command means that nothing is behind it; a board
  that was away is found out before its stream is relied on (`BeliefOK`); somebody
  still looks at a stream that is missing (`ReturnOK`), also while an order has the book
  changed and may yet put the former record back. `BookIsKept` is the refinement of
  `SubscriptionBook`: each step is an order granted, an order refused, or a stutter.
- **Receiver.** What a worker has in hand and what is on its queue are taken as one
  sequence (`Queued`): taking a batch leaves it as it is, a worker only shortens it at
  its head (`Handled`), the other threads only append (`Fits`). What is appended is the
  newest command of its source (`NumbersOK`, `CloseIsFresh`), which gives
  `NoStaleClose`. One token is waited for, and behind its item there is nothing of the
  source but data (`AckOK`), so an acknowledgement with that token speaks of the state
  the OK is about. An entry of the table of delayed closes is freed only when its item
  is queued (`ClosingOK`). The numbers of files differ (`FilesDiffer`), so that a buffer
  belongs to one file (`DataOK`). Without a damaged file, a source without a file has an
empty buffer (`BufferOK`, inductive beside `ReceiverInv`), which is the last clause of
`ReplyIsTrue`. What a mis-framed packet is taken for matters to none of it: its events
are accepted for the file that is open then.
- **MonitorPersistence.** `PersistenceInv` is `StoreInv`, about items, threads and files,
  and `MetaInv`, about commands and metadata; the second is inductive by itself, the
  first needs it to know that save_stop works on a dataset that is switched off, so that
  nothing is accepted behind its back (`SavedOK`). That each item is in one place is
  stated by membership (`Split`): a step takes one number, or the numbers of one
  sequence, from one of seven sets to another (`HandsLeave`, `JobsMove`, `BatchSettles`),
  and sequences without repetition need no count (`AppendOnce`, `TailOnce`,
  `ConcatOnce`, `PrefixOnce`). Only the pending count needs cardinalities: one more and
  one less. A file stays sound because the thread that writes to it holds its lock and
  what it knows of the file stays true meanwhile (`LocksOK`), and because a batch shares
  no item with what was written or dropped (`FilesOK` and `Split`). `ServiceOK` is what
  joining the queue buys: from then on nothing is queued, held or buffered.
  `TransactionOK` ties the copy inside a transaction to the file it has or has not
  replaced, and `CurrentOK` follows a register from the board to the metadata, as long as no change
was missed.
- **BoardRuntime.** The lists stay consistent because each move of a channel keeps them
  so from any lists (`Sound`, `MovesAreSound`), whichever thread makes it in between.
  The flags are stated without counting (`Flags`: set exactly while a request is there,
  and there is one), which is what a step that inserts or removes a request can keep;
  `FlagsAreCounts` gives the cardinalities of `PendingAccounted` back. `SafeMeansOff`
  speaks of the last step of a safe state, so `QuietSafe` says what each place of it
  has reached while nothing worked against it: `HasSwitchedOff` follows its request
  from the queue to the job and to the reply, where every channel is off, still to be
  done, failed or skipped, and the skipped ones become those of the second request;
  `HasStopped` does the same for producer, RC19, link and mode. That needs the reply
  to be the answer to its own request, also after a timeout (`OneSafeRequest`), a
  process that is spawned and unrecorded to have a busy thread, which is work against
  the safe state (`SpawnedIsRecorded`), and the service to stay (`ServiceStays`). A
  command that does not energise leaves a channel that is off as it is (`OffStaysOff`):
  the checks that run beside the safe state cannot undo it. `NothingHidden` is about
  a step: it touches one channel (`ChannelStepOthers`) and shows, keeps or waits for
  it (`ChannelStepShows`), where `WaitAfterwards` excludes that a channel being waited
  for is handled again. Between the two sections of a recovery the channel may change:
  `ReadIsTrue` says that a channel that is up there was read as UP, or during a ramp,
  because nothing but a command of the HV thread switches a channel on.
- **MacRegistry.** Ids in memory and in the file are distinct and at most the index (so
  the next is new), and without trouble the file holds what is in memory and what was
  given is what the registry says.
- **ReplyHandler.** A waiter leaves the table before its call ends only with an error;
  replies in time reached their waiter or found it cancelled; waiters of a lost board
  leave with its cancellation.
- **ControlHandshake.** `UniqueMultipmtIds` is inductive because the id is validated
  again in the step that admits the board. It needs no assumption on the constants:
  not even attempts that can be told apart.
  `AdmittedIsConnected` is about a step, so it needs an invariant of what is on the
  wires (`HandshakeInv`): a conclusion is under way only while its board is connected, or
  it is among the first `former` messages of the wire, because the board leaves that
  state only by starting over, which makes all that is left on the wire former.

Only model-checked:

- all liveness (`RunEnds`, `StopEndsRun`, `CleanBoardGetsIn`, `WantedComesBack`,
  `CommandAnswered`, `StopEnds`, `TripIsHandled`): it needs fairness and ENABLED,
  which are out of the prover's reach.

Every other property of the runs is stated by a theorem. The properties of section 4
are about what the code does not keep; TLC shows the counterexamples.

## 6. Not modelled, and the plan

Every module of the table in section 2 is written, checked and proved about. The order
was: the server's FSM and the threads around it, the session on the hardware, the
connections (liveness, handshake, ids, replies), the monitoring, the receiver, and the
board. What a next step would take up is the list that follows, from the top.

Not modelled, and open:

- the points of a scan inside `AcquisitionSession` (the stop flag set by the loss of
  all boards of a point is not cleared for the next, `calibration_orchestrator.py:183`),
  trigger and HV preparation of a run;
- the retries of the board's acquisition handshake: a board that believes it is
  connected while the server has expired its control session repeats the acquisition
  hello for ever (`client/main.py:87`);
- start, health check and restart of the receiver process, and the order in which
  `shutdown_service.py` stops the services (it waits on `_session_complete_event`, which
  the thread of the run before may set);
- the exchange of time-synchronization messages, snapshots on request and the loop of
  the board that samples a section;
- the join of the board's old command thread, which waits 2 s
  (`client/communication/acquisition_manager.py:485`).

Left out for good: metrics and dashboards (projections of samples), channel selection
and message validation (set expressions and field checks without state), argument
parsing and printing, register drivers of RC, FEB and main board (pure I/O; what they
decide for the HV appears as RC19, the data mode and failures), configuration files.
