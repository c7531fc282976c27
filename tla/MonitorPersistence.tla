-------------------------- MODULE MonitorPersistence --------------------------
(***************************************************************************)
(* The monitoring data on disk (server/services/                            *)
(* monitor_persistence_service.py) and the commands that switch it on and  *)
(* off (save_start and save_stop of monitoring_orchestrator.py).           *)
(*                                                                         *)
(* A dataset is what one file holds: the samples of a board and a section, *)
(* or the events of a board.  The dispatcher threads enqueue items, a pool  *)
(* of workers moves them to a buffer per dataset and writes a buffer that  *)
(* is full or old enough; the CLI and quit flush buffers as well.  An item *)
(* is its dataset and its number in the order of acceptance.  The metadata *)
(* of the board is a second file, written by the CLI and by the thread of  *)
(* the events.                                                             *)
(***************************************************************************)
EXTENDS Integers, Sequences, FiniteSets, SequencesExt

CONSTANTS
    Samples,           \* datasets of periodic samples
    Events,            \* datasets of events
    Workers,           \* PERSISTENCE_WORKERS
    QueueSize,         \* PERSISTENCE_QUEUE_MAXSIZE
    BatchSize,         \* PERSISTENCE_BATCH_SAMPLES
    MaxItems,          \* bound: items accepted per dataset
    MaxChanges,        \* bound: changes of the board's configuration
    MaxDatasets,       \* bound: datasets the user ever saves
    None

Keys == Samples \cup Events
Writers == Workers \cup {"cli", "quit"}
Formats == {"csv", "parquet"}
Header == 0            \* the header line of a file, whose items are numbered from 1
Unknown == 0           \* a register that could not be read

ASSUME PersistenceAssumption ==
    /\ QueueSize \in Nat \ {0} /\ BatchSize \in Nat \ {0}
    /\ MaxItems \in Nat /\ MaxChanges \in Nat /\ MaxDatasets \in Nat
    /\ Samples \cap Events = {} /\ {"cli", "quit"} \cap Workers = {}
    /\ IsFiniteSet(Workers)

\* What is held, locked and kept; None is none of these.
Numbered == [key : Keys, n : Nat \ {0}]
Metadata == [on : SUBSET Keys, current : Nat, history : Seq(Nat \X Nat)]
Transactions == [by : {"cli", "events"}, step : {"write", "commit"}, copy : Metadata]

ASSUME NoneAssumption ==
    /\ None \notin Keys /\ None \notin Writers /\ None \notin Nat
    /\ None \notin Numbered /\ None \notin Metadata /\ None \notin Transactions

VARIABLES
    service,           \* "down", "up", or "draining" (_running off, workers on)
    stop_event,        \* _stop_event
    stream,            \* per dataset: prepared or not, enabled, save_format
    accepted,          \* samples_enqueued / events_enqueued
    pending,           \* queue_pending
    queue,             \* persistence_queue
    buffer,            \* _buffers and _event_buffers
    worker,            \* per worker: its step and the item it holds
    job,               \* per writing thread: batches to write, the one at hand
    write_lock,        \* holder of the write lock of the dataset, or None
    file,              \* content of the dataset's file, header included
    written, dropped,  \* the items the counters of the dataset count
    uncounted,         \* items given up without being counted
    subscribed,        \* sample datasets subscribed at the stream service
    selected,          \* sample dataset the dispatcher has found due, or None
    cli, quit          \* the threads of save_start/save_stop and of stop
store == <<buffer, file, written, dropped, uncounted>>
intake == <<stream, accepted, pending, queue>>

VARIABLES
    register,          \* the configuration register of the board
    changes,           \* its change events on their way
    metadata,          \* _client_metadata of the board, or None
    disk,              \* metadata.json, or None
    transaction,       \* holder of the transaction lock and its copy, or None
    recorder,          \* the event thread inside record_configuration_change
    missed             \* a change the metadata has not followed
meta == <<register, changes, metadata, disk, transaction, recorder, missed>>
vars == <<service, stop_event, intake, worker, job, write_lock, store,
          subscribed, selected, cli, quit, meta>>

NoBatches == [k \in Keys |-> <<>>]
IdleJob == [step |-> "idle", key |-> None, format |-> "csv", fresh |-> FALSE,
            due |-> NoBatches, ok |-> TRUE]
IdleCli == [pc |-> "idle", key |-> None, format |-> "csv", read |-> None]

Init ==
    /\ service = "down" /\ stop_event = FALSE
    /\ stream = [k \in Keys |-> [known |-> FALSE, enabled |-> FALSE, format |-> "csv"]]
    /\ accepted = [k \in Keys |-> 0] /\ pending = [k \in Keys |-> 0]
    /\ queue = <<>>
    /\ buffer = NoBatches
    /\ worker = [w \in Workers |-> [pc |-> "off", item |-> None]]
    /\ job = [t \in Writers |-> IdleJob]
    /\ write_lock = [k \in Keys |-> None]
    /\ file = [k \in Keys |-> <<>>]
    /\ written = [k \in Keys |-> {}] /\ dropped = [k \in Keys |-> {}]
    /\ uncounted = [k \in Keys |-> {}]
    /\ subscribed = {} /\ selected = None
    /\ cli = IdleCli /\ quit = "idle"
    /\ register = 1 /\ changes = <<>> /\ metadata = None /\ disk = None
    /\ transaction = None /\ recorder = None /\ missed = FALSE

------------------------------------------------------------------------------
(* Intake *)

\* put_nowait: an item that the full queue refuses only adds to samples_dropped
\* (or events_dropped), which counts items of no other kind here.
Accept(k) ==
    /\ accepted[k] < MaxItems
    /\ IF Len(queue) < QueueSize
       THEN /\ queue' = Append(queue, [key |-> k, n |-> accepted[k] + 1])
            /\ accepted' = [accepted EXCEPT ![k] = @ + 1]
            /\ pending' = [pending EXCEPT ![k] = @ + 1]
       ELSE UNCHANGED <<queue, accepted, pending>>

\* dispatch: the subscriptions that are due are read first.
SelectSample(k) ==
    /\ selected = None /\ k \in subscribed
    /\ selected' = k
    /\ UNCHANGED <<service, stop_event, intake, worker, job, write_lock, store,
                   subscribed, cli, quit, meta>>

\* enqueue_sample: refused when the service or the stream is off.
EnqueueSample ==
    /\ selected # None
    /\ IF service = "up" /\ stream[selected].enabled
       THEN Accept(selected) ELSE UNCHANGED <<accepted, pending, queue>>
    /\ selected' = None
    /\ UNCHANGED <<service, stop_event, stream, worker, job, write_lock, store,
                   subscribed, cli, quit, meta>>

\* enqueue_event, which returns early unless all of this holds.
EnqueueEvent(k) ==
    /\ k \in Events /\ service = "up" /\ stream[k].enabled
    /\ Accept(k)
    /\ UNCHANGED <<service, stop_event, stream, worker, job, write_lock, store,
                   subscribed, selected, cli, quit, meta>>

------------------------------------------------------------------------------
(* Writing batches: _write_batch and _write_event_batch *)

Batches(due) == {k \in Keys : due[k] # <<>>}

MarkWritten(k, items) ==
    written' = [written EXCEPT ![k] = @ \cup items] /\ UNCHANGED dropped
MarkDropped(k, items) ==
    dropped' = [dropped EXCEPT ![k] = @ \cup items] /\ UNCHANGED written

\* On to the lock of the file; the format is read before it is taken.
Approach(t, k) ==
    /\ job' = [job EXCEPT ![t].step = "lock", ![t].key = k, ![t].format = stream[k].format]
    /\ UNCHANGED store

WriteBatch(t, k) ==
    /\ k \in Samples /\ job[t].step = "idle" /\ k \in Batches(job[t].due)
    /\ Approach(t, k)
    /\ UNCHANGED <<service, stop_event, intake, worker, write_lock, subscribed,
                   selected, cli, quit, meta>>

\* The batch is given up.
GiveUp(t, k) == job' = [job EXCEPT ![t].due[k] = <<>>, ![t].ok = FALSE]

\* _mark_events_dropped, for a format that is not implemented.
DropEventBatch(t, k) ==
    /\ stream[k].format # "csv"
    /\ MarkDropped(k, ToSet(job[t].due[k])) /\ GiveUp(t, k)
    /\ UNCHANGED <<buffer, file, uncounted>>

\* _resolve_event_path: the folder of the board cannot be made, and no counter
\* is touched.
ResolveEventPathFails(t, k) ==
    /\ stream[k].format = "csv"
    /\ uncounted' = [uncounted EXCEPT ![k] = @ \cup ToSet(job[t].due[k])]
    /\ GiveUp(t, k)
    /\ UNCHANGED <<buffer, file, written, dropped>>

WriteEventBatch(t, k) ==
    /\ k \in Events /\ job[t].step = "idle" /\ k \in Batches(job[t].due)
    /\ \/ stream[k].format = "csv" /\ Approach(t, k)
       \/ DropEventBatch(t, k)
       \/ ResolveEventPathFails(t, k)
    /\ UNCHANGED <<service, stop_event, intake, worker, write_lock,
                       subscribed, selected, cli, quit, meta>>

\* Mutant: the header is decided before the lock is taken.
LockFileUnlocked(t) ==
    LET k == job[t].key IN
    /\ job[t].step = "lock"
    /\ write_lock' = [write_lock EXCEPT ![k] = t]
    /\ job' = [job EXCEPT ![t].step = "write", ![t].fresh = file[k] = <<>>]
    /\ UNCHANGED <<service, stop_event, intake, worker, store, subscribed,
                   selected, cli, quit, meta>>

\* Under the lock of the dataset: is the file there yet?
LockFile(t) ==
    LET k == job[t].key IN
    /\ job[t].step = "lock"
    /\ write_lock[k] = None
    /\ write_lock' = [write_lock EXCEPT ![k] = t]
    /\ job' = [job EXCEPT ![t].step = "write", ![t].fresh = file[k] = <<>>]
    /\ UNCHANGED <<service, stop_event, intake, worker, store, subscribed,
                   selected, cli, quit, meta>>

\* The rows go out behind a header when the file is new.  A write that raises
\* leaves some of them, and all of the batch counts as dropped.
WriteCsvBatch(t, ok) ==
    LET k == job[t].key
        batch == job[t].due[k]
        rows == (IF job[t].fresh THEN <<Header>> ELSE <<>>) \o batch
    IN  /\ job[t].step = "write"
        /\ ok => job[t].format = "csv"
        /\ \E n \in 0..Len(rows) :
              /\ ok => n = Len(rows)
              /\ job[t].format # "csv" => n = 0
              /\ file' = [file EXCEPT ![k] = @ \o SubSeq(rows, 1, n)]
        /\ IF ok THEN MarkWritten(k, ToSet(batch)) ELSE MarkDropped(k, ToSet(batch))
        /\ write_lock' = [write_lock EXCEPT ![k] = None]
        /\ job' = [job EXCEPT ![t].step = "idle", ![t].key = None, ![t].fresh = FALSE,
                              ![t].format = "csv", ![t].due[k] = <<>>, ![t].ok = @ /\ ok]
        /\ UNCHANGED <<service, stop_event, intake, worker, buffer, uncounted,
                       subscribed, selected, cli, quit, meta>>

\* Mutant: the batch is copied and the buffer kept.
TakeCopy(t, ks) ==
    /\ job' = [job EXCEPT ![t] = [IdleJob EXCEPT !.due =
                                     [k \in Keys |-> IF k \in ks THEN buffer[k] ELSE <<>>]]]
    /\ UNCHANGED buffer

\* Buffers that the flushing functions take under _buffer_lock.
Take(t, ks) ==
    /\ job' = [job EXCEPT ![t] = [IdleJob EXCEPT !.due =
                                     [k \in Keys |-> IF k \in ks THEN buffer[k] ELSE <<>>]]]
    /\ buffer' = [k \in Keys |-> IF k \in ks THEN <<>> ELSE buffer[k]]

JobDone(t) == job[t].step = "idle" /\ Batches(job[t].due) = {}

------------------------------------------------------------------------------
(* The workers *)

Goto(w, pc) == worker' = [worker EXCEPT ![w].pc = pc]

\* The next item, or the timeout of an empty queue.
WorkerGet(w) ==
    /\ worker[w].pc = "loop" /\ ~stop_event
    /\ IF queue # <<>>
       THEN worker' = [worker EXCEPT ![w] = [pc |-> "process", item |-> Head(queue)]]
            /\ queue' = Tail(queue)
       ELSE Goto(w, "flush") /\ UNCHANGED queue
    /\ UNCHANGED <<service, stop_event, stream, accepted, pending, job,
                   write_lock, store, subscribed, selected, cli, quit, meta>>

WorkerExit(w) ==
    /\ worker[w].pc = "loop" /\ stop_event
    /\ Goto(w, "off")
    /\ UNCHANGED <<service, stop_event, intake, job, write_lock, store,
                   subscribed, selected, cli, quit, meta>>

\* The item has no timestamp, or its normalization raises.
NormalizationFails(w) ==
    LET item == worker[w].item IN
    /\ worker[w].pc = "process"
    /\ MarkDropped(item.key, {item.n})
    /\ Goto(w, "finish")
    /\ UNCHANGED <<service, stop_event, intake, job, write_lock, buffer, file,
                   uncounted, subscribed, selected, cli, quit, meta>>

NormalizeSampleFails(w) ==
    worker[w].pc = "process" /\ worker[w].item.key \in Samples /\ NormalizationFails(w)

NormalizeEventFails(w) ==
    worker[w].pc = "process" /\ worker[w].item.key \in Events /\ NormalizationFails(w)

\* A full buffer becomes the batch of this worker.
BufferItem(w) ==
    LET item == worker[w].item
        full == Append(buffer[item.key], item.n)
    IN  /\ worker[w].pc = "process"
        /\ IF Len(full) >= BatchSize
           THEN /\ job' = [job EXCEPT ![w] = [IdleJob EXCEPT !.due[item.key] = full]]
                /\ buffer' = [buffer EXCEPT ![item.key] = <<>>]
                /\ Goto(w, "write")
           ELSE /\ buffer' = [buffer EXCEPT ![item.key] = full]
                /\ Goto(w, "finish")
                /\ UNCHANGED job
        /\ UNCHANGED <<service, stop_event, intake, write_lock, file, written,
                       dropped, uncounted, subscribed, selected, cli, quit, meta>>

BufferSample(w) ==
    worker[w].pc = "process" /\ worker[w].item.key \in Samples /\ BufferItem(w)

BufferEvent(w) ==
    worker[w].pc = "process" /\ worker[w].item.key \in Events /\ BufferItem(w)

BatchWritten(w) ==
    /\ worker[w].pc = "write" /\ JobDone(w)
    /\ Goto(w, "finish")
    /\ job' = [job EXCEPT ![w] = IdleJob]
    /\ UNCHANGED <<service, stop_event, intake, write_lock, store, subscribed,
                   selected, cli, quit, meta>>

\* The finally of the loop: _mark_item_processed and task_done.
ItemProcessed(w) ==
    /\ worker[w].pc = "finish"
    /\ pending' = [pending EXCEPT ![worker[w].item.key] = IF @ <= 0 THEN 0 ELSE @ - 1]
    /\ worker' = [worker EXCEPT ![w] = [pc |-> "flush", item |-> None]]
    /\ UNCHANGED <<service, stop_event, stream, accepted, queue, job,
                   write_lock, store, subscribed, selected, cli, quit, meta>>

\* _maybe_flush_due: the buffers that are old enough, if a check is due.
FlushDue(w) ==
    /\ worker[w].pc = "flush"
    /\ \E ks \in SUBSET Batches(buffer) :
          /\ Take(w, ks)
          /\ Goto(w, "flushing")
    /\ UNCHANGED <<service, stop_event, intake, write_lock, file, written,
                   dropped, uncounted, subscribed, selected, cli, quit, meta>>

DueFlushed(w) ==
    /\ worker[w].pc = "flushing" /\ JobDone(w)
    /\ Goto(w, "loop")
    /\ job' = [job EXCEPT ![w] = IdleJob]
    /\ UNCHANGED <<service, stop_event, intake, write_lock, store, subscribed,
                   selected, cli, quit, meta>>

------------------------------------------------------------------------------
(* Start and stop of the service *)

StartService ==
    /\ service = "down" /\ quit = "idle"
    /\ service' = "up" /\ stop_event' = FALSE
    /\ worker' = [w \in Workers |-> [pc |-> "loop", item |-> None]]
    /\ UNCHANGED <<intake, job, write_lock, store, subscribed, selected, cli, quit, meta>>

StopService ==
    /\ service = "up" /\ quit = "idle"
    /\ service' = "draining" /\ quit' = "join"
    /\ UNCHANGED <<stop_event, intake, worker, job, write_lock, store, subscribed,
                   selected, cli, meta>>

\* Mutant: the queue is empty, but an item is still in hand.
DrainedQueue == queue = <<>>

\* persistence_queue.join: every item taken has been through task_done.
Drained == queue = <<>> /\ \A w \in Workers : worker[w].item = None

QueueJoined ==
    /\ quit = "join" /\ Drained
    /\ Take("quit", Keys)
    /\ quit' = "flush_all"
    /\ UNCHANGED <<service, stop_event, intake, worker, write_lock, file, written,
                   dropped, uncounted, subscribed, selected, cli, meta>>

AllFlushed ==
    /\ quit = "flush_all" /\ JobDone("quit")
    /\ stop_event' = TRUE
    /\ quit' = "shutdown"
    /\ job' = [job EXCEPT !["quit"] = IdleJob]
    /\ UNCHANGED <<service, intake, worker, write_lock, store, subscribed,
                   selected, cli, meta>>

\* executor.shutdown(wait=True).
ServiceStopped ==
    /\ quit = "shutdown" /\ \A w \in Workers : worker[w].pc = "off"
    /\ service' = "down" /\ quit' = "idle"
    /\ UNCHANGED <<stop_event, intake, worker, job, write_lock, store, subscribed,
                   selected, cli, meta>>

------------------------------------------------------------------------------
(* The metadata of the board: under its transaction lock a thread copies and  *)
(* changes it, writes the copy to disk, and only then makes it the one in     *)
(* memory                                                                    *)

BeginTransaction(t, copy) ==
    /\ transaction = None
    /\ transaction' = [by |-> t, step |-> "write", copy |-> copy]
    /\ UNCHANGED <<metadata, disk>>

\* Mutant: the file is written in place, and a failure leaves the new content.
WriteMetadataInPlace(t, ok) ==
    /\ transaction # None /\ transaction.by = t /\ transaction.step = "write"
    /\ disk' = transaction.copy
    /\ transaction' = IF ok THEN [transaction EXCEPT !.step = "commit"] ELSE None
    /\ UNCHANGED metadata

\* write_metadata replaces the file as a whole; when it fails the file stays as
\* it was and the transaction ends.
WriteMetadata(t, ok) ==
    /\ transaction # None /\ transaction.by = t /\ transaction.step = "write"
    /\ IF ok
       THEN disk' = transaction.copy /\ transaction' = [transaction EXCEPT !.step = "commit"]
       ELSE transaction' = None /\ UNCHANGED disk
    /\ UNCHANGED metadata

CommitMetadata(t) ==
    /\ transaction # None /\ transaction.by = t /\ transaction.step = "commit"
    /\ metadata' = transaction.copy
    /\ transaction' = None
    /\ UNCHANGED disk

Frozen == UNCHANGED <<service, stop_event, intake, worker, job, write_lock, store,
                      subscribed, selected, quit>>

\* The board changes a register and reports it.  The report is lost when the
\* monitoring plane of the board is down, when its queue is cleared with the
\* connection, or when the send fails, and is not repeated.
ConfigurationChanges(delivered) ==
    /\ register <= MaxChanges
    /\ register' = register + 1
    /\ changes' = IF delivered THEN Append(changes, register + 1) ELSE changes
    /\ missed' = (missed \/ ~delivered)
    /\ Frozen /\ UNCHANGED <<cli, metadata, disk, transaction, recorder>>

\* handle_configuration_event in the event thread; without time synchronization
\* the event has no timestamp and is given up.
ConfigurationEvent(stamped) ==
    /\ recorder = None /\ changes # <<>>
    /\ changes' = Tail(changes)
    /\ recorder' = IF stamped THEN Head(changes) ELSE None
    /\ missed' = (missed \/ ~stamped)
    /\ Frozen /\ UNCHANGED <<cli, register, metadata, disk, transaction>>

\* record_configuration_change under the lock: no metadata yet, or no change.
NothingToRecord ==
    /\ recorder # None /\ transaction = None
    /\ IF metadata = None THEN missed' = (missed \/ cli.read # None)
       ELSE metadata.current = recorder /\ UNCHANGED missed
    /\ recorder' = None
    /\ Frozen /\ UNCHANGED <<cli, register, changes, metadata, disk, transaction>>

RecordConfigurationChange ==
    /\ recorder # None /\ metadata # None /\ metadata.current # recorder
    /\ BeginTransaction("events",
           [metadata EXCEPT !.current = recorder,
                            !.history = Append(@, <<metadata.current, recorder>>)])
    /\ Frozen /\ UNCHANGED <<cli, register, changes, recorder, missed>>

ChangeRecorded(ok) ==
    /\ \/ WriteMetadata("events", ok) /\ missed' = (missed \/ ~ok)
          /\ recorder' = IF ok THEN recorder ELSE None
       \/ /\ ok /\ CommitMetadata("events") /\ recorder' = None
          /\ missed' = (missed /\ (recorder # register \/ changes # <<>>))
    /\ Frozen /\ UNCHANGED <<cli, register, changes>>

------------------------------------------------------------------------------
(* save_start, for one dataset after the other *)

CliGoto(pc) == cli' = [cli EXCEPT !.pc = pc]
CliEnds == cli' = IdleCli

\* The session folder is there, or the command ends here.
SaveStart(k, format) ==
    /\ cli.pc = "idle"
    /\ Cardinality({k} \cup {j \in Keys : stream[j].known}) <= MaxDatasets
    /\ cli' = [IdleCli EXCEPT !.pc = IF metadata = None THEN "build" ELSE "prepare",
                              !.key = k, !.format = format]
    /\ Frozen /\ UNCHANGED meta

\* _build_persistence_metadata asks the board for its registers.  An older change
\* still under way will be taken for a newer one.
BuildMetadata(reached) ==
    /\ cli.pc = "build"
    /\ cli' = [cli EXCEPT !.pc = "init", !.read = IF reached THEN register ELSE Unknown]
    /\ missed' = (~reached \/ (missed /\ (changes # <<>> \/ recorder # None)))
    /\ Frozen /\ UNCHANGED <<register, changes, metadata, disk, transaction, recorder>>

InitializeMetadata ==
    /\ cli.pc = "init"
    /\ BeginTransaction("cli", [on |-> {}, current |-> cli.read, history |-> <<>>])
    /\ CliGoto("init_write")
    /\ Frozen /\ UNCHANGED <<register, changes, recorder, missed>>

MetadataInitialized(ok) ==
    /\ cli.pc = "init_write"
    /\ \/ WriteMetadata("cli", ok) /\ IF ok THEN UNCHANGED cli ELSE CliEnds
       \/ ok /\ CommitMetadata("cli") /\ cli' = [cli EXCEPT !.pc = "prepare", !.read = None]
    /\ Frozen /\ UNCHANGED <<register, changes, recorder, missed>>

\* Refused while the dataset is enabled.
Prepare(k) ==
    /\ cli.pc = "prepare"
    /\ IF stream[k].enabled THEN CliEnds /\ UNCHANGED stream
       ELSE /\ stream' = [stream EXCEPT ![k].known = TRUE, ![k].format = cli.format]
            /\ CliGoto("activate")
    /\ UNCHANGED <<service, stop_event, accepted, pending, queue, worker, job,
                   write_lock, store, subscribed, selected, quit, meta>>

PrepareStream == cli.key \in Samples /\ Prepare(cli.key)
PrepareEvents == cli.key \in Events /\ Prepare(cli.key)

SetEnabled(k, enabled, pc) ==
    /\ stream' = [stream EXCEPT ![k].enabled = enabled]
    /\ IF pc = "idle" THEN CliEnds ELSE CliGoto(pc)
    /\ UNCHANGED <<service, stop_event, accepted, pending, queue, worker, job,
                   write_lock, store, subscribed, selected, quit, meta>>

ActivateStream ==
    cli.pc = "activate" /\ cli.key \in Samples /\ SetEnabled(cli.key, TRUE, "subscribe")
ActivateEvents ==
    cli.pc = "activate" /\ cli.key \in Events /\ SetEnabled(cli.key, TRUE, "declare")

\* Only samples have a producer to be asked for.
SubscribeStream(ok) ==
    /\ cli.pc = "subscribe"
    /\ subscribed' = IF ok THEN subscribed \cup {cli.key} ELSE subscribed
    /\ CliGoto(IF ok THEN "declare" ELSE "deactivate")
    /\ UNCHANGED <<service, stop_event, intake, worker, job, write_lock, store,
                   selected, quit, meta>>

\* A copy of the metadata in which the dataset is on or off.
UpdateMetadata ==
    /\ cli.pc \in {"declare", "withdraw"}
    /\ BeginTransaction("cli", [metadata EXCEPT !.on = IF cli.pc = "declare"
                                                       THEN @ \cup {cli.key} ELSE @ \ {cli.key}])
    /\ CliGoto(IF cli.pc = "declare" THEN "declaring" ELSE "withdrawing")
    /\ Frozen /\ UNCHANGED <<register, changes, recorder, missed>>

UpdateStreamMetadata == cli.key \in Samples /\ UpdateMetadata
UpdateEventMetadata == cli.key \in Events /\ UpdateMetadata

\* Written and kept, or save_start undoes what it did, from the step undo on.
MetadataUpdated(ok, undo) ==
    /\ cli.pc \in {"declaring", "withdrawing"}
    /\ \/ /\ WriteMetadata("cli", ok)
          /\ IF ok THEN UNCHANGED cli
             ELSE IF cli.pc = "withdrawing" THEN CliEnds ELSE CliGoto(undo)
       \/ ok /\ CommitMetadata("cli") /\ CliEnds
    /\ Frozen /\ UNCHANGED <<register, changes, recorder, missed>>

StreamMetadataUpdated(ok) == cli.key \in Samples /\ MetadataUpdated(ok, "rollback")
EventMetadataUpdated(ok) == cli.key \in Events /\ MetadataUpdated(ok, "deactivate")

\* The result of the unsubscription is not looked at.
RollBack(ok) ==
    /\ cli.pc = "rollback"
    /\ subscribed' = IF ok THEN subscribed \ {cli.key} ELSE subscribed
    /\ CliGoto("deactivate")
    /\ UNCHANGED <<service, stop_event, intake, worker, job, write_lock, store,
                   selected, quit, meta>>

RolledBack == cli.pc = "deactivate" /\ SetEnabled(cli.key, FALSE, "idle")

------------------------------------------------------------------------------
(* save_stop *)

SaveStop(k, pc) ==
    /\ cli.pc = "idle" /\ stream[k].known
    /\ cli' = [IdleCli EXCEPT !.pc = pc, !.key = k]
    /\ Frozen /\ UNCHANGED meta

SaveStopSamples(k) == k \in Samples /\ SaveStop(k, "unsubscribe")
SaveStopEvents(k) == k \in Events /\ SaveStop(k, "disable")

UnsubscribeStream(ok) ==
    /\ cli.pc = "unsubscribe"
    /\ ok => cli.key \in subscribed
    /\ subscribed' = IF ok THEN subscribed \ {cli.key} ELSE subscribed
    /\ IF ok THEN CliGoto("disable") ELSE CliEnds
    /\ UNCHANGED <<service, stop_event, intake, worker, job, write_lock, store,
                   selected, quit, meta>>

DeactivateStream ==
    cli.pc = "disable" /\ cli.key \in Samples /\ SetEnabled(cli.key, FALSE, "wait")
DeactivateEvents ==
    cli.pc = "disable" /\ cli.key \in Events /\ SetEnabled(cli.key, FALSE, "wait")

\* Mutant: save_stop flushes without waiting for the queue.
WaitIdleNot(idle) ==
    /\ cli.pc = "wait"
    /\ IF idle THEN CliGoto("flush") ELSE CliEnds
    /\ Frozen /\ UNCHANGED meta

\* Until the dataset has nothing queued, 30 s at most.
WaitIdle(idle) ==
    /\ cli.pc = "wait"
    /\ idle => pending[cli.key] = 0
    /\ IF idle THEN CliGoto("flush") ELSE CliEnds
    /\ Frozen /\ UNCHANGED meta

WaitStreamIdle(idle) == cli.key \in Samples /\ WaitIdle(idle)
WaitEventsIdle(idle) == cli.key \in Events /\ WaitIdle(idle)

\* The buffer is written here, or, when it is empty, the lock of the file is
\* taken and released.
Flush ==
    /\ cli.pc = "flush"
    /\ IF buffer[cli.key] # <<>> THEN Take("cli", {cli.key})
       ELSE write_lock[cli.key] = None /\ UNCHANGED <<job, buffer>>
    /\ CliGoto("flushing")
    /\ UNCHANGED <<service, stop_event, intake, worker, write_lock, file, written,
                   dropped, uncounted, subscribed, selected, quit, meta>>

FlushStream == cli.key \in Samples /\ Flush
FlushEvents == cli.key \in Events /\ Flush

Flushed ==
    /\ cli.pc = "flushing" /\ JobDone("cli")
    /\ IF job["cli"].ok THEN CliGoto("withdraw") ELSE CliEnds
    /\ job' = [job EXCEPT !["cli"] = IdleJob]
    /\ UNCHANGED <<service, stop_event, intake, worker, write_lock, store,
                   subscribed, selected, quit, meta>>

StreamFlushed == cli.key \in Samples /\ Flushed
EventsFlushed == cli.key \in Events /\ Flushed

------------------------------------------------------------------------------
WorkerStep(w) ==
    \/ WorkerGet(w) \/ WorkerExit(w)
    \/ NormalizeSampleFails(w) \/ NormalizeEventFails(w) \/ BufferSample(w) \/ BufferEvent(w)
    \/ BatchWritten(w) \/ ItemProcessed(w) \/ FlushDue(w) \/ DueFlushed(w)

WriterStep(t) ==
    \/ \E k \in Keys : WriteBatch(t, k) \/ WriteEventBatch(t, k)
    \/ LockFile(t)
    \/ \E ok \in BOOLEAN : WriteCsvBatch(t, ok)

StopStep == QueueJoined \/ AllFlushed \/ ServiceStopped

SaveStep ==
    \E ok \in BOOLEAN :
        \/ BuildMetadata(ok) \/ InitializeMetadata \/ MetadataInitialized(ok)
        \/ PrepareStream \/ PrepareEvents \/ ActivateStream \/ ActivateEvents
        \/ SubscribeStream(ok) \/ UpdateStreamMetadata \/ UpdateEventMetadata
        \/ StreamMetadataUpdated(ok) \/ EventMetadataUpdated(ok)
        \/ RollBack(ok) \/ RolledBack
        \/ UnsubscribeStream(ok) \/ DeactivateStream \/ DeactivateEvents
        \/ WaitStreamIdle(ok) \/ WaitEventsIdle(ok)
        \/ FlushStream \/ FlushEvents \/ StreamFlushed \/ EventsFlushed

RecorderStep ==
    \E ok \in BOOLEAN : \/ ConfigurationEvent(ok) \/ NothingToRecord
                        \/ RecordConfigurationChange \/ ChangeRecorded(ok)

Next ==
    \/ StartService \/ StopService \/ StopStep
    \/ \E w \in Workers : WorkerStep(w)
    \/ \E t \in Writers : WriterStep(t)
    \/ \E k \in Samples : SelectSample(k)
    \/ EnqueueSample
    \/ \E k \in Events : EnqueueEvent(k)
    \/ \E k \in Keys : SaveStopSamples(k) \/ SaveStopEvents(k) \/ \E f \in Formats : SaveStart(k, f)
    \/ SaveStep
    \/ \E delivered \in BOOLEAN : ConfigurationChanges(delivered)
    \/ RecorderStep

Spec == Init /\ [][Next]_vars

------------------------------------------------------------------------------
(* Properties *)

Items(q) == {q[i] : i \in DOMAIN q}
InQueue(k) == {item.n : item \in {x \in Items(queue) : x.key = k}}
Holding(k) == {w \in Workers : worker[w].item # None /\ worker[w].item.key = k}
InHands(k) == {worker[w].item.n : w \in {v \in Holding(k) : worker[v].pc = "process"}}
Writing(k) == {t \in Writers : job[t].due[k] # <<>>}
InJobs(k) == UNION {ToSet(job[t].due[k]) : t \in Writing(k)}

\* The counters and buffers stay within their bounds; a full buffer never waits.
TypeOK ==
    /\ service \in {"down", "up", "draining"} /\ stop_event \in BOOLEAN
    /\ Len(queue) <= QueueSize
    /\ subscribed \subseteq Samples
    /\ selected \in Samples \cup {None}
    /\ \A k \in Keys :
          /\ stream[k] \in [known : BOOLEAN, enabled : BOOLEAN, format : Formats]
          /\ accepted[k] \in 0..MaxItems /\ pending[k] \in 0..(QueueSize + Cardinality(Workers))
          /\ Len(buffer[k]) < BatchSize
          /\ write_lock[k] \in Writers \cup {None}
          /\ written[k] \cup dropped[k] \cup uncounted[k] \subseteq 1..accepted[k]
    /\ \A w \in Workers : worker[w].pc \in {"off", "loop", "process", "write", "finish",
                                             "flush", "flushing"}
    /\ \A t \in Writers : job[t].step \in {"idle", "lock", "write"}
    /\ cli.key \in Keys \cup {None}
    /\ quit \in {"idle", "join", "flush_all", "shutdown"}

Places(k) == <<InQueue(k), InHands(k), ToSet(buffer[k]), InJobs(k),
               written[k], dropped[k], uncounted[k]>>

\* Every item that enqueue_sample or enqueue_event accepted is in exactly one
\* place: the queue, a worker, a buffer, a batch some thread is writing, or
\* settled as written, dropped or given up.  Nothing is lost between two threads
\* and nothing is written twice.
EachItemOnce ==
    /\ IsInjective(queue)
    /\ \A v, w \in Workers :
          v # w /\ worker[v].pc = "process" /\ worker[w].pc = "process"
              => worker[v].item # worker[w].item
    /\ \A k \in Keys :
          LET places == Places(k) IN
          /\ \A i \in DOMAIN places : places[i] \subseteq 1..accepted[k]
          /\ \A n \in 1..accepted[k] : \E i \in DOMAIN places :
                /\ n \in places[i]
                /\ \A j \in DOMAIN places \ {i} : n \notin places[j]
          /\ IsInjective(buffer[k])
          /\ \A t \in Writing(k) : IsInjective(job[t].due[k])
          /\ \A t, u \in Writing(k) : t # u => ToSet(job[t].due[k]) \cap ToSet(job[u].due[k]) = {}

\* queue_pending, on which save_stop waits, counts the items of the dataset in
\* the queue and in the hands of the workers.
PendingCounts ==
    \A k \in Keys : pending[k] = Cardinality(InQueue(k)) + Cardinality(Holding(k))

\* The books of the persistence service are true at every step of its threads:
\* each accepted item is in one place, the pending count is what save_stop takes
\* it for, and queue and buffers stay within their limits.
ItemsAccounted == TypeOK /\ EachItemOnce /\ PendingCounts

\* stop() returns only when nothing is left to be written.
StopDrains ==
    quit = "idle" /\ service = "down" =>
        \A k \in Keys : InQueue(k) \cup InHands(k) \cup ToSet(buffer[k])
                            \cup (InJobs(k) \ ToSet(job["cli"].due[k])) = {}

\* A file begins with its one header, and an item counted as written is in it
\* once, however many threads append to the file.
FileIsSound ==
    \A k \in Keys :
        /\ file[k] # <<>> => file[k][1] = Header
        /\ IsInjective(file[k])
        /\ written[k] \subseteq ToSet(file[k])

\* When save_stop has flushed a dataset, what is not settled yet is in the hands
\* of a worker that found the buffer due, or of quit: the flush waits for the
\* lock of the file, not for a batch on its way to that lock.
FlushedUnlessDue ==
    cli.pc \in {"withdraw", "withdrawing"} =>
        LET k == cli.key IN
        /\ InQueue(k) \cup InHands(k) \cup ToSet(buffer[k]) = {}
        /\ \A t \in Writers : job[t].due[k] # <<>> =>
              t = "quit" \/ (t \in Workers /\ worker[t].pc = "flushing")

\* Outside a transaction the metadata in memory are those on disk.
DiskInStep == transaction = None => disk = metadata

\* The metadata name the configuration the board really has, unless a change was
\* missed since they did: the board could not be read, the event was lost on its
\* way or had no timestamp, the write failed, or the event came while the first
\* metadata were being collected.
CurrentFollows ==
    /\ metadata # None /\ changes = <<>> /\ recorder = None /\ transaction = None /\ ~missed
    => metadata.current = register

\* Between two commands, a dataset that is being saved is declared in the
\* metadata: a failed declaration switches the dataset off again.
SavedIsDeclared ==
    cli.pc = "idle" => \A k \in Keys : stream[k].enabled => metadata # None /\ k \in metadata.on

\* The metadata in memory, the metadata on disk, the datasets being saved and,
\* as long as none of its changes was missed, the configuration of the board
\* agree, through failed writes, rollbacks and changes that come while they are
\* collected.
MetadataConsistent == DiskInStep /\ CurrentFollows /\ SavedIsDeclared

\* What the comment in save_stop says of the flush: it waits for any write that
\* is already in flight.
FlushWaitsForWrites ==
    cli.pc \in {"withdraw", "withdrawing"} =>
        \A w \in Workers : job[w].due[cli.key] = <<>>

==============================================================================
