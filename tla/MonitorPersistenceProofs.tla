----------------------- MODULE MonitorPersistenceProofs -----------------------
(***************************************************************************)
(* The persistence service loses no item and writes none twice, its stop   *)
(* drains it, its files are sound, a flush of save_stop leaves only what    *)
(* was found due, and the metadata in memory, on disk and of the board      *)
(* agree: for any datasets, workers, queues, batches and bounds.            *)
(***************************************************************************)
EXTENDS MonitorPersistence, SequenceTheorems, FiniteSetTheorems, TLAPS

Numbers == Nat \ {0}
Jobs == [step : {"idle", "lock", "write"}, key : Keys \cup {None}, format : Formats,
         fresh : BOOLEAN, due : [Keys -> Seq(Numbers)], ok : BOOLEAN]
WorkerPcs == {"off", "loop", "process", "write", "finish", "flush", "flushing"}
Stopping == {"wait", "flush", "flushing", "withdraw", "withdrawing"}
Undeclared == {"build", "init", "init_write"}
CliPcs == {"idle", "prepare", "activate", "subscribe", "declare", "declaring",
           "rollback", "deactivate", "unsubscribe", "disable"} \cup Stopping \cup Undeclared

StoreTypes ==
    /\ accepted \in [Keys -> 0..MaxItems] /\ pending \in [Keys -> Nat]
    /\ queue \in Seq(Numbered) /\ Len(queue) <= QueueSize
    /\ buffer \in [Keys -> Seq(Numbers)] /\ \A k \in Keys : Len(buffer[k]) < BatchSize
    /\ worker \in [Workers -> [pc : WorkerPcs, item : Numbered \cup {None}]]
    /\ job \in [Writers -> Jobs]
    /\ write_lock \in [Keys -> Writers \cup {None}]
    /\ file \in [Keys -> Seq(Nat)]
    /\ written \in [Keys -> SUBSET Nat] /\ dropped \in [Keys -> SUBSET Nat]
    /\ uncounted \in [Keys -> SUBSET Nat]

CliTypes ==
    /\ cli \in [pc : CliPcs, key : Keys \cup {None}, format : Formats,
                read : Nat \cup {None}]
    /\ cli.pc # "idle" => cli.key \in Keys
    /\ cli.pc \in {"subscribe", "rollback"} => cli.key \in Samples

ControlTypes ==
    /\ service \in {"down", "up", "draining"} /\ stop_event \in BOOLEAN
    /\ quit \in {"idle", "join", "flush_all", "shutdown"}
    /\ stream \in [Keys -> [known : BOOLEAN, enabled : BOOLEAN, format : Formats]]
    /\ subscribed \subseteq Samples /\ selected \in Samples \cup {None}
    /\ CliTypes

\* A worker holds an item from taking it to marking it processed, and batches
\* only while it writes them: those of its item, or those it found due.
WorkersOK ==
    \A w \in Workers :
        /\ worker[w].item # None <=> worker[w].pc \in {"process", "write", "finish"}
        /\ worker[w].pc \notin {"write", "flushing"} => job[w] = IdleJob
        /\ worker[w].pc = "write" =>
              \A k \in Keys : job[w].due[k] # <<>> => k = worker[w].item.key

CallersOK ==
    /\ cli.pc # "flushing" => job["cli"] = IdleJob
    /\ quit # "flush_all" => job["quit"] = IdleJob

\* The lock of a file is held by the thread that writes to it, and what this
\* thread knows of the file stays true.
LocksOK ==
    /\ \A t \in Writers :
          /\ job[t].step # "idle" => job[t].key \in Keys /\ job[t].due[job[t].key] # <<>>
          /\ job[t].step = "write" =>
                /\ write_lock[job[t].key] = t
                /\ job[t].fresh <=> file[job[t].key] = <<>>
    /\ \A k \in Keys : write_lock[k] # None =>
          job[write_lock[k]].step = "write" /\ job[write_lock[k]].key = k

\* Nothing enters once the service drains, and nothing is left from the flush on.
Nothing ==
    /\ queue = <<>>
    /\ \A w \in Workers : worker[w].item = None
    /\ \A k \in Keys : buffer[k] = <<>>

ServiceOK ==
    /\ quit = "idle" <=> service # "draining"
    /\ service = "down" => \A w \in Workers : worker[w].pc = "off"
    /\ service = "down" \/ quit \in {"flush_all", "shutdown"} => Nothing

FilesOK ==
    \A k \in Keys :
        /\ file[k] # <<>> => file[k][1] = Header
        /\ IsInjective(file[k])
        /\ written[k] \subseteq ToSet(file[k])
        /\ ToSet(file[k]) \subseteq {Header} \cup written[k] \cup dropped[k]

\* What save_stop has made sure of, step by step.
StoppingOK ==
    /\ cli.pc \in Stopping \ {"wait"} => pending[cli.key] = 0
    /\ cli.pc \in Stopping \ {"wait", "flush"} => buffer[cli.key] = <<>>

\* The numbers of A are each in exactly one of seven sets.
Split(A, Q, H, B, J, W, D, U) ==
    /\ \A n : n \in A <=> n \in Q \/ n \in H \/ n \in B \/ n \in J \/ n \in W \/ n \in D \/ n \in U
    /\ \A n :
          /\ n \in Q => n \notin H /\ n \notin B /\ n \notin J /\ n \notin W /\ n \notin D /\ n \notin U
          /\ n \in H => n \notin B /\ n \notin J /\ n \notin W /\ n \notin D /\ n \notin U
          /\ n \in B => n \notin J /\ n \notin W /\ n \notin D /\ n \notin U
          /\ n \in J => n \notin W /\ n \notin D /\ n \notin U
          /\ n \in W => n \notin D /\ n \notin U
          /\ n \in D => n \notin U

SplitOf(k) == Split(1..accepted[k], InQueue(k), InHands(k), ToSet(buffer[k]), InJobs(k),
                    written[k], dropped[k], uncounted[k])

\* EachItemOnce: by dataset, and within a place.
QueueOnce == IsInjective(queue)
HandsOnce ==
    \A v, w \in Workers :
        v # w /\ worker[v].pc = "process" /\ worker[w].pc = "process"
            => worker[v].item # worker[w].item
BuffersOnce == \A k \in Keys : IsInjective(buffer[k])
JobsOnce ==
    \A k \in Keys :
        /\ \A t \in Writers : IsInjective(job[t].due[k])
        /\ \A t, u \in Writers : t # u => ToSet(job[t].due[k]) \cap ToSet(job[u].due[k]) = {}
PlacesOnce == \A k \in Keys : SplitOf(k)
Once == QueueOnce /\ HandsOnce /\ BuffersOnce /\ JobsOnce /\ PlacesOnce

StoreInv ==
    /\ StoreTypes /\ WorkersOK /\ CallersOK /\ LocksOK /\ ServiceOK
    /\ Once /\ PendingCounts /\ FilesOK /\ StoppingOK

MetaTypes ==
    /\ register \in Nat /\ changes \in Seq(Nat)
    /\ metadata \in Metadata \cup {None} /\ disk \in Metadata \cup {None}
    /\ transaction \in Transactions \cup {None}
    /\ recorder \in Nat \cup {None} /\ missed \in BOOLEAN

\* The copy in a transaction, and the file it has or has not replaced yet.
TransactionOK ==
    /\ transaction = None => disk = metadata
    /\ transaction # None =>
          /\ disk = IF transaction.step = "write" THEN metadata ELSE transaction.copy
          /\ transaction.by = "events" =>
                /\ metadata # None /\ recorder # None
                /\ transaction.copy.on = metadata.on /\ transaction.copy.current = recorder
          /\ cli.pc = "init_write" /\ transaction.by = "cli" =>
                transaction.copy.on = {} /\ transaction.copy.current = cli.read
          /\ cli.pc \in {"declaring", "withdrawing"} /\ transaction.by = "cli" =>
                /\ transaction.copy.current = metadata.current
                /\ transaction.copy.on = IF cli.pc = "declaring"
                                         THEN metadata.on \cup {cli.key}
                                         ELSE metadata.on \ {cli.key}
    /\ cli.pc \in {"init_write", "declaring", "withdrawing"} <=>
          transaction # None /\ transaction.by = "cli"

\* The first save_start makes the metadata, and no step takes them away.
DeclaredOK ==
    /\ cli.pc \in Undeclared => metadata = None
    /\ cli.pc \notin Undeclared \cup {"idle"} => metadata # None
    /\ cli.read # None <=> cli.pc \in {"init", "init_write"}
    /\ \A k \in Keys : stream[k].known => metadata # None

\* While no change is missed, the last one under way is the register of the board.
CurrentOK ==
    ~missed =>
        /\ changes # <<>> => changes[Len(changes)] = register
        /\ changes = <<>> /\ recorder # None => recorder = register
        /\ changes = <<>> /\ recorder = None =>
              /\ metadata # None => metadata.current = register
              /\ cli.read # None => cli.read = register

\* A dataset that is saved is declared, except the one a command is working on,
\* and save_stop works on one that is not saved any more.
SavedOK ==
    /\ \A k \in Keys :
          /\ stream[k].enabled
          /\ k = cli.key => cli.pc \in {"idle", "prepare", "unsubscribe", "disable"} \cup Undeclared
          => metadata # None /\ k \in metadata.on
    /\ cli.pc \in Stopping => ~stream[cli.key].enabled

MetaInv == ControlTypes /\ MetaTypes /\ TransactionOK /\ DeclaredOK /\ CurrentOK /\ SavedOK

PersistenceInv == StoreInv /\ MetaInv

------------------------------------------------------------------------------
(* Sequences of items *)

\* An item put at the end of a buffer or of the queue adds itself to its
\* content, once if it was not there.
LEMMA AppendOnce ==
  ASSUME NEW S, NEW s \in Seq(S), NEW e \in S
  PROVE  /\ ToSet(Append(s, e)) = ToSet(s) \cup {e}
         /\ IsInjective(s) /\ e \notin ToSet(s) => IsInjective(Append(s, e))
<1>1. /\ Len(s) \in Nat /\ DOMAIN s = 1..Len(s)
      /\ DOMAIN Append(s, e) = 1..(Len(s) + 1)
      /\ \A i \in 1..Len(s) : Append(s, e)[i] = s[i]
      /\ Append(s, e)[Len(s) + 1] = e
  BY LenProperties, AppendProperties
<1>2. ToSet(Append(s, e)) = ToSet(s) \cup {e}
  BY <1>1 DEF ToSet
<1>3. IsInjective(s) /\ e \notin ToSet(s) => IsInjective(Append(s, e))
  BY <1>1 DEF ToSet, IsInjective
<1> QED BY <1>2, <1>3

\* The first item leaves the queue for good: it is not in what remains.
LEMMA TailOnce ==
  ASSUME NEW S, NEW s \in Seq(S), s # <<>>, IsInjective(s)
  PROVE  /\ ToSet(s) = ToSet(Tail(s)) \cup {Head(s)} /\ Head(s) \notin ToSet(Tail(s))
         /\ IsInjective(Tail(s))
<1>1. /\ Len(s) \in Nat \ {0} /\ DOMAIN s = 1..Len(s)
      /\ DOMAIN Tail(s) = 1..(Len(s) - 1) /\ Head(s) = s[1]
      /\ \A i \in 1..(Len(s) - 1) : Tail(s)[i] = s[i + 1]
  BY LenProperties, HeadTailProperties, EmptySeq
<1>2. \A i \in 1..Len(s) : i = 1 \/ i - 1 \in 1..(Len(s) - 1)
  BY <1>1
<1>3. ToSet(s) = ToSet(Tail(s)) \cup {Head(s)}
  <2>1. \A i \in 1..Len(s) : i # 1 => s[i] = Tail(s)[i - 1] /\ i - 1 \in DOMAIN Tail(s)
    BY <1>1, <1>2
  <2>2. ASSUME NEW i \in 1..Len(s)
        PROVE  s[i] \in ToSet(Tail(s)) \cup {Head(s)}
    <3>1. i # 1 => Tail(s)[i - 1] \in ToSet(Tail(s))
      BY <2>1 DEF ToSet
    <3> QED BY <1>1, <2>1, <3>1
  <2>3. ToSet(Tail(s)) \cup {Head(s)} \subseteq ToSet(s)
    BY <1>1 DEF ToSet
  <2>4. ToSet(s) \subseteq ToSet(Tail(s)) \cup {Head(s)}
    BY <1>1, <2>2 DEF ToSet
  <2> QED BY <2>3, <2>4
<1>4. Head(s) \notin ToSet(Tail(s)) /\ IsInjective(Tail(s))
  BY <1>1 DEF ToSet, IsInjective
<1> QED BY <1>3, <1>4

\* An empty buffer, batch or queue holds nothing, and only an empty one does.
LEMMA EmptyOnce ==
  /\ ToSet(<<>>) = {} /\ IsInjective(<<>>)
  /\ \A S : \A s \in Seq(S) : ToSet(s) = {} <=> s = <<>>
<1>1. ToSet(<<>>) = {} /\ IsInjective(<<>>)
  BY DEF ToSet, IsInjective
<1>2. ASSUME NEW S, NEW s \in Seq(S), s # <<>>
      PROVE  ToSet(s) # {}
  <2>1. 1 \in DOMAIN s
    BY <1>2, EmptySeq, LenProperties
  <2> QED BY <2>1 DEF ToSet
<1> QED BY <1>1, <1>2

\* What a sequence holds is of the type of its members.
LEMMA ToSetType ==
  ASSUME NEW S, NEW s \in Seq(S)
  PROVE  ToSet(s) \subseteq S
BY LenProperties DEF ToSet

------------------------------------------------------------------------------
(* The places of the items *)

\* The seven places as EachItemOnce names them: they hold the accepted items,
\* and each of these is in one.
LEMMA SplitPlaces ==
  ASSUME NEW k \in Keys, SplitOf(k)
  PROVE  /\ \A i \in DOMAIN Places(k) : Places(k)[i] \subseteq 1..accepted[k]
         /\ \A n \in 1..accepted[k] : \E i \in DOMAIN Places(k) :
               /\ n \in Places(k)[i]
               /\ \A j \in DOMAIN Places(k) \ {i} : n \notin Places(k)[j]
<1> DEFINE Q == InQueue(k)  H == InHands(k)  B == ToSet(buffer[k])  J == InJobs(k)
           W == written[k]  D == dropped[k]  U == uncounted[k]
<1>1. Split(1..accepted[k], Q, H, B, J, W, D, U)
  BY DEF SplitOf
<1>2. Places(k) = <<Q, H, B, J, W, D, U>>
  BY DEF Places
<1> HIDE DEF Q, H, B, J, W, D, U
<1>3. /\ DOMAIN Places(k) = 1..7
      /\ Places(k)[1] = Q /\ Places(k)[2] = H /\ Places(k)[3] = B /\ Places(k)[4] = J
      /\ Places(k)[5] = W /\ Places(k)[6] = D /\ Places(k)[7] = U
  BY <1>2
<1>4. \A i \in 1..7 : Places(k)[i] \subseteq 1..accepted[k]
  <2>1. /\ Q \subseteq 1..accepted[k] /\ H \subseteq 1..accepted[k]
        /\ B \subseteq 1..accepted[k] /\ J \subseteq 1..accepted[k]
        /\ W \subseteq 1..accepted[k] /\ D \subseteq 1..accepted[k]
        /\ U \subseteq 1..accepted[k]
    BY <1>1 DEF Split
  <2>2. ASSUME NEW i \in 1..7
        PROVE  i = 1 \/ i = 2 \/ i = 3 \/ i = 4 \/ i = 5 \/ i = 6 \/ i = 7
    OBVIOUS
  <2> DEFINE A == 1..accepted[k]
  <2> HIDE DEF A
  <2>3. \A i \in 1..7 : Places(k)[i] \subseteq A
    BY <1>3, <2>1, <2>2 DEF A
  <2> QED BY <2>3 DEF A
<1>5. /\ Q \cap H = {} /\ Q \cap B = {} /\ Q \cap J = {} /\ Q \cap W = {} /\ Q \cap D = {} /\ Q \cap U = {}
      /\ H \cap B = {} /\ H \cap J = {} /\ H \cap W = {} /\ H \cap D = {} /\ H \cap U = {}
      /\ B \cap J = {} /\ B \cap W = {} /\ B \cap D = {} /\ B \cap U = {}
      /\ J \cap W = {} /\ J \cap D = {} /\ J \cap U = {}
      /\ W \cap D = {} /\ W \cap U = {} /\ D \cap U = {}
  BY <1>1 DEF Split
<1>6. \A i, j \in 1..7 : i < j => Places(k)[i] \cap Places(k)[j] = {}
  BY <1>3, <1>5
<1>7. ASSUME NEW n \in 1..accepted[k]
      PROVE  \E i \in 1..7 : n \in Places(k)[i] /\ \A j \in (1..7) \ {i} : n \notin Places(k)[j]
  <2>1. \E i \in 1..7 : n \in Places(k)[i]
    <3>1. n \in Q \/ n \in H \/ n \in B \/ n \in J \/ n \in W \/ n \in D \/ n \in U
      BY <1>1 DEF Split
    <3> QED BY <1>3, <3>1
  <2>2. PICK i \in 1..7 : n \in Places(k)[i]
    BY <2>1
  <2>3. ASSUME NEW j \in (1..7) \ {i} PROVE n \notin Places(k)[j]
    <3>1. i < j \/ j < i
      OBVIOUS
    <3> QED BY <1>6, <2>2, <3>1
  <2> QED BY <2>2, <2>3
<1> QED BY <1>3, <1>4, <1>7

\* The parts of Once together are EachItemOnce.
LEMMA OnceIsOnce ==
  ASSUME Once
  PROVE  EachItemOnce
<1>1. \A k \in Keys : Writing(k) \subseteq Writers
  BY DEF Writing
<1> QED
  BY <1>1, SplitPlaces
     DEF Once, QueueOnce, HandsOnce, BuffersOnce, JobsOnce, PlacesOnce, EachItemOnce

\* Membership in the queue, in the hands of the workers and in the batches,
\* item by item.
LEMMA Lists ==
  ASSUME NEW k \in Keys
  PROVE  /\ \A n : n \in InQueue(k) <=> \E x \in ToSet(queue) : x.key = k /\ x.n = n
         /\ \A n : n \in InHands(k) <=>
                \E w \in Workers : /\ worker[w].item # None /\ worker[w].pc = "process"
                                  /\ worker[w].item.key = k /\ worker[w].item.n = n
         /\ StoreTypes => \A n : n \in InJobs(k) <=> \E t \in Writers : n \in ToSet(job[t].due[k])
<1>1. \A n : n \in InQueue(k) <=> \E x \in ToSet(queue) : x.key = k /\ x.n = n
  BY DEF InQueue, Items, ToSet
<1>2. \A n : n \in InHands(k) <=>
         \E w \in Workers : /\ worker[w].item # None /\ worker[w].pc = "process"
                           /\ worker[w].item.key = k /\ worker[w].item.n = n
  BY DEF InHands, Holding
<1>3. StoreTypes => \A n : n \in InJobs(k) <=> \E t \in Writers : n \in ToSet(job[t].due[k])
  <2>1. \A n : n \in InJobs(k) <=> \E t \in Writing(k) : n \in ToSet(job[t].due[k])
    BY DEF InJobs
  <2> QED BY <2>1, EmptyOnce DEF Writing
<1> QED BY <1>1, <1>2, <1>3

\* The same in the next state.
LEMMA ListsNext ==
  ASSUME NEW k \in Keys
  PROVE  /\ \A n : n \in InQueue(k)' <=> \E x \in ToSet(queue') : x.key = k /\ x.n = n
         /\ \A n : n \in InHands(k)' <=>
                \E w \in Workers : /\ worker'[w].item # None /\ worker'[w].pc = "process"
                                  /\ worker'[w].item.key = k /\ worker'[w].item.n = n
         /\ StoreTypes' => \A n : n \in InJobs(k)' <=> \E t \in Writers : n \in ToSet(job'[t].due[k])
<1>1. \A n : n \in InQueue(k)' <=> \E x \in ToSet(queue') : x.key = k /\ x.n = n
  BY DEF InQueue, Items, ToSet
<1>2. \A n : n \in InHands(k)' <=>
         \E w \in Workers : /\ worker'[w].item # None /\ worker'[w].pc = "process"
                           /\ worker'[w].item.key = k /\ worker'[w].item.n = n
  BY DEF InHands, Holding
<1>3. StoreTypes' => \A n : n \in InJobs(k)' <=> \E t \in Writers : n \in ToSet(job'[t].due[k])
  <2>1. \A n : n \in InJobs(k)' <=> \E t \in Writing(k)' : n \in ToSet(job'[t].due[k])
    BY DEF InJobs
  <2> QED BY <2>1, EmptyOnce DEF Writing
<1> QED BY <1>1, <1>2, <1>3

\* A step that leaves persistence_queue alone leaves what a dataset has in it.
LEMMA QueueSame ==
  ASSUME NEW k \in Keys, queue' = queue
  PROVE  InQueue(k)' = InQueue(k)
BY DEF InQueue, Items

\* A worker that keeps its item, and goes on or not with processing it, keeps
\* it in hand or not.
LEMMA HandsSame ==
  ASSUME \A w \in Workers : /\ worker'[w].item = worker[w].item
                            /\ worker'[w].pc = "process" <=> worker[w].pc = "process"
  PROVE  /\ HandsOnce => HandsOnce'
         /\ \A k \in Keys : InHands(k)' = InHands(k) /\ Holding(k)' = Holding(k)
<1>1. ASSUME NEW k \in Keys
      PROVE  InHands(k)' = InHands(k) /\ Holding(k)' = Holding(k)
  BY DEF InHands, Holding
<1>2. HandsOnce => HandsOnce'
  BY DEF HandsOnce
<1> QED BY <1>1, <1>2

\* A worker is done with what it was processing.
LEMMA HandsLeave ==
  ASSUME StoreTypes, HandsOnce, NEW w \in Workers,
         worker[w].pc = "process", worker[w].item # None, worker'[w].pc # "process",
         \A v \in Workers : v # w => worker'[v] = worker[v]
  PROVE  /\ HandsOnce'
         /\ worker[w].item \in Numbered
         /\ worker[w].item.n \in InHands(worker[w].item.key)
         /\ \A k \in Keys : InHands(k)' = IF k = worker[w].item.key
                                          THEN InHands(k) \ {worker[w].item.n} ELSE InHands(k)
<1> DEFINE item == worker[w].item
<1>1. item \in Numbered /\ item.key \in Keys
  BY DEF StoreTypes, Numbered
<1>2. HandsOnce'
  BY DEF HandsOnce
<1>3. item.n \in InHands(item.key)
  BY <1>1, Lists
<1>4. ASSUME NEW k \in Keys
      PROVE  InHands(k)' = IF k = item.key THEN InHands(k) \ {item.n} ELSE InHands(k)
  <2>1. ASSUME NEW v \in Workers, v # w, worker[v].item # None, worker[v].pc = "process",
               worker[v].item.key = item.key
        PROVE  worker[v].item.n # item.n
    <3>1. worker[v].item \in Numbered /\ worker[v].item # item
      BY <2>1 DEF StoreTypes, HandsOnce
    <3> QED BY <1>1, <2>1, <3>1 DEF Numbered
  <2>2. \A n : n \in InHands(k)' <=>
           \E v \in Workers : /\ v # w /\ worker[v].item # None /\ worker[v].pc = "process"
                             /\ worker[v].item.key = k /\ worker[v].item.n = n
    BY ListsNext
  <2>3. \A n : n \in InHands(k) <=>
           \E v \in Workers : /\ worker[v].item # None /\ worker[v].pc = "process"
                             /\ worker[v].item.key = k /\ worker[v].item.n = n
    BY Lists
  <2>4. CASE k = item.key
    <3>1. \A n : n \in InHands(k)' <=> n \in InHands(k) /\ n # item.n
      BY <2>1, <2>2, <2>3, <2>4
    <3> QED BY <2>4, <3>1
  <2>5. CASE k # item.key
    <3>1. \A n : n \in InHands(k)' <=> n \in InHands(k)
      BY <2>2, <2>3, <2>5
    <3> QED BY <2>5, <3>1
  <2> QED BY <2>4, <2>5
<1> QED BY <1>1, <1>2, <1>3, <1>4

\* Batches that stay as they are hold what they held.
LEMMA JobsSame ==
  ASSUME StoreTypes, StoreTypes', NEW k \in Keys,
         \A t \in Writers : job'[t].due[k] = job[t].due[k]
  PROVE  InJobs(k)' = InJobs(k)
<1>1. \A n : n \in InJobs(k)' <=> n \in InJobs(k)
  BY Lists, ListsNext
<1> QED BY <1>1

\* One thread exchanges what it has to write of a dataset.
LEMMA JobsMove ==
  ASSUME StoreTypes, StoreTypes', JobsOnce, NEW k \in Keys, NEW t \in Writers,
         \A u \in Writers : u # t => job'[u].due[k] = job[u].due[k]
  PROVE  InJobs(k)' = (InJobs(k) \ ToSet(job[t].due[k])) \cup ToSet(job'[t].due[k])
<1>1. \A n : n \in InJobs(k)' <=> n \in ToSet(job'[t].due[k])
                               \/ \E u \in Writers : u # t /\ n \in ToSet(job[u].due[k])
  BY ListsNext
<1>2. \A n : n \in InJobs(k) <=> n \in ToSet(job[t].due[k])
                              \/ \E u \in Writers : u # t /\ n \in ToSet(job[u].due[k])
  BY Lists
<1>3. \A u \in Writers : u # t => ToSet(job[t].due[k]) \cap ToSet(job[u].due[k]) = {}
  BY DEF JobsOnce
<1> QED BY <1>1, <1>2, <1>3

\* The new batches are injective and nobody else's.
LEMMA JobsStayOnce ==
  ASSUME StoreTypes, JobsOnce, NEW t \in Writers,
         \A k \in Keys :
            /\ \A u \in Writers : u # t => job'[u].due[k] = job[u].due[k]
            /\ IsInjective(job'[t].due[k])
            /\ \A n \in ToSet(job'[t].due[k]) : n \in ToSet(job[t].due[k]) \/ n \notin InJobs(k)
  PROVE  JobsOnce'
<1> SUFFICES ASSUME NEW k \in Keys
             PROVE  /\ \A u \in Writers : IsInjective(job'[u].due[k])
                    /\ \A u, v \in Writers : u # v => ToSet(job'[u].due[k]) \cap ToSet(job'[v].due[k]) = {}
  BY DEF JobsOnce
<1>1. \A u \in Writers : IsInjective(job'[u].due[k])
  BY DEF JobsOnce
<1>2. ASSUME NEW u \in Writers, u # t
      PROVE  ToSet(job'[t].due[k]) \cap ToSet(job[u].due[k]) = {}
  <2>1. ToSet(job[t].due[k]) \cap ToSet(job[u].due[k]) = {}
    BY <1>2 DEF JobsOnce
  <2>2. \A n \in ToSet(job[u].due[k]) : n \in InJobs(k)
    BY <1>2, Lists
  <2> QED BY <2>1, <2>2
<1>3. \A u, v \in Writers : u # v => ToSet(job'[u].due[k]) \cap ToSet(job'[v].due[k]) = {}
  BY <1>2 DEF JobsOnce
<1> QED BY <1>1, <1>3

------------------------------------------------------------------------------
(* The metadata of the board and the commands *)

\* The command goes on with its dataset, or it ends.
LEMMA Goes ==
  ASSUME CliTypes, cli.pc # "idle", NEW pc \in CliPcs, CliGoto(pc),
         pc \in {"subscribe", "rollback"} => cli.key \in Samples
  PROVE  CliTypes' /\ cli' = [cli EXCEPT !.pc = pc]
         /\ cli'.pc = pc /\ cli'.key = cli.key /\ cli'.read = cli.read
BY DEF CliTypes, CliGoto

\* The command ends (_cmd_save_start, _cmd_save_stop return) and names no
\* dataset any more.
LEMMA Ends ==
  ASSUME CliEnds
  PROVE  CliTypes' /\ cli'.pc = "idle" /\ cli'.key = None /\ cli'.read = None
BY DEF CliTypes, CliEnds, IdleCli, CliPcs, Formats

\* save_start begins the first transaction of the board with what it read of
\* it.
LEMMA MetaInitialize ==
  ASSUME MetaInv, InitializeMetadata
  PROVE  MetaInv'
<1>1. CliTypes' /\ cli'.pc = "init_write" /\ cli'.key = cli.key /\ cli'.read = cli.read
  BY Goes DEF MetaInv, ControlTypes, CliPcs, Undeclared, InitializeMetadata
<1>2. /\ transaction' \in Transactions /\ transaction'.by = "cli" /\ transaction'.step = "write"
      /\ transaction'.copy.on = {} /\ transaction'.copy.current = cli.read
  BY DEF MetaInv, ControlTypes, CliTypes, DeclaredOK, InitializeMetadata, BeginTransaction, Transactions, Metadata
<1>3. ControlTypes'
  BY <1>1, <1>2, NoneAssumption DEF MetaInv, ControlTypes, InitializeMetadata, BeginTransaction, Frozen, intake, meta
<1>4. MetaTypes'
  BY <1>1, <1>2, NoneAssumption DEF MetaInv, MetaTypes, InitializeMetadata, BeginTransaction, Frozen, intake, meta
<1>5. TransactionOK'
  BY <1>1, <1>2, NoneAssumption DEF MetaInv, TransactionOK, InitializeMetadata, BeginTransaction, Frozen, intake, meta
<1>6. DeclaredOK'
  BY <1>1, <1>2, NoneAssumption DEF MetaInv, DeclaredOK, Undeclared, InitializeMetadata, BeginTransaction, Frozen, intake, meta
<1>7. CurrentOK'
  BY <1>1, <1>2, NoneAssumption DEF MetaInv, CurrentOK, DeclaredOK, Undeclared, InitializeMetadata, BeginTransaction, Frozen, intake, meta
<1>8. SavedOK'
  BY <1>1, <1>2, NoneAssumption DEF MetaInv, SavedOK, Stopping, Undeclared, InitializeMetadata, BeginTransaction, Frozen, intake, meta
<1> QED BY <1>3, <1>4, <1>5, <1>6, <1>7, <1>8 DEF MetaInv

\* The first metadata are written and kept, or the command ends without them.
LEMMA MetaInitialized ==
  ASSUME MetaInv, NEW ok \in BOOLEAN, MetadataInitialized(ok)
  PROVE  MetaInv'
<1>1. /\ transaction # None /\ transaction \in Transactions /\ transaction.by = "cli"
      /\ metadata = None /\ cli.pc = "init_write" /\ cli.key \in Keys
      /\ transaction.copy.on = {} /\ transaction.copy.current = cli.read
      /\ transaction.copy \in Metadata /\ transaction.copy # None
  BY NoneAssumption DEF MetaInv, ControlTypes, CliTypes, MetaTypes, DeclaredOK, TransactionOK, Undeclared, Transactions, MetadataInitialized
<1>2. CliTypes /\ "prepare" \in CliPcs
  BY DEF MetaInv, ControlTypes, CliPcs
<1>3. /\ CliTypes'
      /\ \/ /\ cli' = cli /\ transaction.step = "write" /\ disk' = transaction.copy /\ metadata' = metadata
            /\ transaction' \in Transactions
            /\ transaction'.by = "cli" /\ transaction'.step = "commit" /\ transaction'.copy = transaction.copy
         \/ /\ transaction.step = "write" /\ disk' = disk /\ metadata' = metadata /\ transaction' = None
            /\ cli'.pc = "idle" /\ cli'.key = None /\ cli'.read = None
         \/ /\ transaction.step = "commit" /\ metadata' = transaction.copy /\ transaction' = None /\ disk' = disk
            /\ cli'.pc = "prepare" /\ cli'.key = cli.key /\ cli'.read = None
  <2>1. CASE WriteMetadata("cli", ok) /\ ok /\ cli' = cli
    BY <1>1, <1>2, <2>1 DEF WriteMetadata, Transactions, CliTypes
  <2>2. CASE WriteMetadata("cli", ok) /\ ~ok /\ CliEnds
    BY <1>1, <2>2, Ends DEF WriteMetadata
  <2>3. CASE CommitMetadata("cli") /\ cli' = [cli EXCEPT !.pc = "prepare", !.read = None]
    BY <1>1, <1>2, <2>3 DEF CommitMetadata, CliTypes, Transactions
  <2> QED BY <2>1, <2>2, <2>3 DEF MetadataInitialized
<1>4. stream' = stream /\ UNCHANGED <<service, stop_event, quit, subscribed, selected, register, changes, recorder, missed>>
  BY DEF MetadataInitialized, Frozen, intake
<1>5. ControlTypes'
  BY <1>1, <1>3, <1>4, NoneAssumption DEF MetaInv, ControlTypes
<1>6. MetaTypes'
  BY <1>1, <1>3, <1>4, NoneAssumption DEF MetaInv, MetaTypes
<1>7. TransactionOK'
  BY <1>1, <1>3, <1>4, NoneAssumption DEF MetaInv, TransactionOK
<1>8. DeclaredOK'
  BY <1>1, <1>3, <1>4, NoneAssumption DEF MetaInv, DeclaredOK, Undeclared
<1>9. CurrentOK'
  BY <1>1, <1>3, <1>4, NoneAssumption DEF MetaInv, CurrentOK, DeclaredOK, Undeclared
<1>10. SavedOK'
  BY <1>1, <1>3, <1>4, NoneAssumption DEF MetaInv, SavedOK, Stopping, Undeclared
<1> QED BY <1>5, <1>6, <1>7, <1>8, <1>9, <1>10 DEF MetaInv

\* prepare_stream, refused while the dataset is enabled.
LEMMA MetaPrepare ==
  ASSUME MetaInv, Prepare(cli.key), cli.key \in Keys
  PROVE  MetaInv'
<1>1. /\ CliTypes' /\ cli'.read = cli.read
      /\ \/ cli'.pc = "idle" /\ cli'.key = None /\ stream[cli.key].enabled
         \/ cli'.pc = "activate" /\ cli'.key = cli.key /\ ~stream[cli.key].enabled
  BY Goes, Ends DEF MetaInv, ControlTypes, DeclaredOK, Undeclared, CliPcs, Prepare
<1>2. /\ stream' \in [Keys -> [known : BOOLEAN, enabled : BOOLEAN, format : Formats]]
      /\ \A k \in Keys : /\ stream'[k].enabled = stream[k].enabled
                         /\ k # cli.key => stream'[k].known = stream[k].known
  <2>1. CASE stream[cli.key].enabled
    BY <2>1 DEF MetaInv, ControlTypes, Prepare
  <2>2. CASE ~stream[cli.key].enabled
    <3>1. cli.format \in Formats /\ stream' = [stream EXCEPT ![cli.key].known = TRUE, ![cli.key].format = cli.format]
      BY <2>2 DEF MetaInv, ControlTypes, CliTypes, Prepare
    <3> QED BY <3>1 DEF MetaInv, ControlTypes
  <2> QED BY <2>1, <2>2
<1>3. ControlTypes'
  BY <1>1, <1>2, NoneAssumption DEF MetaInv, ControlTypes, Prepare, Frozen, intake, meta
<1>4. MetaTypes'
  BY <1>1, <1>2, NoneAssumption DEF MetaInv, MetaTypes, Prepare, Frozen, intake, meta
<1>5. TransactionOK'
  BY <1>1, <1>2, NoneAssumption DEF MetaInv, TransactionOK, Prepare, Frozen, intake, meta
<1>6. DeclaredOK'
  BY <1>1, <1>2, NoneAssumption DEF MetaInv, DeclaredOK, Undeclared, Prepare, Frozen, intake, meta
<1>7. CurrentOK'
  BY <1>1, <1>2, NoneAssumption DEF MetaInv, CurrentOK, DeclaredOK, Undeclared, Prepare, Frozen, intake, meta
<1>8. SavedOK'
  BY <1>1, <1>2, NoneAssumption DEF MetaInv, SavedOK, Stopping, Undeclared, Prepare, Frozen, intake, meta
<1> QED BY <1>3, <1>4, <1>5, <1>6, <1>7, <1>8 DEF MetaInv

\* activate and deactivate: the dataset enabled or disabled is the one of the
\* command.
LEMMA MetaSetEnabled ==
  ASSUME MetaInv, NEW enabled \in BOOLEAN, NEW pc \in {"idle", "subscribe", "declare", "wait"},
         SetEnabled(cli.key, enabled, pc),
         \/ cli.pc = "activate" /\ enabled /\ pc = "subscribe" /\ cli.key \in Samples
         \/ cli.pc = "activate" /\ enabled /\ pc = "declare"
         \/ cli.pc = "deactivate" /\ ~enabled /\ pc = "idle"
         \/ cli.pc = "disable" /\ ~enabled /\ pc = "wait"
  PROVE  MetaInv'
<1>1. CliTypes' /\ cli'.read = cli.read /\ cli'.pc = pc /\ cli'.key = IF pc = "idle" THEN None ELSE cli.key
  BY Goes, Ends DEF MetaInv, ControlTypes, DeclaredOK, CliPcs, Stopping, SetEnabled
<1>2. /\ stream' \in [Keys -> [known : BOOLEAN, enabled : BOOLEAN, format : Formats]]
      /\ \A k \in Keys : /\ stream'[k].known = stream[k].known
                         /\ stream'[k].enabled = IF k = cli.key THEN enabled ELSE stream[k].enabled
  BY DEF MetaInv, ControlTypes, SetEnabled
<1>3. ControlTypes'
  BY <1>1, <1>2, NoneAssumption DEF MetaInv, ControlTypes, SetEnabled, CliTypes, Frozen, intake, meta
<1>4. MetaTypes'
  BY <1>1, <1>2, NoneAssumption DEF MetaInv, MetaTypes, SetEnabled, CliTypes, Frozen, intake, meta
<1>5. TransactionOK'
  BY <1>1, <1>2, NoneAssumption DEF MetaInv, TransactionOK, SetEnabled, CliTypes, Frozen, intake, meta
<1>6. DeclaredOK'
  BY <1>1, <1>2, NoneAssumption DEF MetaInv, DeclaredOK, Undeclared, SetEnabled, CliTypes, Frozen, intake, meta
<1>7. CurrentOK'
  BY <1>1, <1>2, NoneAssumption DEF MetaInv, CurrentOK, DeclaredOK, Undeclared, SetEnabled, CliTypes, Frozen, intake, meta
<1>8. SavedOK'
  BY <1>1, <1>2, NoneAssumption DEF MetaInv, SavedOK, Stopping, Undeclared, SetEnabled, CliTypes, Frozen, intake, meta
<1> QED BY <1>3, <1>4, <1>5, <1>6, <1>7, <1>8 DEF MetaInv

\* Subscribing and unsubscribing, with either result, do not touch the
\* metadata.
LEMMA MetaSubscription ==
  ASSUME MetaInv, NEW ok \in BOOLEAN, SubscribeStream(ok) \/ RollBack(ok) \/ UnsubscribeStream(ok)
  PROVE  MetaInv'
<1>1. CliTypes' /\ cli'.read = cli.read
      /\ \/ cli.pc = "subscribe" /\ cli'.pc \in {"declare", "deactivate"} /\ cli'.key = cli.key
         \/ cli.pc = "rollback" /\ cli'.pc = "deactivate" /\ cli'.key = cli.key
         \/ cli.pc = "unsubscribe" /\ cli'.pc = "disable" /\ cli'.key = cli.key
         \/ cli.pc = "unsubscribe" /\ cli'.pc = "idle" /\ cli'.key = None
  BY Goes, Ends DEF MetaInv, ControlTypes, DeclaredOK, CliPcs, Stopping, SubscribeStream, RollBack, UnsubscribeStream
<1>2. ControlTypes'
  BY <1>1, NoneAssumption DEF MetaInv, ControlTypes, CliTypes, SubscribeStream, RollBack, UnsubscribeStream, Frozen, intake, meta
<1>3. MetaTypes'
  BY <1>1, NoneAssumption DEF MetaInv, MetaTypes, SubscribeStream, RollBack, UnsubscribeStream, Frozen, intake, meta
<1>4. TransactionOK'
  BY <1>1, NoneAssumption DEF MetaInv, TransactionOK, SubscribeStream, RollBack, UnsubscribeStream, Frozen, intake, meta
<1>5. DeclaredOK'
  BY <1>1, NoneAssumption DEF MetaInv, DeclaredOK, Undeclared, SubscribeStream, RollBack, UnsubscribeStream, Frozen, intake, meta
<1>6. CurrentOK'
  BY <1>1, NoneAssumption DEF MetaInv, CurrentOK, DeclaredOK, Undeclared, SubscribeStream, RollBack, UnsubscribeStream, Frozen, intake, meta
<1>7. SavedOK'
  BY <1>1, NoneAssumption DEF MetaInv, SavedOK, Stopping, Undeclared, SubscribeStream, RollBack, UnsubscribeStream, Frozen, intake, meta
<1> QED BY <1>2, <1>3, <1>4, <1>5, <1>6, <1>7 DEF MetaInv

\* The copy in which the dataset of the command is on or off.
LEMMA MetaUpdate ==
  ASSUME MetaInv, UpdateMetadata
  PROVE  MetaInv'
<1>1. /\ CliTypes' /\ cli'.read = cli.read /\ cli'.key = cli.key
      /\ cli'.pc = IF cli.pc = "declare" THEN "declaring" ELSE "withdrawing"
  BY Goes DEF MetaInv, ControlTypes, CliPcs, Stopping, UpdateMetadata
<1>2. /\ metadata # None /\ metadata \in Metadata /\ cli.key \in Keys
      /\ cli.pc = "declare" \/ cli.pc = "withdraw"
  BY DEF MetaInv, ControlTypes, CliTypes, MetaTypes, DeclaredOK, Undeclared, UpdateMetadata
<1>3. /\ transaction' \in Transactions /\ transaction'.by = "cli" /\ transaction'.step = "write"
      /\ transaction'.copy.current = metadata.current
      /\ transaction'.copy.on = IF cli.pc = "declare" THEN metadata.on \cup {cli.key} ELSE metadata.on \ {cli.key}
  BY <1>2 DEF UpdateMetadata, BeginTransaction, Transactions, Metadata
<1>4. ControlTypes'
  BY <1>1, <1>2, <1>3, NoneAssumption DEF MetaInv, ControlTypes, UpdateMetadata, BeginTransaction, Frozen, intake, meta
<1>5. MetaTypes'
  BY <1>1, <1>2, <1>3, NoneAssumption DEF MetaInv, MetaTypes, UpdateMetadata, BeginTransaction, Frozen, intake, meta
<1>6. TransactionOK'
  BY <1>1, <1>2, <1>3, NoneAssumption DEF MetaInv, TransactionOK, UpdateMetadata, BeginTransaction, Frozen, intake, meta
<1>7. DeclaredOK'
  BY <1>1, <1>2, <1>3, NoneAssumption DEF MetaInv, DeclaredOK, Undeclared, UpdateMetadata, BeginTransaction, Frozen, intake, meta
<1>8. CurrentOK'
  BY <1>1, <1>2, <1>3, NoneAssumption DEF MetaInv, CurrentOK, DeclaredOK, Undeclared, UpdateMetadata, BeginTransaction, Frozen, intake, meta
<1>9. SavedOK'
  BY <1>1, <1>2, <1>3, NoneAssumption DEF MetaInv, SavedOK, Stopping, Undeclared, UpdateMetadata, BeginTransaction, Frozen, intake, meta
<1> QED BY <1>4, <1>5, <1>6, <1>7, <1>8, <1>9 DEF MetaInv

\* The copy is written and kept, or save_start undoes what it did.
LEMMA MetaUpdated ==
  ASSUME MetaInv, NEW ok \in BOOLEAN, NEW undo \in {"rollback", "deactivate"}, MetadataUpdated(ok, undo),
         undo = "rollback" => cli.key \in Samples
  PROVE  MetaInv'
<1>1. /\ transaction # None /\ transaction \in Transactions /\ transaction.by = "cli"
      /\ metadata # None /\ cli.pc \in {"declaring", "withdrawing"} /\ cli.key \in Keys
      /\ transaction.copy \in Metadata /\ transaction.copy # None
  BY NoneAssumption DEF MetaInv, ControlTypes, CliTypes, MetaTypes, DeclaredOK, TransactionOK, Undeclared, Transactions, MetadataUpdated
<1>2. CliTypes /\ undo \in CliPcs /\ cli.read = None
  BY <1>1 DEF MetaInv, ControlTypes, CliPcs, DeclaredOK
<1>3. /\ CliTypes'
      /\ \/ /\ cli' = cli /\ transaction.step = "write" /\ disk' = transaction.copy /\ metadata' = metadata
            /\ transaction' \in Transactions
            /\ transaction'.by = "cli" /\ transaction'.step = "commit" /\ transaction'.copy = transaction.copy
         \/ /\ transaction.step = "write" /\ disk' = disk /\ metadata' = metadata /\ transaction' = None
            /\ cli'.read = None
            /\ \/ cli.pc = "withdrawing" /\ cli'.pc = "idle" /\ cli'.key = None
               \/ cli.pc = "declaring" /\ cli'.pc = undo /\ cli'.key = cli.key
         \/ /\ transaction.step = "commit" /\ metadata' = transaction.copy /\ transaction' = None /\ disk' = disk
            /\ cli'.pc = "idle" /\ cli'.key = None /\ cli'.read = None
  <2>1. CASE WriteMetadata("cli", ok) /\ ok /\ cli' = cli
    BY <1>1, <1>2, <2>1 DEF WriteMetadata, Transactions, CliTypes
  <2>2. CASE WriteMetadata("cli", ok) /\ ~ok /\ cli.pc = "withdrawing" /\ CliEnds
    BY <1>1, <2>2, Ends DEF WriteMetadata
  <2>3. CASE WriteMetadata("cli", ok) /\ ~ok /\ cli.pc = "declaring" /\ CliGoto(undo)
    BY <1>1, <1>2, <2>3, Goes DEF WriteMetadata
  <2>4. CASE CommitMetadata("cli") /\ CliEnds
    BY <1>1, <2>4, Ends DEF CommitMetadata, Transactions
  <2> QED BY <1>1, <2>1, <2>2, <2>3, <2>4 DEF MetadataUpdated
<1>4. stream' = stream /\ UNCHANGED <<service, stop_event, quit, subscribed, selected, register, changes, recorder, missed>>
  BY DEF MetadataUpdated, Frozen, intake
<1>5. ControlTypes'
  BY <1>1, <1>2, <1>3, <1>4, NoneAssumption DEF MetaInv, ControlTypes
<1>6. MetaTypes'
  BY <1>1, <1>2, <1>3, <1>4, NoneAssumption DEF MetaInv, MetaTypes
<1>7. TransactionOK'
  BY <1>1, <1>2, <1>3, <1>4, NoneAssumption DEF MetaInv, TransactionOK
<1>8. DeclaredOK'
  BY <1>1, <1>2, <1>3, <1>4, NoneAssumption DEF MetaInv, DeclaredOK, Undeclared
<1>9. CurrentOK'
  BY <1>1, <1>2, <1>3, <1>4, NoneAssumption DEF MetaInv, CurrentOK, TransactionOK, DeclaredOK, Undeclared
<1>10. SavedOK'
  BY <1>1, <1>2, <1>3, <1>4, NoneAssumption DEF MetaInv, SavedOK, TransactionOK, Stopping, Undeclared
<1> QED BY <1>5, <1>6, <1>7, <1>8, <1>9, <1>10 DEF MetaInv

\* wait_until_idle, which ends the command when it times out.
LEMMA MetaWait ==
  ASSUME MetaInv, NEW ok \in BOOLEAN, WaitIdle(ok)
  PROVE  MetaInv'
<1>1. /\ CliTypes' /\ cli'.read = cli.read
      /\ \/ cli'.pc = "flush" /\ cli'.key = cli.key
         \/ cli'.pc = "idle" /\ cli'.key = None
  BY Goes, Ends DEF MetaInv, ControlTypes, DeclaredOK, Undeclared, CliPcs, Stopping, WaitIdle
<1>2. ControlTypes'
  BY <1>1, NoneAssumption DEF MetaInv, ControlTypes, WaitIdle, Frozen, intake, meta
<1>3. MetaTypes'
  BY <1>1, NoneAssumption DEF MetaInv, MetaTypes, WaitIdle, Frozen, intake, meta
<1>4. TransactionOK'
  BY <1>1, NoneAssumption DEF MetaInv, TransactionOK, WaitIdle, Frozen, intake, meta
<1>5. DeclaredOK'
  BY <1>1, NoneAssumption DEF MetaInv, DeclaredOK, Undeclared, WaitIdle, Frozen, intake, meta
<1>6. CurrentOK'
  BY <1>1, NoneAssumption DEF MetaInv, CurrentOK, DeclaredOK, Undeclared, WaitIdle, Frozen, intake, meta
<1>7. SavedOK'
  BY <1>1, NoneAssumption DEF MetaInv, SavedOK, Stopping, Undeclared, WaitIdle, Frozen, intake, meta
<1> QED BY <1>2, <1>3, <1>4, <1>5, <1>6, <1>7 DEF MetaInv

\* The flush of save_stop does not touch the metadata.
LEMMA MetaFlush ==
  ASSUME MetaInv, Flush
  PROVE  MetaInv'
<1>1. /\ CliTypes' /\ cli'.read = cli.read
      /\ cli'.pc = "flushing" /\ cli'.key = cli.key
  BY Goes, Ends DEF MetaInv, ControlTypes, CliPcs, Stopping, Flush
<1>2. ControlTypes'
  BY <1>1, NoneAssumption DEF MetaInv, ControlTypes, Flush, Frozen, intake, meta
<1>3. MetaTypes'
  BY <1>1, NoneAssumption DEF MetaInv, MetaTypes, Flush, Frozen, intake, meta
<1>4. TransactionOK'
  BY <1>1, NoneAssumption DEF MetaInv, TransactionOK, Flush, Frozen, intake, meta
<1>5. DeclaredOK'
  BY <1>1, NoneAssumption DEF MetaInv, DeclaredOK, Undeclared, Flush, Frozen, intake, meta
<1>6. CurrentOK'
  BY <1>1, NoneAssumption DEF MetaInv, CurrentOK, DeclaredOK, Undeclared, Flush, Frozen, intake, meta
<1>7. SavedOK'
  BY <1>1, NoneAssumption DEF MetaInv, SavedOK, Stopping, Undeclared, Flush, Frozen, intake, meta
<1> QED BY <1>2, <1>3, <1>4, <1>5, <1>6, <1>7 DEF MetaInv

\* After the flush the dataset is withdrawn from the metadata, or the command
\* ends.
LEMMA MetaFlushed ==
  ASSUME MetaInv, Flushed
  PROVE  MetaInv'
<1>1. /\ CliTypes' /\ cli'.read = cli.read
      /\ \/ cli'.pc = "withdraw" /\ cli'.key = cli.key
         \/ cli'.pc = "idle" /\ cli'.key = None
  BY Goes, Ends DEF MetaInv, ControlTypes, DeclaredOK, Undeclared, CliPcs, Stopping, Flushed
<1>2. ControlTypes'
  BY <1>1, NoneAssumption DEF MetaInv, ControlTypes, Flushed, Frozen, intake, meta
<1>3. MetaTypes'
  BY <1>1, NoneAssumption DEF MetaInv, MetaTypes, Flushed, Frozen, intake, meta
<1>4. TransactionOK'
  BY <1>1, NoneAssumption DEF MetaInv, TransactionOK, Flushed, Frozen, intake, meta
<1>5. DeclaredOK'
  BY <1>1, NoneAssumption DEF MetaInv, DeclaredOK, Undeclared, Flushed, Frozen, intake, meta
<1>6. CurrentOK'
  BY <1>1, NoneAssumption DEF MetaInv, CurrentOK, DeclaredOK, Undeclared, Flushed, Frozen, intake, meta
<1>7. SavedOK'
  BY <1>1, NoneAssumption DEF MetaInv, SavedOK, Stopping, Undeclared, Flushed, Frozen, intake, meta
<1> QED BY <1>2, <1>3, <1>4, <1>5, <1>6, <1>7 DEF MetaInv

\* save_start begins, with metadata to be built or there already.
LEMMA MetaSaveStart ==
  ASSUME MetaInv, NEW k \in Keys, NEW format \in Formats, SaveStart(k, format)
  PROVE  MetaInv'
<1>1. /\ CliTypes' /\ cli'.read = None /\ cli'.key = k
      /\ cli'.pc = IF metadata = None THEN "build" ELSE "prepare"
  BY DEF CliTypes, CliPcs, Undeclared, IdleCli, SaveStart
<1>2. ControlTypes'
  BY <1>1, NoneAssumption DEF MetaInv, ControlTypes, SaveStart, Frozen, intake, meta
<1>3. MetaTypes'
  BY <1>1, NoneAssumption DEF MetaInv, MetaTypes, SaveStart, Frozen, intake, meta
<1>4. TransactionOK'
  BY <1>1, NoneAssumption DEF MetaInv, TransactionOK, SaveStart, Frozen, intake, meta
<1>5. DeclaredOK'
  BY <1>1, NoneAssumption DEF MetaInv, DeclaredOK, Undeclared, SaveStart, Frozen, intake, meta
<1>6. CurrentOK'
  BY <1>1, NoneAssumption DEF MetaInv, CurrentOK, DeclaredOK, Undeclared, SaveStart, Frozen, intake, meta
<1>7. SavedOK'
  BY <1>1, NoneAssumption DEF MetaInv, SavedOK, Stopping, Undeclared, SaveStart, Frozen, intake, meta
<1> QED BY <1>2, <1>3, <1>4, <1>5, <1>6, <1>7 DEF MetaInv

\* save_stop begins with a dataset that is known, so there are metadata.
LEMMA MetaSaveStop ==
  ASSUME MetaInv, NEW k \in Keys, NEW pc \in {"unsubscribe", "disable"}, SaveStop(k, pc)
  PROVE  MetaInv'
<1>1. /\ CliTypes' /\ cli'.read = None /\ cli'.key = k /\ cli'.pc = pc
  BY DEF CliTypes, CliPcs, Formats, Undeclared, IdleCli, SaveStop
<1>2. ControlTypes'
  BY <1>1, NoneAssumption DEF MetaInv, ControlTypes, SaveStop, Frozen, intake, meta
<1>3. MetaTypes'
  BY <1>1, NoneAssumption DEF MetaInv, MetaTypes, SaveStop, Frozen, intake, meta
<1>4. TransactionOK'
  BY <1>1, NoneAssumption DEF MetaInv, TransactionOK, SaveStop, Frozen, intake, meta
<1>5. DeclaredOK'
  BY <1>1, NoneAssumption DEF MetaInv, DeclaredOK, Undeclared, SaveStop, Frozen, intake, meta
<1>6. CurrentOK'
  BY <1>1, NoneAssumption DEF MetaInv, CurrentOK, DeclaredOK, Undeclared, SaveStop, Frozen, intake, meta
<1>7. SavedOK'
  BY <1>1, NoneAssumption DEF MetaInv, SavedOK, Stopping, Undeclared, SaveStop, Frozen, intake, meta
<1> QED BY <1>2, <1>3, <1>4, <1>5, <1>6, <1>7 DEF MetaInv

\* The registers are read from the board, or could not be and the change is
\* missed.
LEMMA MetaBuild ==
  ASSUME MetaInv, NEW ok \in BOOLEAN, BuildMetadata(ok)
  PROVE  MetaInv'
<1>1. /\ CliTypes' /\ cli'.read = (IF ok THEN register ELSE Unknown) /\ cli'.key = cli.key /\ cli'.pc = "init"
  BY DEF MetaInv, MetaTypes, ControlTypes, CliTypes, CliPcs, Undeclared, BuildMetadata, Unknown
<1>2. cli'.read # None
  BY <1>1, NoneAssumption DEF MetaInv, MetaTypes, Unknown
<1>3. ControlTypes'
  BY <1>1, <1>2, NoneAssumption DEF MetaInv, ControlTypes, BuildMetadata, Frozen, intake, meta
<1>4. MetaTypes'
  BY <1>1, <1>2, NoneAssumption DEF MetaInv, MetaTypes, BuildMetadata, Frozen, intake, meta
<1>5. TransactionOK'
  BY <1>1, <1>2, NoneAssumption DEF MetaInv, TransactionOK, BuildMetadata, Frozen, intake, meta
<1>6. DeclaredOK'
  BY <1>1, <1>2, NoneAssumption DEF MetaInv, DeclaredOK, Undeclared, BuildMetadata, Frozen, intake, meta
<1>7. CurrentOK'
  BY <1>1, <1>2, NoneAssumption DEF MetaInv, CurrentOK, DeclaredOK, Undeclared, BuildMetadata, Frozen, intake, meta
<1>8. SavedOK'
  BY <1>1, <1>2, NoneAssumption DEF MetaInv, SavedOK, Stopping, Undeclared, BuildMetadata, Frozen, intake, meta
<1> QED BY <1>3, <1>4, <1>5, <1>6, <1>7, <1>8 DEF MetaInv

\* The board changes: the last change under way is its register, or is missed.
LEMMA MetaChange ==
  ASSUME MetaInv, NEW delivered \in BOOLEAN, ConfigurationChanges(delivered)
  PROVE  MetaInv'
<1>1. /\ changes' \in Seq(Nat) /\ register' \in Nat /\ missed' \in BOOLEAN
      /\ ~missed' => ~missed /\ changes' # <<>> /\ changes'[Len(changes')] = register'
  <2>1. register \in Nat /\ register + 1 \in Nat /\ changes \in Seq(Nat) /\ missed \in BOOLEAN
    BY DEF MetaInv, MetaTypes
  <2>2. CASE delivered
    BY <2>1, <2>2 DEF ConfigurationChanges
  <2>3. CASE ~delivered
    BY <2>1, <2>3 DEF ConfigurationChanges
  <2> QED BY <2>2, <2>3
<1>2. UNCHANGED <<service, stop_event, quit, stream, subscribed, selected, cli, metadata, disk, transaction, recorder>>
  BY DEF ConfigurationChanges, Frozen, intake
<1>3. ControlTypes'
  BY <1>1, <1>2, NoneAssumption DEF MetaInv, ControlTypes, CliTypes
<1>4. MetaTypes'
  BY <1>1, <1>2, NoneAssumption DEF MetaInv, MetaTypes, CliTypes
<1>5. TransactionOK'
  BY <1>1, <1>2, NoneAssumption DEF MetaInv, TransactionOK, CliTypes
<1>6. DeclaredOK'
  BY <1>1, <1>2, NoneAssumption DEF MetaInv, DeclaredOK, Undeclared, CliTypes
<1>7. CurrentOK'
  BY <1>1, <1>2, NoneAssumption DEF MetaInv, CurrentOK, DeclaredOK, Undeclared, CliTypes
<1>8. SavedOK'
  BY <1>1, <1>2, NoneAssumption DEF MetaInv, SavedOK, Stopping, Undeclared, CliTypes
<1> QED BY <1>3, <1>4, <1>5, <1>6, <1>7, <1>8 DEF MetaInv

\* handle_configuration_event takes the first change, or gives it up and misses
\* it.
LEMMA MetaEvent ==
  ASSUME MetaInv, NEW ok \in BOOLEAN, ConfigurationEvent(ok)
  PROVE  MetaInv'
<1>1. /\ changes' \in Seq(Nat) /\ Head(changes) \in Nat
      /\ changes' # <<>> => changes'[Len(changes')] = changes[Len(changes)]
      /\ changes' = <<>> => Head(changes) = changes[Len(changes)]
  <2>1. changes \in Seq(Nat) /\ changes # <<>> /\ changes' = Tail(changes)
    BY DEF MetaInv, MetaTypes, ConfigurationEvent
  <2>2. /\ Head(changes) = changes[1] /\ Head(changes) \in Nat /\ Tail(changes) \in Seq(Nat)
        /\ Len(Tail(changes)) = Len(changes) - 1 /\ Len(changes) \in Nat
        /\ \A i \in 1..Len(Tail(changes)) : Tail(changes)[i] = changes[i + 1]
    BY <2>1
  <2>3. CASE Len(changes) = 1
    BY <2>1, <2>2, <2>3, EmptySeq
  <2>4. CASE Len(changes) # 1
    <3>1. Len(changes) # 0
      BY <2>1, EmptySeq
    <3>2. Len(changes') = Len(changes) - 1 /\ Len(changes') \in 1..Len(Tail(changes))
      BY <2>1, <2>2, <2>4, <3>1
    <3>3. changes'[Len(changes')] = changes[Len(changes)]
      BY <2>1, <2>2, <3>2
    <3>4. changes' # <<>>
      BY <3>2
    <3> QED BY <2>1, <2>2, <3>3, <3>4
  <2> QED BY <2>3, <2>4
<1>2. /\ UNCHANGED <<service, stop_event, quit, stream, subscribed, selected, cli, register, metadata, disk, transaction>>
      /\ recorder = None /\ changes # <<>> /\ recorder' = (IF ok THEN Head(changes) ELSE None) /\ missed' = (missed \/ ~ok)
  BY DEF ConfigurationEvent, Frozen, intake
<1>3. ControlTypes'
  BY <1>1, <1>2, NoneAssumption DEF MetaInv, ControlTypes, CliTypes
<1>4. MetaTypes'
  BY <1>1, <1>2, NoneAssumption DEF MetaInv, MetaTypes, CliTypes
<1>5. TransactionOK'
  BY <1>1, <1>2, NoneAssumption DEF MetaInv, TransactionOK, CliTypes
<1>6. DeclaredOK'
  BY <1>1, <1>2, NoneAssumption DEF MetaInv, DeclaredOK, Undeclared, CliTypes
<1>7. CurrentOK'
  BY <1>1, <1>2, NoneAssumption DEF MetaInv, CurrentOK, DeclaredOK, Undeclared, CliTypes
<1>8. SavedOK'
  BY <1>1, <1>2, NoneAssumption DEF MetaInv, SavedOK, Stopping, Undeclared, CliTypes
<1> QED BY <1>3, <1>4, <1>5, <1>6, <1>7, <1>8 DEF MetaInv

\* record_configuration_change finds no metadata yet, or nothing to change.
LEMMA MetaNothing ==
  ASSUME MetaInv, NothingToRecord
  PROVE  MetaInv'
<1>1. ControlTypes'
  BY NoneAssumption DEF MetaInv, ControlTypes, CliTypes, NothingToRecord, Frozen, intake, meta
<1>2. MetaTypes'
  BY NoneAssumption DEF MetaInv, MetaTypes, CliTypes, NothingToRecord, Frozen, intake, meta
<1>3. TransactionOK'
  BY NoneAssumption DEF MetaInv, TransactionOK, CliTypes, NothingToRecord, Frozen, intake, meta
<1>4. DeclaredOK'
  BY NoneAssumption DEF MetaInv, DeclaredOK, Undeclared, CliTypes, NothingToRecord, Frozen, intake, meta
<1>5. CurrentOK'
  BY NoneAssumption DEF MetaInv, CurrentOK, DeclaredOK, Undeclared, CliTypes, NothingToRecord, Frozen, intake, meta
<1>6. SavedOK'
  BY NoneAssumption DEF MetaInv, SavedOK, Stopping, Undeclared, CliTypes, NothingToRecord, Frozen, intake, meta
<1> QED BY <1>1, <1>2, <1>3, <1>4, <1>5, <1>6 DEF MetaInv

\* record_configuration_change begins a transaction with the new register in
\* the copy.
LEMMA MetaRecord ==
  ASSUME MetaInv, RecordConfigurationChange
  PROVE  MetaInv'
<1>1. metadata \in Metadata /\ recorder \in Nat
  BY DEF MetaInv, MetaTypes, RecordConfigurationChange
<1>2. /\ transaction' \in Transactions /\ transaction'.by = "events" /\ transaction'.step = "write"
      /\ transaction'.copy.on = metadata.on /\ transaction'.copy.current = recorder
      /\ transaction = None /\ recorder # None /\ metadata # None
  <2> DEFINE pair == <<metadata.current, recorder>>
  <2>1. pair \in Nat \X Nat
    BY <1>1 DEF Metadata
  <2>2. Append(metadata.history, pair) \in Seq(Nat \X Nat)
    BY <1>1, <2>1 DEF Metadata
  <2>3. transaction' = [by |-> "events", step |-> "write", copy |-> [metadata EXCEPT !.current = recorder, !.history = Append(@, pair)]]
    BY DEF RecordConfigurationChange, BeginTransaction
  <2> HIDE DEF pair
  <2>4. [metadata EXCEPT !.current = recorder, !.history = Append(@, pair)] \in Metadata
    BY <1>1, <2>2 DEF Metadata
  <2>5. transaction' \in Transactions
    BY <2>3, <2>4 DEF Transactions
  <2>6. /\ [metadata EXCEPT !.current = recorder, !.history = Append(@, pair)].on = metadata.on
        /\ [metadata EXCEPT !.current = recorder, !.history = Append(@, pair)].current = recorder
    BY <1>1 DEF Metadata
  <2>7. transaction = None /\ recorder # None /\ metadata # None
    BY DEF RecordConfigurationChange, BeginTransaction
  <2> QED BY <2>3, <2>5, <2>6, <2>7
<1>3. UNCHANGED <<service, stop_event, quit, stream, subscribed, selected, cli, register, changes, recorder, missed, metadata, disk>>
  BY DEF RecordConfigurationChange, BeginTransaction, Frozen, intake
<1>4. ControlTypes'
  BY <1>1, <1>2, <1>3, NoneAssumption DEF MetaInv, ControlTypes, CliTypes
<1>5. MetaTypes'
  BY <1>1, <1>2, <1>3, NoneAssumption DEF MetaInv, MetaTypes, CliTypes
<1>6. TransactionOK'
  BY <1>1, <1>2, <1>3, NoneAssumption DEF MetaInv, TransactionOK, CliTypes
<1>7. DeclaredOK'
  BY <1>1, <1>2, <1>3, NoneAssumption DEF MetaInv, DeclaredOK, Undeclared, CliTypes
<1>8. CurrentOK'
  BY <1>1, <1>2, <1>3, NoneAssumption DEF MetaInv, CurrentOK, DeclaredOK, Undeclared, CliTypes
<1>9. SavedOK'
  BY <1>1, <1>2, <1>3, NoneAssumption DEF MetaInv, SavedOK, Stopping, Undeclared, CliTypes
<1> QED BY <1>4, <1>5, <1>6, <1>7, <1>8, <1>9 DEF MetaInv

\* The change is written and kept, or missed.
LEMMA MetaRecorded ==
  ASSUME MetaInv, NEW ok \in BOOLEAN, ChangeRecorded(ok)
  PROVE  MetaInv'
<1>1. /\ transaction # None /\ transaction \in Transactions /\ transaction.by = "events"
      /\ metadata # None /\ recorder # None /\ recorder \in Nat
      /\ transaction.copy.on = metadata.on /\ transaction.copy.current = recorder
      /\ transaction.copy \in Metadata /\ transaction.copy # None
  BY NoneAssumption DEF MetaInv, MetaTypes, TransactionOK, Transactions, ChangeRecorded, WriteMetadata, CommitMetadata
<1>2. \/ /\ transaction.step = "write" /\ disk' = transaction.copy /\ metadata' = metadata
         /\ transaction' \in Transactions /\ recorder' = recorder /\ missed' = missed
         /\ transaction'.by = "events" /\ transaction'.step = "commit" /\ transaction'.copy = transaction.copy
      \/ /\ transaction.step = "write" /\ disk' = disk /\ metadata' = metadata /\ transaction' = None
         /\ recorder' = None /\ missed' = TRUE
      \/ /\ transaction.step = "commit" /\ metadata' = transaction.copy /\ transaction' = None /\ disk' = disk
         /\ recorder' = None /\ missed' = (missed /\ (recorder # register \/ changes # <<>>))
  BY <1>1 DEF MetaInv, MetaTypes, ChangeRecorded, WriteMetadata, CommitMetadata, Transactions
<1>3. UNCHANGED <<service, stop_event, quit, stream, subscribed, selected, cli, register, changes>>
  BY DEF ChangeRecorded, Frozen, intake
<1>4. ControlTypes'
  BY <1>1, <1>2, <1>3, NoneAssumption DEF MetaInv, ControlTypes, CliTypes
<1>5. MetaTypes'
  BY <1>1, <1>2, <1>3, NoneAssumption DEF MetaInv, MetaTypes, CliTypes
<1>6. TransactionOK'
  BY <1>1, <1>2, <1>3, NoneAssumption DEF MetaInv, TransactionOK, CliTypes
<1>7. DeclaredOK'
  BY <1>1, <1>2, <1>3, NoneAssumption DEF MetaInv, DeclaredOK, Undeclared, CliTypes
<1>8. CurrentOK'
  BY <1>1, <1>2, <1>3, NoneAssumption DEF MetaInv, CurrentOK, DeclaredOK, Undeclared, CliTypes
<1>9. SavedOK'
  BY <1>1, <1>2, <1>3, NoneAssumption DEF MetaInv, SavedOK, Stopping, Undeclared, CliTypes
<1> QED BY <1>4, <1>5, <1>6, <1>7, <1>8, <1>9 DEF MetaInv

\* The threads of the data touch neither the metadata nor the command.
LEMMA MetaUntouched ==
  ASSUME MetaInv, UNCHANGED <<stream, cli, meta>>,
         service' \in {"down", "up", "draining"}, stop_event' \in BOOLEAN,
         quit' \in {"idle", "join", "flush_all", "shutdown"},
         subscribed' \subseteq Samples, selected' \in Samples \cup {None}
  PROVE  MetaInv'
<1>1. /\ UNCHANGED <<stream, cli, register, changes, metadata, disk, transaction, recorder, missed>>
      /\ UNCHANGED <<cli.pc, cli.key, cli.read>>
  BY DEF meta
<1> QED BY <1>1 DEF MetaInv, ControlTypes, CliTypes, MetaTypes, TransactionOK, DeclaredOK,
                    CurrentOK, SavedOK

\* Nothing is saved and no metadata exist when the service is created.
LEMMA MetaInit ==
  ASSUME Init
  PROVE  MetaInv
<1>1. ControlTypes
  BY DEF Init, ControlTypes, CliTypes, IdleCli, CliPcs, Formats, Stopping, Undeclared
<1>2. MetaTypes
  <2>1. /\ register = 1 /\ changes = <<>> /\ metadata = None /\ disk = None
        /\ transaction = None /\ recorder = None /\ missed = FALSE
    BY DEF Init
  <2> QED BY <2>1, EmptySeq DEF MetaTypes
<1>4. TransactionOK
  BY DEF Init, TransactionOK, IdleCli
<1>5. CurrentOK
  BY DEF Init, CurrentOK, IdleCli
<1>3. DeclaredOK /\ SavedOK
  BY DEF Init, DeclaredOK, SavedOK, IdleCli, Stopping, Undeclared
<1> QED BY <1>1, <1>2, <1>3, <1>4, <1>5 DEF MetaInv

\* Every step of save_start and save_stop keeps the metadata in order.
LEMMA MetaSaveStep ==
  ASSUME MetaInv, SaveStep
  PROVE  MetaInv'
<1> SUFFICES ASSUME NEW ok \in BOOLEAN,
                    \/ BuildMetadata(ok) \/ InitializeMetadata \/ MetadataInitialized(ok)
                    \/ PrepareStream \/ PrepareEvents \/ ActivateStream \/ ActivateEvents
                    \/ SubscribeStream(ok) \/ UpdateStreamMetadata \/ UpdateEventMetadata
                    \/ StreamMetadataUpdated(ok) \/ EventMetadataUpdated(ok)
                    \/ RollBack(ok) \/ RolledBack
                    \/ UnsubscribeStream(ok) \/ DeactivateStream \/ DeactivateEvents
                    \/ WaitStreamIdle(ok) \/ WaitEventsIdle(ok)
                    \/ FlushStream \/ FlushEvents \/ StreamFlushed \/ EventsFlushed
             PROVE  MetaInv'
  BY DEF SaveStep
<1>1. CASE BuildMetadata(ok) \/ InitializeMetadata \/ MetadataInitialized(ok)
  BY <1>1, MetaBuild, MetaInitialize, MetaInitialized
<1>2. CASE PrepareStream \/ PrepareEvents
  BY <1>2, MetaPrepare DEF PrepareStream, PrepareEvents, Keys
<1>3. CASE ActivateStream \/ ActivateEvents \/ RolledBack \/ DeactivateStream \/ DeactivateEvents
  BY <1>3, MetaSetEnabled DEF ActivateStream, ActivateEvents, RolledBack, DeactivateStream, DeactivateEvents
<1>4. CASE SubscribeStream(ok) \/ RollBack(ok) \/ UnsubscribeStream(ok)
  BY <1>4, MetaSubscription
<1>5. CASE UpdateStreamMetadata \/ UpdateEventMetadata
  BY <1>5, MetaUpdate DEF UpdateStreamMetadata, UpdateEventMetadata
<1>6. CASE StreamMetadataUpdated(ok) \/ EventMetadataUpdated(ok)
  BY <1>6, MetaUpdated DEF StreamMetadataUpdated, EventMetadataUpdated
<1>7. CASE WaitStreamIdle(ok) \/ WaitEventsIdle(ok)
  BY <1>7, MetaWait DEF WaitStreamIdle, WaitEventsIdle
<1>8. CASE FlushStream \/ FlushEvents \/ StreamFlushed \/ EventsFlushed
  BY <1>8, MetaFlush, MetaFlushed DEF FlushStream, FlushEvents, StreamFlushed, EventsFlushed
<1> QED BY <1>1, <1>2, <1>3, <1>4, <1>5, <1>6, <1>7, <1>8

\* Every step of the system does.
LEMMA MetaStep ==
  ASSUME MetaInv, [Next]_vars
  PROVE  MetaInv'
<1>1. CASE \/ \E k \in Keys : SaveStopSamples(k) \/ SaveStopEvents(k) \/ \E f \in Formats : SaveStart(k, f)
           \/ SaveStep
  BY <1>1, MetaSaveStart, MetaSaveStop, MetaSaveStep DEF SaveStopSamples, SaveStopEvents
<1>2. CASE (\E delivered \in BOOLEAN : ConfigurationChanges(delivered)) \/ RecorderStep
  BY <1>2, MetaChange, MetaEvent, MetaNothing, MetaRecord, MetaRecorded DEF RecorderStep
<1>3. CASE StartService \/ StopService \/ StopStep
  <2>1. /\ UNCHANGED <<stream, cli, meta, subscribed, selected>>
        /\ service' \in {"down", "up", "draining"} /\ stop_event' \in BOOLEAN
        /\ quit' \in {"idle", "join", "flush_all", "shutdown"}
    BY <1>3 DEF MetaInv, ControlTypes, StartService, StopService, StopStep, QueueJoined,
                AllFlushed, ServiceStopped, intake
  <2> QED BY <2>1, MetaUntouched DEF MetaInv, ControlTypes
<1>4. CASE \E w \in Workers : WorkerStep(w)
  <2>1. PICK w \in Workers : WorkerStep(w)
    BY <1>4
  <2>2. UNCHANGED <<stream, cli, meta, subscribed, selected, service, stop_event, quit>>
    BY <2>1 DEF WorkerStep, WorkerGet, WorkerExit, NormalizeSampleFails, NormalizeEventFails,
                NormalizationFails, BufferSample, BufferEvent, BufferItem, BatchWritten,
                ItemProcessed, FlushDue, DueFlushed, intake
  <2> QED BY <2>2, MetaUntouched DEF MetaInv, ControlTypes
<1>5. CASE \E t \in Writers : WriterStep(t)
  <2>1. PICK t \in Writers : WriterStep(t)
    BY <1>5
  <2>2. UNCHANGED <<stream, cli, meta, subscribed, selected, service, stop_event, quit>>
    BY <2>1 DEF WriterStep, WriteBatch, WriteEventBatch, LockFile, WriteCsvBatch, intake
  <2> QED BY <2>2, MetaUntouched DEF MetaInv, ControlTypes
<1>6. CASE \/ \E k \in Samples : SelectSample(k)
           \/ EnqueueSample
           \/ \E k \in Events : EnqueueEvent(k)
  <2>1. /\ UNCHANGED <<stream, cli, meta, subscribed, service, stop_event, quit>>
        /\ selected' \in Samples \cup {None}
    BY <1>6 DEF MetaInv, ControlTypes, SelectSample, EnqueueSample, EnqueueEvent, intake
  <2> QED BY <2>1, MetaUntouched DEF MetaInv, ControlTypes
<1>7. CASE UNCHANGED vars
  BY <1>7, MetaUntouched DEF vars, intake, MetaInv, ControlTypes
<1> QED BY <1>1, <1>2, <1>3, <1>4, <1>5, <1>6, <1>7 DEF Next

\* The invariant says that memory, disk, datasets and board agree.
LEMMA MetaConsistent ==
  ASSUME MetaInv
  PROVE  MetadataConsistent
<1>1. DiskInStep
  BY DEF MetaInv, TransactionOK, DiskInStep
<1>2. CurrentFollows
  BY DEF MetaInv, CurrentOK, CurrentFollows
<1>3. SavedIsDeclared
  BY DEF MetaInv, SavedOK, SavedIsDeclared
<1> QED BY <1>1, <1>2, <1>3 DEF MetadataConsistent

------------------------------------------------------------------------------
(* Appending rows to a file *)

\* What a write appends is added to what the file held, once if it was not in
\* it.
LEMMA ConcatOnce ==
  ASSUME NEW S, NEW s \in Seq(S), NEW t \in Seq(S)
  PROVE  /\ s \o t \in Seq(S) /\ ToSet(s \o t) = ToSet(s) \cup ToSet(t)
         /\ IsInjective(s) /\ IsInjective(t) /\ ToSet(s) \cap ToSet(t) = {} => IsInjective(s \o t)
         /\ s # <<>> => s \o t # <<>> /\ (s \o t)[1] = s[1]
<1> DEFINE c == s \o t
<1>1. /\ c \in Seq(S) /\ Len(c) = Len(s) + Len(t)
      /\ \A i \in 1..(Len(s) + Len(t)) : c[i] = IF i <= Len(s) THEN s[i] ELSE t[i - Len(s)]
  BY ConcatProperties
<1> HIDE DEF c
<1>2. /\ Len(s) \in Nat /\ Len(t) \in Nat
      /\ DOMAIN s = 1..Len(s) /\ DOMAIN t = 1..Len(t) /\ DOMAIN c = 1..(Len(s) + Len(t))
  BY <1>1, LenProperties
<1>3. \A i \in DOMAIN s : i \in DOMAIN c /\ c[i] = s[i]
  BY <1>1, <1>2
<1>4. ASSUME NEW i \in DOMAIN t
      PROVE  Len(s) + i \in DOMAIN c /\ c[Len(s) + i] = t[i]
  <2>1. Len(s) + i \in DOMAIN c /\ ~(Len(s) + i <= Len(s)) /\ (Len(s) + i) - Len(s) = i
    BY <1>2
  <2> QED BY <1>1, <1>2, <2>1
<1>5. ASSUME NEW i \in DOMAIN c
      PROVE  \/ i \in DOMAIN s /\ c[i] = s[i]
             \/ i \notin DOMAIN s /\ i - Len(s) \in DOMAIN t /\ c[i] = t[i - Len(s)]
  BY <1>1, <1>2
<1>6. ToSet(c) = ToSet(s) \cup ToSet(t)
  <2>1. ASSUME NEW i \in DOMAIN c
        PROVE  c[i] \in ToSet(s) \cup ToSet(t)
    BY <1>5 DEF ToSet
  <2>2. ASSUME NEW i \in DOMAIN s
        PROVE  s[i] \in ToSet(c)
    BY <1>3 DEF ToSet
  <2>3. ASSUME NEW i \in DOMAIN t
        PROVE  t[i] \in ToSet(c)
    BY <1>4 DEF ToSet
  <2>4. ToSet(c) \subseteq ToSet(s) \cup ToSet(t)
    BY <2>1 DEF ToSet
  <2>5. ToSet(s) \cup ToSet(t) \subseteq ToSet(c)
    BY <2>2, <2>3 DEF ToSet
  <2> QED BY <2>4, <2>5
<1>7. ASSUME IsInjective(s), IsInjective(t), ToSet(s) \cap ToSet(t) = {},
             NEW a \in DOMAIN c, NEW b \in DOMAIN c, c[a] = c[b]
      PROVE  a = b
  <2>1. \A i \in DOMAIN c : IF i \in DOMAIN s THEN c[i] \in ToSet(s) ELSE c[i] \in ToSet(t)
    BY <1>5 DEF ToSet
  <2>2. CASE a \in DOMAIN s /\ b \in DOMAIN s
    BY <1>3, <1>7, <2>2 DEF IsInjective
  <2>3. CASE a \notin DOMAIN s /\ b \notin DOMAIN s
    <3>1. a - Len(s) = b - Len(s)
      BY <1>5, <1>7, <2>3 DEF IsInjective
    <3>2. a \in Int /\ b \in Int
      BY <1>2
    <3> QED BY <1>2, <3>1, <3>2
  <2>4. (a \in DOMAIN s) <=> (b \in DOMAIN s)
    BY <1>7, <2>1
  <2> QED BY <2>2, <2>3, <2>4
<1>8. s # <<>> => c # <<>> /\ c[1] = s[1]
  <2>1. ASSUME s # <<>>
        PROVE  1 \in DOMAIN s /\ Len(c) # 0
    BY <1>1, <1>2, <2>1, EmptySeq
  <2> QED BY <1>3, <2>1, EmptySeq
<1> QED BY <1>1, <1>6, <1>7, <1>8 DEF IsInjective, c

\* A write that raises leaves a prefix of its rows.
LEMMA PrefixOnce ==
  ASSUME NEW S, NEW s \in Seq(S), NEW n \in 0..Len(s)
  PROVE  /\ SubSeq(s, 1, n) \in Seq(S) /\ ToSet(SubSeq(s, 1, n)) \subseteq ToSet(s)
         /\ IsInjective(s) => IsInjective(SubSeq(s, 1, n))
         /\ SubSeq(s, 1, n) # <<>> => s # <<>> /\ SubSeq(s, 1, n)[1] = s[1]
         /\ n = Len(s) => SubSeq(s, 1, n) = s
<1> DEFINE p == SubSeq(s, 1, n)
<1>1. /\ Len(s) \in Nat /\ DOMAIN s = 1..Len(s) /\ n \in Nat /\ n <= Len(s)
      /\ \A i \in 1..n : s[i] \in S
  BY LenProperties, ElementOfSeq
<1>2. p \in Seq(S) /\ Len(p) = n /\ \A i \in 1..n : p[i] = s[i]
  BY <1>1
<1> HIDE DEF p
<1>3. DOMAIN p = 1..n /\ 1..n \subseteq DOMAIN s
  BY <1>1, <1>2, LenProperties
<1>4. ToSet(p) \subseteq ToSet(s)
  BY <1>2, <1>3 DEF ToSet
<1>5. IsInjective(s) => IsInjective(p)
  BY <1>2, <1>3 DEF IsInjective
<1>6. p # <<>> => s # <<>> /\ p[1] = s[1]
  <2>1. p # <<>> => n # 0
    BY <1>2, EmptySeq
  <2> QED BY <1>1, <1>2, <2>1, EmptySeq
<1>7. n = Len(s) => p = s
  BY <1>1, <1>2, SeqEqual
<1> QED BY <1>2, <1>4, <1>5, <1>6, <1>7 DEF p

\* The rows of a batch, and the header before them in a new file.
Rows(fresh, batch) == (IF fresh THEN <<Header>> ELSE <<>>) \o batch

\* The rows of a batch: the header first in a new file, and each item once.
LEMMA RowsOnce ==
  ASSUME NEW batch \in Seq(Numbers), NEW fresh \in BOOLEAN, IsInjective(batch)
  PROVE  /\ Rows(fresh, batch) \in Seq(Nat) /\ IsInjective(Rows(fresh, batch))
         /\ ToSet(Rows(fresh, batch)) = (IF fresh THEN {Header} ELSE {}) \cup ToSet(batch)
         /\ fresh => Rows(fresh, batch)[1] = Header
<1>1. batch \in Seq(Nat) /\ Header \notin ToSet(batch)
  BY ToSetType, SeqMonotonic DEF Numbers, Header
<1>2. CASE fresh
  <2> DEFINE head == <<Header>>
  <2>1. Rows(fresh, batch) = head \o batch
    BY <1>2 DEF Rows
  <2>2. /\ head \in Seq(Nat) /\ head # <<>> /\ head[1] = Header /\ ToSet(head) = {Header}
        /\ IsInjective(head)
    BY DEF Header, ToSet, IsInjective
  <2> HIDE DEF head
  <2>3. /\ head \o batch \in Seq(Nat) /\ ToSet(head \o batch) = ToSet(head) \cup ToSet(batch)
        /\ (head \o batch)[1] = head[1]
    BY <1>1, <2>2, ConcatOnce
  <2>4. ToSet(head) \cap ToSet(batch) = {}
    BY <1>1, <2>2
  <2>5. IsInjective(head \o batch)
    BY <1>1, <2>2, <2>4, ConcatOnce
  <2> QED BY <1>2, <2>1, <2>2, <2>3, <2>5
<1>3. CASE ~fresh
  <2>1. Rows(fresh, batch) = batch
    BY <1>3, ConcatEmptySeq DEF Rows
  <2> QED BY <1>1, <1>3, <2>1
<1> QED BY <1>2, <1>3

\* What of the rows goes out, behind what the file already holds.
LEMMA RowsOut ==
  ASSUME NEW old \in Seq(Nat), NEW rows \in Seq(Nat), NEW n \in 0..Len(rows),
         IsInjective(old), IsInjective(rows), ToSet(old) \cap ToSet(rows) = {},
         IF old = <<>> THEN rows[1] = Header ELSE old[1] = Header
  PROVE  /\ old \o SubSeq(rows, 1, n) \in Seq(Nat) /\ IsInjective(old \o SubSeq(rows, 1, n))
         /\ old \o SubSeq(rows, 1, n) # <<>> => (old \o SubSeq(rows, 1, n))[1] = Header
         /\ ToSet(old) \subseteq ToSet(old \o SubSeq(rows, 1, n))
         /\ ToSet(old \o SubSeq(rows, 1, n)) \subseteq ToSet(old) \cup ToSet(rows)
         /\ n = Len(rows) => ToSet(rows) \subseteq ToSet(old \o SubSeq(rows, 1, n))
<1> DEFINE out == SubSeq(rows, 1, n)
           new == old \o out
<1>1. /\ out \in Seq(Nat) /\ ToSet(out) \subseteq ToSet(rows) /\ IsInjective(out)
      /\ out # <<>> => out[1] = rows[1]
      /\ n = Len(rows) => out = rows
  BY PrefixOnce
<1> HIDE DEF out
<1>2. /\ new \in Seq(Nat) /\ ToSet(new) = ToSet(old) \cup ToSet(out)
      /\ old # <<>> => new[1] = old[1]
  BY <1>1, ConcatOnce
<1>3. IsInjective(new)
  <2>1. ToSet(old) \cap ToSet(out) = {}
    BY <1>1
  <2> QED BY <1>1, <2>1, ConcatOnce
<1>4. new # <<>> => new[1] = Header
  <2>1. CASE old = <<>>
    <3>1. new = out
      BY <1>1, <2>1, ConcatEmptySeq
    <3> QED BY <1>1, <2>1, <3>1
  <2>2. CASE old # <<>>
    BY <1>2, <2>2
  <2> QED BY <2>1, <2>2
<1> QED BY <1>1, <1>2, <1>3, <1>4 DEF out

------------------------------------------------------------------------------
(* What a step leaves alone *)

\* The pending counts do not depend on how far a worker is with its item.
LEMMA CountsSame ==
  ASSUME PendingCounts, UNCHANGED <<pending, queue>>,
         \A w \in Workers : worker'[w].item = worker[w].item
  PROVE  PendingCounts'
<1>1. ASSUME NEW k \in Keys
      PROVE  InQueue(k)' = InQueue(k) /\ Holding(k)' = Holding(k)
  BY QueueSame DEF Holding
<1> QED BY <1>1 DEF PendingCounts

\* Nothing enters or leaves the service.
LEMMA ServiceSame ==
  ASSUME ServiceOK, UNCHANGED <<service, quit, queue, worker, buffer>>
  PROVE  ServiceOK'
BY DEF ServiceOK, Nothing

\* What save_stop has made sure of stays so.
LEMMA StoppingSame ==
  ASSUME StoppingOK, UNCHANGED <<cli, pending, buffer>>
  PROVE  StoppingOK'
BY DEF StoppingOK

\* Nothing moves from one place to another.
LEMMA OnceSame ==
  ASSUME StoreTypes, StoreTypes', Once,
         UNCHANGED <<accepted, queue, buffer, written, dropped, uncounted>>,
         \A w \in Workers : /\ worker'[w].item = worker[w].item
                            /\ worker'[w].pc = "process" <=> worker[w].pc = "process",
         \A t \in Writers : \A k \in Keys : job'[t].due[k] = job[t].due[k]
  PROVE  Once'
<1>1. HandsOnce' /\ \A k \in Keys : InHands(k)' = InHands(k)
  BY HandsSame DEF Once
<1>2. \A k \in Keys : InQueue(k)' = InQueue(k) /\ InJobs(k)' = InJobs(k)
  BY QueueSame, JobsSame
<1>3. JobsOnce'
  BY DEF Once, JobsOnce
<1>4. PlacesOnce'
  BY <1>1, <1>2 DEF Once, PlacesOnce, SplitOf
<1> QED BY <1>1, <1>3, <1>4 DEF Once, QueueOnce, BuffersOnce

\* A thread writes only while its caller waits for it.
LEMMA CallersStay ==
  ASSUME WorkersOK, CallersOK, NEW t \in Writers, job[t] # IdleJob,
         UNCHANGED <<worker, cli, quit>>,
         \A u \in Writers : u # t => job'[u] = job[u],
         \A k \in Keys : job'[t].due[k] # <<>> => job[t].due[k] # <<>>
  PROVE  WorkersOK' /\ CallersOK'
<1>1. Workers \subseteq Writers /\ "cli" \in Writers /\ "quit" \in Writers
  BY DEF Writers
<1>2. ASSUME NEW w \in Workers
      PROVE  /\ worker[w].item # None <=> worker[w].pc \in {"process", "write", "finish"}
             /\ worker[w].pc \notin {"write", "flushing"} => job'[w] = IdleJob
             /\ worker[w].pc = "write" =>
                   \A k \in Keys : job'[w].due[k] # <<>> => k = worker[w].item.key
  BY <1>1 DEF WorkersOK
<1>3. WorkersOK'
  BY <1>2 DEF WorkersOK
<1>4. CallersOK'
  BY <1>1 DEF CallersOK
<1> QED BY <1>3, <1>4

------------------------------------------------------------------------------
(* The threads that write *)

\* A batch goes where it is settled: its items are counted as written or
\* dropped, or they are given up.
LEMMA BatchSettles ==
  ASSUME StoreTypes, StoreTypes', Once, NEW t \in Writers, NEW k \in Keys,
         UNCHANGED <<accepted, queue, worker, buffer>>,
         \A u \in Writers : u # t => job'[u] = job[u],
         \A j \in Keys : job'[t].due[j] = IF j = k THEN <<>> ELSE job[t].due[j],
         \A j \in Keys : j # k => /\ written'[j] = written[j] /\ dropped'[j] = dropped[j]
                                 /\ uncounted'[j] = uncounted[j],
         \/ /\ written'[k] = written[k] \cup ToSet(job[t].due[k])
            /\ dropped'[k] = dropped[k] /\ uncounted'[k] = uncounted[k]
         \/ /\ dropped'[k] = dropped[k] \cup ToSet(job[t].due[k])
            /\ written'[k] = written[k] /\ uncounted'[k] = uncounted[k]
         \/ /\ uncounted'[k] = uncounted[k] \cup ToSet(job[t].due[k])
            /\ written'[k] = written[k] /\ dropped'[k] = dropped[k]
  PROVE  Once'
<1> DEFINE batch == ToSet(job[t].due[k])
<1>1. HandsOnce' /\ \A j \in Keys : InHands(j)' = InHands(j) /\ InQueue(j)' = InQueue(j)
  BY HandsSame, QueueSame DEF Once
<1>2. JobsOnce'
  <2>1. ASSUME NEW j \in Keys
        PROVE  /\ IsInjective(job'[t].due[j])
               /\ \A m \in ToSet(job'[t].due[j]) : m \in ToSet(job[t].due[j])
    BY EmptyOnce DEF Once, JobsOnce
  <2> QED BY <2>1, JobsStayOnce DEF Once
<1>3. ASSUME NEW j \in Keys
      PROVE  InJobs(j)' = IF j = k THEN InJobs(j) \ batch ELSE InJobs(j)
  <2>1. InJobs(j)' = (InJobs(j) \ ToSet(job[t].due[j])) \cup ToSet(job'[t].due[j])
    BY JobsMove DEF Once
  <2>2. CASE j = k
    BY <2>1, <2>2, EmptyOnce
  <2>3. CASE j # k
    BY <2>3, JobsSame
  <2> QED BY <2>2, <2>3
<1>4. \A m \in batch : m \in InJobs(k)
  BY Lists
<1> HIDE DEF batch
<1>5. PlacesOnce'
  <2> SUFFICES ASSUME NEW j \in Keys PROVE SplitOf(j)'
    BY DEF PlacesOnce
  <2>1. SplitOf(j) /\ accepted'[j] = accepted[j] /\ buffer'[j] = buffer[j]
    BY DEF Once, PlacesOnce
  <2>2. CASE j = k
    BY <1>1, <1>3, <1>4, <2>1, <2>2 DEF SplitOf, Split, batch
  <2>3. CASE j # k
    BY <1>1, <1>3, <2>1, <2>3 DEF SplitOf
  <2> QED BY <2>2, <2>3
<1> QED BY <1>1, <1>2, <1>5 DEF Once, QueueOnce, BuffersOnce

\* A thread at work on a file it does not write to, or not yet.
LEMMA LocksStay ==
  ASSUME StoreInv, NEW t \in Writers, job[t].step = "idle", UNCHANGED <<write_lock, file>>,
         \A u \in Writers : u # t => job'[u] = job[u],
         \/ job'[t].step = "idle"
         \/ /\ job'[t].step = "lock" /\ job'[t].key \in Keys
            /\ job'[t].due[job'[t].key] # <<>>
  PROVE  LocksOK'
<1>1. ASSUME NEW u \in Writers
      PROVE  /\ job'[u].step # "idle" => job'[u].key \in Keys /\ job'[u].due[job'[u].key] # <<>>
             /\ job'[u].step = "write" => /\ write_lock'[job'[u].key] = u
                                          /\ job'[u].fresh <=> file'[job'[u].key] = <<>>
  BY DEF StoreInv, LocksOK
<1>2. ASSUME NEW j \in Keys, write_lock[j] # None
      PROVE  job'[write_lock[j]].step = "write" /\ job'[write_lock[j]].key = j
  <2>1. /\ write_lock[j] \in Writers
        /\ job[write_lock[j]].step = "write" /\ job[write_lock[j]].key = j
    BY <1>2 DEF StoreInv, StoreTypes, LocksOK
  <2> QED BY <2>1
<1> QED BY <1>1, <1>2 DEF LocksOK

\* The write of a batch, whole or in part, under the lock: the file stays
\* sound, and the batch counts as written only when it is whole.
LEMMA WriteCsv ==
  ASSUME StoreInv, NEW t \in Writers, NEW ok \in BOOLEAN, WriteCsvBatch(t, ok)
  PROVE  StoreInv'
<1> DEFINE k == job[t].key
           batch == job[t].due[k]
           rows == Rows(job[t].fresh, batch)
           flag == job[t].ok /\ ok
           Freed == [job[t] EXCEPT !.step = "idle", !.key = None, !.fresh = FALSE,
                                   !.format = "csv", !.due[k] = <<>>, !.ok = flag]
<1>1. /\ job[t] \in Jobs /\ job[t].step = "write" /\ k \in Keys
      /\ batch \in Seq(Numbers) /\ batch # <<>> /\ IsInjective(batch)
      /\ write_lock[k] = t /\ (job[t].fresh <=> file[k] = <<>>)
      /\ file[k] \in Seq(Nat) /\ IsInjective(file[k]) /\ (file[k] # <<>> => file[k][1] = Header)
      /\ ToSet(file[k]) \subseteq {Header} \cup written[k] \cup dropped[k]
  <2>0. job[t] \in Jobs /\ job[t].step = "write" /\ file \in [Keys -> Seq(Nat)]
    BY DEF StoreInv, StoreTypes, WriteCsvBatch
  <2>1. k \in Keys /\ job[t].due[k] # <<>> /\ file[k] \in Seq(Nat)
    BY <2>0 DEF StoreInv, LocksOK
  <2>2. batch \in Seq(Numbers) /\ batch # <<>> /\ IsInjective(batch)
    BY <2>0, <2>1 DEF StoreInv, Jobs, Once, JobsOnce
  <2>3. write_lock[k] = t /\ (job[t].fresh <=> file[k] = <<>>)
    BY <2>0, <2>1 DEF StoreInv, LocksOK
  <2>4. /\ IsInjective(file[k]) /\ (file[k] # <<>> => file[k][1] = Header)
        /\ ToSet(file[k]) \subseteq {Header} \cup written[k] \cup dropped[k]
    BY <2>1 DEF StoreInv, FilesOK
  <2> QED BY <2>0, <2>1, <2>2, <2>3, <2>4
<1>2. /\ write_lock' = [write_lock EXCEPT ![k] = None]
      /\ UNCHANGED <<service, stop_event, stream, accepted, pending, queue, worker, buffer,
                     uncounted, subscribed, selected, cli, quit>>
  BY DEF WriteCsvBatch, intake
<1>3. /\ job' = [job EXCEPT ![t].step = "idle", ![t].key = None, ![t].fresh = FALSE,
                           ![t].format = "csv", ![t].due[k] = <<>>, ![t].ok = flag]
      /\ flag \in BOOLEAN
  BY DEF WriteCsvBatch
<1> HIDE DEF flag
<1>4. /\ job' \in [Writers -> Jobs] /\ job'[t].step = "idle"
      /\ \A u \in Writers : u # t => job'[u] = job[u]
      /\ \A j \in Keys : job'[t].due[j] = IF j = k THEN <<>> ELSE job[t].due[j]
  <2>1. /\ [job[t].due EXCEPT ![k] = <<>>] \in [Keys -> Seq(Numbers)]
        /\ \A j \in Keys : [job[t].due EXCEPT ![k] = <<>>][j] = IF j = k THEN <<>> ELSE job[t].due[j]
    BY <1>1, EmptySeq DEF Jobs
  <2>2. /\ \A u \in Writers : u # t => job'[u] = job[u]
        /\ job'[t] = Freed
    BY <1>1, <1>3 DEF StoreInv, StoreTypes
  <2>3. Freed \in Jobs /\ Freed.step = "idle" /\ Freed.due = [job[t].due EXCEPT ![k] = <<>>]
    BY <1>1, <1>3, <2>1 DEF Jobs, Formats
  <2>4. job' \in [Writers -> Jobs]
    <3>1. job \in [Writers -> Jobs]
      BY DEF StoreInv, StoreTypes
    <3>2. job' \in [Writers -> {job'[u] : u \in Writers}]
      BY <1>3, <3>1
    <3> HIDE DEF Freed
    <3>3. \A u \in Writers : job'[u] \in Jobs
      BY <2>2, <2>3, <3>1
    <3> QED BY <3>2, <3>3
  <2> QED BY <2>1, <2>2, <2>3, <2>4
<1>5. /\ IF ok THEN written' = [written EXCEPT ![k] = @ \cup ToSet(batch)] /\ dropped' = dropped
               ELSE dropped' = [dropped EXCEPT ![k] = @ \cup ToSet(batch)] /\ written' = written
  BY DEF WriteCsvBatch, MarkWritten, MarkDropped
<1>6. PICK n \in 0..Len(rows) : /\ ok => n = Len(rows)
                                /\ file' = [file EXCEPT ![k] = file[k] \o SubSeq(rows, 1, n)]
  BY DEF WriteCsvBatch, Rows
<1>7. /\ rows \in Seq(Nat) /\ IsInjective(rows)
      /\ ToSet(rows) = (IF job[t].fresh THEN {Header} ELSE {}) \cup ToSet(batch)
      /\ job[t].fresh => rows[1] = Header
  BY <1>1, RowsOnce DEF Jobs
<1>8. /\ \A m \in ToSet(batch) : m \in InJobs(k) /\ m \in Nat /\ m # Header
      /\ ToSet(batch) \cap written[k] = {} /\ ToSet(batch) \cap dropped[k] = {}
  <2>1. \A m \in ToSet(batch) : m \in InJobs(k) /\ m \in Numbers
    BY <1>1, Lists, ToSetType DEF StoreInv
  <2>2. SplitOf(k)
    BY <1>1 DEF StoreInv, Once, PlacesOnce
  <2> QED BY <2>1, <2>2 DEF SplitOf, Split, Numbers, Header
<1> HIDE DEF rows, batch
<1> DEFINE new == file[k] \o SubSeq(rows, 1, n)
<1>9. /\ new \in Seq(Nat) /\ IsInjective(new) /\ (new # <<>> => new[1] = Header)
      /\ ToSet(file[k]) \subseteq ToSet(new) /\ ToSet(new) \subseteq ToSet(file[k]) \cup ToSet(rows)
      /\ n = Len(rows) => ToSet(rows) \subseteq ToSet(new)
  <2>1. ToSet(file[k]) \cap ToSet(rows) = {}
    <3>1. CASE job[t].fresh
      BY <1>1, <3>1, EmptyOnce
    <3>2. CASE ~job[t].fresh
      BY <1>1, <1>7, <1>8, <3>2
    <3> QED BY <3>1, <3>2
  <2>2. IF file[k] = <<>> THEN rows[1] = Header ELSE file[k][1] = Header
    BY <1>1, <1>7
  <2> DEFINE old == file[k]
  <2>3. /\ old \in Seq(Nat) /\ rows \in Seq(Nat) /\ n \in 0..Len(rows)
        /\ IsInjective(old) /\ IsInjective(rows) /\ ToSet(old) \cap ToSet(rows) = {}
        /\ IF old = <<>> THEN rows[1] = Header ELSE old[1] = Header
    BY <1>1, <1>6, <1>7, <2>1, <2>2
  <2> HIDE DEF old
  <2>4. /\ old \o SubSeq(rows, 1, n) \in Seq(Nat) /\ IsInjective(old \o SubSeq(rows, 1, n))
        /\ old \o SubSeq(rows, 1, n) # <<>> => (old \o SubSeq(rows, 1, n))[1] = Header
        /\ ToSet(old) \subseteq ToSet(old \o SubSeq(rows, 1, n))
        /\ ToSet(old \o SubSeq(rows, 1, n)) \subseteq ToSet(old) \cup ToSet(rows)
        /\ n = Len(rows) => ToSet(rows) \subseteq ToSet(old \o SubSeq(rows, 1, n))
    BY <2>3, RowsOut
  <2> QED BY <2>4 DEF old
<1> HIDE DEF new
<1>10. /\ file' \in [Keys -> Seq(Nat)] /\ file'[k] = new
       /\ \A j \in Keys : j # k => file'[j] = file[j]
  BY <1>1, <1>6, <1>9 DEF StoreInv, StoreTypes, new
<1>11. /\ written' \in [Keys -> SUBSET Nat] /\ dropped' \in [Keys -> SUBSET Nat]
       /\ \A j \in Keys : j # k => written'[j] = written[j] /\ dropped'[j] = dropped[j]
       /\ written'[k] = IF ok THEN written[k] \cup ToSet(batch) ELSE written[k]
       /\ dropped'[k] = IF ok THEN dropped[k] ELSE dropped[k] \cup ToSet(batch)
  <2>1. ToSet(batch) \in SUBSET Nat
    BY <1>8
  <2>2. CASE ok
    <3>1. written' = [written EXCEPT ![k] = @ \cup ToSet(batch)] /\ dropped' = dropped
      BY <1>5, <2>2
    <3>2. /\ written' \in [Keys -> SUBSET Nat]
          /\ \A j \in Keys : written'[j] = IF j = k THEN written[k] \cup ToSet(batch) ELSE written[j]
      BY <1>1, <2>1, <3>1 DEF StoreInv, StoreTypes
    <3> QED BY <1>1, <2>2, <3>1, <3>2 DEF StoreInv, StoreTypes
  <2>3. CASE ~ok
    <3>1. dropped' = [dropped EXCEPT ![k] = @ \cup ToSet(batch)] /\ written' = written
      BY <1>5, <2>3
    <3>2. /\ dropped' \in [Keys -> SUBSET Nat]
          /\ \A j \in Keys : dropped'[j] = IF j = k THEN dropped[k] \cup ToSet(batch) ELSE dropped[j]
      BY <1>1, <2>1, <3>1 DEF StoreInv, StoreTypes
    <3> QED BY <1>1, <2>3, <3>1, <3>2 DEF StoreInv, StoreTypes
  <2> QED BY <2>2, <2>3
<1>12. StoreTypes'
  <2>1. write_lock' \in [Keys -> Writers \cup {None}]
    BY <1>1, <1>2 DEF StoreInv, StoreTypes
  <2> QED BY <1>2, <1>4, <1>10, <1>11, <2>1 DEF StoreInv, StoreTypes
<1>13. WorkersOK' /\ CallersOK'
  <2>1. job[t] # IdleJob
    BY <1>1 DEF IdleJob
  <2> QED BY <1>2, <1>4, <2>1, CallersStay DEF StoreInv
<1>14. LocksOK'
  <2>1. ASSUME NEW u \in Writers, u # t, job[u].step = "write"
        PROVE  job[u].key \in Keys /\ job[u].key # k
    BY <1>1, <2>1 DEF StoreInv, LocksOK
  <2>2. \A j \in Keys : write_lock'[j] = IF j = k THEN None ELSE write_lock[j]
    BY <1>1, <1>2 DEF StoreInv, StoreTypes
  <2>3. ASSUME NEW u \in Writers
        PROVE  /\ job'[u].step # "idle" => job'[u].key \in Keys /\ job'[u].due[job'[u].key] # <<>>
               /\ job'[u].step = "write" => /\ write_lock'[job'[u].key] = u
                                            /\ job'[u].fresh <=> file'[job'[u].key] = <<>>
    BY <1>4, <1>10, <2>1, <2>2 DEF StoreInv, LocksOK
  <2>4. ASSUME NEW j \in Keys, write_lock'[j] # None
        PROVE  job'[write_lock'[j]].step = "write" /\ job'[write_lock'[j]].key = j
    <3>1. j # k /\ write_lock'[j] = write_lock[j] /\ write_lock[j] \in Writers
      BY <2>2, <2>4 DEF StoreInv, StoreTypes
    <3>2. job[write_lock[j]].step = "write" /\ job[write_lock[j]].key = j
      BY <2>4, <3>1 DEF StoreInv, LocksOK
    <3> QED BY <1>4, <3>1, <3>2
  <2> QED BY <2>3, <2>4 DEF LocksOK
<1>15. ServiceOK' /\ StoppingOK' /\ PendingCounts'
  BY <1>2, ServiceSame, StoppingSame, CountsSame DEF StoreInv
<1>16. Once'
  <2>1. CASE ok
    BY <1>1, <1>2, <1>4, <1>11, <1>12, <2>1, BatchSettles DEF StoreInv, batch
  <2>2. CASE ~ok
    BY <1>1, <1>2, <1>4, <1>11, <1>12, <2>2, BatchSettles DEF StoreInv, batch
  <2> QED BY <2>1, <2>2
<1>17. FilesOK'
  <2> SUFFICES ASSUME NEW j \in Keys
               PROVE  /\ file'[j] # <<>> => file'[j][1] = Header
                      /\ IsInjective(file'[j])
                      /\ written'[j] \subseteq ToSet(file'[j])
                      /\ ToSet(file'[j]) \subseteq {Header} \cup written'[j] \cup dropped'[j]
    BY DEF FilesOK
  <2>1. CASE j = k
    <3>1. ToSet(rows) \subseteq {Header} \cup ToSet(batch) /\ ToSet(batch) \subseteq ToSet(rows)
      BY <1>7 DEF batch
    <3>2. written[k] \subseteq ToSet(file[k])
      BY <1>1 DEF StoreInv, FilesOK
    <3>3. CASE ok
      <4>1. n = Len(rows) /\ written'[k] = written[k] \cup ToSet(batch) /\ dropped'[k] = dropped[k]
        BY <1>6, <1>11, <3>3
      <4> QED BY <1>1, <1>9, <1>10, <2>1, <3>1, <3>2, <4>1
    <3>4. CASE ~ok
      BY <1>1, <1>9, <1>10, <1>11, <2>1, <3>1, <3>2, <3>4
    <3> QED BY <3>3, <3>4
  <2>2. CASE j # k
    BY <1>10, <1>11, <2>2 DEF StoreInv, FilesOK
  <2> QED BY <2>1, <2>2
<1> QED BY <1>12, <1>13, <1>14, <1>15, <1>16, <1>17 DEF StoreInv

\* A thread turns to a batch and to the lock of its file.
LEMMA Approaches ==
  ASSUME StoreInv, ControlTypes, NEW t \in Writers, NEW k \in Keys,
         job[t].step = "idle", k \in Batches(job[t].due), Approach(t, k),
         UNCHANGED <<service, quit, intake, worker, write_lock, cli>>
  PROVE  StoreInv'
<1> DEFINE new == [job[t] EXCEPT !.step = "lock", !.key = k, !.format = stream[k].format]
<1>1. /\ job[t] \in Jobs /\ job[t].due[k] # <<>> /\ stream[k].format \in Formats
  BY DEF StoreInv, StoreTypes, ControlTypes, Batches
<1>2. /\ UNCHANGED <<service, quit, accepted, pending, queue, worker, write_lock, cli>>
      /\ UNCHANGED <<buffer, file, written, dropped, uncounted>>
  BY DEF Approach, intake, store
<1>3. /\ job'[t] = new /\ \A u \in Writers : u # t => job'[u] = job[u]
      /\ job' \in [Writers -> Jobs]
  BY <1>1 DEF StoreInv, StoreTypes, Approach, Jobs
<1>4. new.step = "lock" /\ new.key = k /\ new.due = job[t].due
  BY <1>1 DEF Jobs
<1> HIDE DEF new
<1>5. StoreTypes'
  BY <1>2, <1>3 DEF StoreInv, StoreTypes
<1>6. WorkersOK' /\ CallersOK'
  <2>1. job[t] # IdleJob
    BY <1>1 DEF IdleJob, NoBatches
  <2> QED BY <1>2, <1>3, <1>4, <2>1, CallersStay DEF StoreInv
<1>7. LocksOK'
  BY <1>1, <1>2, <1>3, <1>4, LocksStay
<1>8. ServiceOK' /\ StoppingOK' /\ PendingCounts' /\ FilesOK'
  BY <1>2, ServiceSame, StoppingSame, CountsSame DEF StoreInv, FilesOK
<1>9. Once'
  <2>1. \A u \in Writers : job'[u].due = job[u].due
    BY <1>3, <1>4
  <2> QED BY <1>2, <1>5, <2>1, OnceSame DEF StoreInv
<1> QED BY <1>5, <1>6, <1>7, <1>8, <1>9 DEF StoreInv

\* The batch is counted as dropped, or not counted at all.
LEMMA GivesUp ==
  ASSUME StoreInv, NEW t \in Writers, NEW k \in Keys,
         job[t].step = "idle", k \in Batches(job[t].due), GiveUp(t, k),
         \/ MarkDropped(k, ToSet(job[t].due[k])) /\ UNCHANGED uncounted
         \/ /\ uncounted' = [uncounted EXCEPT ![k] = @ \cup ToSet(job[t].due[k])]
            /\ UNCHANGED <<written, dropped>>,
         UNCHANGED <<service, quit, intake, worker, write_lock, cli, buffer, file>>
  PROVE  StoreInv'
<1> DEFINE new == [job[t] EXCEPT !.due[k] = <<>>, !.ok = FALSE]
           batch == ToSet(job[t].due[k])
<1>1. /\ job[t] \in Jobs /\ job[t].due[k] # <<>> /\ job[t].due[k] \in Seq(Numbers)
  BY DEF StoreInv, StoreTypes, Jobs, Batches
<1>2. batch \in SUBSET Nat
  BY <1>1, ToSetType DEF Numbers
<1>3. /\ UNCHANGED <<service, quit, accepted, pending, queue, worker, write_lock, cli>>
      /\ UNCHANGED <<buffer, file, written>>
  BY DEF MarkDropped, intake
<1>4. /\ dropped' \in [Keys -> SUBSET Nat] /\ uncounted' \in [Keys -> SUBSET Nat]
      /\ \A j \in Keys : j # k => dropped'[j] = dropped[j] /\ uncounted'[j] = uncounted[j]
      /\ \/ dropped'[k] = dropped[k] \cup batch /\ uncounted'[k] = uncounted[k]
         \/ uncounted'[k] = uncounted[k] \cup batch /\ dropped'[k] = dropped[k]
  <2>1. CASE MarkDropped(k, batch) /\ UNCHANGED uncounted
    BY <1>2, <2>1 DEF MarkDropped, StoreInv, StoreTypes
  <2>2. CASE uncounted' = [uncounted EXCEPT ![k] = @ \cup batch] /\ UNCHANGED <<written, dropped>>
    BY <1>2, <2>2 DEF StoreInv, StoreTypes
  <2> QED BY <2>1, <2>2
<1>5. /\ job'[t] = new /\ \A u \in Writers : u # t => job'[u] = job[u]
      /\ job' \in [Writers -> Jobs]
  <2>1. [job[t].due EXCEPT ![k] = <<>>] \in [Keys -> Seq(Numbers)]
    BY <1>1, EmptySeq DEF Jobs
  <2> QED BY <1>1, <2>1 DEF StoreInv, StoreTypes, GiveUp, Jobs
<1>6. new.step = "idle" /\ \A j \in Keys : new.due[j] = IF j = k THEN <<>> ELSE job[t].due[j]
  BY <1>1 DEF Jobs
<1> HIDE DEF new, batch
<1>7. StoreTypes'
  BY <1>3, <1>4, <1>5 DEF StoreInv, StoreTypes
<1>8. WorkersOK' /\ CallersOK'
  <2>1. job[t] # IdleJob
    BY <1>1 DEF IdleJob, NoBatches
  <2> QED BY <1>3, <1>5, <1>6, <2>1, CallersStay DEF StoreInv
<1>9. LocksOK'
  BY <1>3, <1>5, <1>6, LocksStay
<1>10. ServiceOK' /\ StoppingOK' /\ PendingCounts'
  BY <1>3, ServiceSame, StoppingSame, CountsSame DEF StoreInv
<1>11. FilesOK'
  <2>1. \A j \in Keys : dropped[j] \subseteq dropped'[j]
    BY <1>4
  <2> QED BY <1>3, <2>1 DEF StoreInv, FilesOK
<1>12. Once'
  BY <1>3, <1>4, <1>5, <1>6, <1>7, BatchSettles DEF StoreInv, batch
<1> QED BY <1>7, <1>8, <1>9, <1>10, <1>11, <1>12 DEF StoreInv

\* The lock is free when it is taken, and what the thread sees of the file
\* stays true while it holds it.
LEMMA Locks ==
  ASSUME StoreInv, NEW t \in Writers, LockFile(t)
  PROVE  StoreInv'
<1> DEFINE k == job[t].key
           fresh == file[k] = <<>>
           new == [job[t] EXCEPT !.step = "write", !.fresh = fresh]
<1>1. /\ job[t] \in Jobs /\ job[t].step = "lock" /\ write_lock[k] = None
      /\ k \in Keys /\ job[t].due[k] # <<>> /\ fresh \in BOOLEAN
  BY DEF StoreInv, StoreTypes, LocksOK, LockFile
<1>2. /\ UNCHANGED <<service, quit, accepted, pending, queue, worker, cli>>
      /\ UNCHANGED <<buffer, file, written, dropped, uncounted>>
      /\ write_lock' = [write_lock EXCEPT ![k] = t]
      /\ job' = [job EXCEPT ![t].step = "write", ![t].fresh = fresh]
  BY DEF LockFile, intake, store
<1>3. fresh <=> file[k] = <<>>
  OBVIOUS
<1> HIDE DEF fresh
<1>4. /\ job'[t] = new /\ \A u \in Writers : u # t => job'[u] = job[u]
      /\ job' \in [Writers -> Jobs]
  BY <1>1, <1>2 DEF StoreInv, StoreTypes, Jobs
<1>5. new.step = "write" /\ new.key = k /\ new.due = job[t].due /\ (new.fresh <=> fresh)
  BY <1>1 DEF Jobs
<1> HIDE DEF new
<1>6. /\ write_lock' \in [Keys -> Writers \cup {None}]
      /\ \A j \in Keys : write_lock'[j] = IF j = k THEN t ELSE write_lock[j]
  BY <1>1, <1>2 DEF StoreInv, StoreTypes
<1>7. StoreTypes'
  BY <1>2, <1>4, <1>6 DEF StoreInv, StoreTypes
<1>8. WorkersOK' /\ CallersOK'
  <2>1. job[t] # IdleJob
    BY <1>1 DEF IdleJob
  <2> QED BY <1>2, <1>4, <1>5, <2>1, CallersStay DEF StoreInv
<1>9. LocksOK'
  <2>1. ASSUME NEW u \in Writers
        PROVE  /\ job'[u].step # "idle" => job'[u].key \in Keys /\ job'[u].due[job'[u].key] # <<>>
               /\ job'[u].step = "write" => /\ write_lock'[job'[u].key] = u
                                            /\ job'[u].fresh <=> file'[job'[u].key] = <<>>
    <3>1. CASE u = t
      BY <1>1, <1>2, <1>3, <1>4, <1>5, <1>6, <3>1
    <3>2. CASE u # t
      <4>1. job[u].step = "write" => job[u].key # k
        BY <1>1, NoneAssumption DEF StoreInv, LocksOK
      <4> QED BY <1>2, <1>4, <1>6, <3>2, <4>1 DEF StoreInv, LocksOK
    <3> QED BY <3>1, <3>2
  <2>2. ASSUME NEW j \in Keys, write_lock'[j] # None
        PROVE  job'[write_lock'[j]].step = "write" /\ job'[write_lock'[j]].key = j
    <3>1. CASE j = k
      BY <1>4, <1>5, <1>6, <3>1
    <3>2. CASE j # k
      <4>1. /\ write_lock'[j] = write_lock[j] /\ write_lock[j] \in Writers
            /\ job[write_lock[j]].step = "write" /\ job[write_lock[j]].key = j
        BY <1>6, <2>2, <3>2 DEF StoreInv, StoreTypes, LocksOK
      <4>2. write_lock[j] # t
        BY <1>1, <4>1
      <4> QED BY <1>4, <4>1, <4>2
    <3> QED BY <3>1, <3>2
  <2> QED BY <2>1, <2>2 DEF LocksOK
<1>10. ServiceOK' /\ StoppingOK' /\ PendingCounts' /\ FilesOK'
  BY <1>2, ServiceSame, StoppingSame, CountsSame DEF StoreInv, FilesOK
<1>11. Once'
  <2>1. \A u \in Writers : job'[u].due = job[u].due
    BY <1>4, <1>5
  <2> QED BY <1>2, <1>7, <2>1, OnceSame DEF StoreInv
<1> QED BY <1>7, <1>8, <1>9, <1>10, <1>11 DEF StoreInv

\* Every step of a writing thread keeps the books.
LEMMA StoreWriterStep ==
  ASSUME StoreInv, ControlTypes, NEW t \in Writers, WriterStep(t)
  PROVE  StoreInv'
<1>1. ASSUME NEW k \in Keys, WriteBatch(t, k)
      PROVE  StoreInv'
  BY <1>1, Approaches DEF WriteBatch
<1>2. ASSUME NEW k \in Keys, WriteEventBatch(t, k)
      PROVE  StoreInv'
  BY <1>2, Approaches, GivesUp DEF WriteEventBatch, DropEventBatch, ResolveEventPathFails
<1>3. ASSUME NEW ok \in BOOLEAN, WriteCsvBatch(t, ok)
      PROVE  StoreInv'
  BY <1>3, WriteCsv
<1> QED BY <1>1, <1>2, <1>3, Locks DEF WriterStep

------------------------------------------------------------------------------
(* A thread takes buffers, and is done with them *)

\* A thread that writes nothing has no batches.
LEMMA IdleJobType ==
  IdleJob \in Jobs /\ IdleJob.step = "idle" /\ \A k \in Keys : IdleJob.due[k] = <<>>
<1>1. NoBatches \in [Keys -> Seq(Numbers)]
  BY EmptySeq DEF NoBatches
<1> QED BY <1>1 DEF IdleJob, NoBatches, Jobs, Formats

\* A thread takes buffers under _buffer_lock: what leaves them is in its
\* batches.
LEMMA Takes ==
  ASSUME StoreInv, NEW t \in Writers, NEW ks \in SUBSET Keys, job[t] = IdleJob, Take(t, ks),
         UNCHANGED <<accepted, pending, queue, write_lock, file, written, dropped, uncounted>>,
         worker' \in [Workers -> [pc : WorkerPcs, item : Numbered \cup {None}]],
         \A w \in Workers : /\ worker'[w].item = worker[w].item
                            /\ worker'[w].pc = "process" <=> worker[w].pc = "process"
  PROVE  /\ StoreTypes' /\ LocksOK' /\ Once' /\ PendingCounts' /\ FilesOK'
         /\ \A u \in Writers : u # t => job'[u] = job[u]
         /\ \A k \in Keys : buffer'[k] = IF k \in ks THEN <<>> ELSE buffer[k]
<1> DEFINE due == [k \in Keys |-> IF k \in ks THEN buffer[k] ELSE <<>>]
           new == [IdleJob EXCEPT !.due = due]
<1>1. /\ job'[t] = new /\ \A u \in Writers : u # t => job'[u] = job[u]
      /\ \A k \in Keys : buffer'[k] = IF k \in ks THEN <<>> ELSE buffer[k]
  BY DEF Take, StoreInv, StoreTypes
<1>2. due \in [Keys -> Seq(Numbers)] /\ \A k \in Keys : due[k] = IF k \in ks THEN buffer[k] ELSE <<>>
  BY EmptySeq DEF StoreInv, StoreTypes
<1> HIDE DEF due
<1>3. new \in Jobs /\ new.step = "idle" /\ new.due = due
  BY <1>2, IdleJobType DEF Jobs
<1>4. job' \in [Writers -> Jobs]
  BY <1>2, <1>3 DEF Take, StoreInv, StoreTypes, due
<1> HIDE DEF new
<1>5. buffer' \in [Keys -> Seq(Numbers)] /\ \A k \in Keys : Len(buffer'[k]) < BatchSize
  BY EmptySeq, PersistenceAssumption DEF Take, StoreInv, StoreTypes
<1>6. StoreTypes'
  BY <1>4, <1>5 DEF StoreInv, StoreTypes
<1>7. LocksOK'
  BY <1>1, <1>3, IdleJobType, LocksStay
<1>8. PendingCounts' /\ FilesOK'
  BY CountsSame DEF StoreInv, FilesOK
<1>9. Once'
  <2>1. HandsOnce' /\ \A k \in Keys : InHands(k)' = InHands(k) /\ InQueue(k)' = InQueue(k)
    BY HandsSame, QueueSame DEF StoreInv, Once
  <2>2. ASSUME NEW k \in Keys
        PROVE  /\ InJobs(k)' = IF k \in ks THEN InJobs(k) \cup ToSet(buffer[k]) ELSE InJobs(k)
               /\ ToSet(buffer'[k]) = IF k \in ks THEN {} ELSE ToSet(buffer[k])
    <3>1. InJobs(k)' = (InJobs(k) \ ToSet(job[t].due[k])) \cup ToSet(job'[t].due[k])
      BY <1>1, <1>6, JobsMove DEF StoreInv, Once
    <3>2. ToSet(job[t].due[k]) = {}
      BY IdleJobType, EmptyOnce
    <3> QED BY <1>1, <1>2, <1>3, <3>1, <3>2, EmptyOnce
  <2>3. JobsOnce'
    <3>1. ASSUME NEW k \in Keys
          PROVE  /\ IsInjective(job'[t].due[k])
                 /\ \A n \in ToSet(job'[t].due[k]) : n \notin InJobs(k)
      <4>1. SplitOf(k) /\ IsInjective(buffer[k])
        BY DEF StoreInv, Once, PlacesOnce, BuffersOnce
      <4> QED BY <1>1, <1>2, <1>3, <4>1, EmptyOnce DEF SplitOf, Split
    <3> QED BY <1>1, <3>1, JobsStayOnce DEF StoreInv, Once
  <2>4. PlacesOnce'
    <3> SUFFICES ASSUME NEW k \in Keys PROVE SplitOf(k)'
      BY DEF PlacesOnce
    <3>1. SplitOf(k)
      BY DEF StoreInv, Once, PlacesOnce
    <3>2. CASE k \in ks
      BY <2>1, <2>2, <3>1, <3>2 DEF SplitOf, Split
    <3>3. CASE k \notin ks
      BY <2>1, <2>2, <3>1, <3>3 DEF SplitOf
    <3> QED BY <3>2, <3>3
  <2>5. BuffersOnce'
    BY <1>1, EmptyOnce DEF StoreInv, Once, BuffersOnce
  <2> QED BY <2>1, <2>3, <2>4, <2>5 DEF StoreInv, Once, QueueOnce
<1> QED BY <1>1, <1>6, <1>7, <1>8, <1>9

\* A thread with all its batches settled has nothing left to write.
LEMMA JobEnds ==
  ASSUME StoreInv, NEW t \in Writers, JobDone(t), job' = [job EXCEPT ![t] = IdleJob],
         UNCHANGED <<accepted, pending, queue, buffer, write_lock, file, written, dropped, uncounted>>,
         worker' \in [Workers -> [pc : WorkerPcs, item : Numbered \cup {None}]],
         \A w \in Workers : /\ worker'[w].item = worker[w].item
                            /\ worker'[w].pc = "process" <=> worker[w].pc = "process"
  PROVE  /\ StoreTypes' /\ LocksOK' /\ Once' /\ PendingCounts' /\ FilesOK'
         /\ job'[t] = IdleJob /\ \A u \in Writers : u # t => job'[u] = job[u]
<1>1. /\ job'[t] = IdleJob /\ \A u \in Writers : u # t => job'[u] = job[u]
      /\ job' \in [Writers -> Jobs]
  BY IdleJobType DEF StoreInv, StoreTypes
<1>2. StoreTypes'
  BY <1>1 DEF StoreInv, StoreTypes
<1>3. LocksOK'
  BY <1>1, IdleJobType, LocksStay DEF JobDone
<1>4. PendingCounts' /\ FilesOK'
  BY CountsSame DEF StoreInv, FilesOK
<1>5. Once'
  <2>1. \A u \in Writers : \A k \in Keys : job'[u].due[k] = job[u].due[k]
    BY <1>1, IdleJobType DEF JobDone, Batches
  <2> QED BY <1>2, <2>1, OnceSame DEF StoreInv
<1> QED BY <1>1, <1>2, <1>3, <1>4, <1>5

\* No job, lock or file changes.
LEMMA JobsStay ==
  ASSUME StoreInv, UNCHANGED <<job, write_lock, file, written, dropped>>
  PROVE  LocksOK' /\ FilesOK' /\ JobsOnce'
BY DEF StoreInv, LocksOK, FilesOK, Once, JobsOnce

\* What a dataset has in the queue and with the workers is finite.
LEMMA Finite ==
  ASSUME StoreInv, NEW k \in Keys
  PROVE  IsFiniteSet(InQueue(k)) /\ IsFiniteSet(Holding(k))
<1>1. InQueue(k) \in SUBSET (1..accepted[k]) /\ accepted[k] \in Int
  BY DEF StoreInv, StoreTypes, Once, PlacesOnce, SplitOf, Split
<1>2. IsFiniteSet(InQueue(k))
  BY <1>1, FS_Interval, FS_Subset
<1>3. Holding(k) \in SUBSET Workers
  BY DEF Holding
<1>4. IsFiniteSet(Holding(k))
  BY <1>3, PersistenceAssumption, FS_Subset
<1> QED BY <1>2, <1>4

------------------------------------------------------------------------------
(* The workers *)

\* A worker goes to its next step with the item it holds.
LEMMA Moves ==
  ASSUME StoreTypes, NEW w \in Workers, NEW pc \in WorkerPcs, Goto(w, pc)
  PROVE  /\ worker' \in [Workers -> [pc : WorkerPcs, item : Numbered \cup {None}]]
         /\ worker'[w].pc = pc /\ worker'[w].item = worker[w].item
         /\ \A v \in Workers : v # w => worker'[v] = worker[v]
BY DEF StoreTypes, Goto

\* The service is up or draining while a worker is not off, and nothing has been
\* flushed for good while one holds an item.
LEMMA ServiceGoes ==
  ASSUME ServiceOK, NEW w \in Workers, worker[w].pc # "off", UNCHANGED <<service, quit, queue>>,
         \A v \in Workers : v # w => worker'[v] = worker[v],
         \/ worker[w].item # None
         \/ worker[w].item = None /\ worker'[w].item = None /\ UNCHANGED buffer
  PROVE  ServiceOK'
BY DEF ServiceOK, Nothing

\* A worker takes the first item of the queue, or finds the queue empty.
LEMMA StoreWorkerGet ==
  ASSUME StoreInv, NEW w \in Workers, WorkerGet(w)
  PROVE  StoreInv'
<1>1. /\ UNCHANGED <<service, accepted, pending, job, write_lock, cli, quit>>
      /\ UNCHANGED <<buffer, file, written, dropped, uncounted>>
      /\ worker[w].pc = "loop" /\ worker[w].item = None /\ job[w] = IdleJob
  BY DEF WorkerGet, store, StoreInv, WorkersOK
<1>2. CASE queue = <<>>
  <2>1. Goto(w, "flush") /\ queue' = queue
    BY <1>2 DEF WorkerGet
  <2>2. /\ worker' \in [Workers -> [pc : WorkerPcs, item : Numbered \cup {None}]]
        /\ worker'[w].pc = "flush" /\ worker'[w].item = worker[w].item
        /\ \A v \in Workers : v # w => worker'[v] = worker[v]
    BY <2>1, Moves DEF StoreInv, WorkerPcs
  <2>3. StoreTypes'
    BY <1>1, <2>1, <2>2 DEF StoreInv, StoreTypes
  <2>4. WorkersOK' /\ CallersOK'
    BY <1>1, <2>2 DEF StoreInv, WorkersOK, CallersOK
  <2>5. LocksOK' /\ FilesOK'
    BY <1>1, JobsStay
  <2>6. ServiceOK' /\ StoppingOK' /\ PendingCounts'
    BY <1>1, <2>1, <2>2, ServiceGoes, StoppingSame, CountsSame DEF StoreInv
  <2>7. Once'
    BY <1>1, <2>1, <2>2, <2>3, OnceSame DEF StoreInv
  <2> QED BY <2>3, <2>4, <2>5, <2>6, <2>7 DEF StoreInv
<1>3. CASE queue # <<>>
  <2> DEFINE item == Head(queue)
             k == item.key
             n == item.n
  <2>1. /\ worker' = [worker EXCEPT ![w] = [pc |-> "process", item |-> item]]
        /\ queue' = Tail(queue)
    BY <1>3 DEF WorkerGet
  <2>2. queue \in Seq(Numbered) /\ Len(queue) <= QueueSize /\ IsInjective(queue)
    BY DEF StoreInv, StoreTypes, Once, QueueOnce
  <2>3. /\ item \in Numbered /\ Tail(queue) \in Seq(Numbered) /\ Len(Tail(queue)) = Len(queue) - 1
        /\ Len(queue) \in Nat /\ k \in Keys /\ item # None
    <3>1. /\ Head(queue) \in Numbered /\ Tail(queue) \in Seq(Numbered)
          /\ Len(Tail(queue)) = Len(queue) - 1
      BY <1>3, <2>2, HeadTailProperties
    <3>2. Len(queue) \in Nat
      BY <2>2, LenProperties
    <3> QED BY <3>1, <3>2, NoneAssumption DEF Numbered
  <2>4. /\ ToSet(queue) = ToSet(Tail(queue)) \cup {item} /\ item \notin ToSet(Tail(queue))
        /\ IsInjective(Tail(queue)) /\ ToSet(queue) \subseteq Numbered
    BY <1>3, <2>2, TailOnce, ToSetType
  <2> HIDE DEF item
  <2>5. /\ worker' \in [Workers -> [pc : WorkerPcs, item : Numbered \cup {None}]]
        /\ worker'[w].pc = "process" /\ worker'[w].item = item
        /\ \A v \in Workers : v # w => worker'[v] = worker[v]
    BY <2>1, <2>3 DEF StoreInv, StoreTypes, WorkerPcs
  <2>6. StoreTypes'
    BY <1>1, <2>1, <2>2, <2>3, <2>5, PersistenceAssumption DEF StoreInv, StoreTypes
  <2>7. WorkersOK' /\ CallersOK'
    BY <1>1, <2>3, <2>5 DEF StoreInv, WorkersOK, CallersOK
  <2>8. LocksOK' /\ FilesOK' /\ JobsOnce'
    BY <1>1, JobsStay
  <2>9. ServiceOK' /\ StoppingOK'
    BY <1>1, <1>3, <2>5, StoppingSame DEF StoreInv, ServiceOK, Nothing
  <2>10. ASSUME NEW j \in Keys
         PROVE  /\ InQueue(j)' = IF j = k THEN InQueue(j) \ {n} ELSE InQueue(j)
                /\ j = k => n \in InQueue(j)
    <3>1. \A m : m \in InQueue(j) <=> \E x \in ToSet(Tail(queue)) \cup {item} : x.key = j /\ x.n = m
      BY <2>4, Lists
    <3>2. \A m : m \in InQueue(j)' <=> \E x \in ToSet(Tail(queue)) : x.key = j /\ x.n = m
      BY <2>1, ListsNext
    <3>3. \A x \in ToSet(Tail(queue)) : x.key = k => x.n # n
      BY <2>3, <2>4 DEF Numbered
    <3>4. CASE j = k
      <4>1. \A m : m \in InQueue(j)' <=> m \in InQueue(j) /\ m # n
        BY <3>1, <3>2, <3>3, <3>4
      <4>2. n \in InQueue(j)
        BY <3>1, <3>4
      <4> QED BY <3>4, <4>1, <4>2
    <3>5. CASE j # k
      <4>1. \A m : m \in InQueue(j)' <=> m \in InQueue(j)
        BY <3>1, <3>2, <3>5
      <4> QED BY <3>5, <4>1
    <3> QED BY <3>4, <3>5
  <2>11. ASSUME NEW j \in Keys
         PROVE  /\ InHands(j)' = IF j = k THEN InHands(j) \cup {n} ELSE InHands(j)
                /\ Holding(j)' = IF j = k THEN Holding(j) \cup {w} ELSE Holding(j)
                /\ w \notin Holding(j)
    <3>1. \A m : m \in InHands(j) <=>
             \E v \in Workers : /\ worker[v].item # None /\ worker[v].pc = "process"
                               /\ worker[v].item.key = j /\ worker[v].item.n = m
      BY Lists
    <3>2. \A m : m \in InHands(j)' <=>
             \E v \in Workers : /\ worker'[v].item # None /\ worker'[v].pc = "process"
                               /\ worker'[v].item.key = j /\ worker'[v].item.n = m
      BY ListsNext
    <3>3. \A m : m \in InHands(j)' <=> m \in InHands(j) \/ (j = k /\ m = n)
      BY <1>1, <2>3, <2>5, <3>1, <3>2
    <3>4. Holding(j)' = IF j = k THEN Holding(j) \cup {w} ELSE Holding(j)
      BY <1>1, <2>3, <2>5 DEF Holding
    <3>5. w \notin Holding(j)
      BY <1>1 DEF Holding
    <3>6. CASE j = k
      BY <3>3, <3>4, <3>5, <3>6
    <3>7. CASE j # k
      BY <3>3, <3>4, <3>5, <3>7
    <3> QED BY <3>6, <3>7
  <2>12. ASSUME NEW j \in Keys
         PROVE  InJobs(j)' = InJobs(j) /\ SplitOf(j)
    BY <1>1, <2>6, JobsSame DEF StoreInv, Once, PlacesOnce
  <2>13. HandsOnce'
    <3>1. ASSUME NEW v \in Workers, v # w, worker[v].pc = "process"
          PROVE  worker[v].item # item
      <4>1. worker[v].item # None
        BY <3>1 DEF StoreInv, WorkersOK
      <4>2. worker[v].item = item => n \in InHands(k)
        BY <2>3, <3>1, <4>1, Lists
      <4>3. n \notin InHands(k)
        BY <2>3, <2>10, <2>12 DEF SplitOf, Split
      <4> QED BY <4>2, <4>3
    <3> QED BY <2>5, <3>1 DEF StoreInv, Once, HandsOnce
  <2>14. PlacesOnce'
    <3> SUFFICES ASSUME NEW j \in Keys PROVE SplitOf(j)'
      BY DEF PlacesOnce
    <3>1. CASE j = k
      BY <1>1, <2>10, <2>11, <2>12, <3>1 DEF SplitOf, Split
    <3>2. CASE j # k
      BY <1>1, <2>10, <2>11, <2>12, <3>2 DEF SplitOf
    <3> QED BY <3>1, <3>2
  <2>15. Once'
    BY <1>1, <2>1, <2>4, <2>8, <2>13, <2>14 DEF StoreInv, Once, QueueOnce, BuffersOnce
  <2>16. PendingCounts'
    <3> SUFFICES ASSUME NEW j \in Keys
                 PROVE  pending'[j] = Cardinality(InQueue(j)') + Cardinality(Holding(j)')
      BY DEF PendingCounts
    <3>1. /\ pending[j] = Cardinality(InQueue(j)) + Cardinality(Holding(j))
          /\ IsFiniteSet(InQueue(j)) /\ IsFiniteSet(Holding(j))
      BY Finite DEF StoreInv, PendingCounts
    <3>2. CASE j = k
      <4>1. n \in InQueue(j) /\ w \notin Holding(j)
        BY <2>10, <2>11, <3>2
      <4>2. /\ Cardinality(InQueue(j) \ {n}) = Cardinality(InQueue(j)) - 1
            /\ Cardinality(Holding(j) \cup {w}) = Cardinality(Holding(j)) + 1
        BY <3>1, <4>1, FS_RemoveElement, FS_AddElement
      <4>3. Cardinality(InQueue(j)) \in Nat /\ Cardinality(Holding(j)) \in Nat
        BY <3>1, FS_CardinalityType
      <4>4. InQueue(j)' = InQueue(j) \ {n} /\ Holding(j)' = Holding(j) \cup {w}
        BY <2>10, <2>11, <3>2
      <4>5. Cardinality(InQueue(j)') = Cardinality(InQueue(j)) - 1
        BY <4>2, <4>4
      <4>6. Cardinality(Holding(j)') = Cardinality(Holding(j)) + 1
        BY <4>2, <4>4
      <4> QED BY <1>1, <3>1, <4>3, <4>5, <4>6
    <3>3. CASE j # k
      BY <1>1, <2>10, <2>11, <3>1, <3>3
    <3> QED BY <3>2, <3>3
  <2> QED BY <2>6, <2>7, <2>8, <2>9, <2>15, <2>16 DEF StoreInv
<1> QED BY <1>2, <1>3

\* A worker leaves its loop with nothing in hand.
LEMMA StoreWorkerExit ==
  ASSUME StoreInv, NEW w \in Workers, WorkerExit(w)
  PROVE  StoreInv'
<1>1. /\ UNCHANGED <<service, accepted, pending, queue, job, write_lock, cli, quit>>
      /\ UNCHANGED <<buffer, file, written, dropped, uncounted>>
      /\ worker[w].pc = "loop" /\ worker[w].item = None /\ job[w] = IdleJob /\ Goto(w, "off")
  BY DEF WorkerExit, intake, store, StoreInv, WorkersOK
<1>2. /\ worker' \in [Workers -> [pc : WorkerPcs, item : Numbered \cup {None}]]
      /\ worker'[w].pc = "off" /\ worker'[w].item = worker[w].item
      /\ \A v \in Workers : v # w => worker'[v] = worker[v]
  BY <1>1, Moves DEF StoreInv, WorkerPcs
<1>3. StoreTypes'
  BY <1>1, <1>2 DEF StoreInv, StoreTypes
<1>4. WorkersOK' /\ CallersOK'
  BY <1>1, <1>2 DEF StoreInv, WorkersOK, CallersOK
<1>5. LocksOK' /\ FilesOK'
  BY <1>1, JobsStay
<1>6. ServiceOK' /\ StoppingOK' /\ PendingCounts'
  BY <1>1, <1>2, ServiceGoes, StoppingSame, CountsSame DEF StoreInv
<1>7. Once'
  BY <1>1, <1>2, <1>3, OnceSame DEF StoreInv
<1> QED BY <1>3, <1>4, <1>5, <1>6, <1>7 DEF StoreInv

\* An item that cannot be normalized is settled as dropped.
LEMMA StoreNormalizationFails ==
  ASSUME StoreInv, NEW w \in Workers, NormalizationFails(w)
  PROVE  StoreInv'
<1> DEFINE item == worker[w].item
           k == item.key
           n == item.n
<1>1. /\ UNCHANGED <<service, accepted, pending, queue, job, write_lock, cli, quit>>
      /\ UNCHANGED <<buffer, file, written, uncounted>>
      /\ worker[w].pc = "process" /\ item # None /\ job[w] = IdleJob /\ Goto(w, "finish")
  BY DEF NormalizationFails, MarkDropped, intake, StoreInv, WorkersOK
<1>2. /\ worker' \in [Workers -> [pc : WorkerPcs, item : Numbered \cup {None}]]
      /\ worker'[w].pc = "finish" /\ worker'[w].item = item
      /\ \A v \in Workers : v # w => worker'[v] = worker[v]
  BY <1>1, Moves DEF StoreInv, WorkerPcs
<1>3. /\ HandsOnce' /\ item \in Numbered /\ n \in InHands(k)
      /\ \A j \in Keys : InHands(j)' = IF j = k THEN InHands(j) \ {n} ELSE InHands(j)
  BY <1>1, <1>2, HandsLeave DEF StoreInv, Once
<1>4. /\ k \in Keys /\ n \in Nat
      /\ dropped' \in [Keys -> SUBSET Nat] /\ dropped'[k] = dropped[k] \cup {n}
      /\ \A j \in Keys : j # k => dropped'[j] = dropped[j]
  <2>1. k \in Keys /\ n \in Nat /\ dropped' = [dropped EXCEPT ![k] = @ \cup {n}]
    BY <1>3 DEF Numbered, NormalizationFails, MarkDropped
  <2> HIDE DEF k, n
  <2> QED BY <2>1 DEF StoreInv, StoreTypes
<1>5. StoreTypes'
  BY <1>1, <1>2, <1>4 DEF StoreInv, StoreTypes
<1>6. WorkersOK' /\ CallersOK'
  BY <1>1, <1>2 DEF StoreInv, WorkersOK, CallersOK
<1>7. LocksOK' /\ JobsOnce'
  BY <1>1 DEF StoreInv, LocksOK, Once, JobsOnce
<1>8. FilesOK'
  <2>1. \A j \in Keys : dropped[j] \subseteq dropped'[j]
    BY <1>4
  <2> QED BY <1>1, <2>1 DEF StoreInv, FilesOK
<1>9. PendingCounts'
  <2>1. \A v \in Workers : worker'[v].item = worker[v].item
    BY <1>2
  <2> QED BY <1>1, <2>1, CountsSame DEF StoreInv
<1>10. ServiceOK' /\ StoppingOK'
  BY <1>1, <1>2, ServiceGoes, StoppingSame DEF StoreInv
<1>11. PlacesOnce'
  <2> SUFFICES ASSUME NEW j \in Keys PROVE SplitOf(j)'
    BY DEF PlacesOnce
  <2>1. SplitOf(j) /\ InQueue(j)' = InQueue(j) /\ InJobs(j)' = InJobs(j)
    BY <1>1, <1>5, QueueSame, JobsSame DEF StoreInv, Once, PlacesOnce
  <2> HIDE DEF k, n, item
  <2>2. CASE j = k
    BY <1>1, <1>3, <1>4, <2>1, <2>2 DEF SplitOf, Split
  <2>3. CASE j # k
    BY <1>1, <1>3, <1>4, <2>1, <2>3 DEF SplitOf
  <2> QED BY <2>2, <2>3
<1>12. Once'
  BY <1>1, <1>3, <1>7, <1>11 DEF StoreInv, Once, QueueOnce, BuffersOnce
<1> QED BY <1>5, <1>6, <1>7, <1>8, <1>9, <1>10, <1>12 DEF StoreInv

\* The item goes to the buffer, or with the buffer into the batch of the worker.
LEMMA StoreBufferItem ==
  ASSUME StoreInv, ControlTypes, NEW w \in Workers, BufferItem(w)
  PROVE  StoreInv'
<1> DEFINE item == worker[w].item
           k == item.key
           n == item.n
           full == Append(buffer[k], n)
           pc == IF Len(full) >= BatchSize THEN "write" ELSE "finish"
<1>1. /\ UNCHANGED <<service, accepted, pending, queue, write_lock, cli, quit>>
      /\ UNCHANGED <<file, written, dropped, uncounted>>
      /\ worker[w].pc = "process" /\ item # None /\ job[w] = IdleJob /\ Goto(w, pc)
  BY DEF BufferItem, intake, StoreInv, WorkersOK
<1>2. /\ worker' \in [Workers -> [pc : WorkerPcs, item : Numbered \cup {None}]]
      /\ worker'[w].pc = pc /\ worker'[w].item = item
      /\ \A v \in Workers : v # w => worker'[v] = worker[v]
  BY <1>1, Moves DEF StoreInv, WorkerPcs
<1>3. /\ HandsOnce' /\ item \in Numbered /\ n \in InHands(k)
      /\ \A j \in Keys : InHands(j)' = IF j = k THEN InHands(j) \ {n} ELSE InHands(j)
  BY <1>1, <1>2, HandsLeave DEF StoreInv, Once
<1>4. /\ k \in Keys /\ n \in Numbers /\ w \in Writers
      /\ buffer \in [Keys -> Seq(Numbers)] /\ IsInjective(buffer[k])
  BY <1>3 DEF Numbered, Numbers, Writers, StoreInv, StoreTypes, Once, BuffersOnce
<1>5. IF Len(full) >= BatchSize
      THEN /\ job' = [job EXCEPT ![w] = [IdleJob EXCEPT !.due[k] = full]]
           /\ buffer' = [buffer EXCEPT ![k] = <<>>]
      ELSE buffer' = [buffer EXCEPT ![k] = full] /\ job' = job
  BY DEF BufferItem
<1>6. /\ full \in Seq(Numbers) /\ full # <<>> /\ Len(full) \in Nat
      /\ ToSet(full) = ToSet(buffer[k]) \cup {n} /\ IsInjective(full)
  <2>1. n \notin ToSet(buffer[k])
    BY <1>3, <1>4 DEF StoreInv, Once, PlacesOnce, SplitOf, Split
  <2>2. buffer[k] \in Seq(Numbers)
    BY <1>4
  <2>3. full \in Seq(Numbers) /\ full # <<>>
    BY <1>4, <2>2, AppendProperties
  <2>4. Len(full) \in Nat
    BY <2>3, LenProperties
  <2>5. n \in Numbers /\ IsInjective(buffer[k])
    BY <1>4
  <2>6. ToSet(full) = ToSet(buffer[k]) \cup {n} /\ IsInjective(full)
    BY <2>1, <2>2, <2>5, AppendOnce
  <2> QED BY <2>3, <2>4, <2>6
<1> HIDE DEF full, k, n
<1>7. /\ job' \in [Writers -> Jobs] /\ buffer' \in [Keys -> Seq(Numbers)]
      /\ \A t \in Writers : t # w => job'[t] = job[t]
      /\ \A j \in Keys : Len(buffer'[j]) < BatchSize
      /\ \A j \in Keys : j # k => buffer'[j] = buffer[j] /\ job'[w].due[j] = <<>>
      /\ job'[w].step = "idle"
      /\ IF pc = "write" THEN buffer'[k] = <<>> /\ job'[w].due[k] = full
                         ELSE buffer'[k] = full /\ job' = job
  <2> DEFINE new == [IdleJob EXCEPT !.due[k] = full]
  <2>1. /\ new \in Jobs /\ new.step = "idle"
        /\ \A j \in Keys : new.due[j] = IF j = k THEN full ELSE <<>>
    BY <1>4, <1>6, IdleJobType DEF Jobs
  <2>2. CASE Len(full) >= BatchSize
    <3>1. job' = [job EXCEPT ![w] = new] /\ buffer' = [buffer EXCEPT ![k] = <<>>]
      BY <1>5, <2>2
    <3> HIDE DEF new
    <3> QED BY <1>4, <2>1, <2>2, <3>1, EmptySeq, PersistenceAssumption DEF StoreInv, StoreTypes
  <2>3. CASE ~(Len(full) >= BatchSize)
    <3>1. job' = job /\ buffer' = [buffer EXCEPT ![k] = full] /\ Len(full) < BatchSize
      BY <1>5, <1>6, <2>3, PersistenceAssumption
    <3> QED BY <1>1, <1>4, <1>6, <2>3, <3>1, IdleJobType DEF StoreInv, StoreTypes
  <2> QED BY <2>2, <2>3
<1> HIDE DEF item, pc
<1>8. pc \in {"write", "finish"}
  BY DEF pc
<1>9. StoreTypes'
  BY <1>1, <1>2, <1>7 DEF StoreInv, StoreTypes
<1>10. WorkersOK' /\ CallersOK'
  <2>1. \A v \in Workers : v # w => job'[v] = job[v]
    BY <1>7 DEF Writers
  <2>2. pc # "write" => job'[w] = IdleJob
    BY <1>1, <1>7
  <2>3. pc = "write" => \A j \in Keys : job'[w].due[j] # <<>> => j = worker'[w].item.key
    BY <1>2, <1>7 DEF k
  <2>4. WorkersOK'
    BY <1>1, <1>2, <1>8, <2>1, <2>2, <2>3 DEF StoreInv, WorkersOK
  <2>5. job'["cli"] = job["cli"] /\ job'["quit"] = job["quit"]
    BY <1>7, PersistenceAssumption DEF Writers
  <2> QED BY <1>1, <2>4, <2>5 DEF StoreInv, CallersOK
<1>11. LocksOK'
  BY <1>1, <1>4, <1>7, IdleJobType, LocksStay
<1>12. FilesOK'
  BY <1>1 DEF StoreInv, FilesOK
<1>13. PendingCounts'
  <2>1. \A v \in Workers : worker'[v].item = worker[v].item
    BY <1>2 DEF item
  <2> QED BY <1>1, <2>1, CountsSame DEF StoreInv
<1>14. ServiceOK'
  BY <1>1, <1>2, ServiceGoes DEF StoreInv, item
<1>15. StoppingOK'
  <2>1. ASSUME cli.pc \in Stopping \ {"wait"}, cli.key = k
        PROVE  FALSE
    <3>1. pending[k] = 0 /\ pending[k] = Cardinality(InQueue(k)) + Cardinality(Holding(k))
      BY <1>4, <2>1 DEF StoreInv, StoppingOK, PendingCounts
    <3>2. /\ IsFiniteSet(Holding(k)) /\ Cardinality(InQueue(k)) \in Nat
          /\ Cardinality(Holding(k)) \in Nat
      BY <1>4, Finite, FS_CardinalityType
    <3>3. Holding(k) = {}
      BY <3>1, <3>2, FS_EmptySet
    <3> QED BY <1>1, <3>3 DEF Holding, item, k
  <2>2. CASE cli.pc \in Stopping \ {"wait", "flush"} /\ cli.key \in Keys
    BY <1>1, <1>7, <2>1, <2>2 DEF StoreInv, StoppingOK
  <2>3. CASE cli.pc \notin Stopping \ {"wait", "flush"}
    BY <1>1, <2>3 DEF StoreInv, StoppingOK
  <2>4. cli.pc \in Stopping => cli.key \in Keys
    BY DEF ControlTypes, CliTypes, Stopping
  <2> QED BY <2>2, <2>3, <2>4
<1>16. Once'
  <2>1. ASSUME NEW j \in Keys
        PROVE  /\ InJobs(j)' = InJobs(j) \cup ToSet(job'[w].due[j])
               /\ InQueue(j)' = InQueue(j) /\ SplitOf(j)
    <3>1. InJobs(j)' = (InJobs(j) \ ToSet(job[w].due[j])) \cup ToSet(job'[w].due[j])
      BY <1>4, <1>7, <1>9, JobsMove DEF StoreInv, Once
    <3>2. ToSet(job[w].due[j]) = {}
      BY <1>1, IdleJobType, EmptyOnce
    <3> QED BY <1>1, <3>1, <3>2, QueueSame DEF StoreInv, Once, PlacesOnce
  <2>2. JobsOnce'
    <3>1. ASSUME NEW j \in Keys
          PROVE  /\ IsInjective(job'[w].due[j])
                 /\ \A m \in ToSet(job'[w].due[j]) : m \notin InJobs(j)
      <4>1. CASE j = k /\ pc = "write"
        <5>1. \A m \in ToSet(buffer[k]) \cup {n} : m \notin InJobs(k)
          BY <1>3, <2>1, <4>1 DEF SplitOf, Split
        <5> QED BY <1>6, <1>7, <4>1, <5>1
      <4>2. CASE ~(j = k /\ pc = "write")
        BY <1>1, <1>7, <4>2, IdleJobType, EmptyOnce
      <4> QED BY <4>1, <4>2
    <3> QED BY <1>4, <1>7, <3>1, JobsStayOnce DEF StoreInv, Once
  <2>3. PlacesOnce'
    <3> SUFFICES ASSUME NEW j \in Keys PROVE SplitOf(j)'
      BY DEF PlacesOnce
    <3>1. CASE j = k /\ pc = "write"
      <4>1. /\ InJobs(j)' = InJobs(j) \cup ToSet(buffer[j]) \cup {n} /\ ToSet(buffer'[j]) = {}
            /\ InHands(j)' = InHands(j) \ {n} /\ n \in InHands(j)
        BY <1>3, <1>6, <1>7, <2>1, <3>1, EmptyOnce
      <4> QED BY <1>1, <2>1, <4>1 DEF SplitOf, Split
    <3>2. CASE j = k /\ pc # "write"
      <4>1. /\ InJobs(j)' = InJobs(j) /\ ToSet(buffer'[j]) = ToSet(buffer[j]) \cup {n}
            /\ InHands(j)' = InHands(j) \ {n} /\ n \in InHands(j)
        <5>1. job'[w].due[j] = <<>> /\ buffer'[j] = full
          BY <1>1, <1>7, <3>2, IdleJobType
        <5>2. InJobs(j)' = InJobs(j)
          BY <2>1, <5>1, EmptyOnce
        <5> QED BY <1>3, <1>6, <3>2, <5>1, <5>2
      <4> QED BY <1>1, <2>1, <4>1 DEF SplitOf, Split
    <3>3. CASE j # k
      <4>1. InJobs(j)' = InJobs(j) /\ buffer'[j] = buffer[j] /\ InHands(j)' = InHands(j)
        BY <1>3, <1>7, <2>1, <3>3, EmptyOnce
      <4> QED BY <1>1, <2>1, <4>1 DEF SplitOf
    <3> QED BY <3>1, <3>2, <3>3
  <2>4. BuffersOnce'
    BY <1>6, <1>7, EmptyOnce DEF StoreInv, Once, BuffersOnce
  <2> QED BY <1>1, <1>3, <2>2, <2>3, <2>4 DEF StoreInv, Once, QueueOnce
<1> QED BY <1>9, <1>10, <1>11, <1>12, <1>13, <1>14, <1>15, <1>16 DEF StoreInv

\* Only the command moves, or nothing here.
LEMMA StoreStays ==
  ASSUME StoreInv, UNCHANGED <<service, accepted, pending, queue, worker, job, write_lock, store, quit>>,
         \/ cli' = cli
         \/ cli.pc # "flushing" /\ cli'.pc \notin Stopping \ {"wait"}
         \/ cli.pc = "withdraw" /\ cli'.pc = "withdrawing" /\ cli'.key = cli.key
         \/ cli.pc = "wait" /\ pending[cli.key] = 0 /\ cli'.pc = "flush" /\ cli'.key = cli.key
  PROVE  StoreInv'
<1>1. UNCHANGED <<buffer, file, written, dropped, uncounted>>
  BY DEF store
<1>2. StoreTypes' /\ WorkersOK'
  BY <1>1 DEF StoreInv, StoreTypes, WorkersOK
<1>3. CallersOK' /\ StoppingOK'
  BY <1>1 DEF StoreInv, CallersOK, StoppingOK, Stopping
<1>4. LocksOK' /\ FilesOK'
  BY <1>1, JobsStay
<1>5. ServiceOK' /\ PendingCounts'
  BY <1>1, ServiceSame, CountsSame DEF StoreInv
<1>6. Once'
  BY <1>1, <1>2, OnceSame DEF StoreInv
<1> QED BY <1>2, <1>3, <1>4, <1>5, <1>6 DEF StoreInv

\* The batch is written, or what was due is flushed.
LEMMA StoreJobEnds ==
  ASSUME StoreInv, NEW w \in Workers, BatchWritten(w) \/ DueFlushed(w)
  PROVE  StoreInv'
<1> DEFINE pc == IF worker[w].pc = "write" THEN "finish" ELSE "loop"
<1>1. /\ UNCHANGED <<service, accepted, pending, queue, write_lock, cli, quit>>
      /\ UNCHANGED <<buffer, file, written, dropped, uncounted>>
      /\ JobDone(w) /\ job' = [job EXCEPT ![w] = IdleJob] /\ Goto(w, pc)
      /\ worker[w].pc = "write" \/ worker[w].pc = "flushing"
      /\ pc \in WorkerPcs /\ pc \in {"finish", "loop"}
      /\ pc = "finish" <=> worker[w].pc = "write"
      /\ w \in Writers
  BY DEF BatchWritten, DueFlushed, intake, store, WorkerPcs, Writers
<1> HIDE DEF pc
<1>2. /\ worker' \in [Workers -> [pc : WorkerPcs, item : Numbered \cup {None}]]
      /\ worker'[w].pc = pc /\ worker'[w].item = worker[w].item
      /\ \A v \in Workers : v # w => worker'[v] = worker[v]
  BY <1>1, Moves DEF StoreInv
<1>3. \A v \in Workers : /\ worker'[v].item = worker[v].item
                         /\ worker'[v].pc = "process" <=> worker[v].pc = "process"
  BY <1>1, <1>2
<1>4. /\ StoreTypes' /\ LocksOK' /\ Once' /\ PendingCounts' /\ FilesOK'
      /\ job'[w] = IdleJob /\ \A u \in Writers : u # w => job'[u] = job[u]
  BY <1>1, <1>2, <1>3, JobEnds
<1>5. WorkersOK' /\ CallersOK'
  <2>1. \A v \in Workers : v # w => job'[v] = job[v]
    BY <1>4 DEF Writers
  <2>2. job'["cli"] = job["cli"] /\ job'["quit"] = job["quit"]
    BY <1>4, PersistenceAssumption DEF Writers
  <2>3. WorkersOK'
    BY <1>1, <1>2, <1>4, <2>1 DEF StoreInv, WorkersOK
  <2> QED BY <1>1, <2>2, <2>3 DEF StoreInv, CallersOK
<1>6. ServiceOK' /\ StoppingOK'
  <2>1. worker[w].item # None \/ worker[w].item = None
    OBVIOUS
  <2> QED BY <1>1, <1>2, <2>1, ServiceGoes, StoppingSame DEF StoreInv
<1> QED BY <1>4, <1>5, <1>6 DEF StoreInv

\* The item counts as processed, whatever became of it.
LEMMA StoreItemProcessed ==
  ASSUME StoreInv, ControlTypes, NEW w \in Workers, ItemProcessed(w)
  PROVE  StoreInv'
<1> DEFINE item == worker[w].item
           k == item.key
<1>1. /\ UNCHANGED <<service, accepted, queue, job, write_lock, cli, quit>>
      /\ UNCHANGED <<buffer, file, written, dropped, uncounted>>
      /\ worker[w].pc = "finish" /\ item # None /\ job[w] = IdleJob
      /\ item \in Numbered /\ k \in Keys
  BY DEF ItemProcessed, store, StoreInv, StoreTypes, WorkersOK, Numbered
<1>2. /\ worker' \in [Workers -> [pc : WorkerPcs, item : Numbered \cup {None}]]
      /\ worker'[w].pc = "flush" /\ worker'[w].item = None
      /\ \A v \in Workers : v # w => worker'[v] = worker[v]
  BY DEF ItemProcessed, StoreInv, StoreTypes, WorkerPcs
<1>3. /\ pending' = [pending EXCEPT ![k] = IF @ <= 0 THEN 0 ELSE @ - 1]
      /\ pending \in [Keys -> Nat]
  BY DEF ItemProcessed, StoreInv, StoreTypes
<1> HIDE DEF item, k
<1>4. ASSUME NEW j \in Keys
      PROVE  /\ Holding(j)' = IF j = k THEN Holding(j) \ {w} ELSE Holding(j)
             /\ j = k => w \in Holding(j)
             /\ InQueue(j)' = InQueue(j) /\ InHands(j)' = InHands(j)
  <2>1. Holding(j)' = IF j = k THEN Holding(j) \ {w} ELSE Holding(j)
    <3>1. \A v \in Workers : v \in Holding(j)' <=> v # w /\ v \in Holding(j)
      BY <1>2 DEF Holding
    <3>2. w \in Holding(j) => j = k
      BY DEF Holding, item, k
    <3>3. Holding(j) \subseteq Workers /\ Holding(j)' \subseteq Workers
      BY DEF Holding
    <3> QED BY <3>1, <3>2, <3>3
  <2>2. j = k => w \in Holding(j)
    BY <1>1 DEF Holding, item, k
  <2>3. \A n : n \in InHands(j)' <=> n \in InHands(j)
    BY <1>1, <1>2, Lists, ListsNext
  <2> QED BY <1>1, <2>1, <2>2, <2>3, QueueSame
<1>5. ASSUME NEW j \in Keys
      PROVE  /\ pending'[j] \in Nat /\ pending'[j] = Cardinality(InQueue(j)') + Cardinality(Holding(j)')
             /\ pending[j] = 0 => pending'[j] = 0
  <2>1. /\ pending[j] = Cardinality(InQueue(j)) + Cardinality(Holding(j))
        /\ IsFiniteSet(InQueue(j)) /\ IsFiniteSet(Holding(j))
        /\ pending[j] \in Nat
    BY <1>3, Finite DEF StoreInv, PendingCounts
  <2>2. Cardinality(InQueue(j)) \in Nat /\ Cardinality(Holding(j)) \in Nat
    BY <2>1, FS_CardinalityType
  <2>3. CASE j = k
    <3>1. /\ IsFiniteSet(Holding(j) \ {w})
          /\ Cardinality(Holding(j) \ {w}) = Cardinality(Holding(j)) - 1
      BY <1>4, <2>1, <2>3, FS_RemoveElement
    <3>2. Cardinality(Holding(j) \ {w}) \in Nat
      BY <3>1, FS_CardinalityType
    <3>3. pending'[j] = pending[j] - 1 /\ pending[j] > 0
      BY <1>3, <2>1, <2>2, <2>3, <3>1, <3>2
    <3>4. Cardinality(Holding(j)') = Cardinality(Holding(j)) - 1
      BY <1>4, <2>3, <3>1
    <3>5. Cardinality(InQueue(j)') = Cardinality(InQueue(j))
      BY <1>4
    <3> QED BY <2>1, <2>2, <3>2, <3>1, <3>3, <3>4, <3>5
  <2>4. CASE j # k
    BY <1>3, <1>4, <2>1, <2>4
  <2> QED BY <2>3, <2>4
<1>6. StoreTypes'
  <2>1. pending' \in [Keys -> Nat]
    BY <1>3, <1>5
  <2> QED BY <1>1, <1>2, <2>1 DEF StoreInv, StoreTypes
<1>7. PendingCounts'
  BY <1>5 DEF PendingCounts
<1>8. WorkersOK' /\ CallersOK'
  BY <1>1, <1>2 DEF StoreInv, WorkersOK, CallersOK
<1>9. LocksOK' /\ FilesOK' /\ JobsOnce'
  BY <1>1, JobsStay
<1>10. ServiceOK'
  BY <1>1, <1>2, ServiceGoes DEF StoreInv, item
<1>11. Once'
  <2>1. HandsOnce'
    BY <1>1, <1>2 DEF StoreInv, Once, HandsOnce
  <2>2. PlacesOnce'
    <3> SUFFICES ASSUME NEW j \in Keys PROVE SplitOf(j)'
      BY DEF PlacesOnce
    <3>1. SplitOf(j) /\ InJobs(j)' = InJobs(j)
      BY <1>1, <1>6, JobsSame DEF StoreInv, Once, PlacesOnce
    <3> QED BY <1>1, <1>4, <3>1 DEF SplitOf
  <2> QED BY <1>1, <1>9, <2>1, <2>2 DEF StoreInv, Once, QueueOnce, BuffersOnce
<1>12. StoppingOK'
  <2>1. cli.pc \in Stopping => cli.key \in Keys
    BY DEF ControlTypes, CliTypes, Stopping
  <2> QED BY <1>1, <1>5, <2>1 DEF StoreInv, StoppingOK, Stopping
<1> QED BY <1>6, <1>7, <1>8, <1>9, <1>10, <1>11, <1>12 DEF StoreInv

\* Buffers that were there long enough become batches of the worker.
LEMMA StoreFlushDue ==
  ASSUME StoreInv, ControlTypes, NEW w \in Workers, FlushDue(w)
  PROVE  StoreInv'
<1>1. PICK ks \in SUBSET Batches(buffer) : Take(w, ks) /\ Goto(w, "flushing")
  BY DEF FlushDue
<1>2. /\ UNCHANGED <<service, accepted, pending, queue, write_lock, cli, quit>>
      /\ UNCHANGED <<file, written, dropped, uncounted>>
      /\ worker[w].pc = "flush" /\ worker[w].item = None /\ job[w] = IdleJob
      /\ w \in Writers /\ ks \in SUBSET Keys
  BY DEF FlushDue, intake, StoreInv, WorkersOK, Writers, Batches
<1>3. /\ worker' \in [Workers -> [pc : WorkerPcs, item : Numbered \cup {None}]]
      /\ worker'[w].pc = "flushing" /\ worker'[w].item = worker[w].item
      /\ \A v \in Workers : v # w => worker'[v] = worker[v]
  BY <1>1, Moves DEF StoreInv, WorkerPcs
<1>4. \A v \in Workers : /\ worker'[v].item = worker[v].item
                         /\ worker'[v].pc = "process" <=> worker[v].pc = "process"
  BY <1>2, <1>3
<1>5. /\ StoreTypes' /\ LocksOK' /\ Once' /\ PendingCounts' /\ FilesOK'
      /\ \A u \in Writers : u # w => job'[u] = job[u]
      /\ \A k \in Keys : buffer'[k] = IF k \in ks THEN <<>> ELSE buffer[k]
  BY <1>1, <1>2, <1>3, <1>4, Takes
<1>6. WorkersOK' /\ CallersOK'
  <2>1. \A v \in Workers : v # w => job'[v] = job[v]
    BY <1>5 DEF Writers
  <2>2. job'["cli"] = job["cli"] /\ job'["quit"] = job["quit"]
    BY <1>5, PersistenceAssumption DEF Writers
  <2>3. WorkersOK'
    BY <1>2, <1>3, <2>1 DEF StoreInv, WorkersOK
  <2> QED BY <1>2, <2>2, <2>3 DEF StoreInv, CallersOK
<1>7. ServiceOK'
  BY <1>2, <1>3, <1>5 DEF StoreInv, ServiceOK, Nothing
<1>8. StoppingOK'
  <2>1. cli.pc \in Stopping => cli.key \in Keys
    BY DEF ControlTypes, CliTypes, Stopping
  <2> QED BY <1>2, <1>5, <2>1 DEF StoreInv, StoppingOK, Stopping
<1> QED BY <1>5, <1>6, <1>7, <1>8 DEF StoreInv

\* Every step of a worker keeps the books.
LEMMA StoreWorkerStep ==
  ASSUME StoreInv, ControlTypes, NEW w \in Workers, WorkerStep(w)
  PROVE  StoreInv'
<1>1. CASE WorkerGet(w) \/ WorkerExit(w)
  BY <1>1, StoreWorkerGet, StoreWorkerExit
<1>2. CASE NormalizeSampleFails(w) \/ NormalizeEventFails(w)
  BY <1>2, StoreNormalizationFails DEF NormalizeSampleFails, NormalizeEventFails
<1>3. CASE BufferSample(w) \/ BufferEvent(w)
  BY <1>3, StoreBufferItem DEF BufferSample, BufferEvent
<1>4. CASE BatchWritten(w) \/ DueFlushed(w)
  BY <1>4, StoreJobEnds
<1>5. CASE ItemProcessed(w)
  BY <1>5, StoreItemProcessed
<1>6. CASE FlushDue(w)
  BY <1>6, StoreFlushDue
<1> QED BY <1>1, <1>2, <1>3, <1>4, <1>5, <1>6 DEF WorkerStep

------------------------------------------------------------------------------
(* Intake *)

\* An accepted item is the next number of its dataset, at the end of the queue.
LEMMA StoreAccepts ==
  ASSUME StoreInv, ControlTypes, SavedOK, NEW k \in Keys, Accept(k),
         service = "up", stream[k].enabled,
         UNCHANGED <<service, worker, job, write_lock, store, cli, quit>>
  PROVE  StoreInv'
<1> DEFINE n == accepted[k] + 1
           item == [key |-> k, n |-> n]
<1>1. CASE ~(Len(queue) < QueueSize)
  <2>1. UNCHANGED <<queue, accepted, pending>>
    BY <1>1 DEF Accept
  <2> QED BY <2>1, StoreStays DEF store
<1>2. CASE Len(queue) < QueueSize
  <2>1. /\ queue' = Append(queue, item) /\ accepted' = [accepted EXCEPT ![k] = n]
        /\ pending' = [pending EXCEPT ![k] = @ + 1]
        /\ UNCHANGED <<buffer, file, written, dropped, uncounted>>
        /\ accepted[k] < MaxItems
    BY <1>2 DEF Accept, store
  <2>2. /\ accepted \in [Keys -> 0..MaxItems] /\ pending \in [Keys -> Nat]
        /\ queue \in Seq(Numbered) /\ Len(queue) \in Nat /\ MaxItems \in Nat /\ QueueSize \in Nat
    BY PersistenceAssumption, LenProperties DEF StoreInv, StoreTypes
  <2>3. n \in Numbers /\ n \in 0..MaxItems /\ item \in Numbered /\ item.key = k /\ item.n = n
    BY <2>1, <2>2 DEF Numbers, Numbered
  <2>4. /\ queue' \in Seq(Numbered) /\ Len(queue') = Len(queue) + 1
        /\ ToSet(queue') = ToSet(queue) \cup {item}
        /\ item \notin ToSet(queue) /\ IsInjective(queue) => IsInjective(queue')
    BY <2>1, <2>2, <2>3, AppendProperties, AppendOnce
  <2>5. /\ accepted' \in [Keys -> 0..MaxItems] /\ accepted'[k] = n
        /\ \A j \in Keys : j # k => accepted'[j] = accepted[j] /\ pending'[j] = pending[j]
        /\ pending' \in [Keys -> Nat] /\ pending'[k] = pending[k] + 1
    BY <2>1, <2>2, <2>3
  <2> HIDE DEF n, item
  <2>6. StoreTypes'
    BY <1>2, <2>1, <2>2, <2>4, <2>5 DEF StoreInv, StoreTypes
  <2>7. ASSUME NEW j \in Keys
        PROVE  /\ InQueue(j)' = IF j = k THEN InQueue(j) \cup {n} ELSE InQueue(j)
               /\ InHands(j)' = InHands(j) /\ Holding(j)' = Holding(j) /\ InJobs(j)' = InJobs(j)
               /\ SplitOf(j)
    <3>1. InHands(j)' = InHands(j) /\ Holding(j)' = Holding(j)
      BY HandsSame
    <3>2. InJobs(j)' = InJobs(j) /\ SplitOf(j)
      BY <2>6, JobsSame DEF StoreInv, Once, PlacesOnce
    <3>3. \A m : m \in InQueue(j) <=> \E x \in ToSet(queue) : x.key = j /\ x.n = m
      BY Lists
    <3>4. \A m : m \in InQueue(j)' <=> \E x \in ToSet(queue) \cup {item} : x.key = j /\ x.n = m
      BY <2>4, ListsNext
    <3>5. CASE j = k
      <4>1. \A m : m \in InQueue(j)' <=> m \in InQueue(j) \/ m = n
        BY <2>3, <3>3, <3>4, <3>5
      <4> QED BY <3>1, <3>2, <3>5, <4>1
    <3>6. CASE j # k
      <4>1. \A m : m \in InQueue(j)' <=> m \in InQueue(j)
        BY <2>3, <3>3, <3>4, <3>6
      <4> QED BY <3>1, <3>2, <3>6, <4>1
    <3> QED BY <3>5, <3>6
  <2>8. /\ n \notin 1..accepted[k]
        /\ \A m : m \in 1..accepted'[k] <=> m \in 1..accepted[k] \/ m = n
    BY <2>2, <2>3, <2>5 DEF n, Numbers
  <2>9. n \notin InQueue(k)
    BY <2>7, <2>8 DEF SplitOf, Split
  <2>10. item \notin ToSet(queue)
    BY <2>3, <2>9, Lists
  <2>11. PlacesOnce'
    <3> SUFFICES ASSUME NEW j \in Keys PROVE SplitOf(j)'
      BY DEF PlacesOnce
    <3>1. CASE j = k
      <4>1. InQueue(j)' = InQueue(j) \cup {n} /\ SplitOf(j)
        BY <2>7, <3>1
      <4> QED BY <2>1, <2>7, <2>8, <3>1, <4>1 DEF SplitOf, Split
    <3>2. CASE j # k
      BY <2>1, <2>5, <2>7, <3>2 DEF SplitOf
    <3> QED BY <3>1, <3>2
  <2>12. Once'
    <3>1. HandsOnce'
      BY DEF StoreInv, Once, HandsOnce
    <3>2. JobsOnce'
      BY <2>1, JobsStay
    <3> QED BY <2>1, <2>4, <2>10, <2>11, <3>1, <3>2 DEF StoreInv, Once, QueueOnce, BuffersOnce
  <2>13. PendingCounts'
    <3> SUFFICES ASSUME NEW j \in Keys
                 PROVE  pending'[j] = Cardinality(InQueue(j)') + Cardinality(Holding(j)')
      BY DEF PendingCounts
    <3>1. /\ pending[j] = Cardinality(InQueue(j)) + Cardinality(Holding(j))
          /\ IsFiniteSet(InQueue(j)) /\ IsFiniteSet(Holding(j))
      BY Finite DEF StoreInv, PendingCounts
    <3>2. Cardinality(InQueue(j)) \in Nat /\ Cardinality(Holding(j)) \in Nat
      BY <3>1, FS_CardinalityType
    <3>3. CASE j = k
      <4>1. Cardinality(InQueue(j) \cup {n}) = Cardinality(InQueue(j)) + 1
        BY <2>9, <3>1, <3>3, FS_AddElement
      <4>2. Cardinality(InQueue(j)') = Cardinality(InQueue(j)) + 1
        BY <2>7, <3>3, <4>1
      <4>3. Cardinality(Holding(j)') = Cardinality(Holding(j))
        BY <2>7
      <4> QED BY <2>5, <3>1, <3>2, <3>3, <4>2, <4>3
    <3>4. CASE j # k
      BY <2>5, <2>7, <3>1, <3>4
    <3> QED BY <3>3, <3>4
  <2>14. WorkersOK' /\ CallersOK'
    BY DEF StoreInv, WorkersOK, CallersOK
  <2>15. LocksOK' /\ FilesOK'
    BY <2>1, JobsStay
  <2>16. ServiceOK'
    BY DEF StoreInv, ServiceOK
  <2>17. StoppingOK'
    <3>1. cli.pc \in Stopping => cli.key \in Keys /\ cli.key # k
      BY DEF ControlTypes, CliTypes, Stopping, SavedOK
    <3> QED BY <2>1, <2>5, <3>1 DEF StoreInv, StoppingOK, Stopping
  <2> QED BY <2>6, <2>12, <2>13, <2>14, <2>15, <2>16, <2>17 DEF StoreInv
<1> QED BY <1>1, <1>2

\* Every step of the dispatcher threads keeps the books.
LEMMA StoreIntakeStep ==
  ASSUME StoreInv, MetaInv,
         \/ \E k \in Samples : SelectSample(k)
         \/ EnqueueSample
         \/ \E k \in Events : EnqueueEvent(k)
  PROVE  StoreInv'
<1>1. CASE \E k \in Samples : SelectSample(k)
  BY <1>1, StoreStays DEF SelectSample, intake
<1>2. CASE EnqueueSample
  <2>1. selected \in Keys /\ UNCHANGED <<service, worker, job, write_lock, store, cli, quit>>
    BY <1>2 DEF EnqueueSample, MetaInv, ControlTypes, Keys
  <2>2. CASE service = "up" /\ stream[selected].enabled
    BY <1>2, <2>1, <2>2, StoreAccepts DEF EnqueueSample, MetaInv
  <2>3. CASE ~(service = "up" /\ stream[selected].enabled)
    BY <1>2, <2>1, <2>3, StoreStays DEF EnqueueSample
  <2> QED BY <2>2, <2>3
<1>3. ASSUME NEW k \in Events, EnqueueEvent(k)
      PROVE  StoreInv'
  BY <1>3, StoreAccepts DEF EnqueueEvent, MetaInv, Keys
<1> QED BY <1>1, <1>2, <1>3

------------------------------------------------------------------------------
(* Start and stop of the service *)

\* start(): every worker begins with nothing in hand.
LEMMA StoreStartService ==
  ASSUME StoreInv, StartService
  PROVE  StoreInv'
<1>1. /\ UNCHANGED <<accepted, pending, queue, job, write_lock, cli, quit>>
      /\ UNCHANGED <<buffer, file, written, dropped, uncounted>>
      /\ service = "down" /\ quit = "idle" /\ service' = "up"
  BY DEF StartService, intake, store
<1>2. /\ worker' \in [Workers -> [pc : WorkerPcs, item : Numbered \cup {None}]]
      /\ \A w \in Workers : worker'[w].pc = "loop" /\ worker'[w].item = None
  BY DEF StartService, WorkerPcs
<1>3. \A w \in Workers : worker[w].pc = "off" /\ worker[w].item = None /\ job[w] = IdleJob
  BY <1>1 DEF StoreInv, ServiceOK, WorkersOK
<1>4. StoreTypes' /\ WorkersOK' /\ CallersOK'
  BY <1>1, <1>2, <1>3 DEF StoreInv, StoreTypes, WorkersOK, CallersOK
<1>5. LocksOK' /\ FilesOK'
  BY <1>1, JobsStay
<1>6. ServiceOK' /\ StoppingOK' /\ PendingCounts'
  BY <1>1, <1>2, <1>3, StoppingSame, CountsSame DEF StoreInv, ServiceOK
<1>7. Once'
  BY <1>1, <1>2, <1>3, <1>4, OnceSame DEF StoreInv
<1> QED BY <1>4, <1>5, <1>6, <1>7 DEF StoreInv

\* stop() begins to drain, and returns when every worker is off.
LEMMA StoreStopService ==
  ASSUME StoreInv, StopService \/ ServiceStopped
  PROVE  StoreInv'
<1>1. /\ UNCHANGED <<accepted, pending, queue, worker, job, write_lock, cli>>
      /\ UNCHANGED <<buffer, file, written, dropped, uncounted>>
  BY DEF StopService, ServiceStopped, intake, store
<1>2. StoreTypes' /\ WorkersOK' /\ CallersOK'
  BY <1>1 DEF StoreInv, StoreTypes, WorkersOK, CallersOK, StopService, ServiceStopped
<1>3. LocksOK' /\ FilesOK'
  BY <1>1, JobsStay
<1>4. ServiceOK'
  BY <1>1 DEF StoreInv, ServiceOK, Nothing, StopService, ServiceStopped
<1>5. StoppingOK' /\ PendingCounts'
  BY <1>1, StoppingSame, CountsSame DEF StoreInv
<1>6. Once'
  BY <1>1, <1>2, OnceSame DEF StoreInv
<1> QED BY <1>2, <1>3, <1>4, <1>5, <1>6 DEF StoreInv

\* With the queue joined, quit takes every buffer.
LEMMA StoreQueueJoined ==
  ASSUME StoreInv, ControlTypes, QueueJoined
  PROVE  StoreInv'
<1>1. /\ UNCHANGED <<service, accepted, pending, queue, worker, write_lock, cli>>
      /\ UNCHANGED <<file, written, dropped, uncounted>>
      /\ quit = "join" /\ quit' = "flush_all" /\ Take("quit", Keys) /\ job["quit"] = IdleJob
      /\ queue = <<>> /\ \A w \in Workers : worker[w].item = None
      /\ "quit" \in Writers
  BY DEF QueueJoined, Drained, intake, StoreInv, CallersOK, Writers
<1>2. worker' \in [Workers -> [pc : WorkerPcs, item : Numbered \cup {None}]]
  BY <1>1 DEF StoreInv, StoreTypes
<1>3. /\ StoreTypes' /\ LocksOK' /\ Once' /\ PendingCounts' /\ FilesOK'
      /\ \A u \in Writers : u # "quit" => job'[u] = job[u]
      /\ \A k \in Keys : buffer'[k] = <<>>
  BY <1>1, <1>2, Takes
<1>4. WorkersOK' /\ CallersOK'
  <2>1. job'["cli"] = job["cli"] /\ \A w \in Workers : job'[w] = job[w]
    BY <1>3, PersistenceAssumption DEF Writers
  <2> QED BY <1>1, <2>1 DEF StoreInv, WorkersOK, CallersOK
<1>5. ServiceOK'
  BY <1>1, <1>3 DEF StoreInv, ServiceOK, Nothing
<1>6. StoppingOK'
  <2>1. cli.pc \in Stopping => cli.key \in Keys
    BY DEF ControlTypes, CliTypes, Stopping
  <2> QED BY <1>1, <1>3, <2>1 DEF StoreInv, StoppingOK
<1> QED BY <1>3, <1>4, <1>5, <1>6 DEF StoreInv

\* The batches of quit are settled and the workers are told to end.
LEMMA StoreAllFlushed ==
  ASSUME StoreInv, AllFlushed
  PROVE  StoreInv'
<1>1. /\ UNCHANGED <<service, accepted, pending, queue, worker, write_lock, cli>>
      /\ UNCHANGED <<buffer, file, written, dropped, uncounted>>
      /\ quit = "flush_all" /\ quit' = "shutdown"
      /\ JobDone("quit") /\ job' = [job EXCEPT !["quit"] = IdleJob]
      /\ "quit" \in Writers
  BY DEF AllFlushed, intake, store, Writers
<1>2. worker' \in [Workers -> [pc : WorkerPcs, item : Numbered \cup {None}]]
  BY <1>1 DEF StoreInv, StoreTypes
<1>3. /\ StoreTypes' /\ LocksOK' /\ Once' /\ PendingCounts' /\ FilesOK'
      /\ job'["quit"] = IdleJob /\ \A u \in Writers : u # "quit" => job'[u] = job[u]
  BY <1>1, <1>2, JobEnds
<1>4. WorkersOK' /\ CallersOK'
  <2>1. job'["cli"] = job["cli"] /\ \A w \in Workers : job'[w] = job[w]
    BY <1>3, PersistenceAssumption DEF Writers
  <2> QED BY <1>1, <1>3, <2>1 DEF StoreInv, WorkersOK, CallersOK
<1>5. ServiceOK' /\ StoppingOK'
  BY <1>1, StoppingSame DEF StoreInv, ServiceOK, Nothing
<1> QED BY <1>3, <1>4, <1>5 DEF StoreInv

------------------------------------------------------------------------------
(* The flush of save_stop *)

\* save_stop takes the buffer of its dataset, or finds it empty.
LEMMA StoreFlush ==
  ASSUME StoreInv, ControlTypes, Flush
  PROVE  StoreInv'
<1>1. /\ UNCHANGED <<service, accepted, pending, queue, worker, write_lock, quit>>
      /\ UNCHANGED <<file, written, dropped, uncounted>>
      /\ cli.pc = "flush" /\ cli.key \in Keys /\ job["cli"] = IdleJob
      /\ "cli" \in Writers
  BY DEF Flush, intake, StoreInv, CallersOK, Writers, ControlTypes, CliTypes
<1>2. cli'.pc = "flushing" /\ cli'.key = cli.key
  BY <1>1, Goes DEF Flush, ControlTypes, CliPcs, Stopping
<1>3. /\ StoreTypes' /\ LocksOK' /\ Once' /\ PendingCounts' /\ FilesOK'
      /\ \A u \in Writers : u # "cli" => job'[u] = job[u]
      /\ \A k \in Keys : buffer'[k] = buffer[k] \/ buffer'[k] = <<>>
      /\ buffer'[cli.key] = <<>>
  <2>1. CASE buffer[cli.key] # <<>>
    <3>1. worker' \in [Workers -> [pc : WorkerPcs, item : Numbered \cup {None}]]
      BY <1>1 DEF StoreInv, StoreTypes
    <3>2. Take("cli", {cli.key}) /\ {cli.key} \in SUBSET Keys
      BY <1>1, <2>1 DEF Flush
    <3> QED BY <1>1, <3>1, <3>2, Takes
  <2>2. CASE buffer[cli.key] = <<>>
    <3>1. UNCHANGED <<job, buffer>>
      BY <2>2 DEF Flush
    <3>2. StoreTypes'
      BY <1>1, <3>1 DEF StoreInv, StoreTypes
    <3>3. LocksOK' /\ FilesOK' /\ PendingCounts'
      BY <1>1, <3>1, JobsStay, CountsSame DEF StoreInv
    <3>4. Once'
      BY <1>1, <3>1, <3>2, OnceSame DEF StoreInv
    <3> QED BY <2>2, <3>1, <3>2, <3>3, <3>4
  <2> QED BY <2>1, <2>2
<1>4. WorkersOK' /\ CallersOK'
  <2>1. job'["quit"] = job["quit"] /\ \A w \in Workers : job'[w] = job[w]
    BY <1>3, PersistenceAssumption DEF Writers
  <2> QED BY <1>1, <1>2, <2>1 DEF StoreInv, WorkersOK, CallersOK
<1>5. ServiceOK'
  BY <1>1, <1>3 DEF StoreInv, ServiceOK, Nothing
<1>6. StoppingOK'
  BY <1>1, <1>2, <1>3 DEF StoreInv, StoppingOK, Stopping
<1> QED BY <1>3, <1>4, <1>5, <1>6 DEF StoreInv

\* The flush of save_stop is over; its dataset has no buffer left to write.
LEMMA StoreFlushed ==
  ASSUME StoreInv, ControlTypes, Flushed
  PROVE  StoreInv'
<1>1. /\ UNCHANGED <<service, accepted, pending, queue, worker, write_lock, quit>>
      /\ UNCHANGED <<buffer, file, written, dropped, uncounted>>
      /\ cli.pc = "flushing" /\ cli.key \in Keys
      /\ JobDone("cli") /\ job' = [job EXCEPT !["cli"] = IdleJob]
      /\ "cli" \in Writers
  BY DEF Flushed, intake, store, Writers, ControlTypes, CliTypes
<1>2. cli'.pc = "idle" \/ (cli'.pc = "withdraw" /\ cli'.key = cli.key)
  BY <1>1, Goes, Ends DEF Flushed, ControlTypes, CliPcs, Stopping
<1>3. worker' \in [Workers -> [pc : WorkerPcs, item : Numbered \cup {None}]]
  BY <1>1 DEF StoreInv, StoreTypes
<1>4. /\ StoreTypes' /\ LocksOK' /\ Once' /\ PendingCounts' /\ FilesOK'
      /\ job'["cli"] = IdleJob /\ \A u \in Writers : u # "cli" => job'[u] = job[u]
  BY <1>1, <1>3, JobEnds
<1>5. WorkersOK' /\ CallersOK'
  <2>1. job'["quit"] = job["quit"] /\ \A w \in Workers : job'[w] = job[w]
    BY <1>4, PersistenceAssumption DEF Writers
  <2> QED BY <1>1, <1>4, <2>1 DEF StoreInv, WorkersOK, CallersOK
<1>6. ServiceOK'
  BY <1>1, ServiceSame DEF StoreInv
<1>7. StoppingOK'
  BY <1>1, <1>2 DEF StoreInv, StoppingOK, Stopping
<1> QED BY <1>4, <1>5, <1>6, <1>7 DEF StoreInv

------------------------------------------------------------------------------
(* The other steps of the commands, and those of the metadata *)

\* Every step of save_start and save_stop keeps the books.
LEMMA StoreSaveStep ==
  ASSUME StoreInv, ControlTypes, SaveStep
  PROVE  StoreInv'
<1> SUFFICES ASSUME NEW ok \in BOOLEAN,
        \/ BuildMetadata(ok) \/ InitializeMetadata \/ MetadataInitialized(ok)
        \/ PrepareStream \/ PrepareEvents \/ ActivateStream \/ ActivateEvents
        \/ SubscribeStream(ok) \/ UpdateStreamMetadata \/ UpdateEventMetadata
        \/ StreamMetadataUpdated(ok) \/ EventMetadataUpdated(ok)
        \/ RollBack(ok) \/ RolledBack
        \/ UnsubscribeStream(ok) \/ DeactivateStream \/ DeactivateEvents
        \/ WaitStreamIdle(ok) \/ WaitEventsIdle(ok)
        \/ FlushStream \/ FlushEvents \/ StreamFlushed \/ EventsFlushed
             PROVE  StoreInv'
  BY DEF SaveStep
<1> DEFINE still == UNCHANGED <<service, accepted, pending, queue, worker, job, write_lock, store, quit>>
<1>1. cli \in [pc : CliPcs, key : Keys \cup {None}, format : Formats, read : Nat \cup {None}]
  BY DEF ControlTypes, CliTypes
<1>2. \A pc : CliGoto(pc) => cli'.pc = pc /\ cli'.key = cli.key
  BY <1>1 DEF CliGoto
<1>3. CliEnds => cli'.pc = "idle"
  BY DEF CliEnds, IdleCli
<1>4. CASE BuildMetadata(ok) \/ InitializeMetadata \/ MetadataInitialized(ok)
  <2>1. still /\ cli.pc \in Undeclared
    BY <1>4 DEF BuildMetadata, InitializeMetadata, MetadataInitialized, Frozen, intake, store, Undeclared
  <2>2. cli' = cli \/ cli'.pc \in {"idle", "init", "init_write", "prepare"}
    BY <1>1, <1>2, <1>3, <1>4 DEF BuildMetadata, InitializeMetadata, MetadataInitialized
  <2> QED BY <2>1, <2>2, StoreStays DEF Undeclared, Stopping
<1>5. CASE \/ PrepareStream \/ PrepareEvents \/ ActivateStream \/ ActivateEvents
           \/ RolledBack \/ DeactivateStream \/ DeactivateEvents
  <2>1. still /\ cli.pc \in {"prepare", "activate", "deactivate", "disable"}
    BY <1>5 DEF PrepareStream, PrepareEvents, Prepare, ActivateStream, ActivateEvents, RolledBack,
                DeactivateStream, DeactivateEvents, SetEnabled, store
  <2>2. cli'.pc \in {"idle", "activate", "subscribe", "declare", "wait"}
    BY <1>2, <1>3, <1>5 DEF PrepareStream, PrepareEvents, Prepare, ActivateStream, ActivateEvents,
                            RolledBack, DeactivateStream, DeactivateEvents, SetEnabled
  <2> QED BY <2>1, <2>2, StoreStays DEF Stopping
<1>6. CASE SubscribeStream(ok) \/ RollBack(ok) \/ UnsubscribeStream(ok)
  <2>1. still /\ cli.pc \in {"subscribe", "rollback", "unsubscribe"}
    BY <1>6 DEF SubscribeStream, RollBack, UnsubscribeStream, intake, store
  <2>2. cli'.pc \in {"declare", "deactivate", "disable", "idle"}
    BY <1>2, <1>3, <1>6 DEF SubscribeStream, RollBack, UnsubscribeStream
  <2> QED BY <2>1, <2>2, StoreStays DEF Stopping
<1>7. CASE UpdateStreamMetadata \/ UpdateEventMetadata
  <2>1. UpdateMetadata
    BY <1>7 DEF UpdateStreamMetadata, UpdateEventMetadata
  <2>2. still
    BY <2>1 DEF UpdateMetadata, Frozen, intake, store
  <2>3. \/ cli.pc = "declare" /\ cli'.pc = "declaring"
        \/ cli.pc = "withdraw" /\ cli'.pc = "withdrawing" /\ cli'.key = cli.key
    BY <1>2, <2>1 DEF UpdateMetadata
  <2> QED BY <2>2, <2>3, StoreStays DEF Stopping
<1>8. CASE StreamMetadataUpdated(ok) \/ EventMetadataUpdated(ok)
  <2>1. PICK undo \in {"rollback", "deactivate"} : MetadataUpdated(ok, undo)
    BY <1>8 DEF StreamMetadataUpdated, EventMetadataUpdated
  <2>2. still /\ cli.pc \in {"declaring", "withdrawing"}
    BY <2>1 DEF MetadataUpdated, Frozen, intake, store
  <2>3. cli' = cli \/ cli'.pc \in {"idle", "rollback", "deactivate"}
    BY <1>2, <1>3, <2>1 DEF MetadataUpdated
  <2> QED BY <2>2, <2>3, StoreStays DEF Stopping
<1>9. CASE WaitStreamIdle(ok) \/ WaitEventsIdle(ok)
  <2>1. WaitIdle(ok)
    BY <1>9 DEF WaitStreamIdle, WaitEventsIdle
  <2>2. still
    BY <2>1 DEF WaitIdle, Frozen, intake, store
  <2>3. \/ cli.pc = "wait" /\ pending[cli.key] = 0 /\ cli'.pc = "flush" /\ cli'.key = cli.key
        \/ cli.pc = "wait" /\ cli'.pc = "idle"
    BY <1>2, <1>3, <2>1 DEF WaitIdle
  <2> QED BY <2>2, <2>3, StoreStays DEF Stopping
<1>10. CASE FlushStream \/ FlushEvents \/ StreamFlushed \/ EventsFlushed
  BY <1>10, StoreFlush, StoreFlushed DEF FlushStream, FlushEvents, StreamFlushed, EventsFlushed
<1> QED BY <1>4, <1>5, <1>6, <1>7, <1>8, <1>9, <1>10

\* The threads of the metadata, and the beginning of a command, do not touch
\* items or files.
LEMMA StoreMetadataStep ==
  ASSUME StoreInv, ControlTypes,
         \/ (\E delivered \in BOOLEAN : ConfigurationChanges(delivered)) \/ RecorderStep
         \/ \E k \in Keys : SaveStopSamples(k) \/ SaveStopEvents(k) \/ \E f \in Formats : SaveStart(k, f)
         \/ UNCHANGED vars
  PROVE  StoreInv'
<1> DEFINE still == UNCHANGED <<service, accepted, pending, queue, worker, job, write_lock, store, quit>>
<1>1. CASE (\E delivered \in BOOLEAN : ConfigurationChanges(delivered)) \/ UNCHANGED vars
  <2>1. still /\ cli' = cli
    BY <1>1 DEF ConfigurationChanges, Frozen, intake, store, vars
  <2> QED BY <2>1, StoreStays
<1>2. CASE RecorderStep
  <2>1. still /\ cli' = cli
    BY <1>2 DEF RecorderStep, ConfigurationEvent, NothingToRecord, RecordConfigurationChange,
                ChangeRecorded, Frozen, intake, store
  <2> QED BY <2>1, StoreStays
<1>3. ASSUME NEW k \in Keys, SaveStopSamples(k) \/ SaveStopEvents(k)
      PROVE  StoreInv'
  <2>1. still /\ cli.pc = "idle" /\ cli'.pc \in {"unsubscribe", "disable"}
    BY <1>3 DEF SaveStopSamples, SaveStopEvents, SaveStop, IdleCli, Frozen, intake, store
  <2> QED BY <2>1, StoreStays DEF Stopping
<1>4. ASSUME NEW k \in Keys, NEW f \in Formats, SaveStart(k, f)
      PROVE  StoreInv'
  <2>1. still /\ cli.pc = "idle" /\ cli'.pc \in {"build", "prepare"}
    BY <1>4 DEF SaveStart, IdleCli, Frozen, intake, store
  <2> QED BY <2>1, StoreStays DEF Stopping
<1> QED BY <1>1, <1>2, <1>3, <1>4

\* Every step of the system keeps the books.
LEMMA StoreStep ==
  ASSUME StoreInv, MetaInv, [Next]_vars
  PROVE  StoreInv'
<1> USE DEF MetaInv
<1>1. CASE StartService \/ StopService \/ StopStep
  BY <1>1, StoreStartService, StoreStopService, StoreQueueJoined, StoreAllFlushed DEF StopStep
<1>2. CASE \E w \in Workers : WorkerStep(w)
  BY <1>2, StoreWorkerStep
<1>3. CASE \E t \in Writers : WriterStep(t)
  BY <1>3, StoreWriterStep
<1>4. CASE \/ \E k \in Samples : SelectSample(k)
           \/ EnqueueSample
           \/ \E k \in Events : EnqueueEvent(k)
  BY <1>4, StoreIntakeStep
<1>5. CASE SaveStep
  BY <1>5, StoreSaveStep
<1>6. CASE \/ (\E delivered \in BOOLEAN : ConfigurationChanges(delivered)) \/ RecorderStep
           \/ \E k \in Keys : SaveStopSamples(k) \/ SaveStopEvents(k) \/ \E f \in Formats : SaveStart(k, f)
           \/ UNCHANGED vars
  BY <1>6, StoreMetadataStep
<1> QED BY <1>1, <1>2, <1>3, <1>4, <1>5, <1>6 DEF Next

\* The service begins with nothing accepted and nothing written.
LEMMA StoreInit ==
  ASSUME Init
  PROVE  StoreInv
<1>1. /\ \A k \in Keys : /\ accepted[k] = 0 /\ pending[k] = 0 /\ buffer[k] = <<>> /\ file[k] = <<>>
                         /\ write_lock[k] = None
                         /\ written[k] = {} /\ dropped[k] = {} /\ uncounted[k] = {}
      /\ \A w \in Workers : worker[w].pc = "off" /\ worker[w].item = None
      /\ \A t \in Writers : job[t] = IdleJob
      /\ queue = <<>> /\ service = "down" /\ quit = "idle" /\ cli.pc = "idle"
  BY DEF Init, NoBatches, IdleCli
<1>2. StoreTypes
  <2>1. /\ accepted \in [Keys -> 0..MaxItems] /\ pending \in [Keys -> Nat]
        /\ written \in [Keys -> SUBSET Nat] /\ dropped \in [Keys -> SUBSET Nat]
        /\ uncounted \in [Keys -> SUBSET Nat]
        /\ write_lock \in [Keys -> Writers \cup {None}]
        /\ worker \in [Workers -> [pc : WorkerPcs, item : Numbered \cup {None}]]
    BY PersistenceAssumption DEF Init, WorkerPcs
  <2>2. /\ queue \in Seq(Numbered) /\ Len(queue) <= QueueSize
        /\ buffer \in [Keys -> Seq(Numbers)] /\ \A k \in Keys : Len(buffer[k]) < BatchSize
        /\ file \in [Keys -> Seq(Nat)]
    BY <1>1, EmptySeq, PersistenceAssumption DEF Init, NoBatches
  <2>3. job \in [Writers -> Jobs]
    BY IdleJobType DEF Init
  <2> QED BY <2>1, <2>2, <2>3 DEF StoreTypes
<1>3. WorkersOK /\ ServiceOK
  BY <1>1 DEF WorkersOK, ServiceOK, Nothing, Writers
<1>4. CallersOK /\ StoppingOK
  BY <1>1 DEF CallersOK, StoppingOK, Stopping, Writers
<1>5. LocksOK
  BY <1>1, IdleJobType DEF LocksOK
<1>6. FilesOK
  BY <1>1, EmptyOnce DEF FilesOK
<1>7. ASSUME NEW k \in Keys
      PROVE  InQueue(k) = {} /\ InHands(k) = {} /\ Holding(k) = {} /\ InJobs(k) = {}
  <2>1. \A n : n \notin InQueue(k) /\ n \notin InHands(k) /\ n \notin InJobs(k)
    BY <1>1, <1>2, Lists, EmptyOnce, IdleJobType
  <2>2. Holding(k) = {}
    BY <1>1 DEF Holding
  <2> QED BY <2>1, <2>2
<1>8. PendingCounts
  <2>1. Cardinality({}) = 0
    BY FS_EmptySet
  <2>2. ASSUME NEW k \in Keys
        PROVE  Cardinality(InQueue(k)) = 0 /\ Cardinality(Holding(k)) = 0
    BY <1>7, <2>1
  <2> QED BY <1>1, <2>2 DEF PendingCounts
<1>9. Once
  <2>1. ASSUME NEW k \in Keys PROVE SplitOf(k)
    <3>1. 1..accepted[k] = {} /\ ToSet(buffer[k]) = {}
      BY <1>1, EmptyOnce
    <3> QED BY <1>1, <1>7, <3>1 DEF SplitOf, Split
  <2>2. QueueOnce /\ BuffersOnce /\ JobsOnce /\ HandsOnce
    BY <1>1, EmptyOnce, IdleJobType DEF QueueOnce, BuffersOnce, JobsOnce, HandsOnce
  <2> QED BY <2>1, <2>2 DEF Once, PlacesOnce
<1> QED BY <1>2, <1>3, <1>4, <1>5, <1>6, <1>8, <1>9 DEF StoreInv

------------------------------------------------------------------------------
(* What the runs check *)

\* The pending count is that of a queue and a pool that are bounded.
LEMMA PendingBounded ==
  ASSUME StoreInv, NEW k \in Keys
  PROVE  pending[k] \in 0..(QueueSize + Cardinality(Workers))
<1>1. IsFiniteSet(Workers) /\ Cardinality(Workers) \in Nat /\ QueueSize \in Nat
  BY PersistenceAssumption, FS_CardinalityType
<1>2. Cardinality(Holding(k)) \in Nat /\ Cardinality(Holding(k)) <= Cardinality(Workers)
  <2>1. Holding(k) \in SUBSET Workers
    BY DEF Holding
  <2> QED BY <1>1, <2>1, FS_Subset, FS_CardinalityType
<1>3. Cardinality(InQueue(k)) \in Nat /\ Cardinality(InQueue(k)) <= QueueSize
  <2> DEFINE S == 1..Len(queue)
             T == {i \in S : queue[i].key = k}
             number == [i \in T |-> queue[i].n]
  <2>1. /\ queue \in Seq(Numbered) /\ Len(queue) \in Nat /\ Len(queue) <= QueueSize
        /\ DOMAIN queue = S
    BY LenProperties DEF StoreInv, StoreTypes
  <2>2. IsFiniteSet(S) /\ Cardinality(S) = Len(queue)
    <3>1. \A m \in Nat : IsFiniteSet(1..m) /\ Cardinality(1..m) = IF 1 > m THEN 0 ELSE m - 1 + 1
      BY FS_Interval
    <3>2. \A m \in Nat : (IF 1 > m THEN 0 ELSE m - 1 + 1) = m
      OBVIOUS
    <3> QED BY <2>1, <3>1, <3>2
  <2>3. IsFiniteSet(T) /\ Cardinality(T) \in Nat /\ Cardinality(T) <= Len(queue)
    <3>1. T \in SUBSET S
      OBVIOUS
    <3>2. IsFiniteSet(T) /\ Cardinality(T) <= Cardinality(S)
      BY <2>2, <3>1, FS_Subset
    <3> QED BY <2>2, <3>2, FS_CardinalityType
  <2>4. InQueue(k) = {number[i] : i \in T}
    BY <2>1 DEF InQueue, Items
  <2>5. number \in Surjection(T, InQueue(k))
    BY <2>4 DEF Surjection
  <2>6. IsFiniteSet(InQueue(k)) /\ Cardinality(InQueue(k)) <= Cardinality(T)
    BY <2>3, <2>5, FS_Surjection
  <2>7. Cardinality(InQueue(k)) \in Nat
    BY <2>6, FS_CardinalityType
  <2> QED BY <1>1, <2>1, <2>3, <2>6, <2>7
<1>4. pending[k] = Cardinality(InQueue(k)) + Cardinality(Holding(k))
  BY DEF StoreInv, PendingCounts
<1> QED BY <1>1, <1>2, <1>3, <1>4

\* The invariant bounds what TypeOK bounds.
LEMMA InvTypes ==
  ASSUME StoreInv, MetaInv
  PROVE  TypeOK
<1>1. /\ service \in {"down", "up", "draining"} /\ stop_event \in BOOLEAN
      /\ Len(queue) <= QueueSize /\ subscribed \subseteq Samples
      /\ selected \in Samples \cup {None} /\ cli.key \in Keys \cup {None}
      /\ quit \in {"idle", "join", "flush_all", "shutdown"}
  BY DEF StoreInv, StoreTypes, MetaInv, ControlTypes, CliTypes
<1>2. \A w \in Workers : worker[w].pc \in {"off", "loop", "process", "write", "finish",
                                           "flush", "flushing"}
  BY DEF StoreInv, StoreTypes, WorkerPcs
<1>3. \A t \in Writers : job[t].step \in {"idle", "lock", "write"}
  BY DEF StoreInv, StoreTypes, Jobs
<1>4. ASSUME NEW k \in Keys
      PROVE  /\ stream[k] \in [known : BOOLEAN, enabled : BOOLEAN, format : Formats]
             /\ accepted[k] \in 0..MaxItems /\ pending[k] \in 0..(QueueSize + Cardinality(Workers))
             /\ Len(buffer[k]) < BatchSize
             /\ write_lock[k] \in Writers \cup {None}
             /\ written[k] \cup dropped[k] \cup uncounted[k] \subseteq 1..accepted[k]
  <2>1. written[k] \cup dropped[k] \cup uncounted[k] \subseteq 1..accepted[k]
    BY DEF StoreInv, Once, PlacesOnce, SplitOf, Split
  <2>2. stream[k] \in [known : BOOLEAN, enabled : BOOLEAN, format : Formats]
    BY DEF MetaInv, ControlTypes
  <2> QED BY <2>1, <2>2, PendingBounded DEF StoreInv, StoreTypes
<1> QED BY <1>1, <1>2, <1>3, <1>4 DEF TypeOK

\* The invariant says that the books are true.
LEMMA InvAccounts ==
  ASSUME StoreInv, MetaInv
  PROVE  ItemsAccounted
BY InvTypes, OnceIsOnce DEF StoreInv, ItemsAccounted

\* Nothing is left in a service that is down, except batches save_stop is
\* writing.
LEMMA InvDrains ==
  ASSUME StoreInv
  PROVE  StopDrains
<1> SUFFICES ASSUME quit = "idle", service = "down", NEW k \in Keys
             PROVE  InQueue(k) \cup InHands(k) \cup ToSet(buffer[k])
                        \cup (InJobs(k) \ ToSet(job["cli"].due[k])) = {}
  BY DEF StopDrains
<1>1. Nothing /\ job["quit"] = IdleJob /\ \A w \in Workers : job[w] = IdleJob
  BY DEF StoreInv, ServiceOK, WorkersOK, CallersOK
<1>2. \A n : n \notin InQueue(k) /\ n \notin InHands(k) /\ n \notin ToSet(buffer[k])
  BY <1>1, Lists, EmptyOnce DEF Nothing
<1>3. \A n : n \in InJobs(k) => n \in ToSet(job["cli"].due[k])
  BY <1>1, Lists, EmptyOnce, IdleJobType DEF StoreInv, Writers
<1> QED BY <1>2, <1>3

\* The invariant says that every file is sound.
LEMMA InvFiles ==
  ASSUME StoreInv
  PROVE  FileIsSound
BY DEF StoreInv, FilesOK, FileIsSound

\* With no item pending and no buffer, a batch of the dataset is with a worker
\* that found it due, or with quit.
LEMMA InvFlushed ==
  ASSUME StoreInv, MetaInv
  PROVE  FlushedUnlessDue
<1> DEFINE k == cli.key
<1> SUFFICES ASSUME cli.pc \in {"withdraw", "withdrawing"}
             PROVE  /\ InQueue(k) \cup InHands(k) \cup ToSet(buffer[k]) = {}
                    /\ \A t \in Writers : job[t].due[k] # <<>> =>
                          t = "quit" \/ (t \in Workers /\ worker[t].pc = "flushing")
  BY DEF FlushedUnlessDue
<1>1. k \in Keys /\ pending[k] = 0 /\ buffer[k] = <<>>
  BY DEF MetaInv, ControlTypes, CliTypes, StoreInv, StoppingOK, Stopping
<1> HIDE DEF k
<1>2. InQueue(k) = {} /\ Holding(k) = {}
  <2>1. IsFiniteSet(InQueue(k)) /\ IsFiniteSet(Holding(k))
    BY <1>1, Finite
  <2>2. /\ Cardinality(InQueue(k)) \in Nat /\ Cardinality(Holding(k)) \in Nat
        /\ pending[k] = Cardinality(InQueue(k)) + Cardinality(Holding(k))
    BY <1>1, <2>1, FS_CardinalityType DEF StoreInv, PendingCounts
  <2>3. Cardinality(InQueue(k)) = 0 /\ Cardinality(Holding(k)) = 0
    BY <1>1, <2>2
  <2> QED BY <2>1, <2>3, FS_EmptySet
<1>3. InHands(k) = {} /\ ToSet(buffer[k]) = {}
  BY <1>1, <1>2, EmptyOnce DEF InHands
<1>4. ASSUME NEW t \in Writers, job[t].due[k] # <<>>
      PROVE  t = "quit" \/ (t \in Workers /\ worker[t].pc = "flushing")
  <2>1. job[t] # IdleJob
    BY <1>1, <1>4, IdleJobType
  <2>2. t # "cli"
    BY <2>1 DEF StoreInv, CallersOK
  <2>3. CASE t \in Workers
    <3>1. worker[t].pc \in {"write", "flushing"}
      BY <2>1, <2>3 DEF StoreInv, WorkersOK
    <3>2. ASSUME worker[t].pc = "write"
          PROVE  FALSE
      <4>1. worker[t].item # None /\ worker[t].item.key = k
        BY <1>1, <1>4, <2>3, <3>2 DEF StoreInv, WorkersOK
      <4> QED BY <1>2, <2>3, <4>1 DEF Holding
    <3> QED BY <2>3, <3>1, <3>2
  <2> QED BY <2>2, <2>3 DEF Writers
<1> QED BY <1>2, <1>3, <1>4

\* The invariant of the persistence service: the state of its items, threads,
\* locks and files, and that of the metadata of the board, at every step of its
\* threads.
THEOREM SpecPersistenceInv ==
  Spec => []PersistenceInv
<1>1. Init => PersistenceInv
  BY StoreInit, MetaInit DEF PersistenceInv
<1>2. PersistenceInv /\ [Next]_vars => PersistenceInv'
  BY StoreStep, MetaStep DEF PersistenceInv
<1> QED BY <1>1, <1>2, PTL DEF Spec

\* Every item that enqueue_sample or enqueue_event accepted is in exactly one
\* place, the pending counts on which save_stop waits are right, and queue and
\* buffers stay within their limits.
THEOREM SpecItemsAccounted ==
  Spec => []ItemsAccounted
<1>1. PersistenceInv => ItemsAccounted
  BY InvAccounts DEF PersistenceInv
<1> QED BY <1>1, SpecPersistenceInv, PTL

\* When stop() has returned, nothing waits to be written, except a batch the
\* flush of save_stop is writing.
THEOREM SpecStopDrains ==
  Spec => []StopDrains
<1>1. PersistenceInv => StopDrains
  BY InvDrains DEF PersistenceInv
<1> QED BY <1>1, SpecPersistenceInv, PTL

\* Every file begins with its one header and holds each written item once,
\* however many threads append to it.
THEOREM SpecFileIsSound ==
  Spec => []FileIsSound
<1>1. PersistenceInv => FileIsSound
  BY InvFiles DEF PersistenceInv
<1> QED BY <1>1, SpecPersistenceInv, PTL

\* When save_stop withdraws a dataset, all of it is settled but what a worker
\* had found due or quit has taken.
THEOREM SpecFlushedUnlessDue ==
  Spec => []FlushedUnlessDue
<1>1. PersistenceInv => FlushedUnlessDue
  BY InvFlushed DEF PersistenceInv
<1> QED BY <1>1, SpecPersistenceInv, PTL

\* Metadata in memory and on disk, datasets being saved and configuration of
\* the board agree, through failed writes, rollbacks and changes that come
\* while they are collected.
THEOREM SpecMetadataConsistent ==
  Spec => []MetadataConsistent
<1>1. PersistenceInv => MetadataConsistent
  BY MetaConsistent DEF PersistenceInv
<1> QED BY <1>1, SpecPersistenceInv, PTL

==============================================================================
