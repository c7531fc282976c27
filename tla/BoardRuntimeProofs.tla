-------------------------- MODULE BoardRuntimeProofs --------------------------
(***************************************************************************)
(* Proofs about the board: the channel lists and the flags of the checks   *)
(* stay consistent (BoardConsistent), a safe state that reports success,   *)
(* and that nothing worked against, has switched everything off            *)
(* (SafeMeansOff), and a channel that is up is hidden only when it was     *)
(* read during a ramp or its address was changed (NothingHidden).          *)
(***************************************************************************)
EXTENDS BoardRuntime, FiniteSetTheorems, WellFoundedInduction, TLAPS

----------------------------------------------------------------------------
(* The inductive invariant.                                                *)

Numbered == Checks \ {"check_channel_acquisition"}

\* PendingAccounted without cardinalities: the flag of k is set exactly while a
\* request of k is in the queue q or executed by j, and there is only one.
FlagOf(k, q, j, p) ==
    /\ k \in p <=> (\E i \in DOMAIN q : q[i].cmd = k) \/ j.cmd = k
    /\ \A i1, i2 \in DOMAIN q : q[i1].cmd = k /\ q[i2].cmd = k => i1 = i2
    /\ j.cmd = k => \A i \in DOMAIN q : q[i].cmd # k
Flags == \A k \in Numbered : FlagOf(k, queue, job, pending)

\* A channel waits for its ramp only after the command has handled it.
WaitAfterwards == job.todo \cap job.wait = {}

\* The request of the safe state that will be executed: one, and only while the
\* safe state waits for its reply.
Live(r) == r.from = "safe" /\ ~r.late
OneSafeRequest ==
    /\ safe.pc \notin {"off", "force"} => reply["safe"].st = "none"
    /\ reply["safe"].st # "wait" =>
           job.from # "safe" /\ \A i \in DOMAIN queue : ~Live(queue[i])
    /\ \A i1, i2 \in DOMAIN queue : Live(queue[i1]) /\ Live(queue[i2]) => i1 = i2
    /\ job.from = "safe" => \A i \in DOMAIN queue : ~Live(queue[i])

\* A process that was spawned and is not recorded has a thread that records it.
SpawnedIsRecorded == producer = "spawned" => \E t \in Threads : At(t, "record")

\* A safe state that has a service keeps it until it has used it.
ServiceStays ==
    safe.hv /\ safe.pc \in {"stopcheck", "first", "producer"} => service

\* What a quiet safe state has done before the place pc.
IsOff(c) == hw[c] # "UP"
AllOff == \A c \in Channels : IsOff(c)
QueuedForSafe(r, pc, h) ==
    \/ pc = "off" /\ r.cmd = "hv_off_and_wait" /\ r.chans = Channels
    \/ /\ pc = "force" /\ r.cmd = "hv_force_off"
       /\ \A c \in Channels : h[c] # "UP" \/ c \in r.chans
SwitchesOff ==
    /\ job.cmd \in {"hv_off_and_wait", "hv_force_off"}
    /\ \A c \in Channels : IsOff(c) \/ c \in job.todo \cup job.failed \cup job.skipped
    /\ safe.pc = "force" => job.skipped = {}
HasSwitchedOff ==
    /\ \A i \in DOMAIN queue : Live(queue[i]) => QueuedForSafe(queue[i], safe.pc, hw)
    /\ job.from = "safe" => SwitchesOff
    /\ reply["safe"].st = "ok" =>
           /\ \A c \in Channels : IsOff(c) \/ c \in reply["safe"].skipped
           /\ safe.pc = "force" => AllOff
    /\ safe.pc \in {"last", "mode", "done"} /\ safe.ok /\ safe.hv => AllOff
AfterProducer == {"link", "off", "force", "last", "mode", "done"}
HasStopped ==
    /\ safe.pc \in AfterProducer => producer = "none"
    /\ safe.pc \in AfterProducer \cup {"producer"} /\ safe.ok => ~rc19
    /\ safe.pc \in {"mode", "done"} /\ safe.ok => ~link
    /\ safe.pc = "done" => mode = "test"
QuietSafe == quiet => ~Against /\ HasSwitchedOff /\ HasStopped

BoardInv ==
    /\ TypeOK /\ ListsConsistent /\ Flags /\ WaitAfterwards
    /\ OneSafeRequest /\ SpawnedIsRecorded /\ ServiceStays /\ QuietSafe

----------------------------------------------------------------------------
(* Numbers and sequences.                                                  *)

\* A set of numbers that is not empty has a least element, which Min chooses: the
\* channel that the HV thread handles next.
LEMMA MinIsOne ==
    ASSUME NEW S, S \subseteq Channels, S # {}
    PROVE  Min(S) \in S /\ Min(S) \in Channels
<1>1. IsWellFoundedOn(OpToRel(<, Nat), Nat)
  BY NatLessThanWellFounded
<1>2. S \subseteq Nat
  BY ChannelsAreNumbers
<1>3. PICK x \in S : \A y \in S : <<y, x>> \notin OpToRel(<, Nat)
  BY <1>1, <1>2, WFMin
<1>4. ASSUME NEW y \in S PROVE x <= y
  <2>1. <<y, x>> \in Nat \X Nat /\ x \in Nat /\ y \in Nat
    BY <1>2
  <2>2. ~ (y < x)
    BY <1>3, <2>1 DEF OpToRel
  <2> QED
    BY <2>1, <2>2
<1> QED
  BY <1>4 DEF Min

\* The rest of a queue holds the other requests, one place earlier.
LEMMA TailOfQueue ==
    ASSUME NEW q \in Seq(Requests), q # <<>>
    PROVE  /\ 1 \in DOMAIN q /\ Head(q) = q[1] /\ Head(q) \in Requests
           /\ Tail(q) \in Seq(Requests)
           /\ \A i \in DOMAIN Tail(q) : i + 1 \in DOMAIN q /\ Tail(q)[i] = q[i + 1]
           /\ \A i \in DOMAIN q : i # 1 =>
                  i - 1 \in DOMAIN Tail(q) /\ Tail(q)[i - 1] = q[i]
<1>1. /\ Len(q) \in Nat /\ Len(q) # 0 /\ DOMAIN q = 1..Len(q)
      /\ Head(q) = q[1] /\ Head(q) \in Requests
  OBVIOUS
<1>2. /\ Tail(q) \in Seq(Requests) /\ Len(Tail(q)) = Len(q) - 1
      /\ DOMAIN Tail(q) = 1..(Len(q) - 1)
      /\ \A i \in 1..(Len(q) - 1) : Tail(q)[i] = q[i + 1]
  OBVIOUS
<1> QED
  BY <1>1, <1>2

\* q2 is q with r at the place n.
InsertedAt(q2, q, n, r) ==
    /\ n \in 1..(Len(q) + 1)
    /\ DOMAIN q2 = 1..(Len(q) + 1)
    /\ q2[n] = r
    /\ \A i \in 1..(n - 1) : q2[i] = q[i]
    /\ \A i \in (n + 1)..(Len(q) + 1) : q2[i] = q[i - 1]

\* Inserting a request in a queue moves the later ones by one place.
LEMMA InsertAtInserts ==
    ASSUME NEW q \in Seq(Requests), NEW r \in Requests, NEW n \in 1..(Len(q) + 1)
    PROVE  /\ InsertAt(q, n, r) \in Seq(Requests)
           /\ InsertedAt(InsertAt(q, n, r), q, n, r)
<1> DEFINE a == SubSeq(q, 1, n - 1)
           b == SubSeq(q, n, Len(q))
<1>1. Len(q) \in Nat /\ n \in Nat
  OBVIOUS
<1>2. /\ a \in Seq(Requests) /\ Len(a) = n - 1 /\ DOMAIN a = 1..(n - 1)
      /\ \A i \in 1..(n - 1) : a[i] = q[i]
  BY <1>1
<1>3. /\ b \in Seq(Requests) /\ Len(b) = Len(q) - n + 1
      /\ \A i \in 1..(Len(q) - n + 1) : b[i] = q[n + i - 1]
  BY <1>1
<1>4. /\ <<r>> \in Seq(Requests) /\ Len(<<r>>) = 1 /\ <<r>>[1] = r
  OBVIOUS
<1> HIDE DEF a, b
<1> DEFINE d == a \o <<r>>
<1>5. /\ d \in Seq(Requests) /\ Len(d) = n /\ d[n] = r
      /\ \A i \in 1..(n - 1) : d[i] = q[i]
  <2>1. d \in Seq(Requests) /\ Len(d) = n
    BY <1>1, <1>2, <1>4
  <2>2. d[n] = r
    BY <1>1, <1>2, <1>4
  <2>3. ASSUME NEW i \in 1..(n - 1) PROVE d[i] = q[i]
    <3>1. d[i] = a[i]
      BY <1>1, <1>2, <1>4
    <3> QED
      BY <1>2, <3>1
  <2> QED
    BY <2>1, <2>2, <2>3
<1> HIDE DEF d
<1> DEFINE e == d \o b
<1>6. /\ e \in Seq(Requests) /\ Len(e) = Len(q) + 1 /\ DOMAIN e = 1..(Len(q) + 1)
      /\ \A i \in 1..n : e[i] = d[i]
      /\ \A i \in (n + 1)..(Len(q) + 1) : e[i] = b[i - n]
  BY <1>1, <1>3, <1>5
<1>7. e = InsertAt(q, n, r)
  BY DEF e, d, a, b, InsertAt
<1> HIDE DEF e
<1>8. \A i \in (n + 1)..(Len(q) + 1) : i - n \in 1..(Len(q) - n + 1)
  BY <1>1
<1>9. \A i \in (n + 1)..(Len(q) + 1) : e[i] = q[i - 1]
  BY <1>1, <1>3, <1>6, <1>8
<1>10. InsertedAt(e, q, n, r)
  BY <1>1, <1>5, <1>6, <1>9 DEF InsertedAt
<1> QED
  BY <1>6, <1>7, <1>10

\* The queue of the HV service: a request goes somewhere among the others.
LEMMA PutInserts ==
    ASSUME queue \in Seq(Requests), NEW r \in Requests, Put(r)
    PROVE  queue' \in Seq(Requests) /\ \E n \in 1..(Len(queue) + 1) :
               InsertedAt(queue', queue, n, r)
<1> DEFINE S == {i \in 1..Len(queue) : queue[i].prio <= r.prio}
           before == Cardinality(S)
<1>1. Len(queue) \in Nat
  OBVIOUS
<1>2. IsFiniteSet(1..Len(queue)) /\ Cardinality(1..Len(queue)) = Len(queue)
  <2>1. /\ IsFiniteSet(1..Len(queue))
        /\ Cardinality(1..Len(queue)) =
               IF 1 > Len(queue) THEN 0 ELSE Len(queue) - 1 + 1
    BY <1>1, FS_Interval
  <2> QED
    BY <1>1, <2>1
<1>3. IsFiniteSet(S) /\ before <= Len(queue)
  BY <1>2, FS_Subset
<1>4. before \in Nat
  BY <1>3, FS_CardinalityType
<1>5. before + 1 \in 1..(Len(queue) + 1)
  BY <1>1, <1>3, <1>4
<1>6. queue' = InsertAt(queue, before + 1, r)
  BY DEF Put
<1> HIDE DEF before
<1> QED
  BY <1>5, <1>6, InsertAtInserts

----------------------------------------------------------------------------
(* The lists.                                                              *)

Sound(l) ==
    /\ l \in Lists
    /\ l.ok \cap l.bad = {}
    /\ l.on \cap l.off = {}
    /\ l.on \subseteq l.ok

\* No move of a channel makes the lists contradict each other.
LEMMA MovesAreSound ==
    ASSUME NEW l, Sound(l), NEW c \in Channels
    PROVE  /\ Sound(MoveToOk(l, c)) /\ Sound(MoveToOn(l, c)) /\ Sound(MoveToOff(l, c))
           /\ \A r : Sound(Aligned(l, c, r))
<1>1. Sound(MoveToOk(l, c))
  BY DEF Sound, Lists, MoveToOk
<1>2. Sound(MoveToOn(l, c))
  BY DEF Sound, Lists, MoveToOn
<1>3. Sound(MoveToOff(l, c))
  BY DEF Sound, Lists, MoveToOff
<1> QED
  BY <1>1, <1>2, <1>3 DEF Aligned

\* Neither does a move of several.
LEMMA MovesOfSeveralAreSound ==
    ASSUME NEW l, Sound(l), NEW cs \in SUBSET Channels
    PROVE  /\ Sound(MoveToBad(l, cs))
           /\ Sound(MoveToFixedBad(l, cs)) /\ Sound(MoveToMissingSerial(l, cs))
           /\ Sound(RemoveFromFixedBad(l, cs)) /\ Sound(RemoveFromMissingSerial(l, cs))
<1>1. ASSUME NEW k, Sound(k) PROVE Sound(MoveToBad(k, cs))
  BY <1>1 DEF Sound, Lists, MoveToBad
<1>2. Sound(MoveToFixedBad(l, cs)) /\ Sound(MoveToMissingSerial(l, cs))
  <2> DEFINE k == Removed(l, cs)
  <2>1. Sound(k)
    BY DEF Sound, Lists, Removed
  <2> HIDE DEF k
  <2>2. /\ Sound([k EXCEPT !.fixed = @ \cup cs])
        /\ Sound([k EXCEPT !.missing = @ \cup cs])
    BY <2>1 DEF Sound, Lists
  <2> QED
    BY <2>2 DEF k, MoveToFixedBad, MoveToMissingSerial
<1>3. /\ Sound([l EXCEPT !.fixed = @ \ cs])
      /\ Sound([l EXCEPT !.missing = @ \ cs])
  BY DEF Sound, Lists
<1>4. Sound(RemoveFromFixedBad(l, cs)) /\ Sound(RemoveFromMissingSerial(l, cs))
  BY <1>1, <1>3 DEF RemoveFromFixedBad, RemoveFromMissingSerial
<1> QED
  BY <1>1, <1>2, <1>4

\* The lists of a new service, and the ones with another set of fixed bad channels.
LEMMA NewListsAreSound ==
    ASSUME NEW fixed \in SUBSET Channels, NEW silent \in SUBSET Channels
    PROVE  /\ Sound(NoLists) /\ Sound(Scanned(fixed, silent))
           /\ Sound(ch) => Sound(SetFixedBad(ch, fixed))
<1>1. Sound(NoLists)
  BY DEF Sound, Lists, NoLists
<1>2. Sound(Scanned(fixed, silent))
  BY DEF Sound, Lists, Scanned
<1>3. ASSUME Sound(ch) PROVE Sound(SetFixedBad(ch, fixed))
  <2>1. ch.fixed \ fixed \in SUBSET Channels /\ fixed \ ch.fixed \in SUBSET Channels
    BY <1>3 DEF Sound, Lists
  <2>2. Sound(RemoveFromFixedBad(ch, ch.fixed \ fixed))
    BY <1>3, <2>1, MovesOfSeveralAreSound
  <2> QED
    BY <2>1, <2>2, MovesOfSeveralAreSound DEF SetFixedBad
<1> QED
  BY <1>1, <1>2, <1>3

----------------------------------------------------------------------------
(* The step of a command on one channel.                                   *)

OnOneChannel(c) ==
    OnChannel(c) \/ WaitUp(c) \/ WaitDown(c) \/ RecoverEnds(c) \/ SyncEnds(c)
\* What the status of the channel is after it.
ChangesOnly(c) == hw' = hw \/ \E s \in Status : hw' = [hw EXCEPT ![c] = s]

\* A command leaves every channel in a known status, and changes that of one only.
LEMMA StatusSteps ==
    ASSUME hw \in [Channels -> Status], NEW c \in Channels
    PROVE  /\ PowerOn(c) \in Status /\ PowerOff(c) \in Status /\ hw[c] \in Status
           /\ \A s \in Status : Now(c, s) => ChangesOnly(c)
           /\ \A S \in SUBSET Status : MayBe(c, S) => ChangesOnly(c)
<1>1. PowerOn(c) \in Status /\ PowerOff(c) \in Status /\ hw[c] \in Status
  BY DEF PowerOn, PowerOff, Status
<1>2. \A s \in Status : Now(c, s) => ChangesOnly(c)
  BY DEF Now, ChangesOnly
<1>3. ASSUME NEW S \in SUBSET Status, MayBe(c, S) PROVE ChangesOnly(c)
  <2>1. PICK s \in (IF link THEN S ELSE {hw[c]}) : hw' = [hw EXCEPT ![c] = s]
    BY <1>3 DEF MayBe
  <2>2. s \in Status
    BY <1>1, <2>1
  <2> QED
    BY <2>1, <2>2 DEF ChangesOnly
<1> QED
  BY <1>1, <1>2, <1>3

\* The command goes on to the next channel, or waits for this one.
LEMMA ChannelStepAdvances ==
    ASSUME NEW c \in Channels, OnOneChannel(c)
    PROVE  Handled(c) \/ Failed(c) \/ ToWait(c) \/ ToList(c)
  BY DEF OnOneChannel, OnChannel, WaitUp, WaitDown, RecoverEnds, SyncEnds, Present,
         SetCommon, GetVoltThr,
         MonitorSnapshot, Configure, Access, On, Off, ForceOff, PowerOnAndWait,
         PowerOffAndWait, GetPowerState, Sync, SafetyCheck, PowerCheck, Recover,
         AcquisitionCheck, WriteSerial, ChangeAddress, SetUserBad, UnsetUserBad,
         GoesBad

\* No other channel changes its status.
LEMMA ChannelStepStatus ==
    ASSUME hw \in [Channels -> Status], NEW c \in Channels, OnOneChannel(c)
    PROVE  ChangesOnly(c)
<1>1. PowerOn(c) \in Status /\ PowerOff(c) \in Status /\ hw[c] \in Status
      /\ {"UP", "DOWN"} \subseteq Status
  BY StatusSteps DEF Status
<1>2. /\ \A s \in Status : Now(c, s) => ChangesOnly(c)
      /\ \A S \in SUBSET Status : MayBe(c, S) => ChangesOnly(c)
  BY StatusSteps
<1>3. UNCHANGED hw => ChangesOnly(c)
  BY DEF ChangesOnly
<1>4. /\ Now(c, PowerOn(c)) \/ Now(c, PowerOff(c)) => ChangesOnly(c)
      /\ Now(c, "UP") \/ Now(c, "DOWN") => ChangesOnly(c)
      /\ MayBe(c, {hw[c], PowerOn(c), "DOWN"}) => ChangesOnly(c)
      /\ MayBe(c, {hw[c], PowerOff(c)}) => ChangesOnly(c)
      /\ MayBe(c, {hw[c], "DOWN"}) => ChangesOnly(c)
      /\ MayBe(c, {hw[c], IF hw[c] = "TRIP" THEN "DOWN" ELSE hw[c]}) => ChangesOnly(c)
  <2>1. /\ {hw[c], PowerOn(c), "DOWN"} \in SUBSET Status
        /\ {hw[c], PowerOff(c)} \in SUBSET Status
        /\ {hw[c], "DOWN"} \in SUBSET Status
        /\ {hw[c], IF hw[c] = "TRIP" THEN "DOWN" ELSE hw[c]} \in SUBSET Status
    BY <1>1
  <2> QED
    BY <1>1, <1>2, <2>1
<1>5. \/ UNCHANGED hw
      \/ Now(c, PowerOn(c)) \/ Now(c, PowerOff(c)) \/ Now(c, "UP") \/ Now(c, "DOWN")
      \/ MayBe(c, {hw[c], PowerOn(c), "DOWN"}) \/ MayBe(c, {hw[c], PowerOff(c)})
      \/ MayBe(c, {hw[c], "DOWN"})
      \/ MayBe(c, {hw[c], IF hw[c] = "TRIP" THEN "DOWN" ELSE hw[c]})
  <2>1. CASE WaitUp(c) \/ WaitDown(c) \/ RecoverEnds(c) \/ SyncEnds(c)
    BY <2>1, Zenon DEF WaitUp, WaitDown, RecoverEnds, SyncEnds, Present
  <2>2. CASE OnChannel(c)
    BY <2>2, Zenon DEF OnChannel, SetCommon, GetVoltThr, MonitorSnapshot, Configure,
       Access, On, Off, ForceOff, PowerOnAndWait, PowerOffAndWait, GetPowerState,
       Sync, Present, SafetyCheck, PowerCheck, Recover, AcquisitionCheck, WriteSerial,
       ChangeAddress, SetUserBad, UnsetUserBad
  <2> QED
    BY <2>1, <2>2 DEF OnOneChannel
<1> QED
  BY <1>3, <1>4, <1>5

\* An access that fails uses up a fault.
LEMMA ChannelStepFaults ==
    ASSUME faults \in 0..MaxFaults, NEW c \in Channels, OnOneChannel(c)
    PROVE  faults' \in 0..MaxFaults
<1>1. Works \/ Breaks \/ UNCHANGED faults
  BY Zenon DEF OnOneChannel, OnChannel, WaitUp, WaitDown, RecoverEnds, SyncEnds, Present,
         SetCommon, GetVoltThr, MonitorSnapshot, Configure, Access, On, Off, ForceOff, PowerOnAndWait,
         PowerOffAndWait, GetPowerState, Sync, SafetyCheck, PowerCheck, Recover,
         AcquisitionCheck, WriteSerial, ChangeAddress, SetUserBad, UnsetUserBad
<1> QED
  BY <1>1, FaultsAssumption DEF Works, Breaks

\* The lists stay consistent, whichever the outcome.
LEMMA ChannelStepLists ==
    ASSUME Sound(ch), NEW c \in Channels, OnOneChannel(c)
    PROVE  Sound(ch')
<1>1. UNCHANGED ch => Sound(ch')
  OBVIOUS
<1>2. /\ Sound(MoveToOn(ch, c)) /\ Sound(MoveToOff(ch, c)) /\ Sound(MoveToOk(ch, c))
      /\ Sound(Aligned(ch, c, Reads(c)))
  BY MovesAreSound
<1>3. /\ Sound(MoveToBad(ch, {c})) /\ Sound(RemoveFromMissingSerial(ch, {c}))
      /\ Sound(MoveToFixedBad(ch, {c})) /\ Sound(RemoveFromFixedBad(ch, {c}))
  <2>1. {c} \in SUBSET Channels
    OBVIOUS
  <2> QED
    BY <2>1, MovesOfSeveralAreSound
<1>4. Sound(Recovered(ch, c))
  BY MovesAreSound DEF Recovered
<1>5. ASSUME NEW l, Sound(l) PROVE Sound(PowerAligned(l, c)) /\ Sound(MoveToBad(l, {c}))
  <2>1. Sound(MoveToOn(l, c)) /\ Sound(MoveToOff(l, c))
    BY <1>5, MovesAreSound
  <2>2. {c} \in SUBSET Channels
    OBVIOUS
  <2>3. Sound(MoveToBad(l, {c}))
    BY <1>5, <2>2, MovesOfSeveralAreSound
  <2> QED
    BY <1>5, <2>1, <2>3 DEF PowerAligned
<1>6. CASE WaitUp(c) \/ WaitDown(c)
  BY <1>2, <1>3, <1>6 DEF WaitUp, WaitDown, GoesBad
<1>7. CASE Sync(c) \/ RecoverEnds(c) \/ SyncEnds(c)
  <2>1. \A l : Sound(l) /\ Present(l, c) => Sound(ch')
    BY <1>5 DEF Present
  <2>2. CASE Sync(c)
    <3>1. \/ Present(ch, c) \/ ch' = MoveToOk(ch, c)
          \/ ch' \in {ch} \cup {MoveToBad(ch, {x}) : x \in {c} \ job.skipped}
      BY <2>2, Zenon DEF Sync
    <3> QED
      BY <1>1, <1>2, <1>3, <2>1, <3>1
  <2> QED
    BY <1>4, <1>7, <2>1, <2>2 DEF RecoverEnds, SyncEnds
<1>8. CASE AcquisitionCheck(c)
  <2>1. UNCHANGED ch \/ ch' \in {ch} \cup {MoveToBad(ch, {x}) : x \in params \cap {c}}
    BY <1>8 DEF AcquisitionCheck
  <2> QED
    BY <1>1, <1>3, <2>1
<1>9. CASE SetCommon(c) \/ GetVoltThr(c) \/ MonitorSnapshot(c) \/ Configure(c)
           \/ On(c) \/ Off(c) \/ ForceOff(c) \/ PowerOnAndWait(c) \/ PowerOffAndWait(c)
           \/ GetPowerState(c) \/ SafetyCheck(c)
  <2>1. \/ UNCHANGED ch \/ ch' = MoveToBad(ch, {c}) \/ ch' = MoveToOn(ch, c)
        \/ ch' = MoveToOff(ch, c) \/ ch' = Aligned(ch, c, Reads(c))
    BY <1>9, Zenon DEF SetCommon, GetVoltThr, MonitorSnapshot, Configure, Access, On,
       Off, ForceOff, PowerOnAndWait, PowerOffAndWait, GetPowerState, SafetyCheck,
       GoesBad
  <2> QED
    BY <1>1, <1>2, <1>3, <2>1
<1>10. CASE PowerCheck(c) \/ Recover(c) \/ WriteSerial(c) \/ ChangeAddress(c)
            \/ SetUserBad(c) \/ UnsetUserBad(c)
  BY <1>1, <1>2, <1>3, <1>4, <1>5, <1>10 DEF PowerCheck, Recover, WriteSerial,
     ChangeAddress, SetUserBad, UnsetUserBad
<1> QED
  BY <1>6, <1>7, <1>8, <1>9, <1>10, Zenon DEF OnOneChannel, OnChannel

\* The rest of the job stays as it is.
LEMMA AdvancedJob ==
    ASSUME job \in Jobs, WaitAfterwards, NEW c \in Channels, hw \in [Channels -> Status],
           c \in job.todo \/ c \in job.wait,
           Handled(c) \/ Failed(c) \/ ToWait(c) \/ ToList(c)
    PROVE  /\ job' \in Jobs
           /\ job'.cmd = job.cmd /\ job'.from = job.from /\ job'.skipped = job.skipped
           /\ job'.todo = job.todo \ {c} /\ job.failed \subseteq job'.failed
           /\ WaitAfterwards'
           /\ job'.wait = job.wait \ {c} \/ job'.wait = job.wait \cup {c}
           /\ Failed(c) => c \in job'.failed
<1>1. Failed(c) => c \in job'.failed
  BY DEF Failed, Jobs
<1>2. CASE Handled(c)
  BY <1>1, <1>2 DEF Handled, Jobs, WaitAfterwards
<1>3. CASE Failed(c)
  BY <1>1, <1>3 DEF Failed, Jobs, WaitAfterwards
<1>4. CASE ToWait(c)
  BY <1>1, <1>4 DEF ToWait, Jobs, WaitAfterwards
<1>5. CASE ToList(c)
  <2>1. Reads(c) \in Readings
    BY DEF Reads, Readings
  <2> QED
    BY <1>1, <1>5, <2>1 DEF ToList, Jobs, WaitAfterwards
<1> QED
  BY <1>2, <1>3, <1>4, <1>5

----------------------------------------------------------------------------
(* The command threads.                                                    *)

\* A caller queues a request of its own and waits for the reply.
LEMMA SubmitQueues ==
    ASSUME HvTypeOK, NEW k \in Callers, NEW x \in Commands, NEW cs \in SUBSET Channels,
           NEW p \in {EMERGENCY, CONTROL, MONITORING}, Submit(k, x, cs, p)
    PROVE  /\ queue' \in Seq(Requests) /\ reply' \in [Callers -> Replies]
           /\ reply' = [reply EXCEPT ![k] = Waiting]
           /\ Request(x, cs, p, k) \in Requests
           /\ \E n \in 1..(Len(queue) + 1) :
                  InsertedAt(queue', queue, n, Request(x, cs, p, k))
<1>1. Request(x, cs, p, k) \in Requests
  BY DEF Request, Requests, EMERGENCY, CONTROL, MONITORING
<1>2. Put(Request(x, cs, p, k)) /\ reply' = [reply EXCEPT ![k] = Waiting]
  BY DEF Submit
<1>3. reply' \in [Callers -> Replies]
  BY <1>2 DEF HvTypeOK, Replies, Waiting
<1>4. queue \in Seq(Requests)
  BY DEF HvTypeOK
<1> QED
  BY <1>1, <1>2, <1>3, <1>4, PutInserts

\* What a step of the thread t does to the queue and to the replies.
QueuesFor(t) ==
    /\ queue' \in Seq(Requests)
    /\ reply' \in [Callers -> Replies]
    /\ \A k \in Callers \ {t} : reply'[k] = reply[k]
    /\ \/ queue' = queue
       \/ \E r \in Requests, n \in 1..(Len(queue) + 1) :
              /\ InsertedAt(queue', queue, n, r)
              /\ r.cmd \notin Checks /\ r.from = t

\* A request of a command thread or of the safe state is queued for it.
LEMMA SubmitQueuesFor ==
    ASSUME HvTypeOK, NEW t \in Callers, NEW x \in Commands \ Checks,
           NEW cs \in SUBSET Channels, NEW p \in {CONTROL, MONITORING},
           Submit(t, x, cs, p)
    PROVE  QueuesFor(t)
<1> DEFINE r == Request(x, cs, p, t)
<1>1. /\ queue' \in Seq(Requests) /\ reply' \in [Callers -> Replies]
      /\ reply' = [reply EXCEPT ![t] = Waiting] /\ r \in Requests
      /\ \E n \in 1..(Len(queue) + 1) : InsertedAt(queue', queue, n, r)
  BY SubmitQueues
<1>2. r.cmd \notin Checks /\ r.from = t
  BY DEF Request
<1>3. \A k \in Callers \ {t} : reply'[k] = reply[k]
  BY <1>1 DEF HvTypeOK
<1> HIDE DEF r
<1> QED
  BY <1>1, <1>2, <1>3 DEF QueuesFor

\* A thread that does not wait, or no longer, queues nothing.
LEMMA QuietQueuesFor ==
    ASSUME HvTypeOK, NEW t \in Callers, UNCHANGED queue,
           UNCHANGED reply \/ reply' = [reply EXCEPT ![t] = NoReply]
    PROVE  QueuesFor(t)
<1>1. NoReply \in Replies
  BY DEF NoReply, Replies
<1> QED
  BY <1>1 DEF HvTypeOK, QueuesFor

\* The threads are callers, and their commands are not checks.
LEMMA ThreadsCall ==
    /\ \A t \in Threads : t \in Callers /\ t # "safe" /\ t # "none"
    /\ "safe" \in Callers /\ "none" \notin Callers
    /\ \A x \in UserCommands : x \in Commands \ Checks
    /\ {"hv_off_and_wait", "hv_force_off", "set_hv_sync", "hv_on",
        "set_acquisition_configuration"} \subseteq Commands \ Checks
<1>1. {"hv_off_and_wait", "hv_force_off", "set_hv_sync", "hv_on",
        "set_acquisition_configuration"} \subseteq Commands \ Checks
  BY DEF Commands, Checks, OnOkChannels
<1> QED
  BY <1>1, CallersAssumption, CommandsAssumption

CommandStates == [pc : CommandSteps, mode : Modes, fixed : SUBSET Channels,
                  chans : SUBSET Channels]

\* A command of the RC service, and the scan of a new HV service, keep the types.
LEMMA RcStepTypes ==
    ASSUME HvTypeOK
    PROVE  /\ RcWorks \/ RcFails => faults' \in 0..MaxFaults
           /\ \A fixed \in SUBSET Channels : Ensure(fixed) =>
                  /\ faults' \in 0..MaxFaults /\ link' \in BOOLEAN
                  /\ service' = TRUE /\ rc19' = FALSE /\ Sound(ch')
<1>1. RcWorks \/ RcFails => faults' \in 0..MaxFaults
  BY FaultsAssumption DEF HvTypeOK, RcWorks, RcFails
<1>2. ASSUME NEW fixed \in SUBSET Channels, Ensure(fixed)
      PROVE  /\ faults' \in 0..MaxFaults /\ link' \in BOOLEAN
             /\ service' = TRUE /\ rc19' = FALSE /\ Sound(ch')
  <2>1. \A silent \in SUBSET Channels : Sound(Scanned(fixed, silent))
    BY NewListsAreSound
  <2>2. Sound(Scanned(fixed, {}))
    BY <2>1
  <2> QED
    BY <1>1, <1>2, <2>1, <2>2 DEF Ensure, HvTypeOK
<1> QED
  BY <1>1, <1>2

\* A command thread goes from one place to another, with its arguments.
LEMMA PlaceTypes ==
    ASSUME cmd \in [Threads -> CommandStates], NEW t \in Threads
    PROVE  /\ \A pc \in CommandSteps : Goto(t, pc) => cmd' \in [Threads -> CommandStates]
           /\ Gives(t) => cmd' \in [Threads -> CommandStates]
           /\ cmd[t].fixed \in SUBSET Channels /\ cmd[t].chans \in SUBSET Channels
           /\ cmd[t].mode \in Modes
<1>1. IdleCmd \in CommandStates
  BY DEF IdleCmd, CommandStates, CommandSteps, Modes
<1>2. Gives(t) => cmd' \in [Threads -> CommandStates]
  BY <1>1 DEF Gives
<1>3. \A pc \in CommandSteps : Goto(t, pc) => cmd' \in [Threads -> CommandStates]
  BY DEF Goto, CommandStates
<1> QED
  BY <1>2, <1>3 DEF CommandStates

\* What a step of the thread t may do, but for what it queues.
ThreadEffect(t) ==
    /\ UNCHANGED <<hw, job, pending, safe, acqSafe, session, reconnect>>
    /\ Sound(ch')
    /\ cmd' \in [Threads -> CommandStates]
    /\ \A u \in Threads \ {t} : cmd'[u] = cmd[u]
    /\ link' \in BOOLEAN /\ acqCheck' \in BOOLEAN
    /\ policy' \in {"monitor_only", "full_control"}
    /\ params' \subseteq Channels
    /\ faults' \in 0..MaxFaults
    /\ rc19' \in BOOLEAN /\ mode' \in Modes /\ events' \in 0..MaxEvents
    /\ service' = service \/ service' = TRUE
    /\ session = "up" \/ cmd[t].pc # "idle"
    /\ \/ producer' = producer /\ cmd[t].pc # "record"
       \/ producer' \in {"spawned", producer} /\ cmd'[t].pc = "record"
       \/ producer' # "spawned" /\ producer' \in {"known", producer}

\* The type facts that every step of a thread needs.
LEMMA ThreadStepTypes ==
    ASSUME TypeOK, ListsConsistent, NEW t \in Threads
    PROVE  /\ HvTypeOK /\ t \in Callers /\ Sound(ch) /\ cmd \in [Threads -> CommandStates]
           /\ cmd[t].fixed \in SUBSET Channels /\ cmd[t].chans \in SUBSET Channels
           /\ cmd[t].mode \in Modes
<1>1. HvTypeOK /\ cmd \in [Threads -> CommandStates]
  BY DEF TypeOK, CommandStates
<1>2. Sound(ch)
  BY DEF TypeOK, HvTypeOK, ListsConsistent, Sound
<1> QED
  BY <1>1, <1>2, PlaceTypes, ThreadsCall

\* What the steps of a thread do to the queue.
LEMMA ThreadStepQueues ==
    ASSUME TypeOK, ListsConsistent, NEW t \in Threads, CommandStep(t) \/ NewCommand(t)
    PROVE  QueuesFor(t)
<1>1. HvTypeOK /\ t \in Callers /\ Sound(ch)
      /\ cmd[t].fixed \in SUBSET Channels /\ cmd[t].chans \in SUBSET Channels
  BY ThreadStepTypes
<1>2. \A x \in Commands \ Checks, cs \in SUBSET Channels, p \in {CONTROL, MONITORING} :
          Submit(t, x, cs, p) => QueuesFor(t)
  BY <1>1, SubmitQueuesFor
<1>3. \A x \in {"hv_off_and_wait", "set_hv_sync", "hv_on", "set_acquisition_configuration"},
         cs \in SUBSET Channels : Submit(t, x, cs, CONTROL) => QueuesFor(t)
  BY <1>2, ThreadsCall
<1>4. UNCHANGED queue /\ (UNCHANGED reply \/ reply' = [reply EXCEPT ![t] = NoReply])
          => QueuesFor(t)
  BY <1>1, QuietQueuesFor
<1>5. CASE AcqStart(t)
  BY <1>4, <1>5 DEF AcqStart
<1>6. CASE Prepare(t)
  <2>1. (cmd[t].fixed \ ch.fixed) \cap ch.on \in SUBSET Channels
    BY <1>1
  <2>2. \/ Submit(t, "hv_off_and_wait", (cmd[t].fixed \ ch.fixed) \cap ch.on, CONTROL)
        \/ UNCHANGED <<queue, reply>>
    BY <1>6, Zenon DEF Prepare
  <2> QED
    BY <1>3, <1>4, <2>1, <2>2
<1>7. CASE GivesUp(t)
  BY <1>4, <1>7 DEF GivesUp
<1>8. CASE FixChannels(t)
  BY <1>3, <1>8 DEF FixChannels
<1>9. CASE SetPolicy(t)
  <2>1. \/ Submit(t, "hv_off_and_wait", Channels, CONTROL)
        \/ UNCHANGED queue /\ reply' = [reply EXCEPT ![t] = NoReply]
    BY <1>9, Zenon DEF SetPolicy
  <2> QED
    BY <1>3, <1>4, <2>1
<1>10. CASE CheckSerials(t)
  <2>1. \/ Submit(t, "set_acquisition_configuration", cmd[t].chans, CONTROL)
        \/ UNCHANGED <<queue, reply>>
    BY <1>10, Zenon DEF CheckSerials
  <2> QED
    BY <1>1, <1>3, <1>4, <2>1
<1>11. CASE SwitchOn(t)
  BY <1>1, <1>3, <1>11 DEF SwitchOn
<1>12. CASE SetTestMode(t) \/ SpawnProducer(t)
  BY <1>4, <1>12 DEF SetTestMode, SpawnProducer
<1>13. CASE RecordProducer(t)
  BY <1>4, <1>13 DEF RecordProducer, hvVars
<1>14. CASE SetMode(t) \/ StartAcqCheck(t) \/ HvCommandEnds(t)
  BY <1>4, <1>14 DEF SetMode, StartAcqCheck, HvCommandEnds
<1>15. CASE \E m \in Modes, fixed, chans \in SUBSET Channels : ApplyMode(t, m, fixed, chans)
  BY <1>4, <1>15 DEF ApplyMode, hvVars
<1>16. CASE \E k \in UserCommands, chans \in SUBSET Channels \ {{}} : HvCommand(t, k, chans)
  <2>1. PICK k \in UserCommands, chans \in SUBSET Channels \ {{}} : HvCommand(t, k, chans)
    BY <1>16
  <2>2. PICK p \in {CONTROL, MONITORING} : Submit(t, k, chans, p)
    BY <2>1 DEF HvCommand
  <2> QED
    BY <1>2, <2>2, ThreadsCall
<1>17. CASE FirstRead(t) \/ EnableChannels(t)
  BY <1>4, <1>17 DEF FirstRead, EnableChannels
<1> QED
  BY <1>5, <1>6, <1>7, <1>8, <1>9, <1>10, <1>11, <1>12, <1>13, <1>14, <1>15, <1>16,
     <1>17 DEF CommandStep, NewCommand

\* What else they do.
LEMMA ThreadStepEffect ==
    ASSUME TypeOK, ListsConsistent, NEW t \in Threads, CommandStep(t) \/ NewCommand(t)
    PROVE  ThreadEffect(t)
<1>1. /\ HvTypeOK /\ t \in Callers /\ Sound(ch) /\ cmd \in [Threads -> CommandStates]
      /\ cmd[t].fixed \in SUBSET Channels /\ cmd[t].chans \in SUBSET Channels
      /\ cmd[t].mode \in Modes
  BY ThreadStepTypes
<1>2. /\ \A pc \in CommandSteps : Goto(t, pc) =>
             /\ cmd' \in [Threads -> CommandStates] /\ cmd'[t].pc = pc
             /\ \A u \in Threads \ {t} : cmd'[u] = cmd[u]
      /\ Gives(t) =>
             /\ cmd' \in [Threads -> CommandStates]
             /\ \A u \in Threads \ {t} : cmd'[u] = cmd[u]
  <2>1. \A pc \in CommandSteps : Goto(t, pc) => cmd'[t].pc = pc
    BY <1>1 DEF Goto, CommandStates
  <2> QED
    BY <1>1, <2>1, PlaceTypes DEF Goto, Gives
<1>3. RcWorks \/ RcFails => faults' \in 0..MaxFaults
  BY <1>1, RcStepTypes
<1>4. \A fixed \in SUBSET Channels : Ensure(fixed) =>
          /\ faults' \in 0..MaxFaults /\ link' \in BOOLEAN
          /\ service' = TRUE /\ rc19' = FALSE /\ Sound(ch')
  BY <1>1, RcStepTypes
<1>5. /\ link \in BOOLEAN /\ acqCheck \in BOOLEAN
      /\ policy \in {"monitor_only", "full_control"}
      /\ params \subseteq Channels /\ faults \in 0..MaxFaults
      /\ rc19 \in BOOLEAN /\ mode \in Modes /\ events \in 0..MaxEvents
      /\ producer \in {"none", "spawned", "known"} /\ service \in BOOLEAN
  BY DEF TypeOK, HvTypeOK
<1>6. UNCHANGED ch => Sound(ch')
  BY <1>1
<1>7. TakesCommand => session = "up" /\ events' \in 0..MaxEvents
  BY <1>5, EventsAssumption DEF TakesCommand, Happens
<1>8. UNCHANGED cmd => cmd' \in [Threads -> CommandStates]
                        /\ \A u \in Threads \ {t} : cmd'[u] = cmd[u]
  BY <1>1
<1>9. \A pc \in {"idle", "user", "acq_start", "prepare", "prepare_off", "fix",
                 "sync", "policy", "test_off", "serial", "config", "on", "spawn",
                 "record", "mode", "check"} : pc \in CommandSteps
  BY DEF CommandSteps
<1>10. \A m \in Modes : Enters(m) => mode' \in Modes /\ acqCheck' \in BOOLEAN
  BY <1>5 DEF Enters
<1>11. {"test"} \subseteq Modes
  BY DEF Modes
<1>12. CASE AcqStart(t)
  BY <1>2, <1>3, <1>5, <1>6, <1>9, <1>12 DEF AcqStart, ThreadEffect, At, restOfRuntime
<1>13. CASE Prepare(t)
  BY <1>1, <1>2, <1>4, <1>5, <1>6, <1>9, <1>13 DEF Prepare, ThreadEffect, At, restOfRuntime
<1>14. CASE GivesUp(t)
  BY <1>2, <1>5, <1>6, <1>14 DEF GivesUp, Replied, ThreadEffect, At, restOfRuntime
<1>15. CASE FixChannels(t)
  <2>1. Sound(SetFixedBad(ch, cmd[t].fixed))
    BY <1>1, NewListsAreSound
  <2> QED
    BY <1>2, <1>5, <1>9, <1>15, <2>1 DEF FixChannels, GoodReply, ThreadEffect, At, restOfRuntime
<1>16. CASE SetPolicy(t)
  BY <1>2, <1>5, <1>6, <1>9, <1>16 DEF SetPolicy, GoodReply, ThreadEffect, At, restOfRuntime
<1>17. CASE CheckSerials(t)
  <2>1. PICK missing \in SUBSET ch.ok :
          /\ UNCHANGED faults \/ RcFails
          /\ ch' = MoveToMissingSerial(ch, missing)
    BY <1>17, Zenon DEF CheckSerials
  <2>2. Sound(ch')
    <3>1. missing \in SUBSET Channels
      BY <1>1, <2>1 DEF HvTypeOK, Lists
    <3> QED
      BY <1>1, <2>1, <3>1, MovesOfSeveralAreSound
  <2>3. faults' \in 0..MaxFaults
    BY <1>3, <1>5, <2>1
  <2>4. Gives(t) \/ Goto(t, "config")
    BY <1>17, Zenon DEF CheckSerials
  <2>5. At(t, "serial") /\ UNCHANGED <<hw, link, job, pending, policy, acqCheck, params,
                   service, mode, producer, rc19, events, restOfRuntime>>
    BY <1>17, Zenon DEF CheckSerials
  <2> QED
    BY <1>2, <1>5, <1>9, <2>2, <2>3, <2>4, <2>5 DEF ThreadEffect, At, restOfRuntime
<1>18. CASE SwitchOn(t)
  <2>1. Stored(t) \subseteq Channels
    BY <1>1, <1>5 DEF Stored
  <2> QED
    BY <1>2, <1>5, <1>6, <1>9, <1>18, <2>1 DEF SwitchOn, GoodReply, ThreadEffect, At, restOfRuntime
<1>19. CASE SetTestMode(t)
  BY <1>2, <1>5, <1>6, <1>9, <1>10, <1>11, <1>19
     DEF SetTestMode, GoodReply, ThreadEffect, At, restOfRuntime
<1>20. CASE SpawnProducer(t)
  BY <1>2, <1>5, <1>6, <1>9, <1>20 DEF SpawnProducer, GoodReply, ThreadEffect, At, restOfRuntime
<1>21. CASE RecordProducer(t)
  BY <1>2, <1>5, <1>6, <1>9, <1>21 DEF RecordProducer, ThreadEffect, At, restOfRuntime, hvVars
<1>22. CASE SetMode(t)
  BY <1>1, <1>2, <1>5, <1>6, <1>9, <1>10, <1>22 DEF SetMode, ThreadEffect, At, restOfRuntime
<1>23. CASE StartAcqCheck(t)
  BY <1>2, <1>5, <1>6, <1>23 DEF StartAcqCheck, ThreadEffect, At, restOfRuntime
<1>24. CASE HvCommandEnds(t)
  BY <1>2, <1>5, <1>6, <1>24 DEF HvCommandEnds, Replied, ThreadEffect, At, restOfRuntime
<1>25. CASE \E m \in Modes, fixed, chans \in SUBSET Channels : ApplyMode(t, m, fixed, chans)
  <2>1. PICK m \in Modes, fixed \in SUBSET Channels, chans \in SUBSET Channels :
            ApplyMode(t, m, fixed, chans)
    BY <1>25
  <2> DEFINE s == [pc |-> "acq_start", mode |-> m, fixed |-> fixed, chans |-> chans]
  <2>2. s \in CommandStates
    BY <1>9 DEF CommandStates
  <2>3. cmd' = [cmd EXCEPT ![t] = s]
    BY <2>1 DEF ApplyMode
  <2> HIDE DEF s
  <2>4. /\ cmd' \in [Threads -> CommandStates]
        /\ \A u \in Threads \ {t} : cmd'[u] = cmd[u]
    BY <1>1, <2>2, <2>3
  <2>5. At(t, "idle") /\ TakesCommand
        /\ UNCHANGED <<hvVars, safe, acqSafe, service, mode, producer, rc19,
                   session, reconnect>>
    BY <2>1 DEF ApplyMode
  <2> QED
    BY <1>5, <1>6, <1>7, <2>4, <2>5 DEF ThreadEffect, At, hvVars
<1>26. CASE \E k \in UserCommands, chans \in SUBSET Channels \ {{}} : HvCommand(t, k, chans)
  BY <1>2, <1>5, <1>6, <1>7, <1>9, <1>26 DEF HvCommand, ThreadEffect, At, restOfRuntime
<1>27. CASE FirstRead(t)
  BY <1>4, <1>5, <1>7, <1>8, <1>27 DEF FirstRead, ThreadEffect, At, restOfRuntime
<1>28. CASE EnableChannels(t)
  BY <1>3, <1>5, <1>6, <1>7, <1>8, <1>28 DEF EnableChannels, ThreadEffect, At, restOfRuntime
<1> QED
  BY <1>12, <1>13, <1>14, <1>15, <1>16, <1>17, <1>18, <1>19, <1>20, <1>21, <1>22,
     <1>23, <1>24, <1>25, <1>26, <1>27, <1>28 DEF CommandStep, NewCommand

----------------------------------------------------------------------------
(* The HV thread and the check threads.                                    *)

\* Only the caller whose request it is, and that still waits, gets an answer.
LEMMA AnswerOfCaller ==
    ASSUME HvTypeOK, NEW k, NEW st \in {"ok", "error"}, NEW cs \in SUBSET Channels,
           Answer(k, st, cs)
    PROVE  /\ reply' \in [Callers -> Replies]
           /\ \A u \in Callers : u # k \/ reply[u].st # "wait" => reply'[u] = reply[u]
           /\ k \in Callers /\ reply[k].st = "wait" =>
                  reply'[k].st = st /\ reply'[k].skipped = cs
<1>1. [st |-> st, skipped |-> cs] \in Replies
  BY DEF Replies
<1>2. reply \in [Callers -> Replies]
  BY DEF HvTypeOK
<1>3. CASE k \in Callers /\ reply[k].st = "wait"
  BY <1>1, <1>2, <1>3 DEF Answer
<1>4. CASE ~(k \in Callers /\ reply[k].st = "wait")
  BY <1>2, <1>4 DEF Answer
<1> QED
  BY <1>3, <1>4

\* A request begins with the channels that it goes through.
LEMMA BegunJob ==
    ASSUME HvTypeOK, job = NoJob, NEW r \in Requests,
           job' = [NoJob EXCEPT !.cmd = r.cmd, !.from = r.from, !.todo = Scope(r),
                                !.used = Scope(r), !.skipped = Skipped(r)]
    PROVE  /\ job' \in Jobs /\ job'.cmd = r.cmd /\ job'.from = r.from
           /\ job'.todo = Scope(r) /\ job'.skipped = Skipped(r)
           /\ job'.wait = {} /\ job'.failed = {}
<1>1. Scope(r) \in SUBSET Channels
  BY DEF HvTypeOK, Lists, Requests, Scope
<1>2. Skipped(r) \in SUBSET Channels
  BY DEF HvTypeOK, Lists, Requests, Skipped
<1>3. /\ job'.cmd = r.cmd /\ job'.from = r.from
      /\ job'.todo = Scope(r) /\ job'.skipped = Skipped(r) /\ job'.used = Scope(r)
      /\ job'.wait = {} /\ job'.failed = {}
      /\ job' = [cmd |-> r.cmd, from |-> r.from, used |-> Scope(r), todo |-> Scope(r),
                 wait |-> {}, skipped |-> Skipped(r), failed |-> {}, read |-> "none"]
  BY DEF NoJob
<1> QED
  BY <1>1, <1>2, <1>3 DEF Requests, Jobs

\* A check is queued when its flag is clear, which sets it.
LEMMA CheckQueues ==
    ASSUME HvTypeOK, CheckSafety \/ CheckPower \/ CheckRecovery \/ CheckAcquisition
    PROVE  /\ queue' \in Seq(Requests)
           /\ \E r \in Requests, n \in 1..(Len(queue) + 1) :
                  /\ InsertedAt(queue', queue, n, r)
                  /\ r.cmd \in Checks \ pending /\ pending' = pending \cup {r.cmd}
                  /\ r.from = "none"
                  /\ r.cmd = "check_channel_acquisition" => acqCheck
           /\ UNCHANGED <<ch, hw, link, job, policy, acqCheck, params, reply, faults>>
<1> DEFINE Queued(x, cs, p) == QueueCheck(x, cs, p) /\
                               (x = "check_channel_acquisition" => acqCheck)
<1>1. PICK x \in Checks, cs \in SUBSET Channels, p \in 0..3 : Queued(x, cs, p)
  <2>1. CASE CheckSafety
    BY <2>1 DEF CheckSafety, HvTypeOK, Lists, Checks, EMERGENCY
  <2>2. CASE CheckPower
    BY <2>2 DEF CheckPower, HvTypeOK, Lists, Checks, MONITORING
  <2>3. CASE CheckRecovery
    BY <2>3 DEF CheckRecovery, HvTypeOK, Lists, Checks, MONITORING
  <2>4. CASE CheckAcquisition
    BY <2>4 DEF CheckAcquisition, HvTypeOK, Lists, Checks, MONITORING
  <2> QED
    BY <2>1, <2>2, <2>3, <2>4
<1> DEFINE r == Request(x, cs, p, "none")
<1>2. r \in Requests /\ r.cmd = x /\ r.from = "none"
  BY DEF Request, Requests, Commands
<1>3. /\ Put(r) /\ x \in Checks \ pending /\ pending' = pending \cup {x}
      /\ x = "check_channel_acquisition" => acqCheck
      /\ UNCHANGED <<ch, hw, link, job, policy, acqCheck, params, reply, faults>>
  BY <1>1 DEF QueueCheck
<1> HIDE DEF r
<1>4. queue' \in Seq(Requests) /\ \E n \in 1..(Len(queue) + 1) :
          InsertedAt(queue', queue, n, r)
  BY <1>2, <1>3, PutInserts DEF HvTypeOK
<1> QED
  BY <1>2, <1>3, <1>4

\* A deadline changes nothing but the requests it makes late.
LEMMA DeadlineQueues ==
    ASSUME HvTypeOK, CheckExpires \/ \E k \in Callers : RequestTimeout(k)
    PROVE  /\ queue' \in Seq(Requests) /\ DOMAIN queue' = DOMAIN queue
           /\ \A i \in DOMAIN queue :
                  /\ queue'[i].cmd = queue[i].cmd /\ queue'[i].from = queue[i].from
                  /\ queue'[i].chans = queue[i].chans
                  /\ queue[i].late => queue'[i].late
<1>1. queue \in Seq(Requests) /\ \A i \in DOMAIN queue : queue[i] \in Requests
  BY DEF HvTypeOK
<1>2. ASSUME NEW r \in Requests
      PROVE  /\ [r EXCEPT !.late = TRUE] \in Requests
             /\ [r EXCEPT !.late = TRUE].cmd = r.cmd /\ [r EXCEPT !.late = TRUE].from = r.from
             /\ [r EXCEPT !.late = TRUE].chans = r.chans /\ [r EXCEPT !.late = TRUE].late
  BY DEF Requests
<1>3. DOMAIN queue' = DOMAIN queue
      /\ \A i \in DOMAIN queue :
             queue'[i] = queue[i] \/ queue'[i] = [queue[i] EXCEPT !.late = TRUE]
  <2>1. CASE CheckExpires
    BY <1>1, <2>1 DEF CheckExpires
  <2>2. CASE \E k \in Callers : RequestTimeout(k)
    BY <1>1, <2>2 DEF RequestTimeout
  <2> QED
    BY <2>1, <2>2
<1>4. queue' \in [1..Len(queue) -> Requests]
  <2>1. queue \in [1..Len(queue) -> Requests]
    BY <1>1
  <2>2. CASE CheckExpires
    <3>1. PICK i \in DOMAIN queue : queue' = [queue EXCEPT ![i].late = TRUE]
      BY <2>2 DEF CheckExpires
    <3>2. [queue[i] EXCEPT !.late = TRUE] \in Requests
      BY <1>1, <1>2
    <3> QED
      BY <2>1, <3>1, <3>2
  <2>3. CASE \E k \in Callers : RequestTimeout(k)
    BY <1>1, <1>2, <2>3 DEF RequestTimeout
  <2> QED
    BY <2>2, <2>3
<1>5. Len(queue) \in Nat
  BY <1>1
<1>6. queue' \in Seq(Requests)
  BY <1>4, <1>5
<1>7. ASSUME NEW i \in DOMAIN queue
      PROVE  /\ queue'[i].cmd = queue[i].cmd /\ queue'[i].from = queue[i].from
             /\ queue'[i].chans = queue[i].chans
             /\ queue[i].late => queue'[i].late
  <2>1. queue[i] \in Requests
    BY <1>1
  <2>2. CASE queue'[i] = queue[i]
    BY <2>2
  <2>3. CASE queue'[i] = [queue[i] EXCEPT !.late = TRUE]
    BY <1>2, <2>1, <2>3
  <2> QED
    BY <1>3, <2>2, <2>3
<1> QED
  BY <1>3, <1>6, <1>7

\* The step of the HV thread on a channel, whichever loop it is in.
LEMMA WorkerOnChannel ==
    ASSUME HvTypeOK, ListsConsistent, WaitAfterwards, WorkerHandles \/ WorkerWaits
    PROVE  \E c \in Channels :
               /\ WorkerHandles => c \in job.todo /\ OnChannel(c)
               /\ WorkerWaits => c \in job.wait /\ c \notin job.todo /\ Concludes(c)
               /\ OnOneChannel(c)
               /\ job' \in Jobs
               /\ job'.cmd = job.cmd /\ job'.from = job.from
               /\ job'.skipped = job.skipped
               /\ job'.todo = job.todo \ {c} /\ job.failed \subseteq job'.failed
               /\ Failed(c) => c \in job'.failed
               /\ WaitAfterwards'
               /\ ChangesOnly(c) /\ faults' \in 0..MaxFaults /\ Sound(ch')
               /\ UNCHANGED <<link, queue, pending, policy, acqCheck, params, reply>>
<1> DEFINE c == IF job.todo # {} /\ (job.cmd \in Recovering => job.wait = {})
                THEN Min(job.todo) ELSE Min(job.wait)
<1>1. /\ job \in Jobs /\ job.todo \subseteq Channels /\ job.wait \subseteq Channels
      /\ hw \in [Channels -> Status] /\ faults \in 0..MaxFaults /\ Sound(ch)
  BY DEF HvTypeOK, Jobs, ListsConsistent, Sound
<1>2. WorkerHandles => c \in job.todo /\ OnChannel(c)
  BY <1>1, MinIsOne DEF WorkerHandles
<1>3. WorkerWaits => c \in job.wait /\ c \notin job.todo /\ Concludes(c)
  BY <1>1, MinIsOne DEF WorkerWaits, WaitAfterwards
<1>4. c \in Channels /\ OnOneChannel(c) /\ (c \in job.todo \/ c \in job.wait)
  BY <1>1, <1>2, <1>3 DEF OnOneChannel, Concludes
<1>5. UNCHANGED <<link, queue, pending, policy, acqCheck, params, reply>>
  BY DEF WorkerHandles, WorkerWaits
<1> HIDE DEF c
<1>6. Handled(c) \/ Failed(c) \/ ToWait(c) \/ ToList(c)
  BY <1>4, ChannelStepAdvances
<1>7. /\ job' \in Jobs
      /\ job'.cmd = job.cmd /\ job'.from = job.from /\ job'.skipped = job.skipped
      /\ job'.todo = job.todo \ {c} /\ job.failed \subseteq job'.failed
      /\ WaitAfterwards' /\ (Failed(c) => c \in job'.failed)
  BY <1>1, <1>4, <1>6, AdvancedJob
<1>8. ChangesOnly(c) /\ faults' \in 0..MaxFaults /\ Sound(ch')
  BY <1>1, <1>4, ChannelStepStatus, ChannelStepFaults, ChannelStepLists
<1> QED
  BY <1>2, <1>3, <1>4, <1>5, <1>7, <1>8

\* The HV service and its check threads keep the types and the lists consistent.
LEMMA HvStepTypes ==
    ASSUME TypeOK, ListsConsistent, WaitAfterwards, HvStep
    PROVE  HvTypeOK' /\ Sound(ch') /\ WaitAfterwards'
<1>1. HvTypeOK /\ Sound(ch)
  BY DEF TypeOK, HvTypeOK, ListsConsistent, Sound
<1>2. NoJob \in Jobs /\ NoJob.todo = {} /\ NoJob.wait = {}
  BY DEF NoJob, Jobs
<1>3. \A x : Cleared(x) \subseteq pending
  BY DEF Cleared
<1>4. CASE WorkerSkips
  <2>1. /\ Tail(queue) \in Seq(Requests) /\ queue' = Tail(queue)
    BY <1>1, <1>4, TailOfQueue DEF WorkerSkips, HvTypeOK
  <2>2. reply' \in [Callers -> Replies]
    <3>1. {} \in SUBSET Channels
      OBVIOUS
    <3> QED
      BY <1>1, <1>4, <3>1, AnswerOfCaller DEF WorkerSkips, HvTypeOK
  <2>3. /\ pending' = Cleared(Head(queue).cmd)
        /\ UNCHANGED <<ch, hw, link, job, policy, acqCheck, params, faults>>
    BY <1>4 DEF WorkerSkips
  <2> QED
    BY <1>1, <1>3, <2>1, <2>2, <2>3 DEF HvTypeOK, WaitAfterwards
<1>5. CASE WorkerBegins
  <2>1. /\ Tail(queue) \in Seq(Requests) /\ queue' = Tail(queue)
        /\ Head(queue) \in Requests
    BY <1>1, <1>5, TailOfQueue DEF WorkerBegins, HvTypeOK
  <2>2. job' \in Jobs /\ job'.wait = {}
    BY <1>1, <1>5, <2>1, BegunJob DEF WorkerBegins
  <2>3. UNCHANGED <<ch, hw, link, pending, policy, acqCheck, params, reply, faults>>
    BY <1>5 DEF WorkerBegins
  <2> QED
    BY <1>1, <2>1, <2>2, <2>3 DEF HvTypeOK, WaitAfterwards
<1>6. CASE WorkerHandles \/ WorkerWaits
  <2>1. PICK c \in Channels :
            /\ job' \in Jobs /\ WaitAfterwards'
            /\ ChangesOnly(c) /\ faults' \in 0..MaxFaults /\ Sound(ch')
            /\ UNCHANGED <<link, queue, pending, policy, acqCheck, params, reply>>
    BY <1>1, <1>6, WorkerOnChannel
  <2>2. hw' \in [Channels -> Status]
    BY <1>1, <2>1 DEF ChangesOnly, HvTypeOK
  <2> QED
    BY <1>1, <2>1, <2>2 DEF HvTypeOK, Sound
<1>7. CASE WorkerEnds
  <2>1. job.skipped \in SUBSET Channels /\ Parameters \subseteq Channels
    BY <1>1 DEF HvTypeOK, Jobs, Parameters
  <2>2. reply' \in [Callers -> Replies]
    BY <1>1, <1>7, <2>1, AnswerOfCaller DEF WorkerEnds
  <2>3. /\ pending' = Cleared(job.cmd) /\ job' = NoJob /\ params' = Parameters
        /\ UNCHANGED <<ch, hw, link, queue, policy, acqCheck, faults>>
    BY <1>7 DEF WorkerEnds
  <2> QED
    BY <1>1, <1>2, <1>3, <2>1, <2>2, <2>3 DEF HvTypeOK, WaitAfterwards
<1>8. CASE CheckSafety \/ CheckPower \/ CheckRecovery \/ CheckAcquisition
  <2>1. /\ queue' \in Seq(Requests) /\ pending' \subseteq Checks
        /\ UNCHANGED <<ch, hw, link, job, policy, acqCheck, params, reply, faults>>
    BY <1>1, <1>8, CheckQueues DEF HvTypeOK
  <2> QED
    BY <1>1, <2>1 DEF HvTypeOK, WaitAfterwards
<1>9. CASE CheckExpires
  <2>1. queue' \in Seq(Requests)
    BY <1>1, <1>9, DeadlineQueues
  <2>2. /\ faults' \in 0..MaxFaults
        /\ UNCHANGED <<ch, hw, link, job, pending, policy, acqCheck, params, reply>>
    BY <1>1, <1>9, FaultsAssumption DEF CheckExpires, HvTypeOK
  <2> QED
    BY <1>1, <2>1, <2>2 DEF HvTypeOK, WaitAfterwards
<1>10. CASE \E k \in Callers : RequestTimeout(k)
  <2>1. queue' \in Seq(Requests)
    BY <1>1, <1>10, DeadlineQueues
  <2>2. PICK k \in Callers : RequestTimeout(k)
    BY <1>10
  <2>3. /\ faults' \in 0..MaxFaults
        /\ UNCHANGED <<ch, hw, link, pending, policy, acqCheck, params>>
    BY <1>1, <2>2, FaultsAssumption DEF RequestTimeout, HvTypeOK
  <2>4. job' \in Jobs /\ job'.todo = job.todo /\ job'.wait = job.wait
    BY <1>1, <2>2 DEF RequestTimeout, HvTypeOK, Jobs
  <2>5. reply' \in [Callers -> Replies]
    <3>1. [NoReply EXCEPT !.st = "error"] \in Replies
      BY DEF NoReply, Replies
    <3> QED
      BY <1>1, <2>2, <3>1 DEF RequestTimeout, HvTypeOK
  <2> QED
    BY <1>1, <2>1, <2>3, <2>4, <2>5 DEF HvTypeOK, WaitAfterwards
<1>11. CASE \E c \in Channels : Trip(c)
  <2>1. /\ hw' \in [Channels -> Status] /\ faults' \in 0..MaxFaults
        /\ UNCHANGED <<ch, link, queue, job, pending, policy, acqCheck, params, reply>>
    BY <1>1, <1>11, FaultsAssumption DEF Trip, Now, Status, HvTypeOK
  <2> QED
    BY <1>1, <2>1 DEF HvTypeOK, WaitAfterwards
<1> QED
  BY <1>4, <1>5, <1>6, <1>7, <1>8, <1>9, <1>10, <1>11 DEF HvStep, WorkerStep

----------------------------------------------------------------------------
(* The safe state and the connections.                                     *)

SafeStates == [pc : SafeSteps \cup {"start", "idle"}, ok : BOOLEAN, hv : BOOLEAN]

\* The types of the variables of the runtime, but quiet.
RuntimeTypes ==
    /\ cmd \in [Threads -> CommandStates]
    /\ safe \in SafeStates
    /\ acqSafe \in {"idle", "rc19", "producer"}
    /\ service \in BOOLEAN /\ rc19 \in BOOLEAN /\ reconnect \in BOOLEAN
    /\ mode \in Modes
    /\ producer \in {"none", "spawned", "known"}
    /\ session \in {"up", "closing", "down"}
    /\ events \in 0..MaxEvents

\* The types of the HV service and the ones of the runtime.
LEMMA TypeParts ==
    TypeOK <=> HvTypeOK /\ ramp \subseteq Channels /\ RuntimeTypes /\ quiet \in BOOLEAN
  BY DEF TypeOK, RuntimeTypes, CommandStates, SafeStates

\* A step of the safe state succeeds only if the steps before it did.
LEMMA SafeGoesOn ==
    ASSUME safe \in SafeStates, NEW pc \in SafeSteps, NEW ok \in BOOLEAN, SafeGoes(pc, ok)
    PROVE  /\ safe' \in SafeStates /\ safe'.pc = pc /\ safe'.hv = safe.hv
           /\ safe'.ok = (safe.ok /\ ok)
<1>1. safe' = [safe EXCEPT !.pc = pc, !.ok = safe.ok /\ ok]
  BY DEF SafeGoes, SafeStates
<1>2. (safe.ok /\ ok) \in BOOLEAN
  OBVIOUS
<1> DEFINE b == safe.ok /\ ok
<1>3. safe' = [safe EXCEPT !.pc = pc, !.ok = b] /\ b \in BOOLEAN
  BY <1>1, <1>2
<1> HIDE DEF b
<1>4. safe' \in SafeStates /\ safe'.pc = pc /\ safe'.hv = safe.hv /\ safe'.ok = b
  BY <1>3 DEF SafeStates
<1> QED
  BY <1>4 DEF b

\* The safe state does not touch the channels, the threads or the session.
SafeEffect ==
    /\ HvTypeOK' /\ Sound(ch')
    /\ UNCHANGED <<hw, cmd, acqSafe, session, events>>
    /\ safe' \in SafeStates
    /\ service' \in BOOLEAN /\ rc19' \in BOOLEAN /\ mode' \in Modes /\ reconnect' \in BOOLEAN
    /\ producer' \in {"none", producer}

\* Its steps, but the ones that change the HV service itself.
LEMMA SafeStepLeavesHv ==
    ASSUME TypeOK, ListsConsistent,
           StopAcqCheck \/ ZeroFirst \/ StopProducer \/ ZeroLast \/ TestMode
    PROVE  SafeEffect /\ UNCHANGED <<ch, hw, queue, job, pending, reply>>
<1>1. /\ HvTypeOK /\ Sound(ch) /\ safe \in SafeStates
      /\ service \in BOOLEAN /\ rc19 \in BOOLEAN /\ mode \in Modes /\ reconnect \in BOOLEAN
      /\ "test" \in Modes
  BY DEF TypeOK, HvTypeOK, ListsConsistent, Sound, SafeStates, Modes
<1>2. \A pc \in SafeSteps, ok \in BOOLEAN : SafeGoes(pc, ok) => safe' \in SafeStates
  BY <1>1, SafeGoesOn
<1>3. {"first", "producer", "link", "last", "mode", "done"} \subseteq SafeSteps
  BY DEF SafeSteps
<1>4. RcWorks \/ RcFails => faults' \in 0..MaxFaults
  BY <1>1, RcStepTypes
<1>5. CASE StopAcqCheck
  BY <1>1, <1>2, <1>3, <1>5 DEF StopAcqCheck, SafeEffect, restOfBoard, HvTypeOK
<1>6. CASE ZeroFirst
  BY <1>1, <1>2, <1>3, <1>4, <1>6 DEF ZeroFirst, SafeEffect, restOfBoard, HvTypeOK
<1>7. CASE StopProducer
  BY <1>1, <1>2, <1>3, <1>7
     DEF StopProducer, ProducerStopped, SafeEffect, restOfBoard, hvVars, HvTypeOK
<1>8. CASE ZeroLast
  BY <1>1, <1>2, <1>3, <1>4, <1>8 DEF ZeroLast, SafeEffect, restOfBoard, HvTypeOK
<1>9. CASE TestMode
  BY <1>1, <1>2, <1>3, <1>9 DEF TestMode, Enters, SafeEffect, restOfBoard, HvTypeOK
<1> QED
  BY <1>5, <1>6, <1>7, <1>8, <1>9

\* The service of the start of the client.
LEMMA StartupEffect ==
    ASSUME TypeOK, ListsConsistent, Startup
    PROVE  /\ SafeEffect /\ UNCHANGED <<queue, job, pending, reply>>
           /\ safe'.pc = "stopcheck" /\ service' = TRUE
<1>1. /\ HvTypeOK /\ safe \in SafeStates /\ mode \in Modes /\ reconnect \in BOOLEAN
      /\ "stopcheck" \in SafeSteps
  BY DEF TypeOK, SafeStates, SafeSteps
<1>2. /\ faults' \in 0..MaxFaults /\ link' \in BOOLEAN
      /\ service' = TRUE /\ rc19' = FALSE /\ Sound(ch')
  <2>1. {} \in SUBSET Channels
    OBVIOUS
  <2> QED
    BY <1>1, <2>1, RcStepTypes DEF Startup
<1>3. safe' \in SafeStates /\ safe'.pc = "stopcheck"
  <2>1. safe' = [safe EXCEPT !.pc = "stopcheck", !.hv = TRUE, !.ok = link']
    BY DEF Startup
  <2> QED
    BY <1>1, <1>2, <2>1 DEF SafeStates
<1>4. /\ producer' = "none"
      /\ UNCHANGED <<hw, queue, job, pending, policy, acqCheck, params, reply,
                     mode, restOfBoard>>
  BY DEF Startup
<1>5. HvTypeOK'
  BY <1>1, <1>2, <1>4 DEF HvTypeOK, Sound
<1> QED
  BY <1>1, <1>2, <1>3, <1>4, <1>5 DEF SafeEffect, restOfBoard

\* The requests of the safe state.
LEMMA SafeRequest ==
    ASSUME TypeOK, ListsConsistent, OpenLink \/ SwitchedOff \/ ForcedOff
    PROVE  /\ SafeEffect /\ UNCHANGED <<ch, hw, job, pending, service, producer>>
           /\ \A k \in Callers \ {"safe"} : reply'[k] = reply[k]
           /\ \/ /\ queue' = queue /\ reply'["safe"] = NoReply
                 /\ SafeGoes("last", reply["safe"].st = "ok")
                 /\ SwitchedOff \/ ForcedOff
              \/ /\ reply'["safe"] = Waiting
                 /\ \E r \in Requests, n \in 1..(Len(queue) + 1) :
                       /\ InsertedAt(queue', queue, n, r)
                       /\ r.from = "safe" /\ ~r.late
                       /\ \/ /\ OpenLink /\ safe'.pc = "off" /\ safe'.hv = safe.hv
                             /\ r.cmd = "hv_off_and_wait" /\ r.chans = Channels
                          \/ /\ SwitchedOff /\ safe'.pc = "force" /\ safe'.hv = safe.hv
                             /\ safe'.ok = safe.ok
                             /\ reply["safe"].st = "ok"
                             /\ r.cmd = "hv_force_off" /\ r.chans = reply["safe"].skipped
<1>1. /\ HvTypeOK /\ Sound(ch) /\ safe \in SafeStates
      /\ service \in BOOLEAN /\ rc19 \in BOOLEAN /\ mode \in Modes /\ reconnect \in BOOLEAN
      /\ reply \in [Callers -> Replies] /\ NoReply \in Replies
      /\ "safe" \in Callers
  BY ThreadsCall
     DEF TypeOK, HvTypeOK, ListsConsistent, Sound, SafeStates, NoReply, Replies
<1>2. \A pc \in SafeSteps, ok \in BOOLEAN : SafeGoes(pc, ok) =>
          /\ safe' \in SafeStates /\ safe'.pc = pc /\ safe'.hv = safe.hv
          /\ safe'.ok = (safe.ok /\ ok)
  BY <1>1, SafeGoesOn
<1>3. {"off", "force", "last"} \subseteq SafeSteps
  BY DEF SafeSteps
<1>4. RcWorks \/ RcFails => faults' \in 0..MaxFaults
  BY <1>1, RcStepTypes
<1>5. ASSUME NEW x \in {"hv_off_and_wait", "hv_force_off"}, NEW cs \in SUBSET Channels,
             Submit("safe", x, cs, EMERGENCY)
      PROVE  /\ queue' \in Seq(Requests) /\ reply' \in [Callers -> Replies]
             /\ reply'["safe"] = Waiting
             /\ \A k \in Callers \ {"safe"} : reply'[k] = reply[k]
             /\ \E r \in Requests, n \in 1..(Len(queue) + 1) :
                    /\ InsertedAt(queue', queue, n, r)
                    /\ r.from = "safe" /\ ~r.late /\ r.cmd = x /\ r.chans = cs
  <2> DEFINE r == Request(x, cs, EMERGENCY, "safe")
  <2>1. x \in Commands
    BY ThreadsCall
  <2>2. /\ queue' \in Seq(Requests) /\ reply' \in [Callers -> Replies]
        /\ reply' = [reply EXCEPT !["safe"] = Waiting] /\ r \in Requests
        /\ \E n \in 1..(Len(queue) + 1) : InsertedAt(queue', queue, n, r)
    BY <1>1, <1>5, <2>1, SubmitQueues
  <2>3. r.from = "safe" /\ ~r.late /\ r.cmd = x /\ r.chans = cs
    BY DEF Request
  <2> HIDE DEF r
  <2>4. /\ reply'["safe"] = Waiting
        /\ \A k \in Callers \ {"safe"} : reply'[k] = reply[k]
    BY <1>1, <2>2
  <2> QED
    BY <2>2, <2>3, <2>4
<1>6. reply' = [reply EXCEPT !["safe"] = NoReply] =>
          /\ reply' \in [Callers -> Replies] /\ reply'["safe"] = NoReply
          /\ \A k \in Callers \ {"safe"} : reply'[k] = reply[k]
  BY <1>1
<1>7. CASE OpenLink
  <2>1. /\ Submit("safe", "hv_off_and_wait", Channels, EMERGENCY)
        /\ UNCHANGED <<ch, hw, job, pending, policy, acqCheck, params, service,
                       mode, producer, restOfBoard>>
        /\ RcWorks \/ RcFails
        /\ SafeGoes("off", TRUE) \/ SafeGoes("off", FALSE)
    BY <1>7 DEF OpenLink
  <2>2. link' \in BOOLEAN /\ rc19' \in BOOLEAN
    BY <1>1, <1>7 DEF OpenLink, HvTypeOK
  <2>3. safe' \in SafeStates /\ safe'.pc = "off" /\ safe'.hv = safe.hv
    BY <1>2, <1>3, <2>1
  <2>4. /\ queue' \in Seq(Requests) /\ reply' \in [Callers -> Replies]
        /\ reply'["safe"] = Waiting
        /\ \A k \in Callers \ {"safe"} : reply'[k] = reply[k]
        /\ \E r \in Requests, n \in 1..(Len(queue) + 1) :
                    /\ InsertedAt(queue', queue, n, r)
                    /\ r.from = "safe" /\ ~r.late /\ r.cmd = "hv_off_and_wait"
                    /\ r.chans = Channels
    BY <1>5, <2>1
  <2>5. HvTypeOK'
    BY <1>1, <1>4, <2>1, <2>2, <2>4 DEF HvTypeOK
  <2>6. SafeEffect
    BY <1>1, <2>1, <2>2, <2>3, <2>5 DEF SafeEffect, restOfBoard
  <2> QED
    BY <1>7, <2>1, <2>3, <2>4, <2>6
<1>8. CASE SwitchedOff \/ ForcedOff
  <2>1. UNCHANGED <<ch, hw, link, job, pending, policy, acqCheck, params,
                    faults, service, mode, producer, rc19, restOfBoard>>
    BY <1>8 DEF SwitchedOff, ForcedOff
  <2>2. CASE /\ SafeGoes("last", reply["safe"].st = "ok") /\ UNCHANGED queue
             /\ reply' = [reply EXCEPT !["safe"] = NoReply]
    <3>1. safe' \in SafeStates
      BY <1>2, <1>3, <2>2
    <3>2. HvTypeOK'
      BY <1>1, <1>6, <2>1, <2>2 DEF HvTypeOK
    <3>3. SafeEffect
      BY <1>1, <2>1, <3>1, <3>2 DEF SafeEffect, restOfBoard
    <3> QED
      BY <1>6, <1>8, <2>1, <2>2, <3>3
  <2>3. CASE /\ SwitchedOff /\ SafeGoes("force", TRUE) /\ reply["safe"].st = "ok"
             /\ Submit("safe", "hv_force_off", reply["safe"].skipped, EMERGENCY)
    <3>1. /\ safe' \in SafeStates /\ safe'.pc = "force" /\ safe'.hv = safe.hv
          /\ safe'.ok = (safe.ok /\ TRUE)
      BY <1>2, <1>3, <2>3
    <3>2. safe'.ok = safe.ok
      BY <1>1, <3>1 DEF SafeStates
    <3>3. reply["safe"].skipped \in SUBSET Channels
      BY <1>1 DEF Replies
    <3>4. /\ queue' \in Seq(Requests) /\ reply' \in [Callers -> Replies]
          /\ reply'["safe"] = Waiting
          /\ \A k \in Callers \ {"safe"} : reply'[k] = reply[k]
          /\ \E r \in Requests, n \in 1..(Len(queue) + 1) :
                    /\ InsertedAt(queue', queue, n, r)
                    /\ r.from = "safe" /\ ~r.late /\ r.cmd = "hv_force_off"
                    /\ r.chans = reply["safe"].skipped
      BY <1>5, <2>3, <3>3
    <3>5. HvTypeOK'
      BY <1>1, <2>1, <3>4 DEF HvTypeOK
    <3>6. SafeEffect
      BY <1>1, <2>1, <3>1, <3>5 DEF SafeEffect, restOfBoard
    <3> QED
      BY <2>1, <2>3, <3>1, <3>2, <3>4, <3>6
  <2> QED
    BY <1>8, <2>2, <2>3, Zenon DEF SwitchedOff, ForcedOff
<1> QED
  BY <1>7, <1>8

\* The end: at the start of the client the service goes, with all it had queued.
LEMMA SafeEndsEffect ==
    ASSUME TypeOK, ListsConsistent, SafeEnds
    PROVE  /\ SafeEffect /\ UNCHANGED <<reply, producer>> /\ safe'.pc = "idle"
           /\ \/ UNCHANGED <<queue, job, pending>>
              \/ queue' = <<>> /\ job' = NoJob /\ pending' = {}
<1>1. /\ HvTypeOK /\ Sound(ch) /\ safe \in SafeStates
      /\ service \in BOOLEAN /\ rc19 \in BOOLEAN /\ mode \in Modes
  BY DEF TypeOK, HvTypeOK, ListsConsistent, Sound, SafeStates
<1>2. Sound(NoLists) /\ NoJob \in Jobs /\ <<>> \in Seq(Requests)
  <2>1. {} \in SUBSET Channels
    OBVIOUS
  <2> QED
    BY <2>1, NewListsAreSound DEF NoJob, Jobs
<1>3. safe' \in SafeStates /\ safe'.pc = "idle"
  BY <1>1 DEF SafeEnds, SafeStates
<1>4. /\ reconnect' = TRUE
      /\ UNCHANGED <<hw, link, policy, acqCheck, params, reply, faults, cmd,
                     acqSafe, mode, producer, rc19, session, events>>
  BY DEF SafeEnds
<1>5. \/ UNCHANGED <<service, ch, queue, job, pending>>
      \/ /\ service' = FALSE /\ ch' = NoLists /\ queue' = <<>>
         /\ job' = NoJob /\ pending' = {}
  BY DEF SafeEnds
<1>6. HvTypeOK' /\ Sound(ch') /\ service' \in BOOLEAN
  BY <1>1, <1>2, <1>4, <1>5 DEF HvTypeOK, Sound
<1> QED
  BY <1>1, <1>3, <1>4, <1>5, <1>6 DEF SafeEffect

\* The connections leave the HV service and the threads alone.
LEMMA ConnectionEffect ==
    ASSUME TypeOK, ListsConsistent,
           ControlLost \/ ServerShutdown \/ Connects \/ AcquisitionLost \/ AcquisitionSafe
    PROVE  /\ UNCHANGED <<ch, hw, link, queue, job, pending, reply, cmd, service, mode>>
           /\ HvTypeOK' /\ RuntimeTypes'
           /\ producer' \in {"none", producer}
           /\ rc19' = FALSE \/ rc19' = rc19
           /\ \/ UNCHANGED safe
              \/ /\ ControlLost /\ safe.pc = "idle"
                 /\ safe' = [pc |-> "stopcheck", ok |-> TRUE, hv |-> service]
<1>1. HvTypeOK /\ RuntimeTypes
  BY TypeParts
<1>2. Happens => events' \in 0..MaxEvents
  BY <1>1, EventsAssumption DEF RuntimeTypes, Happens
<1>3. RcWorks \/ RcFails => faults' \in 0..MaxFaults
  BY <1>1, RcStepTypes
<1>4. ProducerStopped => producer' \in {"none", producer}
  BY DEF ProducerStopped
<1>5. [pc |-> "stopcheck", ok |-> TRUE, hv |-> service] \in SafeStates
  BY <1>1 DEF RuntimeTypes, SafeStates, SafeSteps
<1>6. CASE ControlLost
  <2>1. /\ session' = "down" /\ UNCHANGED <<restOfHv, acqSafe, producer>>
        /\ Happens \/ UNCHANGED events
        /\ \/ /\ safe.pc = "idle" /\ UNCHANGED reconnect
              /\ safe' = [pc |-> "stopcheck", ok |-> TRUE, hv |-> service]
           \/ UNCHANGED safe /\ reconnect' = TRUE
    BY <1>6 DEF ControlLost
  <2>2. HvTypeOK'
    BY <1>1, <2>1 DEF restOfHv, hvVars, HvTypeOK
  <2>3. RuntimeTypes'
    BY <1>1, <1>2, <1>5, <2>1 DEF restOfHv, RuntimeTypes
  <2> QED
    BY <1>6, <2>1, <2>2, <2>3 DEF restOfHv, hvVars
<1>7. CASE ServerShutdown
  <2>1. HvTypeOK' /\ RuntimeTypes'
    BY <1>1, <1>2, <1>4, <1>7 DEF ServerShutdown, restOfHv, hvVars, RuntimeTypes, HvTypeOK
  <2> QED
    BY <1>4, <1>7, <2>1 DEF ServerShutdown, restOfHv, hvVars
<1>8. CASE Connects
  <2>1. HvTypeOK'
    BY <1>1, <1>8 DEF Connects, restOfHv, hvVars, HvTypeOK
  <2>2. RuntimeTypes'
    BY <1>1, <1>8 DEF Connects, restOfHv, RuntimeTypes
  <2> QED
    BY <1>8, <2>1, <2>2 DEF Connects, restOfHv, hvVars
<1>9. CASE AcquisitionLost
  <2>1. HvTypeOK'
    BY <1>1, <1>9 DEF AcquisitionLost, restOfHv, hvVars, HvTypeOK
  <2>2. RuntimeTypes'
    BY <1>1, <1>2, <1>9 DEF AcquisitionLost, restOfHv, RuntimeTypes
  <2> QED
    BY <1>9, <2>1, <2>2 DEF AcquisitionLost, restOfHv, hvVars
<1>10. CASE AcquisitionSafe
  <2>1. /\ UNCHANGED <<ch, hw, link, queue, job, pending, policy, acqCheck, params,
                       reply, cmd, safe, service, mode, session, reconnect, events>>
        /\ RcWorks \/ RcFails \/ UNCHANGED faults
        /\ rc19' = FALSE \/ rc19' = rc19
        /\ ProducerStopped \/ UNCHANGED producer
        /\ acqSafe' \in {"producer", "idle"}
    BY <1>10 DEF AcquisitionSafe
  <2>2. HvTypeOK'
    BY <1>1, <1>3, <2>1 DEF HvTypeOK
  <2>3. RuntimeTypes'
    BY <1>1, <1>4, <2>1 DEF RuntimeTypes
  <2> QED
    BY <1>4, <2>1, <2>2, <2>3
<1> QED
  BY <1>6, <1>7, <1>8, <1>9, <1>10

----------------------------------------------------------------------------
(* Types and lists.                                                        *)

\* Every step keeps the types and the consistency of the lists.
LEMMA StepTypes ==
    ASSUME BoardInv, Step, Quiets, Ramps
    PROVE  TypeOK' /\ ListsConsistent' /\ WaitAfterwards'
<1>1. TypeOK /\ ListsConsistent /\ WaitAfterwards /\ HvTypeOK /\ RuntimeTypes
  BY TypeParts DEF BoardInv
<1>2. quiet' \in BOOLEAN /\ ramp' \subseteq Channels
  BY DEF Quiets, Ramps
<1>3. HvTypeOK' /\ RuntimeTypes' => TypeOK'
  BY <1>2 DEF TypeOK, RuntimeTypes, CommandStates, SafeStates
<1>4. Sound(ch') => ListsConsistent'
  BY DEF Sound, ListsConsistent
<1>5. CASE HvStep
  <2>1. HvTypeOK' /\ Sound(ch') /\ WaitAfterwards'
    BY <1>1, <1>5, HvStepTypes
  <2>2. UNCHANGED runtimeVars
    BY <1>5 DEF HvStep
  <2>3. RuntimeTypes'
    BY <1>1, <2>2 DEF RuntimeTypes, runtimeVars
  <2> QED
    BY <1>3, <1>4, <2>1, <2>3
<1>6. ASSUME NEW t \in Threads, CommandStep(t) \/ NewCommand(t)
      PROVE  TypeOK' /\ ListsConsistent' /\ WaitAfterwards'
  <2>1. ThreadEffect(t) /\ QueuesFor(t)
    BY <1>1, <1>6, ThreadStepEffect, ThreadStepQueues
  <2>2. HvTypeOK'
    BY <1>1, <2>1 DEF ThreadEffect, QueuesFor, HvTypeOK, Sound
  <2>3. producer' \in {"none", "spawned", "known"}
    BY <1>1, <2>1 DEF ThreadEffect, RuntimeTypes
  <2>4. RuntimeTypes'
    BY <1>1, <2>1, <2>3 DEF ThreadEffect, RuntimeTypes
  <2>5. Sound(ch') /\ WaitAfterwards'
    BY <1>1, <2>1 DEF ThreadEffect, WaitAfterwards
  <2> QED
    BY <1>3, <1>4, <2>2, <2>4, <2>5
<1>7. CASE SafeStep
  <2>1. SafeEffect /\ (UNCHANGED job \/ job' = NoJob)
    <3>1. CASE StopAcqCheck \/ ZeroFirst \/ StopProducer \/ ZeroLast \/ TestMode
      BY <1>1, <3>1, SafeStepLeavesHv
    <3>2. CASE Startup
      BY <1>1, <3>2, StartupEffect
    <3>3. CASE OpenLink \/ SwitchedOff \/ ForcedOff
      BY <1>1, <3>3, SafeRequest
    <3>4. CASE SafeEnds
      BY <1>1, <3>4, SafeEndsEffect
    <3> QED
      BY <1>7, <3>1, <3>2, <3>3, <3>4 DEF SafeStep
  <2>2. RuntimeTypes'
    BY <1>1, <2>1 DEF SafeEffect, RuntimeTypes
  <2>3. WaitAfterwards'
    BY <1>1, <2>1 DEF WaitAfterwards, NoJob
  <2> QED
    BY <1>3, <1>4, <2>1, <2>2, <2>3 DEF SafeEffect
<1>8. CASE ControlLost \/ ServerShutdown \/ Connects \/ AcquisitionLost \/ AcquisitionSafe
  <2>1. HvTypeOK' /\ RuntimeTypes' /\ UNCHANGED <<ch, job>>
    BY <1>1, <1>8, ConnectionEffect
  <2> QED
    BY <1>1, <1>3, <2>1 DEF ListsConsistent, WaitAfterwards
<1> QED
  BY <1>5, <1>6, <1>7, <1>8 DEF Step

----------------------------------------------------------------------------
(* The flags of the checks.                                                *)

\* The flag of a check is still right after a request is queued.
LEMMA FlagAfterInsertion ==
    ASSUME NEW k, NEW q \in Seq(Requests), NEW q2, NEW n, NEW r, NEW j, NEW p, NEW p2,
           FlagOf(k, q, j, p), InsertedAt(q2, q, n, r),
           \/ r.cmd # k /\ (k \in p2 <=> k \in p)
           \/ r.cmd = k /\ k \notin p /\ k \in p2
    PROVE  FlagOf(k, q2, j, p2)
<1>1. /\ Len(q) \in Nat /\ DOMAIN q = 1..Len(q) /\ DOMAIN q2 = 1..(Len(q) + 1)
      /\ n \in 1..(Len(q) + 1) /\ q2[n] = r
  BY DEF InsertedAt
<1>2. \A i \in DOMAIN q2 : i # n =>
          \E m \in DOMAIN q : m = (IF i < n THEN i ELSE i - 1) /\ q2[i] = q[m]
  BY <1>1 DEF InsertedAt
<1>3. \A m \in DOMAIN q :
          \E i \in DOMAIN q2 : i = (IF m < n THEN m ELSE m + 1) /\ q2[i] = q[m]
  BY <1>1 DEF InsertedAt
<1>4. CASE r.cmd # k /\ (k \in p2 <=> k \in p)
  <2>1. (\E i \in DOMAIN q2 : q2[i].cmd = k) <=> (\E i \in DOMAIN q : q[i].cmd = k)
    BY <1>1, <1>2, <1>3, <1>4
  <2>2. ASSUME NEW i1 \in DOMAIN q2, NEW i2 \in DOMAIN q2, q2[i1].cmd = k, q2[i2].cmd = k
        PROVE  i1 = i2
    <3>1. i1 # n /\ i2 # n
      BY <1>1, <1>4, <2>2
    <3>2. PICK m1 \in DOMAIN q : m1 = (IF i1 < n THEN i1 ELSE i1 - 1) /\ q2[i1] = q[m1]
      BY <1>2, <3>1
    <3>3. PICK m2 \in DOMAIN q : m2 = (IF i2 < n THEN i2 ELSE i2 - 1) /\ q2[i2] = q[m2]
      BY <1>2, <3>1
    <3>4. m1 = m2
      BY <2>2, <3>2, <3>3 DEF FlagOf
    <3> QED
      BY <1>1, <3>1, <3>2, <3>3, <3>4
  <2> QED
    BY <1>4, <2>1, <2>2 DEF FlagOf
<1>5. CASE r.cmd = k /\ k \notin p /\ k \in p2
  <2>1. j.cmd # k /\ \A i \in DOMAIN q : q[i].cmd # k
    BY <1>5 DEF FlagOf
  <2>2. \A i \in DOMAIN q2 : q2[i].cmd = k => i = n
    BY <1>2, <2>1
  <2> QED
    BY <1>1, <1>5, <2>1, <2>2 DEF FlagOf
<1> QED
  BY <1>4, <1>5

\* It is still right after the first request is begun or skipped.
LEMMA FlagAfterRemoval ==
    ASSUME NEW k, NEW q \in Seq(Requests), q # <<>>, NEW j, NEW j2, NEW p, NEW p2,
           FlagOf(k, q, j, p), j.cmd # k,
           \/ j2.cmd # k /\ (k \in p2 <=> k \in p /\ Head(q).cmd # k)
           \/ j2.cmd = Head(q).cmd /\ (k \in p2 <=> k \in p)
    PROVE  FlagOf(k, Tail(q), j2, p2)
<1>1. /\ 1 \in DOMAIN q /\ Head(q) = q[1]
      /\ \A i \in DOMAIN Tail(q) : i + 1 \in DOMAIN q /\ Tail(q)[i] = q[i + 1]
      /\ \A i \in DOMAIN q : i # 1 => i - 1 \in DOMAIN Tail(q) /\ Tail(q)[i - 1] = q[i]
      /\ DOMAIN q \subseteq Nat /\ DOMAIN Tail(q) \subseteq Nat /\ 0 \notin DOMAIN Tail(q)
  <2>1. Tail(q) \in Seq(Requests)
    BY TailOfQueue
  <2>2. DOMAIN Tail(q) = 1..Len(Tail(q)) /\ DOMAIN q = 1..Len(q)
    BY <2>1
  <2> QED
    BY <2>2, TailOfQueue
<1> DEFINE s == Tail(q)
<1> HIDE DEF s
<1>2. /\ \A i \in DOMAIN s : i + 1 \in DOMAIN q /\ s[i] = q[i + 1]
      /\ \A i \in DOMAIN q : i # 1 => i - 1 \in DOMAIN s /\ s[i - 1] = q[i]
      /\ DOMAIN s \subseteq Nat /\ 0 \notin DOMAIN s
  BY <1>1 DEF s
<1>3. \A i1, i2 \in DOMAIN s : s[i1].cmd = k /\ s[i2].cmd = k => i1 = i2
  BY <1>2 DEF FlagOf
<1>4. CASE Head(q).cmd = k
  <2>1. \A i \in DOMAIN q : q[i].cmd = k => i = 1
    BY <1>1, <1>4 DEF FlagOf
  <2>2. \A i \in DOMAIN s : s[i].cmd # k
    BY <1>2, <2>1
  <2>3. k \in p
    BY <1>1, <1>4 DEF FlagOf
  <2> QED
    BY <1>3, <1>4, <2>2, <2>3 DEF FlagOf, s
<1>5. CASE Head(q).cmd # k
  <2>1. (\E i \in DOMAIN s : s[i].cmd = k) <=> (\E i \in DOMAIN q : q[i].cmd = k)
    BY <1>1, <1>2, <1>5
  <2> QED
    BY <1>3, <1>5, <2>1 DEF FlagOf, s
<1> QED
  BY <1>4, <1>5

\* Every step keeps the flags in step with the requests.
LEMMA StepFlags ==
    ASSUME BoardInv, Step
    PROVE  Flags'
<1>1. /\ TypeOK /\ ListsConsistent /\ WaitAfterwards /\ HvTypeOK /\ Flags
      /\ queue \in Seq(Requests) /\ job \in Jobs
  BY TypeParts DEF BoardInv, HvTypeOK
<1> SUFFICES ASSUME NEW k \in Numbered
             PROVE  FlagOf(k, queue', job', pending')
  BY DEF Flags, FlagOf
<1>2. FlagOf(k, queue, job, pending) /\ k \in Checks /\ k # "check_channel_acquisition"
  BY <1>1 DEF Flags, Numbered
<1>3. NoJob.cmd # k
  BY <1>2 DEF NoJob, Checks
<1>4. \A x : k \in Cleared(x) <=> k \in pending /\ x # k
  BY <1>2 DEF Cleared
<1>5. UNCHANGED <<queue, pending>> /\ job'.cmd = job.cmd => FlagOf(k, queue', job', pending')
  BY <1>2 DEF FlagOf
<1>6. ASSUME NEW r \in Requests, NEW n, InsertedAt(queue', queue, n, r),
             r.cmd \notin Checks, UNCHANGED <<job, pending>>
      PROVE  FlagOf(k, queue', job', pending')
  <2>1. r.cmd # k
    BY <1>2, <1>6
  <2>2. FlagOf(k, queue', job, pending)
    BY <1>1, <1>2, <1>6, <2>1, FlagAfterInsertion
  <2> QED
    BY <1>6, <2>2
<1>7. CASE WorkerSkips
  <2>1. /\ job = NoJob /\ queue # <<>> /\ queue' = Tail(queue) /\ job' = job
        /\ pending' = Cleared(Head(queue).cmd)
    BY <1>7 DEF WorkerSkips
  <2>2. k \in pending' <=> k \in pending /\ Head(queue).cmd # k
    BY <1>4, <2>1
  <2>3. FlagOf(k, Tail(queue), job, pending')
    BY <1>1, <1>2, <1>3, <2>1, <2>2, FlagAfterRemoval
  <2> QED
    BY <2>1, <2>3
<1>8. CASE WorkerBegins
  <2>1. /\ job = NoJob /\ queue # <<>> /\ queue' = Tail(queue) /\ pending' = pending
    BY <1>8 DEF WorkerBegins
  <2>2. job'.cmd = Head(queue).cmd
    BY <1>1, <1>8, <2>1, TailOfQueue, BegunJob DEF WorkerBegins
  <2>3. FlagOf(k, Tail(queue), job', pending')
    BY <1>1, <1>2, <1>3, <2>1, <2>2, FlagAfterRemoval
  <2> QED
    BY <2>1, <2>3
<1>9. CASE WorkerHandles \/ WorkerWaits
  <2>1. UNCHANGED <<queue, pending>> /\ job'.cmd = job.cmd
    BY <1>1, <1>9, WorkerOnChannel
  <2> QED
    BY <1>5, <2>1
<1>10. CASE WorkerEnds
  <2>1. job' = NoJob /\ pending' = Cleared(job.cmd) /\ queue' = queue
    BY <1>10 DEF WorkerEnds
  <2>2. k \in pending' <=> k \in pending /\ job.cmd # k
    BY <1>4, <2>1
  <2> QED
    BY <1>2, <1>3, <2>1, <2>2 DEF FlagOf
<1>11. CASE CheckSafety \/ CheckPower \/ CheckRecovery \/ CheckAcquisition
  <2>1. PICK r \in Requests, n \in 1..(Len(queue) + 1) :
            /\ InsertedAt(queue', queue, n, r)
            /\ r.cmd \in Checks \ pending /\ pending' = pending \cup {r.cmd}
    BY <1>1, <1>11, CheckQueues
  <2>2. UNCHANGED job
    BY <1>1, <1>11, CheckQueues
  <2>3. FlagOf(k, queue', job, pending')
    BY <1>1, <1>2, <2>1, FlagAfterInsertion
  <2> QED
    BY <2>2, <2>3
<1>12. CASE CheckExpires \/ \E c \in Callers : RequestTimeout(c)
  <2>1. DOMAIN queue' = DOMAIN queue /\ \A i \in DOMAIN queue : queue'[i].cmd = queue[i].cmd
    BY <1>1, <1>12, DeadlineQueues
  <2>2. job'.cmd = job.cmd /\ pending' = pending
    BY <1>1, <1>12 DEF CheckExpires, RequestTimeout, Jobs
  <2> QED
    BY <1>2, <2>1, <2>2 DEF FlagOf
<1>13. CASE \E c \in Channels : Trip(c)
  BY <1>5, <1>13 DEF Trip
<1>14. CASE HvStep
  BY <1>7, <1>8, <1>9, <1>10, <1>11, <1>12, <1>13, <1>14 DEF HvStep, WorkerStep
<1>15. ASSUME NEW t \in Threads, CommandStep(t) \/ NewCommand(t)
       PROVE  FlagOf(k, queue', job', pending')
  <2>1. QueuesFor(t) /\ UNCHANGED <<job, pending>>
    BY <1>1, <1>15, ThreadStepEffect, ThreadStepQueues DEF ThreadEffect
  <2> QED
    BY <1>5, <1>6, <2>1 DEF QueuesFor
<1>16. CASE SafeStep
  <2>1. CASE StopAcqCheck \/ ZeroFirst \/ StopProducer \/ ZeroLast \/ TestMode \/ Startup
    BY <1>1, <1>5, <2>1, SafeStepLeavesHv, StartupEffect
  <2>2. CASE OpenLink \/ SwitchedOff \/ ForcedOff
    <3>1. UNCHANGED <<job, pending>>
      BY <1>1, <2>2, SafeRequest
    <3>2. \/ queue' = queue
          \/ \E r \in Requests, n \in 1..(Len(queue) + 1) :
                 /\ InsertedAt(queue', queue, n, r)
                 /\ r.cmd \in {"hv_off_and_wait", "hv_force_off"}
      BY <1>1, <2>2, SafeRequest
    <3> QED
      BY <1>5, <1>6, <3>1, <3>2, ThreadsCall
  <2>3. CASE SafeEnds
    <3>1. \/ UNCHANGED <<queue, job, pending>>
          \/ queue' = <<>> /\ job' = NoJob /\ pending' = {}
      BY <1>1, <2>3, SafeEndsEffect
    <3> QED
      BY <1>3, <1>5, <3>1 DEF FlagOf
  <2> QED
    BY <1>16, <2>1, <2>2, <2>3 DEF SafeStep
<1>17. CASE ControlLost \/ ServerShutdown \/ Connects \/ AcquisitionLost \/ AcquisitionSafe
  BY <1>1, <1>5, <1>17, ConnectionEffect
<1> QED
  BY <1>14, <1>15, <1>16, <1>17 DEF Step

\* The flags, counted.
LEMMA FlagsAreCounts ==
    ASSUME TypeOK, Flags
    PROVE  PendingAccounted
<1> SUFFICES ASSUME NEW k \in Numbered
             PROVE  Outstanding(k) = IF k \in pending THEN 1 ELSE 0
  BY DEF PendingAccounted, Numbered
<1> DEFINE S == {i \in DOMAIN queue : queue[i].cmd = k}
<1>1. FlagOf(k, queue, job, pending)
  BY DEF Flags
<1>2. CASE S = {}
  <2>1. Cardinality(S) = 0
    BY <1>2, FS_EmptySet
  <2>2. \A i \in DOMAIN queue : queue[i].cmd # k
    BY <1>2
  <2> QED
    BY <1>1, <2>1, <2>2 DEF Outstanding, FlagOf
<1>3. CASE S # {}
  <2>1. PICK i \in S : TRUE
    BY <1>3
  <2>2. S = {i}
    BY <1>1, <2>1 DEF FlagOf
  <2>3. Cardinality(S) = 1
    BY <2>2, FS_Singleton
  <2>4. k \in pending /\ job.cmd # k
    BY <1>1, <2>1 DEF FlagOf
  <2> QED
    BY <2>3, <2>4 DEF Outstanding
<1> QED
  BY <1>2, <1>3

----------------------------------------------------------------------------
(* The request of the safe state.                                          *)

NoneLive(q) == \A i \in DOMAIN q : ~Live(q[i])
OneLive(q) == \A i1, i2 \in DOMAIN q : Live(q[i1]) /\ Live(q[i2]) => i1 = i2

\* Queueing a request adds at most that one to those of the safe state.
LEMMA LiveAfterInsertion ==
    ASSUME NEW q \in Seq(Requests), NEW q2, NEW n, NEW r, InsertedAt(q2, q, n, r)
    PROVE  /\ ~Live(r) /\ NoneLive(q) => NoneLive(q2)
           /\ ~Live(r) /\ OneLive(q) => OneLive(q2)
           /\ NoneLive(q) => OneLive(q2)
           /\ \A i \in DOMAIN q2 : q2[i] = r \/ \E m \in DOMAIN q : q2[i] = q[m]
<1>1. /\ Len(q) \in Nat /\ DOMAIN q = 1..Len(q) /\ DOMAIN q2 = 1..(Len(q) + 1)
      /\ n \in 1..(Len(q) + 1) /\ q2[n] = r
  BY DEF InsertedAt
<1>2. \A i \in DOMAIN q2 : i # n =>
          \E m \in DOMAIN q : m = (IF i < n THEN i ELSE i - 1) /\ q2[i] = q[m]
  BY <1>1 DEF InsertedAt
<1>3. ~Live(r) /\ NoneLive(q) => NoneLive(q2)
  BY <1>1, <1>2 DEF NoneLive
<1>4. ASSUME ~Live(r), OneLive(q), NEW i1 \in DOMAIN q2, NEW i2 \in DOMAIN q2,
             Live(q2[i1]), Live(q2[i2])
      PROVE  i1 = i2
  <2>1. i1 # n /\ i2 # n
    BY <1>1, <1>4
  <2>2. PICK m1 \in DOMAIN q : m1 = (IF i1 < n THEN i1 ELSE i1 - 1) /\ q2[i1] = q[m1]
    BY <1>2, <2>1
  <2>3. PICK m2 \in DOMAIN q : m2 = (IF i2 < n THEN i2 ELSE i2 - 1) /\ q2[i2] = q[m2]
    BY <1>2, <2>1
  <2>4. m1 = m2
    BY <1>4, <2>2, <2>3 DEF OneLive
  <2> QED
    BY <1>1, <2>1, <2>2, <2>3, <2>4
<1>5. NoneLive(q) => OneLive(q2)
  BY <1>1, <1>2 DEF NoneLive, OneLive
<1>6. \A i \in DOMAIN q2 : q2[i] = r \/ \E m \in DOMAIN q : q2[i] = q[m]
  BY <1>1, <1>2
<1> QED
  BY <1>3, <1>4, <1>5, <1>6 DEF OneLive

\* Taking the first request adds none.
LEMMA LiveAfterRemoval ==
    ASSUME NEW q \in Seq(Requests), q # <<>>
    PROVE  /\ NoneLive(q) => NoneLive(Tail(q))
           /\ OneLive(q) => OneLive(Tail(q))
           /\ OneLive(q) /\ Live(Head(q)) => NoneLive(Tail(q))
           /\ \A i \in DOMAIN Tail(q) : \E m \in DOMAIN q : Tail(q)[i] = q[m]
<1> DEFINE s == Tail(q)
<1>1. /\ 1 \in DOMAIN q /\ Head(q) = q[1]
      /\ \A i \in DOMAIN s : i + 1 \in DOMAIN q /\ s[i] = q[i + 1]
      /\ DOMAIN s \subseteq Nat /\ 0 \notin DOMAIN s
  <2>1. s \in Seq(Requests)
    BY TailOfQueue
  <2>2. DOMAIN s = 1..Len(s)
    BY <2>1
  <2> QED
    BY <2>2, TailOfQueue
<1> HIDE DEF s
<1>2. NoneLive(q) => NoneLive(s)
  BY <1>1 DEF NoneLive
<1>3. OneLive(q) => OneLive(s)
  BY <1>1 DEF OneLive
<1>4. OneLive(q) /\ Live(Head(q)) => NoneLive(s)
  BY <1>1 DEF OneLive, NoneLive
<1> QED
  BY <1>1, <1>2, <1>3, <1>4 DEF s

\* OneSafeRequest in terms of the queue.
LEMMA SafeRequestParts ==
    OneSafeRequest <=>
        /\ safe.pc \notin {"off", "force"} => reply["safe"].st = "none"
        /\ reply["safe"].st # "wait" => job.from # "safe" /\ NoneLive(queue)
        /\ OneLive(queue)
        /\ job.from = "safe" => NoneLive(queue)
  BY DEF OneSafeRequest, NoneLive, OneLive

\* The same after a step.
LEMMA SafeRequestPartsNext ==
    OneSafeRequest' <=>
        /\ safe'.pc \notin {"off", "force"} => reply'["safe"].st = "none"
        /\ reply'["safe"].st # "wait" => job'.from # "safe" /\ NoneLive(queue')
        /\ OneLive(queue')
        /\ job'.from = "safe" => NoneLive(queue')
  BY DEF OneSafeRequest, NoneLive, OneLive, Live

\* The HV thread and the deadlines: the request is begun, skipped or late at most
\* once, and its reply is the one the safe state waits for.
LEMMA HvStepSafeRequest ==
    ASSUME BoardInv, HvStep
    PROVE  OneSafeRequest'
<1>1. /\ TypeOK /\ ListsConsistent /\ WaitAfterwards /\ HvTypeOK /\ OneSafeRequest
      /\ queue \in Seq(Requests) /\ job \in Jobs /\ reply \in [Callers -> Replies]
      /\ "safe" \in Callers /\ "none" \notin Callers
  BY TypeParts, ThreadsCall DEF BoardInv, HvTypeOK
<1>2. /\ safe.pc \notin {"off", "force"} => reply["safe"].st = "none"
      /\ reply["safe"].st # "wait" => job.from # "safe" /\ NoneLive(queue)
      /\ OneLive(queue)
      /\ job.from = "safe" => NoneLive(queue)
  BY <1>1, SafeRequestParts
<1>3. safe' = safe
  BY DEF HvStep, runtimeVars
<1>4. NoJob.from # "safe"
  BY DEF NoJob
<1>5. CASE WorkerSkips
  <2>1. /\ job = NoJob /\ queue # <<>> /\ queue' = Tail(queue) /\ job' = job
        /\ Head(queue).late => UNCHANGED reply
        /\ ~Head(queue).late => Answer(Head(queue).from, "error", {})
    BY <1>5 DEF WorkerSkips
  <2>2. /\ NoneLive(queue) => NoneLive(queue')
        /\ OneLive(queue')
        /\ Live(Head(queue)) => NoneLive(queue')
    BY <1>1, <1>2, <2>1, LiveAfterRemoval
  <2>3. \/ reply'["safe"] = reply["safe"]
        \/ Live(Head(queue)) /\ reply["safe"].st = "wait" /\ reply'["safe"].st = "error"
    <3>1. CASE Head(queue).late
      BY <2>1, <3>1
    <3>2. CASE ~Head(queue).late
      <4>1. {} \in SUBSET Channels /\ "error" \in {"ok", "error"}
        OBVIOUS
      <4>2. Answer(Head(queue).from, "error", {})
        BY <2>1, <3>2
      <4>3. /\ \A u \in Callers : u # Head(queue).from \/ reply[u].st # "wait"
                                      => reply'[u] = reply[u]
            /\ Head(queue).from \in Callers /\ reply[Head(queue).from].st = "wait" =>
                   reply'[Head(queue).from].st = "error"
        BY <1>1, <4>1, <4>2, AnswerOfCaller
      <4>4. CASE Head(queue).from = "safe" /\ reply["safe"].st = "wait"
        BY <1>1, <3>2, <4>3, <4>4 DEF Live
      <4>5. CASE ~(Head(queue).from = "safe" /\ reply["safe"].st = "wait")
        BY <1>1, <4>3, <4>5
      <4> QED
        BY <4>4, <4>5
    <3> QED
      BY <3>1, <3>2
  <2> QED
    BY <1>2, <1>3, <1>4, <2>1, <2>2, <2>3, SafeRequestPartsNext
<1>6. CASE WorkerBegins
  <2>1. /\ job = NoJob /\ queue # <<>> /\ queue' = Tail(queue) /\ reply' = reply
        /\ ~Head(queue).late
    BY <1>6 DEF WorkerBegins
  <2>2. job'.from = Head(queue).from
    BY <1>1, <1>6, <2>1, TailOfQueue, BegunJob DEF WorkerBegins
  <2>3. /\ NoneLive(queue) => NoneLive(queue')
        /\ OneLive(queue')
        /\ Live(Head(queue)) => NoneLive(queue')
    BY <1>1, <1>2, <2>1, LiveAfterRemoval
  <2>4. job'.from = "safe" => Live(Head(queue)) /\ ~NoneLive(queue)
    BY <1>1, <2>1, <2>2, TailOfQueue DEF Live, NoneLive
  <2> QED
    BY <1>2, <1>3, <2>1, <2>3, <2>4, SafeRequestPartsNext
<1>7. CASE WorkerHandles \/ WorkerWaits
  <2>1. UNCHANGED <<queue, reply>> /\ job'.from = job.from
    BY <1>1, <1>7, WorkerOnChannel
  <2> QED
    BY <1>2, <1>3, <2>1, SafeRequestPartsNext
<1>8. CASE WorkerEnds
  <2>1. /\ job' = NoJob /\ queue' = queue
        /\ Answer(job.from, IF job.failed = {} THEN "ok" ELSE "error", job.skipped)
    BY <1>8 DEF WorkerEnds
  <2>2. job.skipped \in SUBSET Channels
    BY <1>1 DEF Jobs
  <2>3. \/ reply'["safe"] = reply["safe"]
        \/ job.from = "safe" /\ reply["safe"].st = "wait" /\ reply'["safe"].st # "wait"
    <3> DEFINE st == IF job.failed = {} THEN "ok" ELSE "error"
    <3>1. st \in {"ok", "error"} /\ Answer(job.from, st, job.skipped)
      BY <2>1
    <3> HIDE DEF st
    <3>2. /\ \A u \in Callers : u # job.from \/ reply[u].st # "wait"
                                    => reply'[u] = reply[u]
          /\ job.from \in Callers /\ reply[job.from].st = "wait" =>
                 reply'[job.from].st = st
      BY <1>1, <2>2, <3>1, AnswerOfCaller
    <3>3. CASE job.from = "safe" /\ reply["safe"].st = "wait"
      BY <1>1, <3>1, <3>2, <3>3
    <3>4. CASE ~(job.from = "safe" /\ reply["safe"].st = "wait")
      BY <1>1, <3>2, <3>4
    <3> QED
      BY <3>3, <3>4
  <2> QED
    BY <1>2, <1>3, <1>4, <2>1, <2>3, SafeRequestPartsNext
<1>9. CASE CheckSafety \/ CheckPower \/ CheckRecovery \/ CheckAcquisition
  <2>1. PICK r \in Requests, n \in 1..(Len(queue) + 1) :
            InsertedAt(queue', queue, n, r) /\ r.from = "none"
    BY <1>1, <1>9, CheckQueues
  <2>2. UNCHANGED <<job, reply>>
    BY <1>1, <1>9, CheckQueues
  <2>3. ~Live(r)
    BY <2>1 DEF Live
  <2>4. (NoneLive(queue) => NoneLive(queue')) /\ OneLive(queue')
    BY <1>1, <1>2, <2>1, <2>3, LiveAfterInsertion
  <2> QED
    BY <1>2, <1>3, <2>2, <2>4, SafeRequestPartsNext
<1>10. CASE CheckExpires \/ \E k \in Callers : RequestTimeout(k)
  <2>1. /\ DOMAIN queue' = DOMAIN queue
        /\ \A i \in DOMAIN queue : Live(queue'[i]) => Live(queue[i])
    BY <1>1, <1>10, DeadlineQueues DEF Live
  <2>2. (NoneLive(queue) => NoneLive(queue')) /\ OneLive(queue')
    BY <1>2, <2>1 DEF NoneLive, OneLive
  <2>3. CASE CheckExpires
    <3>1. UNCHANGED <<job, reply>>
      BY <2>3 DEF CheckExpires
    <3> QED
      BY <1>2, <1>3, <2>2, <3>1, SafeRequestPartsNext
  <2>4. CASE \E k \in Callers : RequestTimeout(k)
    <3>1. PICK k \in Callers : RequestTimeout(k)
      BY <2>4
    <3>2. /\ job'.from = job.from \/ job'.from = "none"
          /\ job.from = k => job'.from = "none"
      BY <1>1, <3>1 DEF RequestTimeout, Jobs
    <3>3. CASE k = "safe"
      <4>1. reply["safe"].st = "wait"
        BY <3>1, <3>3 DEF RequestTimeout
      <4>2. \A i \in DOMAIN queue' : queue'[i].from = "safe" => queue'[i].late
        <5>1. ASSUME NEW i \in DOMAIN queue, queue'[i].from = "safe" PROVE queue'[i].late
          <6>1. queue'[i] = IF queue[i].from = k THEN [queue[i] EXCEPT !.late = TRUE]
                                                 ELSE queue[i]
            BY <3>1 DEF RequestTimeout
          <6>2. queue[i] \in Requests
            BY <1>1
          <6> QED
            BY <3>3, <5>1, <6>1, <6>2 DEF Requests
        <5> QED
          BY <2>1, <5>1
      <4>3. NoneLive(queue')
        BY <4>2 DEF NoneLive, Live
      <4> QED
        BY <1>2, <1>3, <2>2, <3>2, <3>3, <4>1, <4>3, SafeRequestPartsNext
    <3>4. CASE k # "safe"
      <4>1. reply'["safe"] = reply["safe"]
        BY <1>1, <3>1, <3>4 DEF RequestTimeout
      <4> QED
        BY <1>2, <1>3, <2>2, <3>2, <4>1, SafeRequestPartsNext
    <3> QED
      BY <3>3, <3>4
  <2> QED
    BY <1>10, <2>3, <2>4
<1>11. CASE \E c \in Channels : Trip(c)
  <2>1. UNCHANGED <<queue, job, reply>>
    BY <1>11 DEF Trip
  <2> QED
    BY <1>2, <1>3, <2>1, SafeRequestPartsNext
<1> QED
  BY <1>5, <1>6, <1>7, <1>8, <1>9, <1>10, <1>11 DEF HvStep, WorkerStep

\* Every step: a request is queued only when the earlier one is over.
LEMMA StepSafeRequest ==
    ASSUME BoardInv, Step
    PROVE  OneSafeRequest'
<1>1. /\ TypeOK /\ ListsConsistent /\ HvTypeOK /\ OneSafeRequest
      /\ queue \in Seq(Requests) /\ "safe" \in Callers
  BY TypeParts, ThreadsCall DEF BoardInv, HvTypeOK
<1>2. /\ safe.pc \notin {"off", "force"} => reply["safe"].st = "none"
      /\ reply["safe"].st # "wait" => job.from # "safe" /\ NoneLive(queue)
      /\ OneLive(queue)
      /\ job.from = "safe" => NoneLive(queue)
  BY <1>1, SafeRequestParts
<1>3. CASE HvStep
  BY <1>3, HvStepSafeRequest
<1>4. ASSUME NEW t \in Threads, CommandStep(t) \/ NewCommand(t)
      PROVE  OneSafeRequest'
  <2>1. QueuesFor(t) /\ ThreadEffect(t) /\ t # "safe"
    BY <1>1, <1>4, ThreadStepEffect, ThreadStepQueues, ThreadsCall
  <2>2. UNCHANGED <<safe, job>> /\ reply'["safe"] = reply["safe"]
    BY <1>1, <2>1 DEF ThreadEffect, QueuesFor
  <2>3. (NoneLive(queue) => NoneLive(queue')) /\ OneLive(queue')
    <3>1. CASE queue' = queue
      BY <1>2, <3>1
    <3>2. CASE queue' # queue
      <4>1. PICK r \in Requests, n \in 1..(Len(queue) + 1) :
                InsertedAt(queue', queue, n, r) /\ r.from = t
        BY <2>1, <3>2 DEF QueuesFor
      <4>2. ~Live(r)
        BY <2>1, <4>1 DEF Live
      <4> QED
        BY <1>1, <1>2, <4>1, <4>2, LiveAfterInsertion
    <3> QED
      BY <3>1, <3>2
  <2> QED
    BY <1>2, <2>2, <2>3, SafeRequestPartsNext
<1>5. CASE SafeStep
  <2>1. CASE StopAcqCheck \/ ZeroFirst \/ StopProducer \/ ZeroLast \/ TestMode \/ Startup
    <3>1. UNCHANGED <<queue, job, reply>>
      BY <1>1, <2>1, SafeStepLeavesHv, StartupEffect
    <3>2. safe.pc \notin {"off", "force"}
      BY <2>1 DEF StopAcqCheck, ZeroFirst, StopProducer, ZeroLast, TestMode, Startup
    <3> QED
      BY <1>2, <3>1, <3>2, SafeRequestPartsNext
  <2>2. CASE OpenLink \/ SwitchedOff \/ ForcedOff
    <3>1. UNCHANGED job
      BY <1>1, <2>2, SafeRequest
    <3>2. reply["safe"].st # "wait"
      BY <1>2, <2>2 DEF OpenLink, SwitchedOff, ForcedOff
    <3>3. CASE queue' = queue /\ reply'["safe"] = NoReply
      BY <1>2, <3>1, <3>2, <3>3, SafeRequestPartsNext DEF NoReply
    <3>4. CASE ~(queue' = queue /\ reply'["safe"] = NoReply)
      <4>1. PICK r \in Requests, n \in 1..(Len(queue) + 1) :
                InsertedAt(queue', queue, n, r)
        BY <1>1, <2>2, <3>4, SafeRequest
      <4>2. reply'["safe"] = Waiting /\ safe'.pc \in {"off", "force"}
        BY <1>1, <2>2, <3>4, SafeRequest
      <4>3. OneLive(queue')
        BY <1>1, <1>2, <3>2, <4>1, LiveAfterInsertion
      <4> QED
        BY <1>2, <3>1, <3>2, <4>2, <4>3, SafeRequestPartsNext DEF Waiting
    <3> QED
      BY <3>3, <3>4
  <2>3. CASE SafeEnds
    <3>1. /\ UNCHANGED reply
          /\ \/ UNCHANGED <<queue, job>>
             \/ queue' = <<>> /\ job' = NoJob
      BY <1>1, <2>3, SafeEndsEffect
    <3>2. safe.pc \notin {"off", "force"}
      BY <2>3 DEF SafeEnds
    <3>3. NoneLive(<<>>) /\ OneLive(<<>>) /\ NoJob.from # "safe"
      BY DEF NoneLive, OneLive, NoJob
    <3> QED
      BY <1>2, <3>1, <3>2, <3>3, SafeRequestPartsNext
  <2> QED
    BY <1>5, <2>1, <2>2, <2>3 DEF SafeStep
<1>6. CASE ControlLost \/ ServerShutdown \/ Connects \/ AcquisitionLost \/ AcquisitionSafe
  <2>1. /\ UNCHANGED <<queue, job, reply>>
        /\ UNCHANGED safe \/ safe.pc = "idle"
    BY <1>1, <1>6, ConnectionEffect
  <2> QED
    BY <1>2, <2>1, SafeRequestPartsNext
<1> QED
  BY <1>3, <1>4, <1>5, <1>6 DEF Step

----------------------------------------------------------------------------
(* The producer, and the service of the safe state.                        *)

\* A process is spawned only by a thread that records it next.
LEMMA StepProducer ==
    ASSUME BoardInv, Step
    PROVE  SpawnedIsRecorded'
<1>1. TypeOK /\ ListsConsistent /\ SpawnedIsRecorded
  BY DEF BoardInv
<1>2. producer' \in {"none", producer} /\ UNCHANGED cmd => SpawnedIsRecorded'
  BY <1>1 DEF SpawnedIsRecorded, At
<1>3. CASE HvStep
  BY <1>2, <1>3 DEF HvStep, runtimeVars
<1>4. ASSUME NEW t \in Threads, CommandStep(t) \/ NewCommand(t)
      PROVE  SpawnedIsRecorded'
  <2>1. ThreadEffect(t)
    BY <1>1, <1>4, ThreadStepEffect
  <2>2. CASE producer' = producer /\ cmd[t].pc # "record"
    BY <1>1, <2>1, <2>2 DEF ThreadEffect, SpawnedIsRecorded, At
  <2>3. CASE cmd'[t].pc = "record" \/ producer' # "spawned"
    BY <2>3 DEF SpawnedIsRecorded, At
  <2> QED
    BY <2>1, <2>2, <2>3 DEF ThreadEffect
<1>5. CASE SafeStep
  <2>1. SafeEffect
    BY <1>1, <1>5, SafeStepLeavesHv, StartupEffect, SafeRequest, SafeEndsEffect DEF SafeStep
  <2> QED
    BY <1>2, <2>1 DEF SafeEffect
<1>6. CASE ControlLost \/ ServerShutdown \/ Connects \/ AcquisitionLost \/ AcquisitionSafe
  BY <1>1, <1>2, <1>6, ConnectionEffect
<1> QED
  BY <1>3, <1>4, <1>5, <1>6 DEF Step

\* The service is dropped only at the end of a safe state.
LEMMA StepService ==
    ASSUME BoardInv, Step
    PROVE  ServiceStays'
<1>1. TypeOK /\ ListsConsistent /\ ServiceStays /\ safe \in SafeStates
  BY TypeParts DEF BoardInv, RuntimeTypes
<1>2. UNCHANGED safe /\ (service' = service \/ service' = TRUE) => ServiceStays'
  BY <1>1 DEF ServiceStays
<1>3. CASE HvStep
  BY <1>2, <1>3 DEF HvStep, runtimeVars
<1>4. ASSUME NEW t \in Threads, CommandStep(t) \/ NewCommand(t)
      PROVE  ServiceStays'
  BY <1>1, <1>2, <1>4, ThreadStepEffect DEF ThreadEffect
<1>5. CASE SafeStep
  <2>1. \A pc \in SafeSteps, ok \in BOOLEAN : SafeGoes(pc, ok) =>
            safe'.pc = pc /\ safe'.hv = safe.hv
    BY <1>1, SafeGoesOn
  <2>2. {"first", "producer", "link", "off", "force", "last", "mode", "done"}
            \subseteq SafeSteps
    BY DEF SafeSteps
  <2>3. CASE Startup \/ SafeEnds
    BY <1>1, <2>3, StartupEffect, SafeEndsEffect DEF ServiceStays
  <2>4. CASE StopAcqCheck \/ ZeroFirst
    <3>1. /\ UNCHANGED service /\ safe.pc \in {"stopcheck", "first"}
          /\ safe'.pc \in {"first", "producer"} /\ safe'.hv = safe.hv
      BY <2>1, <2>2, <2>4 DEF StopAcqCheck, ZeroFirst
    <3> QED
      BY <1>1, <3>1 DEF ServiceStays
  <2>5. CASE StopProducer \/ ZeroLast \/ TestMode
    <3>1. safe'.pc \in {"link", "last", "mode", "done"}
      BY <2>1, <2>2, <2>5 DEF StopProducer, ZeroLast, TestMode
    <3> QED
      BY <3>1 DEF ServiceStays
  <2>6. CASE OpenLink \/ SwitchedOff \/ ForcedOff
    <3>1. safe'.pc \in {"off", "force", "last"}
      BY <1>1, <2>1, <2>2, <2>6, SafeRequest
    <3> QED
      BY <3>1 DEF ServiceStays
  <2> QED
    BY <1>5, <2>3, <2>4, <2>5, <2>6 DEF SafeStep
<1>6. CASE ControlLost \/ ServerShutdown \/ Connects \/ AcquisitionLost \/ AcquisitionSafe
  <2>1. /\ UNCHANGED service
        /\ \/ UNCHANGED safe
           \/ safe' = [pc |-> "stopcheck", ok |-> TRUE, hv |-> service]
    BY <1>1, <1>6, ConnectionEffect
  <2>2. CASE UNCHANGED safe
    BY <1>2, <2>1, <2>2
  <2>3. CASE safe' = [pc |-> "stopcheck", ok |-> TRUE, hv |-> service]
    BY <2>1, <2>3 DEF ServiceStays
  <2> QED
    BY <2>1, <2>2, <2>3
<1> QED
  BY <1>3, <1>4, <1>5, <1>6 DEF Step

----------------------------------------------------------------------------
(* The quiet safe state.                                                   *)

\* A command that does not energise switches no channel on.
LEMMA OffStaysOff ==
    ASSUME hw \in [Channels -> Status], NEW c \in Channels, OnOneChannel(c),
           job.cmd \notin Energising
    PROVE  \A d \in Channels : hw[d] # "UP" => hw'[d] # "UP"
<1>1. \A s \in {"DOWN", PowerOff(c), hw[c]} : hw' = [hw EXCEPT ![c] = s] =>
          \A d \in Channels : hw[d] # "UP" => hw'[d] # "UP"
  BY DEF PowerOff
<1>2. ASSUME NEW S, S \subseteq {"DOWN", PowerOff(c), hw[c]}, MayBe(c, S)
      PROVE  \A d \in Channels : hw[d] # "UP" => hw'[d] # "UP"
  <2>1. PICK s \in (IF link THEN S ELSE {hw[c]}) : hw' = [hw EXCEPT ![c] = s]
    BY <1>2 DEF MayBe
  <2> QED
    BY <1>1, <1>2, <2>1
<1>3. UNCHANGED hw => \A d \in Channels : hw[d] # "UP" => hw'[d] # "UP"
  OBVIOUS
<1>4. Now(c, "DOWN") \/ Now(c, PowerOff(c)) =>
          \A d \in Channels : hw[d] # "UP" => hw'[d] # "UP"
  BY <1>1 DEF Now
<1>5. \/ UNCHANGED hw \/ Now(c, "DOWN") \/ Now(c, PowerOff(c))
      \/ MayBe(c, {hw[c], "DOWN"}) \/ MayBe(c, {hw[c], PowerOff(c)})
      \/ MayBe(c, {hw[c], IF hw[c] = "TRIP" THEN "DOWN" ELSE hw[c]})
  <2>1. CASE WaitUp(c) \/ WaitDown(c) \/ RecoverEnds(c) \/ SyncEnds(c)
    BY <2>1, Zenon DEF WaitUp, WaitDown, RecoverEnds, SyncEnds, Present
  <2>2. CASE OnChannel(c)
    <3>1. job.cmd # "hv_on" /\ job.cmd # "hv_on_and_wait"
          /\ job.cmd # "check_channel_acquisition"
      BY DEF Energising
    <3> QED
      BY <2>2, <3>1, Zenon DEF OnChannel, SetCommon, GetVoltThr, MonitorSnapshot,
         Configure, Access, Off, ForceOff, PowerOffAndWait, GetPowerState,
         Sync, Present, SafetyCheck, PowerCheck, Recover, WriteSerial,
         ChangeAddress, SetUserBad, UnsetUserBad
  <2> QED
    BY <2>1, <2>2 DEF OnOneChannel
<1>6. /\ {hw[c], "DOWN"} \subseteq {"DOWN", PowerOff(c), hw[c]}
      /\ {hw[c], PowerOff(c)} \subseteq {"DOWN", PowerOff(c), hw[c]}
      /\ {hw[c], IF hw[c] = "TRIP" THEN "DOWN" ELSE hw[c]}
             \subseteq {"DOWN", PowerOff(c), hw[c]}
  OBVIOUS
<1> QED
  BY <1>2, <1>3, <1>4, <1>5, <1>6

\* The commands of the safe state leave a channel off, or report it as failed.
LEMMA OffOrFailed ==
    ASSUME hw \in [Channels -> Status], NEW c \in Channels, OnChannel(c),
           job.cmd \in {"hv_off_and_wait", "hv_force_off"}
    PROVE  hw'[c] # "UP" \/ Failed(c)
<1>1. PowerOffAndWait(c) \/ Off(c)
  BY DEF OnChannel, ForceOff
<1>2. Now(c, PowerOff(c)) \/ GoesBad(c)
  BY <1>1, Zenon DEF PowerOffAndWait, Off
<1> QED
  BY <1>2 DEF Now, PowerOff, GoesBad

\* No step of the HV service touches what the safe state has stopped.
LEMMA HvStepLink ==
    ASSUME BoardInv, HvStep
    PROVE  UNCHANGED <<link, safe, producer, rc19, mode, cmd, session>>
<1>1. UNCHANGED <<safe, producer, rc19, mode, cmd, session>>
  BY DEF HvStep, runtimeVars
<1>2. UNCHANGED link
  BY DEF HvStep, WorkerStep, WorkerSkips, WorkerBegins, WorkerHandles, WorkerWaits,
         WorkerEnds, CheckSafety, CheckPower, CheckRecovery, CheckAcquisition,
         QueueCheck, CheckExpires, RequestTimeout, Trip
<1> QED
  BY <1>1, <1>2

\* A step of the HV service: what is queued, executed or answered for the safe state
\* still switches everything off.
LEMMA HvStepSwitchesOff ==
    ASSUME BoardInv, HvStep, quiet
    PROVE  HasSwitchedOff'
<1>1. /\ TypeOK /\ ListsConsistent /\ WaitAfterwards /\ HvTypeOK /\ OneSafeRequest
      /\ queue \in Seq(Requests) /\ job \in Jobs /\ reply \in [Callers -> Replies]
      /\ hw \in [Channels -> Status]
      /\ "safe" \in Callers /\ "none" \notin Callers
  BY TypeParts, ThreadsCall DEF BoardInv, HvTypeOK
<1>2. ~Against /\ HasSwitchedOff
  BY DEF BoardInv, QuietSafe
<1>3. UNCHANGED safe
  BY HvStepLink
<1>4. /\ reply["safe"].st # "wait" => job.from # "safe" /\ NoneLive(queue)
      /\ OneLive(queue)
      /\ job.from = "safe" => NoneLive(queue)
  BY <1>1, SafeRequestParts
<1>5. ASSUME UNCHANGED <<hw, job>>,
             \A i \in DOMAIN queue' : Live(queue'[i]) =>
                 \E m \in DOMAIN queue : /\ Live(queue[m])
                                         /\ queue'[i].cmd = queue[m].cmd
                                         /\ queue'[i].chans = queue[m].chans,
             reply'["safe"] = reply["safe"] \/ reply'["safe"].st = "error"
      PROVE  HasSwitchedOff'
  <2>1. \A i \in DOMAIN queue' : Live(queue'[i]) => QueuedForSafe(queue'[i], safe'.pc, hw')
    BY <1>2, <1>3, <1>5 DEF HasSwitchedOff, QueuedForSafe, IsOff
  <2>2. job'.from = "safe" => SwitchesOff'
    BY <1>2, <1>3, <1>5 DEF HasSwitchedOff, SwitchesOff, IsOff
  <2>3. reply'["safe"].st = "ok" =>
           /\ \A c \in Channels : IsOff(c)' \/ c \in reply'["safe"].skipped
           /\ safe'.pc = "force" => AllOff'
    BY <1>2, <1>3, <1>5 DEF HasSwitchedOff, AllOff, IsOff
  <2>4. safe'.pc \in {"last", "mode", "done"} /\ safe'.ok /\ safe'.hv => AllOff'
    BY <1>2, <1>3, <1>5 DEF HasSwitchedOff, AllOff, IsOff
  <2> QED
    BY <2>1, <2>2, <2>3, <2>4 DEF HasSwitchedOff, Live
<1>6. CASE WorkerSkips
  <2>1. /\ queue # <<>> /\ queue' = Tail(queue) /\ UNCHANGED <<hw, job>>
        /\ Head(queue).late => UNCHANGED reply
        /\ ~Head(queue).late => Answer(Head(queue).from, "error", {})
    BY <1>6 DEF WorkerSkips
  <2>2. \A i \in DOMAIN queue' : \E m \in DOMAIN queue : queue'[i] = queue[m]
    BY <1>1, <2>1, LiveAfterRemoval
  <2>3. reply'["safe"] = reply["safe"] \/ reply'["safe"].st = "error"
    <3>1. {} \in SUBSET Channels /\ "error" \in {"ok", "error"}
      OBVIOUS
    <3>2. CASE Answer(Head(queue).from, "error", {})
      <4>1. /\ \A u \in Callers : u # Head(queue).from \/ reply[u].st # "wait"
                                      => reply'[u] = reply[u]
            /\ Head(queue).from \in Callers /\ reply[Head(queue).from].st = "wait" =>
                   reply'[Head(queue).from].st = "error"
        BY <1>1, <3>1, <3>2, AnswerOfCaller
      <4>2. CASE Head(queue).from = "safe" /\ reply["safe"].st = "wait"
        BY <1>1, <4>1, <4>2
      <4>3. CASE ~(Head(queue).from = "safe" /\ reply["safe"].st = "wait")
        BY <1>1, <4>1, <4>3
      <4> QED
        BY <4>2, <4>3
    <3> QED
      BY <2>1, <3>2
  <2>4. \A i \in DOMAIN queue' : Live(queue'[i]) =>
            \E m \in DOMAIN queue : /\ Live(queue[m])
                                    /\ queue'[i].cmd = queue[m].cmd
                                    /\ queue'[i].chans = queue[m].chans
    BY <2>2
  <2> QED
    BY <1>5, <2>1, <2>3, <2>4
<1>7. CASE WorkerBegins
  <2>1. /\ job = NoJob /\ queue # <<>> /\ queue' = Tail(queue) /\ UNCHANGED <<hw, reply>>
        /\ ~Head(queue).late
    BY <1>7 DEF WorkerBegins
  <2> DEFINE r == Head(queue)
  <2>2. r \in Requests /\ r = queue[1] /\ 1 \in DOMAIN queue
    BY <1>1, <2>1, TailOfQueue
  <2>3. /\ job'.cmd = r.cmd /\ job'.from = r.from /\ job'.todo = Scope(r)
        /\ job'.skipped = Skipped(r) /\ job'.failed = {}
    BY <1>1, <1>7, <2>1, <2>2, BegunJob DEF WorkerBegins
  <2>4. \A i \in DOMAIN queue' : \E m \in DOMAIN queue : queue'[i] = queue[m]
    BY <1>1, <2>1, LiveAfterRemoval
  <2>5. ASSUME job'.from = "safe" PROVE SwitchesOff'
    <3>1. Live(r) /\ QueuedForSafe(r, safe.pc, hw)
      BY <1>2, <2>1, <2>2, <2>3, <2>5 DEF Live, HasSwitchedOff
    <3>2. CASE safe.pc = "off" /\ r.cmd = "hv_off_and_wait" /\ r.chans = Channels
      <4>1. Scope(r) = Channels \cap ch.ok /\ Skipped(r) = Channels \ ch.ok
        BY <3>2 DEF Scope, Skipped, OnOkChannels
      <4> QED
        BY <1>3, <2>3, <3>2, <4>1 DEF SwitchesOff
    <3>3. CASE /\ safe.pc = "force" /\ r.cmd = "hv_force_off"
               /\ \A c \in Channels : hw[c] # "UP" \/ c \in r.chans
      <4>1. Scope(r) = r.chans /\ Skipped(r) = {}
        BY <3>3 DEF Scope, Skipped, OnOkChannels
      <4> QED
        BY <1>3, <2>1, <2>3, <3>3, <4>1 DEF SwitchesOff, IsOff
    <3> QED
      BY <3>1, <3>2, <3>3 DEF QueuedForSafe
  <2>6. \A i \in DOMAIN queue' : Live(queue'[i]) => QueuedForSafe(queue'[i], safe'.pc, hw')
    BY <1>2, <1>3, <2>1, <2>4 DEF HasSwitchedOff, QueuedForSafe, IsOff
  <2>7. reply'["safe"].st = "ok" =>
           /\ \A c \in Channels : IsOff(c)' \/ c \in reply'["safe"].skipped
           /\ safe'.pc = "force" => AllOff'
    BY <1>2, <1>3, <2>1 DEF HasSwitchedOff, AllOff, IsOff
  <2>8. safe'.pc \in {"last", "mode", "done"} /\ safe'.ok /\ safe'.hv => AllOff'
    BY <1>2, <1>3, <2>1 DEF HasSwitchedOff, AllOff, IsOff
  <2> QED
    BY <2>5, <2>6, <2>7, <2>8 DEF HasSwitchedOff, Live
<1>8. ASSUME \A d \in Channels : hw[d] # "UP" => hw'[d] # "UP",
             UNCHANGED <<queue, reply>>, job'.from = "safe" => SwitchesOff'
      PROVE  HasSwitchedOff'
  <2>1. \A i \in DOMAIN queue' : Live(queue'[i]) => QueuedForSafe(queue'[i], safe'.pc, hw')
    BY <1>2, <1>3, <1>8 DEF HasSwitchedOff, QueuedForSafe, IsOff
  <2>2. reply'["safe"].st = "ok" =>
           /\ \A c \in Channels : IsOff(c)' \/ c \in reply'["safe"].skipped
           /\ safe'.pc = "force" => AllOff'
    BY <1>2, <1>3, <1>8 DEF HasSwitchedOff, AllOff, IsOff
  <2>3. safe'.pc \in {"last", "mode", "done"} /\ safe'.ok /\ safe'.hv => AllOff'
    BY <1>2, <1>3, <1>8 DEF HasSwitchedOff, AllOff, IsOff
  <2> QED
    BY <1>8, <2>1, <2>2, <2>3 DEF HasSwitchedOff, Live
<1>9. CASE WorkerHandles \/ WorkerWaits
  <2>1. PICK c \in Channels :
            /\ WorkerHandles => c \in job.todo /\ OnChannel(c)
            /\ WorkerWaits => c \in job.wait /\ c \notin job.todo
            /\ OnOneChannel(c)
            /\ job'.cmd = job.cmd /\ job'.from = job.from /\ job'.skipped = job.skipped
            /\ job'.todo = job.todo \ {c} /\ job.failed \subseteq job'.failed
            /\ Failed(c) => c \in job'.failed
            /\ ChangesOnly(c)
            /\ UNCHANGED <<queue, reply>>
    BY <1>1, <1>9, WorkerOnChannel
  <2>2. job.cmd \notin Energising
    BY <1>2 DEF Against
  <2>3. \A d \in Channels : hw[d] # "UP" => hw'[d] # "UP"
    BY <1>1, <2>1, <2>2, OffStaysOff
  <2>4. ASSUME job'.from = "safe" PROVE SwitchesOff'
    <3>1. SwitchesOff
      BY <1>2, <2>1, <2>4 DEF HasSwitchedOff
    <3>2. ASSUME NEW d \in Channels
          PROVE  IsOff(d)' \/ d \in job'.todo \cup job'.failed \cup job'.skipped
      <4>1. CASE hw[d] # "UP"
        BY <2>3, <4>1 DEF IsOff
      <4>2. CASE d \in job.failed \cup job.skipped \/ (d \in job.todo /\ d # c)
        BY <2>1, <4>2
      <4>3. CASE d \in job.todo /\ d = c
        <5>1. OnChannel(c)
          BY <1>9, <2>1, <4>3
        <5>2. hw'[c] # "UP" \/ Failed(c)
          BY <1>1, <3>1, <5>1, OffOrFailed DEF SwitchesOff
        <5> QED
          BY <2>1, <4>3, <5>2 DEF IsOff
      <4> QED
        BY <3>1, <4>1, <4>2, <4>3 DEF SwitchesOff, IsOff
    <3> QED
      BY <1>3, <2>1, <3>1, <3>2 DEF SwitchesOff
  <2> QED
    BY <1>8, <2>1, <2>3, <2>4
<1>10. CASE WorkerEnds
  <2> DEFINE st == IF job.failed = {} THEN "ok" ELSE "error"
  <2>1. /\ job' = NoJob /\ UNCHANGED <<queue, hw>> /\ job.todo = {}
        /\ Answer(job.from, st, job.skipped) /\ st \in {"ok", "error"}
    BY <1>10 DEF WorkerEnds
  <2>2. job.skipped \in SUBSET Channels
    BY <1>1 DEF Jobs
  <2>3. st = "ok" => job.failed = {}
    OBVIOUS
  <2> HIDE DEF st
  <2>4. \/ reply'["safe"] = reply["safe"]
        \/ /\ job.from = "safe"
           /\ reply'["safe"].st = st /\ reply'["safe"].skipped = job.skipped
    <3>1. /\ \A u \in Callers : u # job.from \/ reply[u].st # "wait"
                                    => reply'[u] = reply[u]
          /\ job.from \in Callers /\ reply[job.from].st = "wait" =>
                 reply'[job.from].st = st /\ reply'[job.from].skipped = job.skipped
      <4>1. /\ HvTypeOK /\ st \in {"ok", "error"} /\ job.skipped \in SUBSET Channels
            /\ Answer(job.from, st, job.skipped)
        BY <1>1, <2>1, <2>2
      <4> QED
        BY <4>1, AnswerOfCaller
    <3>2. CASE job.from = "safe" /\ reply["safe"].st = "wait"
      BY <1>1, <3>1, <3>2
    <3>3. CASE ~(job.from = "safe" /\ reply["safe"].st = "wait")
      BY <1>1, <3>1, <3>3
    <3> QED
      BY <3>2, <3>3
  <2>5. \A i \in DOMAIN queue' : Live(queue'[i]) => QueuedForSafe(queue'[i], safe'.pc, hw')
    BY <1>2, <1>3, <2>1 DEF HasSwitchedOff, QueuedForSafe, IsOff
  <2>6. job'.from # "safe"
    BY <2>1 DEF NoJob
  <2>7. reply'["safe"].st = "ok" =>
           /\ \A c \in Channels : IsOff(c)' \/ c \in reply'["safe"].skipped
           /\ safe'.pc = "force" => AllOff'
    <3>1. CASE reply'["safe"] = reply["safe"]
      BY <1>2, <1>3, <2>1, <3>1 DEF HasSwitchedOff, AllOff, IsOff
    <3>2. CASE /\ job.from = "safe"
               /\ reply'["safe"].st = st /\ reply'["safe"].skipped = job.skipped
      <4>1. SwitchesOff
        BY <1>2, <3>2 DEF HasSwitchedOff
      <4> QED
        BY <1>3, <2>1, <2>3, <3>2, <4>1 DEF SwitchesOff, AllOff, IsOff
    <3> QED
      BY <2>4, <3>1, <3>2
  <2>8. safe'.pc \in {"last", "mode", "done"} /\ safe'.ok /\ safe'.hv => AllOff'
    BY <1>2, <1>3, <2>1 DEF HasSwitchedOff, AllOff, IsOff
  <2> QED
    BY <2>5, <2>6, <2>7, <2>8 DEF HasSwitchedOff, Live
<1>11. CASE CheckSafety \/ CheckPower \/ CheckRecovery \/ CheckAcquisition
  <2>1. PICK r \in Requests, n \in 1..(Len(queue) + 1) :
            InsertedAt(queue', queue, n, r) /\ r.from = "none"
    BY <1>1, <1>11, CheckQueues
  <2>2. UNCHANGED <<hw, job, reply>>
    BY <1>1, <1>11, CheckQueues
  <2>3. \A i \in DOMAIN queue' : queue'[i] = r \/ \E m \in DOMAIN queue : queue'[i] = queue[m]
    BY <1>1, <2>1, LiveAfterInsertion
  <2>4. \A i \in DOMAIN queue' : Live(queue'[i]) =>
            \E m \in DOMAIN queue : /\ Live(queue[m])
                                    /\ queue'[i].cmd = queue[m].cmd
                                    /\ queue'[i].chans = queue[m].chans
    BY <2>1, <2>3 DEF Live
  <2> QED
    BY <1>5, <2>2, <2>4
<1>12. CASE CheckExpires \/ \E k \in Callers : RequestTimeout(k)
  <2>1. \A i \in DOMAIN queue' : Live(queue'[i]) =>
            \E m \in DOMAIN queue : /\ Live(queue[m])
                                    /\ queue'[i].cmd = queue[m].cmd
                                    /\ queue'[i].chans = queue[m].chans
    <3>1. /\ DOMAIN queue' = DOMAIN queue
          /\ \A i \in DOMAIN queue :
                  /\ queue'[i].cmd = queue[i].cmd /\ queue'[i].from = queue[i].from
                  /\ queue'[i].chans = queue[i].chans
                  /\ queue[i].late => queue'[i].late
      BY <1>1, <1>12, DeadlineQueues
    <3> QED
      BY <3>1 DEF Live
  <2>2. CASE CheckExpires
    <3>1. UNCHANGED <<hw, job, reply>>
      BY <2>2 DEF CheckExpires
    <3> QED
      BY <1>5, <2>1, <3>1
  <2>3. CASE \E k \in Callers : RequestTimeout(k)
    <3>1. PICK k \in Callers : RequestTimeout(k)
      BY <2>3
    <3>2. UNCHANGED hw /\ (UNCHANGED job \/ job'.from = "none")
      BY <1>1, <3>1 DEF RequestTimeout, Jobs
    <3>3. reply'["safe"] = reply["safe"] \/ reply'["safe"].st = "error"
      BY <1>1, <3>1 DEF RequestTimeout, NoReply
    <3>4. CASE UNCHANGED job
      BY <1>5, <2>1, <3>2, <3>3, <3>4
    <3>5. CASE job'.from = "none"
      <4>1. \A i \in DOMAIN queue' : Live(queue'[i]) => QueuedForSafe(queue'[i], safe'.pc, hw')
        BY <1>2, <1>3, <2>1, <3>2 DEF HasSwitchedOff, QueuedForSafe, IsOff
      <4>2. reply'["safe"].st = "ok" =>
               /\ \A c \in Channels : IsOff(c)' \/ c \in reply'["safe"].skipped
               /\ safe'.pc = "force" => AllOff'
        BY <1>2, <1>3, <3>2, <3>3 DEF HasSwitchedOff, AllOff, IsOff
      <4>3. safe'.pc \in {"last", "mode", "done"} /\ safe'.ok /\ safe'.hv => AllOff'
        BY <1>2, <1>3, <3>2 DEF HasSwitchedOff, AllOff, IsOff
      <4> QED
        BY <3>5, <4>1, <4>2, <4>3 DEF HasSwitchedOff, Live
    <3> QED
      BY <3>2, <3>4, <3>5
  <2> QED
    BY <1>12, <2>2, <2>3
<1>13. CASE \E c \in Channels : Trip(c)
  <2>1. /\ \A d \in Channels : hw[d] # "UP" => hw'[d] # "UP"
        /\ UNCHANGED <<queue, reply, job>>
    BY <1>1, <1>13 DEF Trip, Now
  <2>2. job'.from = "safe" => SwitchesOff'
    BY <1>2, <1>3, <2>1 DEF HasSwitchedOff, SwitchesOff, IsOff
  <2> QED
    BY <1>8, <2>1, <2>2
<1> QED
  BY <1>6, <1>7, <1>9, <1>10, <1>11, <1>12, <1>13 DEF HvStep, WorkerStep

\* Outside the two waits nothing is queued, executed or answered for the safe state.
LEMMA BetweenTheWaits ==
    ASSUME OneSafeRequest', safe'.pc \notin {"off", "force"},
           safe'.pc \in {"last", "mode", "done"} /\ safe'.ok /\ safe'.hv => AllOff'
    PROVE  HasSwitchedOff'
<1>1. reply'["safe"].st = "none" /\ job'.from # "safe" /\ NoneLive(queue')
  BY SafeRequestPartsNext
<1> QED
  BY <1>1 DEF HasSwitchedOff, NoneLive, Live

\* A step of the safe state that nothing works against does what it is there for.
LEMMA SafeStepQuiet ==
    ASSUME BoardInv, SafeStep, quiet, OneSafeRequest'
    PROVE  HasSwitchedOff' /\ HasStopped'
<1>1. /\ TypeOK /\ ListsConsistent /\ HvTypeOK /\ RuntimeTypes /\ OneSafeRequest
      /\ SpawnedIsRecorded /\ ServiceStays /\ queue \in Seq(Requests)
      /\ safe \in SafeStates /\ safe.ok \in BOOLEAN /\ "safe" \in Callers
      /\ reply["safe"] \in Replies
  BY TypeParts, ThreadsCall DEF BoardInv, HvTypeOK, RuntimeTypes, SafeStates
<1>2. ~Against /\ HasSwitchedOff /\ HasStopped
  BY DEF BoardInv, QuietSafe
<1>3. SafeEffect /\ UNCHANGED hw
  <2>1. SafeEffect
    BY <1>1, SafeStepLeavesHv, StartupEffect, SafeRequest, SafeEndsEffect DEF SafeStep
  <2> QED
    BY <2>1 DEF SafeEffect
<1>4. \A pc \in SafeSteps, ok \in BOOLEAN : SafeGoes(pc, ok) =>
          /\ safe'.pc = pc /\ safe'.hv = safe.hv /\ (safe'.ok => safe.ok /\ ok)
  BY <1>1, SafeGoesOn
<1>5. {"first", "producer", "link", "off", "force", "last", "mode", "done"}
          \subseteq SafeSteps
  BY DEF SafeSteps
<1>6. AllOff => AllOff'
  BY <1>3 DEF AllOff, IsOff
<1>7. CASE Startup \/ SafeEnds \/ StopAcqCheck
  <2>1. safe'.pc \in {"stopcheck", "idle", "first"}
    BY <1>1, <1>4, <1>5, <1>7, StartupEffect, SafeEndsEffect DEF StopAcqCheck
  <2> QED
    BY <2>1, BetweenTheWaits DEF HasStopped, AfterProducer
<1>8. CASE ZeroFirst
  <2>1. safe'.pc = "producer" /\ (safe'.ok => rc19' = FALSE)
    BY <1>4, <1>5, <1>8 DEF ZeroFirst
  <2> QED
    BY <2>1, BetweenTheWaits DEF HasStopped, AfterProducer
<1>9. CASE StopProducer
  <2>1. /\ safe.pc = "producer" /\ ProducerStopped /\ UNCHANGED rc19
        /\ safe'.pc = (IF service THEN "link" ELSE "last") /\ safe'.hv = safe.hv
        /\ safe'.ok => safe.ok
    BY <1>4, <1>5, <1>9 DEF StopProducer
  <2>2. producer' = "none"
    <3>1. producer # "spawned"
      BY <1>1, <1>2 DEF SpawnedIsRecorded, Against, At
    <3> QED
      BY <1>1, <2>1, <3>1 DEF ProducerStopped, RuntimeTypes
  <2>3. safe'.pc = "last" => ~safe'.hv
    BY <1>1, <2>1 DEF ServiceStays
  <2>4. HasSwitchedOff'
    BY <2>1, <2>3, BetweenTheWaits
  <2> QED
    BY <1>2, <2>1, <2>2, <2>4 DEF HasStopped, AfterProducer
<1>10. CASE OpenLink
  <2>1. /\ safe.pc = "link" /\ UNCHANGED producer
        /\ safe'.pc = "off" /\ (safe'.ok => rc19' = FALSE)
    BY <1>4, <1>5, <1>10 DEF OpenLink
  <2>2. UNCHANGED job /\ reply'["safe"] = Waiting
    BY <1>1, <1>10, <2>1, SafeRequest DEF SwitchedOff, ForcedOff
  <2>3. PICK r \in Requests, n \in 1..(Len(queue) + 1) :
            /\ InsertedAt(queue', queue, n, r)
            /\ r.cmd = "hv_off_and_wait" /\ r.chans = Channels
    BY <1>1, <1>10, <2>1, SafeRequest DEF SwitchedOff, ForcedOff
  <2>4. NoneLive(queue) /\ job.from # "safe"
    BY <1>1, <2>1, SafeRequestParts
  <2>5. \A i \in DOMAIN queue' : queue'[i] = r \/ \E m \in DOMAIN queue : queue'[i] = queue[m]
    BY <1>1, <2>3, LiveAfterInsertion
  <2>6. \A i \in DOMAIN queue' : Live(queue'[i]) => QueuedForSafe(queue'[i], safe'.pc, hw')
    BY <2>1, <2>3, <2>4, <2>5 DEF NoneLive, QueuedForSafe
  <2>7. HasSwitchedOff'
    BY <2>1, <2>2, <2>4, <2>6 DEF HasSwitchedOff, Live, Waiting
  <2> QED
    BY <1>2, <2>1, <2>7 DEF HasStopped, AfterProducer
<1>11. CASE SwitchedOff \/ ForcedOff
  <2>1. /\ safe.pc \in {"off", "force"} /\ UNCHANGED <<producer, rc19, job>>
        /\ reply["safe"].st \in {"ok", "error"}
        /\ ForcedOff => safe.pc = "force"
        /\ SwitchedOff => safe.pc = "off"
    BY <1>11 DEF SwitchedOff, ForcedOff
  <2>2. NoneLive(queue) /\ job.from # "safe"
    BY <1>1, <2>1, SafeRequestParts
  <2>3. CASE /\ SafeGoes("last", reply["safe"].st = "ok")
             /\ ForcedOff \/ ~(reply["safe"].st = "ok" /\ reply["safe"].skipped # {})
    <3>1. /\ safe'.pc = "last" /\ safe'.hv = safe.hv
          /\ safe'.ok => safe.ok /\ reply["safe"].st = "ok"
      BY <1>4, <1>5, <2>3
    <3>2. safe'.ok => AllOff
      <4>1. CASE ForcedOff
        BY <1>2, <2>1, <3>1, <4>1 DEF HasSwitchedOff
      <4>2. CASE ~ForcedOff
        <5>1. safe'.ok => reply["safe"].skipped = {}
          BY <2>3, <3>1, <4>2
        <5> QED
          BY <1>2, <3>1, <5>1 DEF HasSwitchedOff, AllOff
      <4> QED
        BY <4>1, <4>2
    <3>3. HasSwitchedOff'
      BY <1>6, <3>1, <3>2, BetweenTheWaits
    <3> QED
      BY <1>2, <2>1, <3>1, <3>3 DEF HasStopped, AfterProducer
  <2>4. CASE /\ SwitchedOff
             /\ reply["safe"].st = "ok" /\ reply["safe"].skipped # {}
    <3>1. SafeGoes("force", TRUE)
      BY <2>4 DEF SwitchedOff
    <3>2. safe'.pc = "force" /\ (safe'.ok => safe.ok)
      BY <1>4, <1>5, <3>1
    <3>3. reply'["safe"] = Waiting
      BY <1>1, <2>4 DEF SwitchedOff, Submit, HvTypeOK
    <3>4. ~OpenLink
      BY <2>1 DEF OpenLink
    <3>5. ~SafeGoes("last", reply["safe"].st = "ok")
      BY <1>1, <1>4, <1>5, <3>2
    <3>6. PICK r \in Requests, n \in 1..(Len(queue) + 1) :
              /\ InsertedAt(queue', queue, n, r)
              /\ r.cmd = "hv_force_off" /\ r.chans = reply["safe"].skipped
      BY <1>1, <2>4, <3>4, <3>5, SafeRequest
    <3>7. \A i \in DOMAIN queue' :
              queue'[i] = r \/ \E m \in DOMAIN queue : queue'[i] = queue[m]
      BY <1>1, <3>6, LiveAfterInsertion
    <3>8. QueuedForSafe(r, safe'.pc, hw')
      BY <1>2, <1>3, <2>4, <3>2, <3>6 DEF HasSwitchedOff, QueuedForSafe, IsOff
    <3>9. \A i \in DOMAIN queue' :
              Live(queue'[i]) => QueuedForSafe(queue'[i], safe'.pc, hw')
      BY <2>2, <3>7, <3>8 DEF NoneLive
    <3>10. HasSwitchedOff'
      BY <2>1, <2>2, <3>2, <3>3, <3>9 DEF HasSwitchedOff, Live, Waiting
    <3> QED
      BY <1>2, <2>1, <3>2, <3>10 DEF HasStopped, AfterProducer
  <2> QED
    BY <1>11, <2>3, <2>4, Zenon DEF SwitchedOff, ForcedOff
<1>12. CASE ZeroLast
  <2>1. /\ safe.pc = "last" /\ UNCHANGED <<producer, rc19>>
        /\ safe'.pc = "mode" /\ safe'.hv = safe.hv
        /\ safe'.ok => safe.ok /\ link' = FALSE
    BY <1>4, <1>5, <1>12 DEF ZeroLast
  <2>2. HasSwitchedOff'
    BY <1>2, <1>6, <2>1, BetweenTheWaits DEF HasSwitchedOff
  <2> QED
    BY <1>2, <2>1, <2>2 DEF HasStopped, AfterProducer
<1>13. CASE TestMode
  <2>1. /\ safe.pc = "mode" /\ UNCHANGED <<producer, rc19, link>>
        /\ safe'.pc = "done" /\ safe'.hv = safe.hv
        /\ (safe'.ok => safe.ok) /\ mode' = "test"
    BY <1>4, <1>5, <1>13 DEF TestMode, Enters
  <2>2. HasSwitchedOff'
    BY <1>2, <1>6, <2>1, BetweenTheWaits DEF HasSwitchedOff
  <2> QED
    BY <1>2, <2>1, <2>2 DEF HasStopped, AfterProducer
<1> QED
  BY <1>7, <1>8, <1>9, <1>10, <1>11, <1>12, <1>13 DEF SafeStep

\* Every step of a safe state that stays quiet, or begins.
LEMMA StepQuietSafe ==
    ASSUME BoardInv, Step, Quiets
    PROVE  QuietSafe'
<1> SUFFICES ASSUME quiet'
             PROVE  ~Against' /\ HasSwitchedOff' /\ HasStopped'
  BY DEF QuietSafe
<1>1. ~Against' /\ (quiet \/ (safe.pc = "idle" /\ safe'.pc # "idle"))
  BY DEF Quiets
<1>2. OneSafeRequest' /\ TypeOK /\ ListsConsistent
  BY StepSafeRequest DEF BoardInv
<1>3. quiet => ~Against /\ HasSwitchedOff /\ HasStopped
  BY DEF BoardInv, QuietSafe
<1>4. CASE HvStep
  <2>1. UNCHANGED <<link, safe, producer, rc19, mode>>
    BY <1>4, HvStepLink
  <2>2. quiet
    BY <1>1, <2>1
  <2>3. HasSwitchedOff'
    BY <1>4, <2>2, HvStepSwitchesOff
  <2> QED
    BY <1>1, <1>3, <2>1, <2>2, <2>3 DEF HasStopped
<1>5. ASSUME NEW t \in Threads, CommandStep(t) \/ NewCommand(t)
      PROVE  FALSE
  <2>1. UNCHANGED safe /\ (session = "up" \/ cmd[t].pc # "idle")
    BY <1>2, <1>5, ThreadStepEffect DEF ThreadEffect
  <2>2. Against
    BY <2>1 DEF Against, At
  <2> QED
    BY <1>1, <1>3, <2>1, <2>2
<1>6. CASE SafeStep
  <2>1. safe.pc # "idle"
    BY <1>6 DEF SafeStep, Startup, StopAcqCheck, ZeroFirst, StopProducer, OpenLink,
                SwitchedOff, ForcedOff, ZeroLast, TestMode, SafeEnds
  <2> QED
    BY <1>1, <1>2, <1>6, <2>1, SafeStepQuiet
<1>7. CASE ControlLost \/ ServerShutdown \/ Connects \/ AcquisitionLost \/ AcquisitionSafe
  <2>1. /\ UNCHANGED <<hw, link, queue, job, reply, mode>>
        /\ producer' \in {"none", producer}
        /\ rc19' = FALSE \/ rc19' = rc19
        /\ \/ UNCHANGED safe
           \/ safe.pc = "idle" /\ safe' = [pc |-> "stopcheck", ok |-> TRUE, hv |-> service]
    BY <1>2, <1>7, ConnectionEffect
  <2>2. CASE UNCHANGED safe
    <3>1. quiet
      BY <1>1, <2>2
    <3>2. HasSwitchedOff'
      BY <1>3, <2>1, <2>2, <3>1
         DEF HasSwitchedOff, SwitchesOff, AllOff, IsOff, Live, QueuedForSafe
    <3>3. HasStopped'
      BY <1>3, <2>1, <2>2, <3>1 DEF HasStopped
    <3> QED
      BY <1>1, <3>2, <3>3
  <2>3. CASE safe' = [pc |-> "stopcheck", ok |-> TRUE, hv |-> service]
    <3>1. safe'.pc = "stopcheck"
      BY <2>3
    <3> QED
      BY <1>1, <1>2, <3>1, BetweenTheWaits DEF HasStopped, AfterProducer
  <2> QED
    BY <2>1, <2>2, <2>3
<1> QED
  BY <1>4, <1>5, <1>6, <1>7 DEF Step

----------------------------------------------------------------------------
(* The theorems.                                                           *)

\* The client starts in a consistent state, whatever the last one left.
LEMMA InitBoardInv == Init => BoardInv
<1> SUFFICES ASSUME Init PROVE BoardInv
  OBVIOUS
<1>1. HvTypeOK
  <2>1. /\ NoLists \in Lists /\ NoJob \in Jobs /\ NoReply \in Replies
        /\ <<>> \in Seq(Requests)
    BY DEF NoLists, Lists, NoJob, Jobs, NoReply, Replies
  <2>2. hw \in [Channels -> Status]
    BY DEF Init, Status
  <2>3. reply \in [Callers -> Replies]
    BY <2>1 DEF Init
  <2>4. faults \in 0..MaxFaults
    BY FaultsAssumption DEF Init
  <2>5. /\ link \in BOOLEAN /\ acqCheck \in BOOLEAN
        /\ pending \subseteq Checks /\ params \subseteq Channels
        /\ policy \in {"full_control", "monitor_only"}
    BY DEF Init
  <2>6. ch \in Lists /\ job \in Jobs /\ queue \in Seq(Requests)
    BY <2>1 DEF Init
  <2> QED
    BY <2>2, <2>3, <2>4, <2>5, <2>6 DEF HvTypeOK
<1>2. RuntimeTypes /\ quiet \in BOOLEAN /\ ramp \subseteq Channels
  <2>1. IdleCmd \in CommandStates
    BY DEF IdleCmd, CommandStates, CommandSteps, Modes
  <2>2. [pc |-> "start", ok |-> TRUE, hv |-> FALSE] \in SafeStates
    BY DEF SafeStates
  <2>3. rc19 \in BOOLEAN /\ events \in 0..MaxEvents
    BY EventsAssumption DEF Init
  <2> QED
    BY <2>1, <2>2, <2>3 DEF Init, RuntimeTypes, Modes
<1>3. ListsConsistent /\ WaitAfterwards
  BY DEF Init, ListsConsistent, WaitAfterwards, NoLists, NoJob
<1>4. Flags
  BY DEF Init, Flags, FlagOf, Numbered, Checks, NoJob
<1>5. OneSafeRequest
  <2>1. reply["safe"] = NoReply
    BY ThreadsCall DEF Init
  <2> QED
    BY <2>1 DEF Init, OneSafeRequest, NoReply, NoJob
<1>6. SpawnedIsRecorded /\ ServiceStays
  BY DEF Init, SpawnedIsRecorded, ServiceStays
<1>7. QuietSafe
  <2>1. ~Against
    BY DEF Init, Against, At, IdleCmd, NoJob, Energising
  <2>2. reply["safe"].st = "none" /\ job.from # "safe" /\ DOMAIN queue = {} /\ safe.pc = "start"
    BY ThreadsCall DEF Init, NoReply, NoJob
  <2> QED
    BY <2>1, <2>2 DEF QuietSafe, HasSwitchedOff, HasStopped, AfterProducer
<1> QED
  BY <1>1, <1>2, <1>3, <1>4, <1>5, <1>6, <1>7, TypeParts DEF BoardInv

\* Neither a ramp nor a stuttering step touches what BoardInv is about.
LEMMA StutterBoardInv ==
    BoardInv /\ UNCHANGED <<hvVars, runtimeVars, quiet>> /\ ramp' \subseteq Channels
        => BoardInv'
<1> SUFFICES ASSUME BoardInv, UNCHANGED <<hvVars, runtimeVars, quiet>>,
                    ramp' \subseteq Channels
             PROVE  BoardInv'
  OBVIOUS
<1> USE DEF hvVars, runtimeVars
<1>1. TypeOK'
  BY DEF BoardInv, TypeOK, HvTypeOK
<1>2. ListsConsistent' /\ Flags' /\ WaitAfterwards'
  BY DEF BoardInv, ListsConsistent, Flags, FlagOf, WaitAfterwards
<1>3. OneSafeRequest' /\ SpawnedIsRecorded' /\ ServiceStays'
  BY DEF BoardInv, OneSafeRequest, Live, SpawnedIsRecorded, ServiceStays, At
<1>4. QuietSafe'
  <2>1. Against' => Against
    BY DEF Against, At
  <2>2. HasSwitchedOff => HasSwitchedOff'
    BY DEF HasSwitchedOff, SwitchesOff, AllOff, IsOff, Live, QueuedForSafe
  <2>3. HasStopped => HasStopped'
    BY DEF HasStopped
  <2> QED
    BY <2>1, <2>2, <2>3 DEF BoardInv, QuietSafe
<1> QED
  BY <1>1, <1>2, <1>3, <1>4 DEF BoardInv

\* Every step keeps BoardInv.
LEMMA NextBoardInv == BoardInv /\ [Next]_vars => BoardInv'
<1>1. BoardInv /\ Step /\ Quiets /\ Ramps => BoardInv'
  BY StepTypes, StepFlags, StepSafeRequest, StepProducer, StepService, StepQuietSafe
     DEF BoardInv
<1>2. ASSUME BoardInv, NEW c \in Channels, RampChanges(c), UNCHANGED <<runtimeVars, quiet>>
      PROVE  BoardInv'
  <2>1. UNCHANGED <<hvVars, runtimeVars, quiet>> /\ ramp' \subseteq Channels
    BY <1>2 DEF RampChanges, BoardInv, TypeOK
  <2> QED
    BY <1>2, <2>1, StutterBoardInv
<1>3. BoardInv /\ UNCHANGED vars => BoardInv'
  BY StutterBoardInv DEF vars, BoardInv, TypeOK
<1> QED
  BY <1>1, <1>2, <1>3 DEF Next

\* The inductive invariant of the board: BoardConsistent and SafeMeansOff follow from
\* it, whatever commands, checks, modes, losses and faults overlap.
THEOREM SpecBoardInv == Spec => []BoardInv
<1> QED
  BY InitBoardInv, NextBoardInv, PTL DEF Spec

\* HV and HVService: the lists never contradict each other, and the flag of a safety,
\* power or recovery check is set exactly while one such request is queued or
\* executed, on every board and for every command the server sends.
THEOREM SpecBoardConsistent == Spec => []BoardConsistent
<1>1. BoardInv => BoardConsistent
  BY FlagsAreCounts DEF BoardInv, BoardConsistent
<1> QED
  BY <1>1, SpecBoardInv, PTL

\* enter_safe_state: when it reports success, and nothing has worked against it, every
\* channel is off, the producer is stopped, the registers of the RC are cleared and the
\* board is in test mode.
THEOREM SpecSafeMeansOff == Spec => []SafeMeansOff
<1>1. BoardInv => SafeMeansOff
  BY DEF BoardInv, QuietSafe, HasSwitchedOff, HasStopped, AfterProducer, AllOff, IsOff,
         SafeMeansOff
<1> QED
  BY <1>1, SpecBoardInv, PTL

----------------------------------------------------------------------------
(* No channel that is up is hidden.                                        *)

\* What the lists k say of the channel d is what the lists l say.
SameFor(d, k, l) == (d \in k.ok <=> d \in l.ok) /\ (d \in k.off <=> d \in l.off)
\* They do not take the channel c, in its present state, for one that is off.
Shown(c, l) == hw[c] # "UP" \/ c \notin l.ok \/ c \notin l.off

\* A move of a channel leaves the others where they are.
LEMMA MovesOfOne ==
    ASSUME NEW l \in Lists, NEW c \in Channels, NEW d \in Channels, d # c
    PROVE  /\ MoveToOk(l, c) \in Lists /\ SameFor(d, MoveToOk(l, c), l)
           /\ MoveToOn(l, c) \in Lists /\ SameFor(d, MoveToOn(l, c), l)
           /\ MoveToOff(l, c) \in Lists /\ SameFor(d, MoveToOff(l, c), l)
           /\ \A r : Aligned(l, c, r) \in Lists /\ SameFor(d, Aligned(l, c, r), l)
           /\ PowerAligned(l, c) \in Lists /\ SameFor(d, PowerAligned(l, c), l)
           /\ MoveToBad(l, {c}) \in Lists /\ SameFor(d, MoveToBad(l, {c}), l)
<1>1. MoveToOk(l, c) \in Lists /\ SameFor(d, MoveToOk(l, c), l)
  BY DEF Lists, MoveToOk, SameFor
<1>2. MoveToOn(l, c) \in Lists /\ SameFor(d, MoveToOn(l, c), l)
  BY DEF Lists, MoveToOn, SameFor
<1>3. MoveToOff(l, c) \in Lists /\ SameFor(d, MoveToOff(l, c), l)
  BY DEF Lists, MoveToOff, SameFor
<1>4. MoveToBad(l, {c}) \in Lists /\ SameFor(d, MoveToBad(l, {c}), l)
  BY DEF Lists, MoveToBad, SameFor
<1>5. SameFor(d, l, l)
  BY DEF SameFor
<1> QED
  BY <1>1, <1>2, <1>3, <1>4, <1>5 DEF Aligned, PowerAligned

\* Nor do the ones that take it out of the OK channels.
LEMMA RemovalsOfOne ==
    ASSUME NEW l \in Lists, NEW c \in Channels, NEW d \in Channels, d # c
    PROVE  /\ SameFor(d, RemoveFromMissingSerial(l, {c}), l)
           /\ SameFor(d, RemoveFromFixedBad(l, {c}), l)
           /\ SameFor(d, MoveToFixedBad(l, {c}), l)
<1>1. SameFor(d, RemoveFromMissingSerial(l, {c}), l)
  BY DEF Lists, RemoveFromMissingSerial, MoveToBad, SameFor
<1>2. SameFor(d, RemoveFromFixedBad(l, {c}), l)
  BY DEF Lists, RemoveFromFixedBad, MoveToBad, SameFor
<1>3. SameFor(d, MoveToFixedBad(l, {c}), l)
  BY DEF Lists, MoveToFixedBad, Removed, SameFor
<1> QED
  BY <1>1, <1>2, <1>3

\* The moves that show the channel they are made for.
LEMMA MovesShow ==
    ASSUME NEW l \in Lists, NEW c \in Channels, Reads(c) # "RUP"
    PROVE  /\ c \notin MoveToOn(l, c).ok \/ c \notin MoveToOn(l, c).off
           /\ c \notin MoveToBad(l, {c}).ok
           /\ c \notin MoveToFixedBad(l, {c}).ok
           /\ c \notin RemoveFromFixedBad(l, {c}).ok
           /\ c \notin RemoveFromMissingSerial(l, {c}).ok
           /\ Shown(c, Aligned(l, c, Reads(c)))
           /\ (hw[c] = "UP" => job.read = "UP") => Shown(c, Recovered(l, c))
           /\ Shown(c, PowerAligned(l, c))
<1>1. ASSUME NEW k \in Lists
      PROVE  c \notin MoveToOn(k, c).ok \/ c \notin MoveToOn(k, c).off
  BY DEF Lists, MoveToOn
<1>2. c \notin MoveToBad(l, {c}).ok
  BY DEF Lists, MoveToBad
<1>3. c \notin MoveToFixedBad(l, {c}).ok
  BY DEF Lists, MoveToFixedBad, Removed
<1>4. /\ c \notin RemoveFromFixedBad(l, {c}).ok
      /\ c \notin RemoveFromMissingSerial(l, {c}).ok
  BY DEF Lists, RemoveFromFixedBad, RemoveFromMissingSerial, MoveToBad
<1>5. Reads(c) = hw[c]
  BY DEF Reads
<1>6. ASSUME NEW r, hw[c] = "UP" => r = "UP" PROVE Shown(c, Aligned(l, c, r))
  BY <1>1, <1>6 DEF Shown, Aligned
<1>7. Shown(c, Aligned(l, c, Reads(c)))
  BY <1>5, <1>6
<1>8. (hw[c] = "UP" => job.read = "UP") => Shown(c, Recovered(l, c))
  BY <1>6 DEF Recovered
<1>9. Shown(c, PowerAligned(l, c))
  BY <1>1, <1>5 DEF Shown, PowerAligned
<1> QED
  BY <1>1, <1>2, <1>3, <1>4, <1>7, <1>8, <1>9

\* A step on the channel c says nothing new of another.
LEMMA ChannelStepOthers ==
    ASSUME ch \in Lists, NEW c \in Channels, OnOneChannel(c), NEW d \in Channels, d # c
    PROVE  SameFor(d, ch', ch)
<1>1. UNCHANGED ch => SameFor(d, ch', ch)
  BY DEF SameFor
<1>2. /\ SameFor(d, MoveToOn(ch, c), ch) /\ SameFor(d, MoveToOff(ch, c), ch)
      /\ SameFor(d, Aligned(ch, c, Reads(c)), ch) /\ SameFor(d, MoveToOk(ch, c), ch)
      /\ SameFor(d, MoveToBad(ch, {c}), ch) /\ SameFor(d, PowerAligned(ch, c), ch)
  BY MovesOfOne
<1>3. /\ SameFor(d, RemoveFromMissingSerial(ch, {c}), ch)
      /\ SameFor(d, RemoveFromFixedBad(ch, {c}), ch)
      /\ SameFor(d, MoveToFixedBad(ch, {c}), ch)
  BY RemovalsOfOne
<1>4. Recovered(ch, c) \in Lists /\ SameFor(d, Recovered(ch, c), ch)
  BY MovesOfOne DEF Recovered
<1>5. /\ SameFor(d, PowerAligned(Recovered(ch, c), c), ch)
      /\ SameFor(d, MoveToBad(Recovered(ch, c), {c}), ch)
  <2>1. /\ SameFor(d, PowerAligned(Recovered(ch, c), c), Recovered(ch, c))
        /\ SameFor(d, MoveToBad(Recovered(ch, c), {c}), Recovered(ch, c))
    BY <1>4, MovesOfOne
  <2> QED
    BY <1>4, <2>1 DEF SameFor
<1>6. CASE WaitUp(c) \/ WaitDown(c)
  BY <1>2, <1>6 DEF WaitUp, WaitDown, GoesBad
<1>7. CASE Sync(c) \/ RecoverEnds(c) \/ SyncEnds(c)
  <2>1. \/ UNCHANGED ch \/ ch' = MoveToOk(ch, c) \/ ch' = MoveToBad(ch, {c})
        \/ ch' = PowerAligned(ch, c) \/ ch' = Recovered(ch, c)
        \/ ch' = PowerAligned(Recovered(ch, c), c) \/ ch' = MoveToBad(Recovered(ch, c), {c})
    <3>1. CASE Sync(c)
      BY <3>1 DEF Sync, Present
    <3>2. CASE RecoverEnds(c) \/ SyncEnds(c)
      BY <3>2 DEF RecoverEnds, SyncEnds, Present
    <3> QED
      BY <1>7, <3>1, <3>2
  <2> QED
    BY <1>1, <1>2, <1>4, <1>5, <2>1
<1>8. CASE AcquisitionCheck(c)
  <2>1. UNCHANGED ch \/ ch' \in {ch} \cup {MoveToBad(ch, {x}) : x \in params \cap {c}}
    BY <1>8 DEF AcquisitionCheck
  <2> QED
    BY <1>1, <1>2, <2>1
<1>9. CASE SetCommon(c) \/ GetVoltThr(c) \/ MonitorSnapshot(c) \/ Configure(c)
           \/ On(c) \/ Off(c) \/ ForceOff(c) \/ PowerOnAndWait(c) \/ PowerOffAndWait(c)
           \/ GetPowerState(c) \/ SafetyCheck(c)
  <2>1. \/ UNCHANGED ch \/ ch' = MoveToBad(ch, {c}) \/ ch' = MoveToOn(ch, c)
        \/ ch' = MoveToOff(ch, c) \/ ch' = Aligned(ch, c, Reads(c))
    BY <1>9, Zenon DEF SetCommon, GetVoltThr, MonitorSnapshot, Configure, Access, On,
       Off, ForceOff, PowerOnAndWait, PowerOffAndWait, GetPowerState, SafetyCheck,
       GoesBad
  <2> QED
    BY <1>1, <1>2, <2>1
<1>10. CASE PowerCheck(c) \/ Recover(c) \/ WriteSerial(c) \/ ChangeAddress(c)
            \/ SetUserBad(c) \/ UnsetUserBad(c)
  BY <1>1, <1>2, <1>3, <1>4, <1>10 DEF PowerCheck, Recover, WriteSerial,
     ChangeAddress, SetUserBad, UnsetUserBad
<1> QED
  BY <1>6, <1>7, <1>8, <1>9, <1>10, Zenon DEF OnOneChannel, OnChannel

Shows(c) == hw'[c] # "UP" \/ c \notin ch'.ok \/ c \notin ch'.off
\* A step on a channel c that is not ramping shows it, leaves it as it was or waits for
\* its ramp or its list; only the change of an address takes its status for granted,
\* and what ends the recovery relies on the status that was read.
LEMMA ChannelStepShows ==
    ASSUME HvTypeOK, NEW c \in Channels, Reads(c) # "RUP"
    PROVE  /\ WaitUp(c) \/ WaitDown(c) => Shows(c)
           /\ /\ RecoverEnds(c) \/ SyncEnds(c)
              /\ hw[c] = "UP" => job.read = "UP"
              => Shows(c)
           /\ OnChannel(c) => \/ Shows(c) \/ c \in job'.wait \/ UNCHANGED <<ch, hw>>
                              \/ job.cmd = "feb_change_address"
<1>1. ch \in Lists /\ hw \in [Channels -> Status] /\ job \in Jobs
  BY DEF HvTypeOK
<1>2. GoesBad(c) \/ ch' = MoveToBad(ch, {c}) => Shows(c)
  BY <1>1, MovesShow DEF GoesBad, Shows
<1>3. ch' = MoveToOn(ch, c) => Shows(c)
  BY <1>1, MovesShow DEF Shows
<1>4. Now(c, "DOWN") \/ Now(c, PowerOff(c)) => Shows(c)
  BY <1>1 DEF Now, PowerOff, Shows
<1>5. ToWait(c) \/ ToList(c) => c \in job'.wait
  BY <1>1 DEF ToWait, ToList, Jobs
<1>6. \A l : UNCHANGED hw /\ ch' = l /\ Shown(c, l) => Shows(c)
  BY DEF Shown, Shows
<1>7. UNCHANGED hw /\ (ch' = Aligned(ch, c, Reads(c)) \/ ch' = PowerAligned(ch, c))
          => Shows(c)
  BY <1>1, <1>6, MovesShow
<1>8. ASSUME WaitUp(c) \/ WaitDown(c) PROVE Shows(c)
  <2>1. GoesBad(c) \/ ch' = MoveToOn(ch, c) \/ (hw[c] = "DOWN" /\ UNCHANGED hw)
    BY <1>8, Zenon DEF WaitUp, WaitDown
  <2> QED
    BY <1>2, <1>3, <2>1 DEF Shows
<1>10. ASSUME RecoverEnds(c) \/ SyncEnds(c), hw[c] = "UP" => job.read = "UP"
       PROVE  Shows(c)
  <2>1. Recovered(ch, c) \in Lists /\ Shown(c, Recovered(ch, c))
    <3>1. Recovered(ch, c) \in Lists
      BY <1>1 DEF Recovered, Aligned, MoveToOn, MoveToOff, Lists
    <3> QED
      BY <1>1, <1>10, <3>1, MovesShow
  <2>2. /\ Shown(c, PowerAligned(Recovered(ch, c), c))
        /\ Shown(c, MoveToBad(Recovered(ch, c), {c}))
    BY <2>1, MovesShow DEF Shown
  <2>3. /\ UNCHANGED hw
        /\ \/ ch' = Recovered(ch, c) \/ ch' = PowerAligned(Recovered(ch, c), c)
           \/ ch' = MoveToBad(Recovered(ch, c), {c})
    BY <1>10 DEF RecoverEnds, SyncEnds, Present
  <2> QED
    BY <1>6, <2>1, <2>2, <2>3
<1>9. ASSUME OnChannel(c), job.cmd # "feb_change_address"
      PROVE  Shows(c) \/ c \in job'.wait \/ UNCHANGED <<ch, hw>>
  <2>1. CASE Sync(c)
    <3>1. \/ ToList(c)
          \/ /\ UNCHANGED hw
             /\ UNCHANGED ch \/ ch' = MoveToBad(ch, {c}) \/ ch' = PowerAligned(ch, c)
      BY <2>1 DEF Sync, Present
    <3> QED
      BY <1>2, <1>5, <1>7, <1>9, <3>1
  <2>2. CASE AcquisitionCheck(c)
    <3>1. \/ ToWait(c) \/ UNCHANGED <<ch, hw>>
          \/ /\ UNCHANGED hw
             /\ ch' \in {ch} \cup {MoveToBad(ch, {x}) : x \in params \cap {c}}
      BY <2>2 DEF AcquisitionCheck
    <3> QED
      BY <1>2, <1>5, <1>9, <3>1
  <2>3. CASE SetCommon(c) \/ GetVoltThr(c) \/ MonitorSnapshot(c) \/ Configure(c)
             \/ On(c) \/ Off(c) \/ ForceOff(c) \/ PowerOnAndWait(c)
             \/ PowerOffAndWait(c) \/ SafetyCheck(c)
    <3>1. \/ UNCHANGED <<ch, hw>> \/ GoesBad(c) \/ ch' = MoveToOn(ch, c)
          \/ Now(c, PowerOff(c)) \/ ToWait(c)
      BY <2>3, Zenon DEF SetCommon, GetVoltThr, MonitorSnapshot, Configure, Access, On,
         Off, ForceOff, PowerOnAndWait, PowerOffAndWait, SafetyCheck
    <3> QED
      BY <1>2, <1>3, <1>4, <1>5, <1>9, <3>1
  <2>4. CASE GetPowerState(c) \/ PowerCheck(c) \/ Recover(c)
    <3>1. \/ UNCHANGED <<ch, hw>> \/ GoesBad(c) \/ ToList(c)
          \/ /\ UNCHANGED hw
             /\ ch' = Aligned(ch, c, Reads(c)) \/ ch' = PowerAligned(ch, c)
      BY <2>4, Zenon DEF GetPowerState, PowerCheck, Recover
    <3> QED
      BY <1>2, <1>5, <1>7, <1>9, <3>1
  <2>5. CASE WriteSerial(c) \/ SetUserBad(c) \/ UnsetUserBad(c)
    <3>1. \/ UNCHANGED <<ch, hw>> \/ ch' = RemoveFromMissingSerial(ch, {c})
          \/ ch' = MoveToFixedBad(ch, {c}) \/ ch' = RemoveFromFixedBad(ch, {c})
      BY <2>5, Zenon DEF WriteSerial, SetUserBad, UnsetUserBad
    <3> QED
      BY <1>1, <1>9, <3>1, MovesShow DEF Shows
  <2> QED
    BY <1>9, <2>1, <2>2, <2>3, <2>4, <2>5, Zenon DEF OnChannel
<1> QED
  BY <1>8, <1>9, <1>10

\* The recovery lists one channel at a time, and one that is up by a status that says
\* so, or by a ramp.
ReadIsTrue ==
    job.cmd \in Recovering =>
        /\ \A c, d \in job.wait : c = d
        /\ \A c \in job.wait : hw[c] = "UP" => job.read \in {"UP", "RUP"}

\* A step of the HV service keeps it: the status is read again for every channel, and
\* nothing but a command of the service switches a channel on.
LEMMA HvStepReads ==
    ASSUME BoardInv, ReadIsTrue, HvStep
    PROVE  ReadIsTrue'
<1>1. /\ HvTypeOK /\ ListsConsistent /\ WaitAfterwards
      /\ hw \in [Channels -> Status] /\ job \in Jobs
  BY TypeParts DEF BoardInv, HvTypeOK
<1>2. CASE WorkerHandles \/ WorkerWaits
  <2>1. PICK c \in Channels :
            /\ WorkerHandles => OnChannel(c)
            /\ WorkerWaits => c \in job.wait /\ Concludes(c)
            /\ job'.cmd = job.cmd
    BY <1>1, <1>2, WorkerOnChannel
  <2> SUFFICES ASSUME job.cmd \in Recovering PROVE ReadIsTrue'
    BY <2>1 DEF ReadIsTrue
  <2>2. UNCHANGED hw /\ (Handled(c) \/ (ToList(c) /\ job.wait = {}))
    <3>1. CASE WorkerHandles
      <4>1. job.wait = {}
        BY <3>1 DEF WorkerHandles
      <4>2. Recover(c) \/ Sync(c)
        BY <2>1, <3>1 DEF OnChannel, Recovering
      <4> QED
        BY <4>1, <4>2 DEF Recover, Sync, Present
    <3>2. CASE WorkerWaits
      <4>1. RecoverEnds(c) \/ SyncEnds(c)
        BY <2>1, <3>2 DEF Concludes, Recovering
      <4> QED
        BY <4>1 DEF RecoverEnds, SyncEnds, Present
    <3> QED
      BY <1>2, <3>1, <3>2
  <2>3. CASE Handled(c)
    <3>1. job'.wait = {}
      <4>1. job'.wait = job.wait \ {c}
        BY <1>1, <2>3 DEF Handled, Jobs
      <4>2. job.wait \subseteq {c}
        BY <1>2, <2>1 DEF ReadIsTrue, WorkerHandles
      <4> QED
        BY <4>1, <4>2
    <3> QED
      BY <3>1 DEF ReadIsTrue
  <2>4. CASE ToList(c) /\ job.wait = {}
    <3>1. job'.wait = {c} /\ job'.read = Reads(c)
      BY <1>1, <2>4 DEF ToList, Jobs
    <3> QED
      BY <2>2, <3>1 DEF ReadIsTrue, Reads
  <2> QED
    BY <2>2, <2>3, <2>4
<1>3. ASSUME \A c \in Channels : hw'[c] = "UP" => hw[c] = "UP",
             \/ job'.wait = {}
             \/ job'.wait = job.wait /\ job'.cmd = job.cmd /\ job'.read = job.read
      PROVE  ReadIsTrue'
  <2>1. job.wait \subseteq Channels
    BY <1>1 DEF Jobs
  <2> QED
    BY <1>3, <2>1 DEF ReadIsTrue
<1>4. CASE WorkerSkips \/ WorkerBegins \/ WorkerEnds
  <2>1. CASE WorkerBegins
    <3>1. UNCHANGED hw
      BY <2>1 DEF WorkerBegins
    <3>2. job'.wait = {}
      BY <2>1 DEF WorkerBegins, NoJob
    <3> QED
      BY <1>3, <3>1, <3>2
  <2>2. CASE WorkerSkips
    BY <1>3, <2>2 DEF WorkerSkips
  <2>3. CASE WorkerEnds
    BY <1>3, <2>3 DEF WorkerEnds, NoJob
  <2> QED
    BY <1>4, <2>1, <2>2, <2>3
<1>5. CASE CheckSafety \/ CheckPower \/ CheckRecovery \/ CheckAcquisition \/ CheckExpires
  <2>1. UNCHANGED <<hw, job>>
    BY <1>5 DEF CheckSafety, CheckPower, CheckRecovery, CheckAcquisition, QueueCheck,
                CheckExpires
  <2> QED
    BY <1>3, <2>1
<1>6. CASE \E k \in Callers : RequestTimeout(k)
  <2>1. UNCHANGED hw /\ job'.wait = job.wait /\ job'.cmd = job.cmd /\ job'.read = job.read
    BY <1>1, <1>6 DEF RequestTimeout, Jobs
  <2> QED
    BY <1>3, <2>1
<1>7. CASE \E c \in Channels : Trip(c)
  <2>1. PICK c \in Channels : Trip(c)
    BY <1>7
  <2>2. UNCHANGED job /\ \A e \in Channels : hw'[e] = "UP" => hw[e] = "UP"
    BY <1>1, <2>1 DEF Trip, Now
  <2> QED
    BY <1>3, <2>2
<1> QED
  BY <1>2, <1>4, <1>5, <1>6, <1>7, Zenon DEF HvStep, WorkerStep

\* Every step does.
LEMMA NextReads == BoardInv /\ ReadIsTrue /\ [Next]_vars => ReadIsTrue'
<1> SUFFICES ASSUME BoardInv, ReadIsTrue, [Next]_vars PROVE ReadIsTrue'
  OBVIOUS
<1>1. TypeOK /\ ListsConsistent
  BY DEF BoardInv
<1>2. UNCHANGED <<hw, job>> => ReadIsTrue'
  BY DEF ReadIsTrue
<1>3. CASE HvStep
  BY <1>3, HvStepReads
<1>4. ASSUME NEW t \in Threads, CommandStep(t) \/ NewCommand(t) PROVE ReadIsTrue'
  BY <1>1, <1>2, <1>4, ThreadStepEffect DEF ThreadEffect
<1>5. CASE SafeStep
  <2>1. CASE SafeEnds
    <3>1. UNCHANGED hw /\ (UNCHANGED job \/ job' = NoJob)
      BY <2>1 DEF SafeEnds
    <3> QED
      BY <1>2, <3>1 DEF ReadIsTrue, NoJob
  <2>2. CASE ~SafeEnds
    <3>1. UNCHANGED <<hw, job>>
      BY <1>1, <1>5, <2>2, SafeStepLeavesHv, StartupEffect, SafeRequest
         DEF SafeStep, SafeEffect
    <3> QED
      BY <1>2, <3>1
  <2> QED
    BY <2>1, <2>2
<1>6. CASE ControlLost \/ ServerShutdown \/ Connects \/ AcquisitionLost \/ AcquisitionSafe
  BY <1>1, <1>2, <1>6, ConnectionEffect
<1>7. CASE \E c \in Channels : RampChanges(c)
  BY <1>2, <1>7 DEF RampChanges, hvVars
<1>8. CASE UNCHANGED vars
  BY <1>2, <1>8 DEF vars, hvVars
<1> QED
  BY <1>3, <1>4, <1>5, <1>6, <1>7, <1>8 DEF Next, Step

\* No step of the HV service hides a channel that is not read during a ramp.
LEMMA HvStepHidesNothing ==
    ASSUME BoardInv, ReadIsTrue, HvStep, NEW d \in Channels, Hidden(d)', ~Hidden(d),
           "RUP" \notin {Reads(d), job.read}
    PROVE  job.cmd = "feb_change_address"
<1>1. /\ HvTypeOK /\ ListsConsistent /\ WaitAfterwards
      /\ ch \in Lists /\ hw \in [Channels -> Status] /\ job \in Jobs
  BY TypeParts DEF BoardInv, HvTypeOK
<1>2. CASE WorkerHandles \/ WorkerWaits
  <2>1. PICK c \in Channels :
            /\ WorkerHandles => c \in job.todo /\ OnChannel(c)
            /\ WorkerWaits => c \in job.wait /\ Concludes(c)
            /\ OnOneChannel(c) /\ ChangesOnly(c)
    BY <1>1, <1>2, WorkerOnChannel
  <2>2. Handled(c) \/ Failed(c) \/ ToWait(c) \/ ToList(c)
    BY <2>1, ChannelStepAdvances
  <2>3. CASE d # c
    <3>1. SameFor(d, ch', ch)
      BY <1>1, <2>1, <2>3, ChannelStepOthers
    <3>2. hw'[d] = hw[d]
      BY <1>1, <2>1, <2>3 DEF ChangesOnly
    <3>3. d \in job'.wait <=> d \in job.wait
      <4>1. job'.wait = job.wait \ {c} \/ job'.wait = job.wait \cup {c}
        BY <1>1, <2>2 DEF Handled, Failed, ToWait, ToList, Jobs
      <4> QED
        BY <2>3, <4>1
    <3> QED
      BY <3>1, <3>2, <3>3 DEF SameFor, Hidden
  <2>4. CASE d = c
    <3>1. ~Shows(c) /\ c \notin job'.wait
      BY <2>4 DEF Hidden, Shows
    <3>2. CASE WorkerWaits
      <4>1. \/ WaitDown(c) \/ WaitUp(c)
            \/ (RecoverEnds(c) \/ SyncEnds(c)) /\ job.cmd \in Recovering
        BY <2>1, <3>2 DEF Concludes, Recovering
      <4>2. job.cmd \in Recovering => (hw[c] = "UP" => job.read = "UP")
        BY <2>1, <3>2 DEF ReadIsTrue
      <4> QED
        BY <1>1, <2>4, <3>1, <4>1, <4>2, ChannelStepShows
    <3>3. CASE WorkerHandles
      <4>1. c \notin job.wait
        BY <1>1, <2>1, <3>3 DEF WaitAfterwards
      <4>2. ~UNCHANGED <<ch, hw>>
        BY <2>4, <4>1 DEF Hidden
      <4> QED
        BY <1>1, <2>1, <2>4, <3>1, <3>3, <4>2, ChannelStepShows
    <3> QED
      BY <1>2, <3>2, <3>3
  <2> QED
    BY <2>3, <2>4
<1>3. ASSUME UNCHANGED ch, hw'[d] = "UP" => hw[d] = "UP", job.wait = {} \/ job'.wait = job.wait
      PROVE  FALSE
  BY <1>3 DEF Hidden
<1>4. CASE WorkerSkips \/ WorkerBegins \/ WorkerEnds
  <2>1. UNCHANGED <<ch, hw>> /\ (job.wait = {} \/ UNCHANGED job)
    BY <1>4 DEF WorkerSkips, WorkerBegins, WorkerEnds, NoJob
  <2> QED
    BY <1>3, <2>1
<1>5. CASE CheckSafety \/ CheckPower \/ CheckRecovery \/ CheckAcquisition \/ CheckExpires
  <2>1. UNCHANGED <<ch, hw, job>>
    BY <1>5 DEF CheckSafety, CheckPower, CheckRecovery, CheckAcquisition, QueueCheck,
                CheckExpires
  <2> QED
    BY <1>3, <2>1
<1>6. CASE \E k \in Callers : RequestTimeout(k)
  <2>1. UNCHANGED <<ch, hw>> /\ job'.wait = job.wait
    BY <1>1, <1>6 DEF RequestTimeout, Jobs
  <2> QED
    BY <1>3, <2>1
<1>7. CASE \E c \in Channels : Trip(c)
  <2>1. PICK c \in Channels : Trip(c)
    BY <1>7
  <2>2. UNCHANGED <<ch, job>> /\ (hw'[d] = "UP" => hw[d] = "UP")
    BY <1>1, <2>1 DEF Trip, Now
  <2> QED
    BY <1>3, <2>2
<1> QED
  BY <1>2, <1>4, <1>5, <1>6, <1>7, Zenon DEF HvStep, WorkerStep

\* The lists of a service that is made show every channel that is not ramping, and the ones that a thread
\* changes itself only lose OK channels.
LEMMA ThreadMovesShow ==
    ASSUME ch \in Lists, NEW d \in Channels, NEW cs \in SUBSET Channels,
           NEW silent \in SUBSET Channels, Reads(d) # "RUP"
    PROVE  /\ Shown(d, Scanned(cs, silent)) /\ Shown(d, NoLists)
           /\ Shown(d, ch) => Shown(d, SetFixedBad(ch, cs))
           /\ Shown(d, ch) => Shown(d, MoveToMissingSerial(ch, cs))
<1>1. Shown(d, Scanned(cs, silent)) /\ Shown(d, NoLists)
  BY DEF Shown, Scanned, NoLists, Reads
<1>2. Shown(d, ch) => Shown(d, MoveToMissingSerial(ch, cs))
  BY DEF Shown, MoveToMissingSerial, Removed, Lists
<1>3. Shown(d, ch) => Shown(d, SetFixedBad(ch, cs))
  <2> DEFINE k == RemoveFromFixedBad(ch, ch.fixed \ cs)
  <2>1. /\ k \in Lists
        /\ k.ok = ch.ok \ (ch.fixed \ cs) /\ k.off = ch.off \cup (ch.fixed \ cs)
    BY DEF RemoveFromFixedBad, MoveToBad, Lists
  <2>2. SetFixedBad(ch, cs) = MoveToFixedBad(k, cs \ ch.fixed)
    BY DEF SetFixedBad
  <2> HIDE DEF k
  <2>3. /\ MoveToFixedBad(k, cs \ ch.fixed).ok \subseteq k.ok
        /\ MoveToFixedBad(k, cs \ ch.fixed).off \subseteq k.off
    BY <2>1 DEF MoveToFixedBad, Removed, Lists
  <2> QED
    BY <2>1, <2>2, <2>3 DEF Shown
<1> QED
  BY <1>1, <1>2, <1>3

\* No other thread of the board hides a channel.
LEMMA ThreadStepHidesNothing ==
    ASSUME BoardInv, NEW t \in Threads, CommandStep(t) \/ NewCommand(t), NEW d \in Channels,
           Shown(d, ch), Reads(d) # "RUP"
    PROVE  UNCHANGED hw /\ Shown(d, ch')
<1>1. /\ TypeOK /\ ListsConsistent /\ ch \in Lists
      /\ cmd[t].fixed \in SUBSET Channels /\ {} \in SUBSET Channels
  BY ThreadStepTypes, TypeParts DEF BoardInv, HvTypeOK
<1>2. ASSUME NEW fixed \in SUBSET Channels, Ensure(fixed) PROVE Shown(d, ch')
  <2>1. PICK silent \in SUBSET Channels : ch' = Scanned(fixed, silent)
    BY <1>1, <1>2 DEF Ensure
  <2> QED
    BY <1>1, <2>1, ThreadMovesShow
<1>3. UNCHANGED hw
  BY <1>1, ThreadStepEffect DEF ThreadEffect
<1>4. CASE Prepare(t) \/ FirstRead(t)
  <2>1. Ensure(cmd[t].fixed) \/ Ensure({}) \/ UNCHANGED ch
    BY <1>4, Zenon DEF Prepare, FirstRead
  <2> QED
    BY <1>1, <1>2, <1>3, <2>1
<1>5. CASE FixChannels(t)
  BY <1>1, <1>3, <1>5, ThreadMovesShow DEF FixChannels
<1>6. CASE CheckSerials(t)
  <2>1. PICK missing \in SUBSET ch.ok : ch' = MoveToMissingSerial(ch, missing)
    BY <1>6 DEF CheckSerials
  <2>2. missing \in SUBSET Channels
    BY <1>1 DEF Lists
  <2> QED
    BY <1>1, <1>3, <2>1, <2>2, ThreadMovesShow
<1>7. CASE ~(Prepare(t) \/ FirstRead(t) \/ FixChannels(t) \/ CheckSerials(t))
  <2>1. UNCHANGED ch
    BY <1>7, Zenon DEF CommandStep, NewCommand, AcqStart, GivesUp, SetPolicy, SwitchOn,
       SetTestMode, SpawnProducer, RecordProducer, SetMode, StartAcqCheck,
       HvCommandEnds, ApplyMode, HvCommand, EnableChannels, hvVars
  <2> QED
    BY <1>3, <2>1
<1> QED
  BY <1>4, <1>5, <1>6, <1>7

\* Nor does the safe state.
LEMMA SafeStepHidesNothing ==
    ASSUME BoardInv, SafeStep, NEW d \in Channels, Shown(d, ch), Reads(d) # "RUP"
    PROVE  UNCHANGED hw /\ Shown(d, ch')
<1>1. TypeOK /\ ListsConsistent /\ ch \in Lists /\ {} \in SUBSET Channels
  BY TypeParts DEF BoardInv, HvTypeOK
<1>2. CASE Startup
  <2>1. UNCHANGED hw /\ Ensure({})
    BY <1>2 DEF Startup
  <2>2. PICK silent \in SUBSET Channels : ch' = Scanned({}, silent)
    BY <1>1, <2>1 DEF Ensure
  <2> QED
    BY <1>1, <2>1, <2>2, ThreadMovesShow
<1>3. CASE SafeEnds
  <2>1. UNCHANGED hw /\ (UNCHANGED ch \/ ch' = NoLists)
    BY <1>3 DEF SafeEnds
  <2> QED
    BY <1>1, <2>1, ThreadMovesShow
<1>4. CASE ~Startup /\ ~SafeEnds
  <2>1. UNCHANGED <<ch, hw>>
    BY <1>1, <1>4, SafeStepLeavesHv, SafeRequest DEF SafeStep
  <2> QED
    BY <2>1
<1> QED
  BY <1>2, <1>3, <1>4

\* HVService: whatever runs beside whatever, a channel that is up never becomes an OK
\* channel that the lists take for off, which nothing would watch, unless a command
\* still waits for its ramp or is about to list it, except in two ways: its status was
\* read during a ramp, or the address of its FEB was changed.
THEOREM SpecNothingHidden == Spec => NothingHidden
<1>1. ASSUME BoardInv, ReadIsTrue, Step, NEW d \in Channels, Hidden(d)', ~Hidden(d),
             "RUP" \notin {Reads(d), job.read}
      PROVE  job.cmd = "feb_change_address"
  <2>1. TypeOK /\ ListsConsistent /\ HvTypeOK
    BY <1>1, TypeParts DEF BoardInv
  <2>2. CASE HvStep
    BY <1>1, <2>2, HvStepHidesNothing
  <2>3. ASSUME UNCHANGED hw, Shown(d, ch) => Shown(d, ch'), UNCHANGED job \/ Shown(d, ch')
        PROVE  FALSE
    BY <1>1, <2>3 DEF Shown, Hidden
  <2>4. ASSUME NEW t \in Threads, CommandStep(t) \/ NewCommand(t) PROVE FALSE
    <3>1. UNCHANGED <<hw, job>>
      BY <2>1, <2>4, ThreadStepEffect DEF ThreadEffect
    <3>2. Shown(d, ch) => Shown(d, ch')
      BY <1>1, <2>4, ThreadStepHidesNothing
    <3> QED
      BY <2>3, <3>1, <3>2
  <2>5. CASE SafeStep
    <3>1. Shown(d, ch) => Shown(d, ch')
      BY <1>1, <2>5, SafeStepHidesNothing
    <3>2. UNCHANGED hw
      BY <2>1, <2>5, SafeStepLeavesHv, StartupEffect, SafeRequest, SafeEndsEffect
         DEF SafeStep, SafeEffect
    <3>3. UNCHANGED job \/ Shown(d, ch')
      <4>1. CASE SafeEnds
        <5>1. UNCHANGED job \/ ch' = NoLists
          BY <4>1 DEF SafeEnds
        <5> QED
          BY <5>1 DEF Shown, NoLists
      <4>2. CASE ~SafeEnds
        BY <2>1, <2>5, <4>2, SafeStepLeavesHv, StartupEffect, SafeRequest DEF SafeStep
      <4> QED
        BY <4>1, <4>2
    <3> QED
      BY <2>3, <3>1, <3>2, <3>3
  <2>6. CASE ControlLost \/ ServerShutdown \/ Connects \/ AcquisitionLost \/ AcquisitionSafe
    <3>1. UNCHANGED <<ch, hw, job>>
      BY <2>1, <2>6, ConnectionEffect
    <3> QED
      BY <2>3, <3>1
  <2> QED
    BY <1>1, <2>2, <2>4, <2>5, <2>6 DEF Step
<1>2. ASSUME UNCHANGED <<ch, hw, job>>, NEW d \in Channels PROVE Hidden(d)' => Hidden(d)
  BY <1>2 DEF Hidden
<1>3. BoardInv /\ ReadIsTrue /\ [Next]_vars =>
          [\A c \in Channels : Hidden(c)' /\ ~Hidden(c) =>
               \/ "RUP" \in {Reads(c), job.read}
               \/ job.cmd = "feb_change_address"]_<<hvVars, ramp>>
  <2>1. UNCHANGED vars => UNCHANGED <<hvVars, ramp>>
    BY DEF vars
  <2>2. ASSUME NEW c \in Channels, RampChanges(c) PROVE UNCHANGED <<ch, hw, job>>
    BY <2>2 DEF RampChanges, hvVars
  <2>3. Next => Step \/ UNCHANGED <<ch, hw, job>>
    BY <2>2 DEF Next
  <2> QED
    BY <1>1, <1>2, <2>1, <2>3
<1>4. Init => ReadIsTrue
  BY DEF Init, ReadIsTrue, NoJob
<1> QED
  BY <1>3, <1>4, NextReads, SpecBoardInv, PTL DEF Spec, NothingHidden

=============================================================================
