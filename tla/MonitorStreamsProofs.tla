------------------------- MODULE MonitorStreamsProofs -------------------------
(***************************************************************************)
(* What the stream service believes of the board, for every set of         *)
(* consumers and intervals, any number of attempts, commands and losses.   *)
(*                                                                         *)
(* Neither half of StreamConsistent is inductive.  ActiveIsReal needs that *)
(* commands and replies travel in the order of their numbers (PipeOK), so  *)
(* that a reply to the last command means that nothing is behind it, and   *)
(* that a board which was away is found out before the stream is relied on *)
(* (Away, BeliefOK).  NoForgottenReturn needs somebody who will still look *)
(* at a stream that is missing (Attended), also while a user's command has *)
(* the book changed and may yet put the former record back (ReturnOK).     *)
(***************************************************************************)
EXTENDS MonitorStreams, WellFoundedInduction, TLAPS

Wanted == Intervals \cup {0}

Streams ==
    [known : BOOLEAN, consumers : [Consumers -> Wanted], desired : Wanted, actual : Wanted]

\* A stream record: desired follows the book, and nothing runs that is unknown.
StreamOK(s) ==
    /\ s \in Streams
    /\ s.desired = ComputeProducerInterval(s.consumers)
    /\ ~s.known => s.desired = 0 /\ s.actual = 0

Requests == [id : Nat, interval : Wanted]
Answers == [id : Nat, ok : BOOLEAN]

MonitoringSteps == {"idle", "list", "invalidate", "cancel", "admit", "relist",
                    "reinvalidate", "background"}
ControlSteps == {"idle", "list", "invalidate", "forget", "cancel"}
IoStates == [pc : MonitoringSteps \cup ControlSteps, hello : BOOLEAN]

Orders == [pc : {"idle", "lock", "apply"}, consumer : Consumers \cup {None},
           interval : Wanted, previous : Streams]
WorkerSteps == {"off", "check", "lock", "apply", "sleep", "done", "failed"}
Workers == [pc : WorkerSteps, attempt : 0..Attempts]

Types ==
    /\ StreamOK(stream)
    /\ lock \in Callers \cup {None}
    /\ cli \in Orders
    /\ worker \in Workers
    /\ again \in BOOLEAN /\ reported \in BOOLEAN
    /\ io \in [Threads -> IoStates]
    /\ registered \in BOOLEAN /\ on_plane \in BOOLEAN
    /\ call \in {"none", "waiting", "ok", "failed"} /\ request \in 0..MaxCalls
    /\ outgoing \in Seq(Requests) /\ wire \in Seq(Requests) /\ replies \in Seq(Answers)
    /\ hello \in BOOLEAN /\ config \in Wanted
    /\ faults \in 0..MaxFaults /\ doubt \in BOOLEAN

\* Who holds the lock, and what the holder has found.
LockOK ==
    /\ call # "none" => lock # None
    /\ lock = "cli" <=> cli.pc = "apply"
    /\ lock = "worker" <=> worker.pc = "apply"
    /\ lock # None => stream.known
    /\ worker.pc = "sleep" => worker.attempt < Attempts

\* Between the change of the book and its outcome the former record is kept
\* aside, and differs in the one entry only; the board is to be told something.
OrderOK ==
    /\ cli.pc # "idle" => cli.consumer \in Consumers
    /\ cli.pc = "apply" =>
          /\ StreamOK(cli.previous)
          /\ cli.previous.actual = stream.actual
          /\ stream.desired # stream.actual
          /\ stream.consumers =
                [cli.previous.consumers EXCEPT ![cli.consumer] = cli.interval]

\* A board on the plane has a record, and while the monitoring thread deals
\* with its loss it is off the plane.
PlaneOK ==
    /\ io["monitoring"].pc \in MonitoringSteps
    /\ io["control"].pc \in ControlSteps /\ ~io["control"].hello
    /\ on_plane => registered
    /\ io["monitoring"].pc \in {"list", "invalidate", "cancel", "admit"} => ~on_plane

\* Somebody will still look at a stream that is wanted and not running: the
\* worker, the monitoring thread that has admitted the board, or the control
\* thread that is about to take it off the plane.
Attended ==
    \/ reported
    \/ worker.pc \in {"check", "lock", "apply", "sleep", "failed"}
    \/ worker.pc = "done" /\ again
    \/ io["monitoring"].pc \in {"relist", "reinvalidate", "background"}
    \/ io["control"].pc \in {"list", "invalidate", "forget"}

Missing(s) == on_plane /\ s.desired # 0 /\ s.actual = 0

ReturnOK ==
    /\ worker.pc # "off" => ~reported
    /\ lock # "cli" /\ Missing(stream) => Attended
    /\ lock = "cli" /\ Missing(cli.previous) => Attended

\* The board has been away, and the server will find out before it relies on
\* the stream: a hello is on its way, or the stream is not invalidated yet.
Away ==
    \/ hello \/ ~on_plane
    \/ io["monitoring"].pc \in {"relist", "reinvalidate"}

\* Commands travel in the order of their numbers: what is behind is newer.
PipeOK ==
    /\ \A i \in DOMAIN outgoing : outgoing[i].id <= request
    /\ \A i \in DOMAIN wire : wire[i].id <= request
    /\ \A i, j \in DOMAIN outgoing : i < j => outgoing[i].id < outgoing[j].id
    /\ \A i, j \in DOMAIN wire : i < j => wire[i].id < wire[j].id
    /\ \A i \in DOMAIN wire, j \in DOMAIN outgoing : wire[i].id < outgoing[j].id
    /\ \A i, j \in DOMAIN replies : i < j => replies[i].id < replies[j].id
    /\ \A i \in DOMAIN replies :
          /\ replies[i].id <= request
          /\ \A j \in DOMAIN wire : replies[i].id < wire[j].id
          /\ \A j \in DOMAIN outgoing : replies[i].id < outgoing[j].id

Confirmed == \E i \in DOMAIN replies : replies[i].id = request /\ replies[i].ok

\* What the server may conclude from the answer of the board.  Without doubt
\* nothing but the command of the holder of the lock is under way, and what the
\* server believes is what the board does until that command has its effect.
BeliefOK ==
    /\ call = "waiting" =>
          /\ \A i \in DOMAIN outgoing :
                outgoing[i].id = request => outgoing[i].interval = stream.desired
          /\ \A i \in DOMAIN wire :
                wire[i].id = request => wire[i].interval = stream.desired
          /\ Confirmed => config = stream.desired \/ Away
          /\ ~doubt => /\ \A i \in DOMAIN outgoing : outgoing[i].id = request
                       /\ \A i \in DOMAIN wire : wire[i].id = request
    /\ call = "ok" => config = stream.desired \/ Away
    /\ call = "ok" \/ (call # "waiting" /\ ~doubt) => outgoing = <<>> /\ wire = <<>>
    /\ stream.actual # 0 /\ ~doubt =>
          \/ config = stream.actual \/ Away
          \/ call = "ok" \/ (call = "waiting" /\ Confirmed)

StreamsInv ==
    Types /\ LockOK /\ OrderOK /\ PlaneOK /\ ReturnOK /\ PipeOK /\ BeliefOK

------------------------------------------------------------------------------
(* The interval the board is asked for *)

\* A set of natural numbers that is not empty has a smallest member.
LEMMA MinIsMember ==
    ASSUME NEW S \in SUBSET Nat, S # {}
    PROVE  Min(S) \in S
<1>1. IsWellFoundedOn(OpToRel(<, Nat), Nat)
  BY NatLessThanWellFounded
<1>2. PICK x \in S : \A y \in S : <<y, x>> \notin OpToRel(<, Nat)
  BY <1>1, WFMin
<1>3. ASSUME NEW y \in S PROVE x =< y
  <2>1. <<y, x>> \in Nat \X Nat /\ x \in Nat /\ y \in Nat
    OBVIOUS
  <2>2. ~ (y < x)
    BY <1>2, <2>1 DEF OpToRel
  <2> QED
    BY <2>1, <2>2
<1> QED
  BY <1>3 DEF Min

\* _compute_producer_interval_ns_locked: one of the intervals, or none at all.
LEMMA ProducerInterval ==
    ASSUME NEW book \in [Consumers -> Wanted]
    PROVE  ComputeProducerInterval(book) \in Wanted
<1> DEFINE wanted == {book[c] : c \in Consumers} \ {0}
<1>1. wanted \subseteq Intervals /\ Intervals \subseteq Nat
  BY StreamsAssumption DEF Wanted
<1>2. CASE wanted = {}
  BY <1>2 DEF ComputeProducerInterval, Wanted
<1>3. CASE wanted # {}
  <2>1. wanted \in SUBSET Nat
    BY <1>1
  <2> HIDE DEF wanted
  <2>2. Min(wanted) \in wanted
    BY <2>1, <1>3, MinIsMember
  <2> QED
    BY <2>2, <1>1, <1>3 DEF ComputeProducerInterval, Wanted, wanted
<1> QED
  BY <1>2, <1>3

\* Nobody wants samples: the board is asked for none.
LEMMA NobodyWants == ComputeProducerInterval([c \in Consumers |-> 0]) = 0
BY DEF ComputeProducerInterval

------------------------------------------------------------------------------
(* What the steps of the threads do to their records *)

\* SetActive: the record says that the board does what is desired.
LEMMA ActiveFacts ==
    ASSUME StreamOK(stream), stream.known, SetActive
    PROVE  /\ StreamOK(stream') /\ stream'.known
           /\ stream'.desired = stream.desired /\ stream'.actual = stream.desired
           /\ stream'.consumers = stream.consumers
BY DEF SetActive, StreamOK, Streams

\* The worker goes to another step of its loop.
LEMMA WorkerMoves ==
    ASSUME worker \in Workers, NEW pc \in WorkerSteps, WorkerGoto(pc)
    PROVE  worker' \in Workers /\ worker'.pc = pc /\ worker'.attempt = worker.attempt
BY DEF WorkerGoto, Workers

\* An I/O thread goes to another step, the other one stays.
LEMMA IoMoves ==
    ASSUME io \in [Threads -> IoStates], NEW t \in Threads,
           NEW pc \in MonitoringSteps \cup ControlSteps, IoGoto(t, pc)
    PROVE  /\ io' \in [Threads -> IoStates]
           /\ io'[t].pc = pc /\ io'[t].hello = io[t].hello
           /\ \A u \in Threads : u # t => io'[u] = io[u]
BY DEF IoGoto, IoStates

\* What is in the queues has a number.
LEMMA QueueTypes ==
    ASSUME Types
    PROVE  /\ \A i \in DOMAIN outgoing : outgoing[i] \in Requests /\ outgoing[i].id \in Nat
           /\ \A i \in DOMAIN wire : wire[i] \in Requests /\ wire[i].id \in Nat
           /\ \A i \in DOMAIN replies : replies[i] \in Answers /\ replies[i].id \in Nat
<1>1. outgoing \in Seq(Requests) /\ wire \in Seq(Requests) /\ replies \in Seq(Answers)
  BY DEF Types
<1>2. ASSUME NEW i \in DOMAIN outgoing PROVE outgoing[i] \in Requests /\ outgoing[i].id \in Nat
  <2>1. outgoing[i] \in Requests
    BY <1>1
  <2> QED
    BY <2>1 DEF Requests
<1>3. ASSUME NEW i \in DOMAIN wire PROVE wire[i] \in Requests /\ wire[i].id \in Nat
  <2>1. wire[i] \in Requests
    BY <1>1
  <2> QED
    BY <2>1 DEF Requests
<1>4. ASSUME NEW i \in DOMAIN replies PROVE replies[i] \in Answers /\ replies[i].id \in Nat
  <2>1. replies[i] \in Answers
    BY <1>1
  <2> QED
    BY <2>1 DEF Answers
<1> QED
  BY <1>2, <1>3, <1>4

\* The queues do not change and the belief of the server does not either.
LEMMA BeliefFrame ==
    ASSUME PipeOK, BeliefOK,
           UNCHANGED <<request, outgoing, wire, replies, config, call, doubt,
                       stream.desired, stream.actual>>,
           Away => Away'
    PROVE  PipeOK' /\ BeliefOK'
<1>1. PipeOK'
  BY DEF PipeOK
<1>2. Confirmed' <=> Confirmed
  BY DEF Confirmed
<1> QED
  BY <1>1, <1>2 DEF BeliefOK

\* Nothing but the command line or the worker moves: the plane stays.
LEMMA PlaneFrame ==
    ASSUME UNCHANGED <<io, plane, hello>>
    PROVE  (PlaneOK => PlaneOK') /\ (Away <=> Away')
BY DEF PlaneOK, Away, plane

\* Init: no stream, nothing under way.
LEMMA InitInv == Init => StreamsInv
<1> SUFFICES ASSUME Init PROVE StreamsInv
  OBVIOUS
<1>1. Absent \in Streams /\ StreamOK(Absent)
  BY NobodyWants DEF Absent, Streams, StreamOK, Wanted
<1>2. Types
  <2>1. cli \in Orders
    BY <1>1 DEF Init, IdleCli, Orders, Wanted
  <2>2. worker \in Workers /\ io \in [Threads -> IoStates]
    BY StreamsAssumption
       DEF Init, OffWorker, Workers, WorkerSteps, IoStates, MonitoringSteps, ControlSteps
  <2>3. outgoing \in Seq(Requests) /\ wire \in Seq(Requests) /\ replies \in Seq(Answers)
    BY DEF Init
  <2>4. request \in 0..MaxCalls /\ faults \in 0..MaxFaults /\ config \in Wanted
    BY StreamsAssumption DEF Init, Wanted
  <2>5. StreamOK(stream) /\ lock \in Callers \cup {None}
    BY <1>1 DEF Init
  <2> QED
    BY <2>1, <2>2, <2>3, <2>4, <2>5 DEF Init, Types
<1>3. LockOK /\ OrderOK /\ ReturnOK
  BY StreamsAssumption
     DEF Init, LockOK, OrderOK, ReturnOK, IdleCli, OffWorker, Absent, Missing
<1>4. PlaneOK
  BY DEF Init, PlaneOK, Threads, MonitoringSteps, ControlSteps
<1>5. PipeOK
  BY DEF Init, PipeOK
<1>6. BeliefOK
  BY DEF Init, BeliefOK, Absent
<1> QED
  BY <1>2, <1>3, <1>4, <1>5, <1>6 DEF StreamsInv

------------------------------------------------------------------------------
(* The command line *)

\* A new order touches nothing but the command line.
LEMMA OrderStep ==
    ASSUME StreamsInv, NEW c \in Consumers, NEW i \in Wanted, Order(c, i)
    PROVE  StreamsInv'
<1> USE DEF StreamsInv
<1>1. /\ UNCHANGED <<stream, lock, worker, again, reported, io, plane, call, request,
                     outgoing, wire, replies, hello, config, faults, doubt>>
      /\ cli.pc = "idle" /\ cli'.pc = "lock" /\ cli'.consumer = c /\ cli'.interval = i
  BY DEF Order, IdleCli
<1>2. Absent \in Streams
  BY DEF Absent, Streams, Wanted
<1>3. Types'
  <2>1. cli' \in Orders
    BY <1>2 DEF Order, IdleCli, Orders
  <2> QED
    BY <1>1, <2>1 DEF Types, plane
<1>4. LockOK' /\ OrderOK'
  BY <1>1 DEF LockOK, OrderOK
<1>5. ReturnOK'
  BY <1>1 DEF ReturnOK, Missing, Attended, LockOK, plane
<1>6. PlaneOK' /\ PipeOK' /\ BeliefOK'
  BY <1>1, PlaneFrame, BeliefFrame
<1> QED
  BY <1>3, <1>4, <1>5, <1>6

\* The change of the book: a record with another entry, and its interval.
LEMMA UpdatedFacts ==
    ASSUME StreamOK(stream), NEW c \in Consumers, NEW i \in Wanted
    PROVE  /\ StreamOK(Updated(c, i)) /\ Updated(c, i).known
           /\ Updated(c, i).actual = stream.actual
           /\ Updated(c, i).consumers = [stream.consumers EXCEPT ![c] = i]
<1> DEFINE book == [stream.consumers EXCEPT ![c] = i]
<1>1. book \in [Consumers -> Wanted]
  BY DEF StreamOK, Streams
<1>2. ComputeProducerInterval(book) \in Wanted
  BY <1>1, ProducerInterval
<1>3. /\ Updated(c, i).known = TRUE /\ Updated(c, i).consumers = book
      /\ Updated(c, i).desired = ComputeProducerInterval(book)
      /\ Updated(c, i).actual = stream.actual
      /\ Updated(c, i) \in Streams
  <2> HIDE DEF book
  <2>1. Updated(c, i) = [stream EXCEPT !.known = TRUE, !.consumers = book,
                                       !.desired = ComputeProducerInterval(book)]
    BY DEF Updated, book
  <2> QED
    BY <2>1, <1>1, <1>2 DEF StreamOK, Streams
<1> QED
  BY <1>3 DEF StreamOK

\* An action is needed exactly if the board does not do what is desired.
LEMMA ActionFacts ==
    ASSUME NEW s
    PROVE  DetermineProducerAction(s) = "none" <=> s.actual = s.desired
<1>1. CASE s.actual = 0 /\ s.desired # 0
  BY <1>1 DEF DetermineProducerAction
<1>2. CASE s.actual # 0 /\ s.desired = 0
  BY <1>2 DEF DetermineProducerAction
<1>3. CASE s.actual # 0 /\ s.desired # 0 /\ s.actual # s.desired
  BY <1>3 DEF DetermineProducerAction
<1>4. CASE s.actual = s.desired
  BY <1>4 DEF DetermineProducerAction
<1> QED
  BY <1>1, <1>2, <1>3, <1>4

\* The former record is kept aside while the board is told.
LEMMA ChangeBookStep ==
    ASSUME StreamsInv, ChangeBook
    PROVE  StreamsInv'
<1> USE DEF StreamsInv
<1> DEFINE new == Updated(cli.consumer, cli.interval)
<1>1. /\ UNCHANGED <<worker, again, reported, io, plane, call, request, outgoing, wire,
                     replies, hello, config, faults, doubt>>
      /\ cli.pc = "lock" /\ lock = None /\ stream' = new
      /\ call = "none"
  BY DEF ChangeBook, LockOK
<1>2. cli.consumer \in Consumers /\ cli.interval \in Wanted /\ StreamOK(stream)
  BY <1>1 DEF OrderOK, Types, Orders
<1>3. /\ StreamOK(new) /\ new.known /\ new.actual = stream.actual
      /\ new.consumers = [stream.consumers EXCEPT ![cli.consumer] = cli.interval]
  BY <1>2, UpdatedFacts
<1>4. \/ /\ new.actual = new.desired /\ cli' = IdleCli /\ lock' = None
      \/ /\ new.actual # new.desired /\ lock' = "cli"
         /\ cli' = [cli EXCEPT !.pc = "apply", !.previous = stream]
  BY <1>1, ActionFacts DEF ChangeBook
<1> HIDE DEF new
<1>5. lock # "cli" /\ lock # "worker"
  BY <1>1, StreamsAssumption
<1>6. /\ cli' \in Orders
      /\ \/ new.actual = new.desired /\ cli'.pc = "idle" /\ lock' = None
         \/ /\ new.actual # new.desired /\ lock' = "cli"
            /\ cli'.pc = "apply" /\ cli'.previous = stream
            /\ cli'.consumer = cli.consumer /\ cli'.interval = cli.interval
  <2>1. Absent \in Streams
    BY DEF Absent, Streams, Wanted
  <2>2. CASE new.actual = new.desired /\ cli' = IdleCli /\ lock' = None
    BY <2>1, <2>2 DEF Orders, IdleCli, Wanted
  <2>3. CASE /\ new.actual # new.desired /\ lock' = "cli"
             /\ cli' = [cli EXCEPT !.pc = "apply", !.previous = stream]
    <3>1. cli \in Orders /\ stream \in Streams
      BY <1>2 DEF Types, StreamOK
    <3> QED
      BY <2>3, <3>1 DEF Orders
  <2> QED
    BY <1>4, <2>2, <2>3
<1>7. Types'
  BY <1>1, <1>3, <1>6 DEF Types, Callers, plane
<1>8. LockOK' /\ OrderOK'
  BY <1>1, <1>2, <1>3, <1>5, <1>6, StreamsAssumption DEF LockOK, OrderOK
<1>9. ReturnOK'
  BY <1>1, <1>3, <1>5, <1>6, StreamsAssumption DEF ReturnOK, Missing, Attended, plane
<1>10. PlaneOK' /\ (Away <=> Away')
  BY <1>1, PlaneFrame
<1>11. PipeOK' /\ BeliefOK'
  BY <1>1, <1>3, <1>10 DEF PipeOK, BeliefOK, Confirmed
<1> QED
  BY <1>7, <1>8, <1>9, <1>10, <1>11

\* Nobody to unsubscribe: the order ends.
LEMMA UnsubscribeRefusedStep ==
    ASSUME StreamsInv, UnsubscribeRefused
    PROVE  StreamsInv'
<1> USE DEF StreamsInv
<1>1. /\ UNCHANGED <<stream, lock, worker, again, reported, io, plane, call, request,
                     outgoing, wire, replies, hello, config, faults, doubt>>
      /\ cli.pc = "lock" /\ cli' = IdleCli /\ cli'.pc = "idle"
  BY DEF UnsubscribeRefused, IdleCli
<1>2. Types'
  <2>1. Absent \in Streams
    BY DEF Absent, Streams, Wanted
  <2>2. cli' \in Orders
    BY <1>1, <2>1 DEF IdleCli, Orders, Wanted
  <2> QED
    BY <1>1, <2>2 DEF Types, plane
<1>3. LockOK' /\ OrderOK'
  BY <1>1 DEF LockOK, OrderOK
<1>4. ReturnOK'
  BY <1>1 DEF ReturnOK, Missing, Attended, LockOK, plane
<1>5. PlaneOK' /\ PipeOK' /\ BeliefOK'
  BY <1>1, PlaneFrame, BeliefFrame
<1> QED
  BY <1>2, <1>3, <1>4, <1>5

\* The outcome of a subscription: the board does it, or the former record is back.
LEMMA SubscribeAppliedStep ==
    ASSUME StreamsInv, SubscribeApplied
    PROVE  StreamsInv'
<1> USE DEF StreamsInv
<1>1. /\ UNCHANGED <<worker, again, reported, io, plane, request, outgoing, wire,
                     replies, hello, config, faults>>
      /\ lock = "cli" /\ cli.pc = "apply" /\ stream.known /\ call \in {"ok", "failed"}
      /\ cli' = IdleCli /\ cli'.pc = "idle" /\ call' = "none" /\ lock' = None
      /\ doubt' = (call = "failed" /\ doubt)
  BY StreamsAssumption DEF SubscribeApplied, IdleCli, LockOK, Release
<1>2. /\ StreamOK(stream')
      /\ \/ call = "ok" /\ stream'.actual = stream.desired /\ stream'.desired = stream.desired
         \/ /\ call = "failed" /\ stream' = cli.previous
            /\ stream'.actual = stream.actual
  <2>1. CASE call = "ok"
    BY <1>1, <2>1, ActiveFacts DEF SubscribeApplied, Types
  <2>2. CASE call = "failed"
    BY <1>1, <2>2 DEF SubscribeApplied, OrderOK
  <2> QED
    BY <1>1, <2>1, <2>2
<1>3. Types'
  <2>1. Absent \in Streams
    BY DEF Absent, Streams, Wanted
  <2>2. cli' \in Orders
    BY <1>1, <2>1 DEF IdleCli, Orders, Wanted
  <2> QED
    BY <1>1, <1>2, <2>2 DEF Types, plane
<1>4. LockOK' /\ OrderOK'
  BY <1>1, StreamsAssumption DEF LockOK, OrderOK
<1>5. ReturnOK'
  BY <1>1, <1>2, StreamsAssumption DEF ReturnOK, Missing, Attended, plane
<1>6. PlaneOK' /\ (Away <=> Away')
  BY <1>1, PlaneFrame
<1>7. PipeOK' /\ BeliefOK'
  BY <1>1, <1>2, <1>6 DEF PipeOK, BeliefOK, Confirmed
<1> QED
  BY <1>3, <1>4, <1>5, <1>6, <1>7

------------------------------------------------------------------------------
(* Commands to the board *)

\* A command joins the queue with the next number, or fails before it is sent.
LEMMA SendStep ==
    ASSUME StreamsInv, NEW t \in Callers, NEW failsAnyway \in BOOLEAN, Send(t, failsAnyway)
    PROVE  StreamsInv'
<1> USE DEF StreamsInv
<1>1. /\ UNCHANGED <<stream, lock, cli, worker, again, reported, io, plane, wire,
                     replies, hello, config, faults, doubt>>
      /\ lock = t /\ call = "none" /\ lock # None
  BY StreamsAssumption DEF Send, Callers
<1> DEFINE new == [id |-> request + 1, interval |-> stream.desired]
<1>2. \/ call' = "failed" /\ UNCHANGED <<request, outgoing>>
      \/ /\ call' = "waiting" /\ request < MaxCalls /\ request' = request + 1
         /\ outgoing' = Append(outgoing, new)
  BY DEF Send
<1>3. /\ request \in Nat /\ outgoing \in Seq(Requests) /\ new \in Requests
      /\ new.id = request + 1 /\ new.interval = stream.desired
      /\ \A i \in DOMAIN outgoing : outgoing[i].id \in Nat
      /\ \A i \in DOMAIN wire : wire[i].id \in Nat
      /\ \A i \in DOMAIN replies : replies[i].id \in Nat
  <2>1. request \in Nat /\ stream.desired \in Wanted
    BY StreamsAssumption DEF Types, StreamOK, Streams
  <2> QED
    BY <2>1, QueueTypes DEF Types, Requests
<1> HIDE DEF new
<1>4. Types'
  <2>1. request' \in 0..MaxCalls /\ outgoing' \in Seq(Requests)
    <3>1. request \in 0..MaxCalls
      BY DEF Types
    <3>2. request' \in 0..MaxCalls
      BY <1>2, <3>1, StreamsAssumption
    <3>3. outgoing' \in Seq(Requests)
      BY <1>2, <1>3
    <3> QED
      BY <3>2, <3>3
  <2> QED
    BY <1>1, <1>2, <2>1 DEF Types, plane
<1>5. LockOK' /\ OrderOK'
  BY <1>1, <1>2 DEF LockOK, OrderOK
<1>6. ReturnOK'
  BY <1>1 DEF ReturnOK, Missing, Attended, plane
<1>7. PlaneOK' /\ (Away <=> Away')
  BY <1>1, PlaneFrame
<1>8. CASE call' = "failed" /\ UNCHANGED <<request, outgoing>>
  BY <1>1, <1>4, <1>5, <1>6, <1>7, <1>8 DEF PipeOK, BeliefOK, Confirmed
<1>9. CASE /\ call' = "waiting" /\ request' = request + 1
           /\ outgoing' = Append(outgoing, new)
  <2>1. /\ Len(outgoing') = Len(outgoing) + 1
        /\ DOMAIN outgoing' = 1..(Len(outgoing) + 1) /\ DOMAIN outgoing = 1..Len(outgoing)
        /\ Len(outgoing) \in Nat
        /\ outgoing'[Len(outgoing) + 1] = new
        /\ \A i \in DOMAIN outgoing : outgoing'[i] = outgoing[i]
    BY <1>3, <1>9
  <2>2. \A i \in DOMAIN outgoing' : i \in DOMAIN outgoing \/ i = Len(outgoing) + 1
    BY <2>1
  <2>3. PipeOK'
    BY <1>1, <1>3, <1>9, <2>1, <2>2 DEF PipeOK
  <2>4. ~Confirmed'
    BY <1>1, <1>3, <1>9 DEF PipeOK, Confirmed
  <2>5. ~doubt => outgoing = <<>> /\ wire = <<>>
    BY <1>1 DEF BeliefOK
  <2>6. BeliefOK'
    BY <1>1, <1>3, <1>7, <1>9, <2>1, <2>2, <2>4, <2>5 DEF PipeOK, BeliefOK
  <2> QED
    BY <1>4, <1>5, <1>6, <1>7, <2>3, <2>6
<1> QED
  BY <1>2, <1>8, <1>9

\* Nobody knows what becomes of the command: the doubt.
LEMMA TimeOutStep ==
    ASSUME StreamsInv, TimeOut
    PROVE  StreamsInv'
<1> USE DEF StreamsInv
<1>1. /\ UNCHANGED <<stream, lock, cli, worker, again, reported, io, plane, request,
                     outgoing, wire, replies, hello, config, faults>>
      /\ call = "waiting" /\ call' = "failed" /\ doubt' = TRUE
  BY DEF TimeOut
<1>2. Types'
  BY <1>1 DEF Types, plane
<1>3. LockOK' /\ OrderOK'
  BY <1>1 DEF LockOK, OrderOK
<1>4. ReturnOK'
  BY <1>1 DEF ReturnOK, Missing, Attended, plane
<1>5. PlaneOK' /\ PipeOK' /\ BeliefOK'
  BY <1>1, PlaneFrame DEF PipeOK, BeliefOK
<1> QED
  BY <1>2, <1>3, <1>4, <1>5

------------------------------------------------------------------------------
(* The reconciliation *)

\* A board that is gone is given up, a stream that nobody wants is no work; an
\* order under way has something to tell to the board, so the former record is
\* not forgotten.
LEMMA ReconcileCheckStep ==
    ASSUME StreamsInv, ReconcileCheck
    PROVE  StreamsInv'
<1> USE DEF StreamsInv
<1>1. /\ UNCHANGED <<stream, lock, again, reported, call, doubt>>
      /\ UNCHANGED <<cli, io, plane, request, outgoing, wire, replies, hello, config, faults>>
      /\ worker.pc = "check" /\ worker \in Workers
  BY DEF ReconcileCheck, WorkerKeeps, Types
<1>2. /\ worker' \in Workers
      /\ \/ worker'.pc = "failed"
         \/ stream.desired = 0 /\ worker'.pc = "done"
         \/ worker'.pc = "lock"
  <2>1. CASE ~on_plane
    BY <1>1, <2>1, WorkerMoves DEF ReconcileCheck, WorkerSteps
  <2>2. CASE on_plane /\ stream.desired = 0
    BY <1>1, <2>2, WorkerMoves DEF ReconcileCheck, WorkerSteps
  <2>3. CASE on_plane /\ stream.desired # 0
    BY <1>1, <2>3, WorkerMoves DEF ReconcileCheck, WorkerSteps
  <2> QED
    BY <2>1, <2>2, <2>3
<1>3. Types'
  BY <1>1, <1>2 DEF Types, plane
<1>4. LockOK' /\ OrderOK'
  BY <1>1, <1>2 DEF LockOK, OrderOK
<1>5. ReturnOK'
  BY <1>1, <1>2 DEF ReturnOK, Missing, Attended, OrderOK, LockOK, plane
<1>6. PlaneOK' /\ PipeOK' /\ BeliefOK'
  BY <1>1, PlaneFrame, BeliefFrame
<1> QED
  BY <1>3, <1>4, <1>5, <1>6

\* Under the lock the worker finds something to do, or the stream is in order.
LEMMA ReconcileStreamStep ==
    ASSUME StreamsInv, ReconcileStream
    PROVE  StreamsInv'
<1> USE DEF StreamsInv
<1>1. /\ UNCHANGED <<stream, again, reported, call, doubt>>
      /\ UNCHANGED <<cli, io, plane, request, outgoing, wire, replies, hello, config, faults>>
      /\ worker.pc = "lock" /\ worker \in Workers /\ lock = None
      /\ lock # "cli" /\ lock # "worker" /\ StreamOK(stream)
  BY StreamsAssumption DEF ReconcileStream, WorkerKeeps, Types
<1>2. /\ worker' \in Workers
      /\ \/ worker'.pc = "apply" /\ lock' = "worker" /\ stream.known
         \/ worker'.pc = "done" /\ lock' = None /\ (stream.desired = 0 \/ stream.actual # 0)
  <2>1. CASE stream.known /\ DetermineProducerAction(stream) # "none"
    BY <1>1, <2>1, WorkerMoves DEF ReconcileStream, WorkerSteps
  <2>2. CASE ~(stream.known /\ DetermineProducerAction(stream) # "none")
    <3>1. stream.desired = 0 \/ stream.actual # 0
      BY <1>1, <2>2, ActionFacts DEF StreamOK
    <3> QED
      BY <1>1, <2>2, <3>1, WorkerMoves DEF ReconcileStream, WorkerSteps
  <2> QED
    BY <2>1, <2>2
<1>3. Types'
  BY <1>1, <1>2 DEF Types, Callers, plane
<1>4. LockOK' /\ OrderOK'
  BY <1>1, <1>2, StreamsAssumption DEF LockOK, OrderOK
<1>5. ReturnOK'
  BY <1>1, <1>2 DEF ReturnOK, Missing, Attended, plane
<1>6. PlaneOK' /\ PipeOK' /\ BeliefOK'
  BY <1>1, PlaneFrame, BeliefFrame
<1> QED
  BY <1>3, <1>4, <1>5, <1>6

\* The stream runs again, or another attempt follows, or the failure is reported.
LEMMA ReconcileAppliedStep ==
    ASSUME StreamsInv, ReconcileApplied
    PROVE  StreamsInv'
<1> USE DEF StreamsInv
<1>1. /\ UNCHANGED <<again, reported>>
      /\ UNCHANGED <<cli, io, plane, request, outgoing, wire, replies, hello, config, faults>>
      /\ worker.pc = "apply" /\ worker \in Workers /\ lock = "worker" /\ lock' = None
      /\ lock # "cli" /\ cli.pc # "apply" /\ StreamOK(stream) /\ stream.known
      /\ call \in {"ok", "failed"} /\ call' = "none" /\ doubt' = (call = "failed" /\ doubt)
  BY StreamsAssumption DEF ReconcileApplied, WorkerKeeps, Types, LockOK, Release
<1>2. /\ worker' \in Workers /\ StreamOK(stream')
      /\ \/ /\ call = "ok" /\ worker'.pc = "done"
            /\ stream'.desired = stream.desired /\ stream'.actual = stream.desired
         \/ /\ call = "failed" /\ stream' = stream
            /\ \/ worker'.pc = "sleep" /\ worker'.attempt < Attempts
               \/ worker'.pc = "failed"
  <2>1. CASE call = "ok"
    BY <1>1, <2>1, WorkerMoves, ActiveFacts DEF ReconcileApplied, WorkerSteps
  <2>2. CASE call = "failed" /\ worker.attempt < Attempts
    BY <1>1, <2>2, WorkerMoves DEF ReconcileApplied, WorkerSteps
  <2>3. CASE call = "failed" /\ ~(worker.attempt < Attempts)
    BY <1>1, <2>3, WorkerMoves DEF ReconcileApplied, WorkerSteps
  <2> QED
    BY <1>1, <2>1, <2>2, <2>3
<1>3. Types'
  BY <1>1, <1>2 DEF Types, plane
<1>4. LockOK' /\ OrderOK'
  BY <1>1, <1>2, StreamsAssumption DEF LockOK, OrderOK
<1>5. ReturnOK'
  BY <1>1, <1>2, StreamsAssumption DEF ReturnOK, Missing, Attended, plane
<1>6. PlaneOK' /\ (Away <=> Away')
  BY <1>1, PlaneFrame
<1>7. PipeOK' /\ BeliefOK'
  BY <1>1, <1>2, <1>6 DEF PipeOK, BeliefOK, Confirmed
<1> QED
  BY <1>3, <1>4, <1>5, <1>6, <1>7

\* The next attempt.
LEMMA ReconcileRetryStep ==
    ASSUME StreamsInv, ReconcileRetry
    PROVE  StreamsInv'
<1> USE DEF StreamsInv
<1>1. /\ UNCHANGED <<stream, lock, again, reported, call, doubt>>
      /\ UNCHANGED <<cli, io, plane, request, outgoing, wire, replies, hello, config, faults>>
      /\ worker.pc = "sleep" /\ worker'.pc = "check"
  BY DEF ReconcileRetry, WorkerKeeps
<1>2. worker' \in Workers
  <2>1. worker.attempt \in 0..Attempts /\ worker.attempt < Attempts
    BY <1>1 DEF Types, Workers, LockOK
  <2>2. worker.attempt + 1 \in 0..Attempts
    BY <2>1, StreamsAssumption
  <2> QED
    BY <2>2 DEF ReconcileRetry, Workers, WorkerSteps
<1>3. Types'
  BY <1>1, <1>2 DEF Types, plane
<1>4. LockOK' /\ OrderOK'
  BY <1>1 DEF LockOK, OrderOK
<1>5. ReturnOK'
  BY <1>1 DEF ReturnOK, Missing, Attended, plane
<1>6. PlaneOK' /\ PipeOK' /\ BeliefOK'
  BY <1>1, PlaneFrame, BeliefFrame
<1> QED
  BY <1>3, <1>4, <1>5, <1>6

\* The worker ends with its report, or begins again for a board that was back
\* meanwhile: this is where a return could be forgotten.
LEMMA ReconcileEndStep ==
    ASSUME StreamsInv, ReconcileEnd
    PROVE  StreamsInv'
<1> USE DEF StreamsInv
<1>1. /\ UNCHANGED <<stream, lock, call, doubt>>
      /\ UNCHANGED <<cli, io, plane, request, outgoing, wire, replies, hello, config, faults>>
      /\ worker.pc \in {"done", "failed"}
      /\ \/ /\ again /\ again' = FALSE /\ reported' = reported
            /\ worker' = [pc |-> "check", attempt |-> 1]
         \/ /\ ~again /\ again' = again /\ worker' = OffWorker
            /\ reported' = (worker.pc = "failed")
  BY DEF ReconcileEnd, WorkerKeeps
<1>2. /\ worker' \in Workers
      /\ \/ worker'.pc = "check" /\ reported' = reported
         \/ worker'.pc = "off" /\ reported' = (worker.pc = "failed") /\ ~again
  <2>1. 0 \in 0..Attempts /\ 1 \in 0..Attempts
    BY StreamsAssumption
  <2>2. CASE worker' = [pc |-> "check", attempt |-> 1] /\ again
    BY <1>1, <2>1, <2>2 DEF Workers, WorkerSteps
  <2>3. CASE worker' = OffWorker /\ ~again
    BY <1>1, <2>1, <2>3 DEF OffWorker, Workers, WorkerSteps
  <2> QED
    BY <1>1, <2>2, <2>3
<1>3. Types'
  BY <1>1, <1>2 DEF Types, plane
<1>4. LockOK' /\ OrderOK'
  BY <1>1, <1>2 DEF LockOK, OrderOK
<1>5. ReturnOK'
  <2>1. ~reported /\ worker.pc # "off"
    BY <1>1 DEF ReturnOK
  <2>2. Attended => Attended'
    BY <1>1, <1>2, <2>1 DEF Attended
  <2>3. worker'.pc # "off" => ~reported'
    BY <1>2, <2>1
  <2>4. (Missing(stream) <=> Missing(stream)') /\ (Missing(cli.previous) <=> Missing(cli.previous)')
    BY <1>1 DEF Missing, plane
  <2> QED
    BY <1>1, <2>2, <2>3, <2>4 DEF ReturnOK
<1>6. PlaneOK' /\ PipeOK' /\ BeliefOK'
  BY <1>1, PlaneFrame, BeliefFrame
<1> QED
  BY <1>3, <1>4, <1>5, <1>6

\* An exception in the worker is reported too.
LEMMA ReconcileRaisesStep ==
    ASSUME StreamsInv, ReconcileRaises
    PROVE  StreamsInv'
<1> USE DEF StreamsInv
<1>1. /\ UNCHANGED <<stream, call, doubt>>
      /\ UNCHANGED <<cli, io, plane, request, outgoing, wire, replies, hello, config, faults>>
      /\ worker.pc = "apply" /\ lock = "worker" /\ cli.pc # "apply" /\ call = "none"
      /\ worker' = OffWorker /\ again' = FALSE /\ reported' = TRUE /\ lock' = None
  BY StreamsAssumption DEF ReconcileRaises, WorkerKeeps, Release, LockOK
<1>2. worker' \in Workers /\ worker'.pc = "off"
  BY <1>1, StreamsAssumption DEF OffWorker, Workers, WorkerSteps
<1>3. Types'
  BY <1>1, <1>2 DEF Types, plane
<1>4. LockOK' /\ OrderOK'
  BY <1>1, <1>2, StreamsAssumption DEF LockOK, OrderOK
<1>5. ReturnOK'
  BY <1>1, <1>2, StreamsAssumption DEF ReturnOK, Missing, Attended, plane
<1>6. PlaneOK' /\ PipeOK' /\ BeliefOK'
  BY <1>1, PlaneFrame, BeliefFrame
<1> QED
  BY <1>3, <1>4, <1>5, <1>6

------------------------------------------------------------------------------
(* The I/O threads *)

\* The steps of an I/O thread that touch neither the stream nor the commands.
LEMMA IoFrame ==
    ASSUME StreamsInv,
           UNCHANGED <<stream, lock, cli, worker, again, call, request, outgoing, wire,
                       replies, config, doubt>>
    PROVE  LockOK' /\ OrderOK' /\ ((Away => Away') => PipeOK' /\ BeliefOK')
<1> USE DEF StreamsInv
<1>1. LockOK' /\ OrderOK'
  BY DEF LockOK, OrderOK
<1>2. (Away => Away') => PipeOK' /\ BeliefOK'
  BY BeliefFrame
<1> QED
  BY <1>1, <1>2

\* A thread that has lost the board takes it off the plane first.
LEMMA LoseStep ==
    ASSUME StreamsInv, NEW t \in Threads, Lose(t)
    PROVE  StreamsInv'
<1> USE DEF StreamsInv
<1>1. /\ UNCHANGED <<stream, lock, cli, worker, again, reported, registered, call, request,
                     outgoing, wire, replies, hello, config, doubt>>
      /\ on_plane' = FALSE /\ faults < MaxFaults /\ faults' = faults + 1
      /\ IoGoto(t, "list") /\ io \in [Threads -> IoStates]
  BY DEF Lose, Types
<1>2. /\ io' \in [Threads -> IoStates] /\ io'[t].pc = "list" /\ io'[t].hello = io[t].hello
      /\ \A u \in Threads : u # t => io'[u] = io[u]
  BY <1>1, IoMoves DEF MonitoringSteps
<1>3. Types'
  <2>1. faults' \in 0..MaxFaults
    BY <1>1, StreamsAssumption DEF Types
  <2> QED
    BY <1>1, <1>2, <2>1 DEF Types
<1>4. PlaneOK'
  BY <1>1, <1>2 DEF PlaneOK, Threads, MonitoringSteps, ControlSteps
<1>5. ReturnOK'
  BY <1>1 DEF ReturnOK, Missing
<1>6. LockOK' /\ OrderOK' /\ PipeOK' /\ BeliefOK'
  BY <1>1, IoFrame DEF Away
<1> QED
  BY <1>3, <1>4, <1>5, <1>6

\* The record of the board goes, and with it its place on the plane.
LEMMA ForgetStep ==
    ASSUME StreamsInv, Forget
    PROVE  StreamsInv'
<1> USE DEF StreamsInv
<1>1. /\ UNCHANGED <<stream, lock, worker, again, reported, call, outgoing, replies, doubt>>
      /\ UNCHANGED <<cli, request, faults, config, wire, hello>>
      /\ registered' = FALSE /\ on_plane' = FALSE
      /\ IoGoto("control", "cancel") /\ io \in [Threads -> IoStates]
  BY DEF Forget, IoKeeps, Types
<1>2. /\ io' \in [Threads -> IoStates] /\ io'["control"].pc = "cancel"
      /\ io'["control"].hello = io["control"].hello /\ io'["monitoring"] = io["monitoring"]
  BY <1>1, IoMoves DEF MonitoringSteps, Threads
<1>3. Types'
  BY <1>1, <1>2 DEF Types
<1>4. PlaneOK'
  BY <1>1, <1>2 DEF PlaneOK, ControlSteps
<1>5. ReturnOK'
  BY <1>1 DEF ReturnOK, Missing
<1>6. LockOK' /\ OrderOK' /\ PipeOK' /\ BeliefOK'
  BY <1>1, IoFrame DEF Away
<1> QED
  BY <1>3, <1>4, <1>5, <1>6

\* The control handshake gives the board its record.
LEMMA RegisteredStep ==
    ASSUME StreamsInv, Registered
    PROVE  StreamsInv'
<1> USE DEF StreamsInv
<1>1. /\ UNCHANGED <<stream, lock, worker, again, reported, io, on_plane, call, outgoing,
                     replies, doubt>>
      /\ UNCHANGED <<cli, request, faults, config, wire, hello>>
      /\ registered' = TRUE
  BY DEF Registered, IoKeeps
<1>2. Types' /\ PlaneOK' /\ ReturnOK'
  BY <1>1 DEF Types, PlaneOK, ReturnOK, Missing, Attended
<1>3. LockOK' /\ OrderOK' /\ PipeOK' /\ BeliefOK'
  BY <1>1, IoFrame DEF Away
<1> QED
  BY <1>2, <1>3

\* A hello is refused without a record; otherwise the board is off the plane
\* until it is admitted.
LEMMA AcceptHelloStep ==
    ASSUME StreamsInv, AcceptHello
    PROVE  StreamsInv'
<1> USE DEF StreamsInv
<1>1. /\ UNCHANGED <<stream, lock, cli, worker, again, reported, registered, call, request,
                     outgoing, wire, replies, config, faults, doubt>>
      /\ hello' = FALSE /\ io \in [Threads -> IoStates]
      /\ on_plane \in BOOLEAN /\ registered \in BOOLEAN
      /\ on_plane => registered
  BY DEF AcceptHello, Types, PlaneOK
<1>2. on_plane' = FALSE
  BY <1>1 DEF AcceptHello
<1>3. /\ io' \in [Threads -> IoStates]
      /\ io'["control"] = io["control"]
      /\ io'["monitoring"].pc \in MonitoringSteps
  <2>1. CASE ~registered
    BY <1>1, <2>1 DEF AcceptHello, PlaneOK
  <2>2. CASE registered
    <3>1. PICK pc \in {"list", "admit"} :
              io' = [io EXCEPT !["monitoring"] = [pc |-> pc, hello |-> TRUE]]
      BY <2>2 DEF AcceptHello
    <3> QED
      BY <1>1, <3>1 DEF Threads, IoStates, MonitoringSteps
  <2> QED
    BY <1>1, <2>1, <2>2
<1>4. Types'
  BY <1>1, <1>2, <1>3 DEF Types
<1>5. PlaneOK'
  BY <1>1, <1>2, <1>3 DEF PlaneOK
<1>6. ReturnOK'
  BY <1>1, <1>2 DEF ReturnOK, Missing
<1>7. LockOK' /\ OrderOK' /\ PipeOK' /\ BeliefOK'
  BY <1>1, <1>2, IoFrame DEF Away
<1> QED
  BY <1>4, <1>5, <1>6, <1>7

\* An admitted board is invalidated once more.
LEMMA AdmitStep ==
    ASSUME StreamsInv, Admit
    PROVE  StreamsInv'
<1> USE DEF StreamsInv
<1>1. /\ UNCHANGED <<stream, lock, worker, again, reported, registered, call, outgoing,
                     replies, doubt>>
      /\ UNCHANGED <<cli, request, faults, config, wire, hello>>
      /\ on_plane' = registered /\ registered \in BOOLEAN
      /\ IoGoto("monitoring", "relist") /\ io \in [Threads -> IoStates]
  BY DEF Admit, IoKeeps, Types
<1>2. /\ io' \in [Threads -> IoStates] /\ io'["monitoring"].pc = "relist"
      /\ io'["control"] = io["control"]
  BY <1>1, IoMoves DEF MonitoringSteps, Threads
<1>3. Types'
  BY <1>1, <1>2 DEF Types
<1>4. PlaneOK'
  BY <1>1, <1>2 DEF PlaneOK, MonitoringSteps
<1>5. ReturnOK'
  BY <1>1, <1>2 DEF ReturnOK, Attended
<1>6. LockOK' /\ OrderOK' /\ PipeOK' /\ BeliefOK'
  BY <1>1, <1>2, IoFrame DEF Away
<1> QED
  BY <1>3, <1>4, <1>5, <1>6

\* A stream that is not listed is not running and nobody holds its lock.
LEMMA ListStreamsStep ==
    ASSUME StreamsInv, NEW t \in Threads, ListStreams(t)
    PROVE  StreamsInv'
<1> USE DEF StreamsInv
<1>1. /\ UNCHANGED <<stream, lock, worker, again, reported, plane, call, outgoing,
                     replies, doubt>>
      /\ UNCHANGED <<cli, request, faults, config, wire, hello>>
      /\ io \in [Threads -> IoStates] /\ StreamOK(stream) /\ stream.known \in BOOLEAN
  BY DEF ListStreams, IoKeeps, Types, StreamOK, Streams
<1>2. \/ io[t].pc = "list" /\ stream.known /\ IoGoto(t, "invalidate")
      \/ io[t].pc = "list" /\ ~stream.known /\ t = "control" /\ IoGoto(t, "forget")
      \/ io[t].pc = "list" /\ ~stream.known /\ t = "monitoring" /\ IoGoto(t, "cancel")
      \/ io[t].pc = "relist" /\ stream.known /\ IoGoto(t, "reinvalidate")
      \/ io[t].pc = "relist" /\ ~stream.known /\ IoGoto(t, "background")
  <2>1. CASE io[t].pc = "list" /\ stream.known
    BY <2>1 DEF ListStreams
  <2>2. CASE io[t].pc = "list" /\ ~stream.known
    BY <2>2 DEF ListStreams, AfterInvalidation, Threads
  <2>3. CASE io[t].pc = "relist" /\ stream.known
    BY <2>3 DEF ListStreams
  <2>4. CASE io[t].pc = "relist" /\ ~stream.known
    BY <2>4 DEF ListStreams
  <2> QED
    BY <1>1, <2>1, <2>2, <2>3, <2>4 DEF ListStreams
<1>3. /\ io' \in [Threads -> IoStates] /\ io'[t].hello = io[t].hello
      /\ \A u \in Threads : u # t => io'[u] = io[u]
      /\ \/ io[t].pc = "list" /\ stream.known /\ io'[t].pc = "invalidate"
         \/ io[t].pc = "list" /\ ~stream.known /\ t = "control" /\ io'[t].pc = "forget"
         \/ io[t].pc = "list" /\ ~stream.known /\ t = "monitoring" /\ io'[t].pc = "cancel"
         \/ io[t].pc = "relist" /\ stream.known /\ io'[t].pc = "reinvalidate"
         \/ io[t].pc = "relist" /\ ~stream.known /\ io'[t].pc = "background"
  BY <1>1, <1>2, IoMoves DEF MonitoringSteps, ControlSteps
<1>4. Types'
  BY <1>1, <1>3 DEF Types, plane
<1>5. PlaneOK'
  BY <1>1, <1>3 DEF PlaneOK, Threads, MonitoringSteps, ControlSteps, plane
<1>6. ReturnOK'
  <2>1. on_plane /\ Attended => Attended'
    BY <1>1, <1>3 DEF Attended, PlaneOK, Threads, ControlSteps, plane
  <2> QED
    BY <1>1, <2>1 DEF ReturnOK, Missing, plane
<1>7. LockOK' /\ OrderOK' /\ ((Away => Away') => PipeOK' /\ BeliefOK')
  BY <1>1, IoFrame
<1>8. PipeOK' /\ BeliefOK'
  <2>1. CASE Away => Away'
    BY <1>7, <2>1
  <2>2. CASE Away /\ ~Away'
    <3>1. ~stream.known
      BY <1>1, <1>3, <2>2 DEF Away, Threads, plane
    <3>2. stream.actual = 0 /\ call = "none"
      BY <1>1, <3>1 DEF StreamOK, LockOK
    <3> QED
      BY <1>1, <3>2 DEF PipeOK, BeliefOK
  <2> QED
    BY <2>1, <2>2
<1> QED
  BY <1>4, <1>5, <1>6, <1>7, <1>8

\* Under the lock there is no command under way: the stream is marked as stopped.
LEMMA InvalidateStep ==
    ASSUME StreamsInv, NEW t \in Threads, Invalidate(t)
    PROVE  StreamsInv'
<1> USE DEF StreamsInv
<1>1. /\ UNCHANGED <<lock, worker, again, reported, plane, call, outgoing, replies, doubt>>
      /\ UNCHANGED <<cli, request, faults, config, wire, hello>>
      /\ io \in [Threads -> IoStates] /\ lock = None /\ call = "none"
      /\ stream' = [stream EXCEPT !.actual = 0] /\ StreamOK(stream)
      /\ lock # "cli" /\ cli.pc # "apply"
  BY StreamsAssumption DEF Invalidate, IoKeeps, Types, LockOK
<1>2. /\ StreamOK(stream') /\ stream'.actual = 0 /\ stream'.desired = stream.desired
      /\ stream'.consumers = stream.consumers /\ stream'.known = stream.known
  BY <1>1 DEF StreamOK, Streams, Wanted
<1>3. \/ io[t].pc = "invalidate" /\ t = "control" /\ IoGoto(t, "forget")
      \/ io[t].pc = "invalidate" /\ t = "monitoring" /\ IoGoto(t, "cancel")
      \/ io[t].pc = "reinvalidate" /\ IoGoto(t, "background")
  BY DEF Invalidate, AfterInvalidation, Threads
<1>4. /\ io' \in [Threads -> IoStates] /\ io'[t].hello = io[t].hello
      /\ \A u \in Threads : u # t => io'[u] = io[u]
      /\ \/ io[t].pc = "invalidate" /\ t = "control" /\ io'[t].pc = "forget"
         \/ io[t].pc = "invalidate" /\ t = "monitoring" /\ io'[t].pc = "cancel"
         \/ io[t].pc = "reinvalidate" /\ io'[t].pc = "background"
  BY <1>1, <1>3, IoMoves DEF MonitoringSteps, ControlSteps
<1>5. Types'
  BY <1>1, <1>2, <1>4 DEF Types, plane
<1>6. PlaneOK'
  BY <1>1, <1>4 DEF PlaneOK, Threads, MonitoringSteps, ControlSteps, plane
<1>7. ReturnOK'
  <2>1. on_plane => Attended'
    BY <1>1, <1>4 DEF Attended, PlaneOK, Threads, ControlSteps, plane
  <2> QED
    BY <1>1, <2>1 DEF ReturnOK, Missing, plane
<1>8. LockOK' /\ OrderOK'
  BY <1>1, <1>2 DEF LockOK, OrderOK
<1>9. PipeOK' /\ BeliefOK'
  BY <1>1, <1>2 DEF PipeOK, BeliefOK
<1> QED
  BY <1>5, <1>6, <1>7, <1>8, <1>9

\* A command whose reply is cancelled is in doubt.
LEMMA CancelRepliesStep ==
    ASSUME StreamsInv, NEW t \in Threads, CancelReplies(t)
    PROVE  StreamsInv'
<1> USE DEF StreamsInv
<1>1. /\ UNCHANGED <<stream, lock, worker, again, reported, plane, outgoing, replies>>
      /\ UNCHANGED <<cli, request, faults, config, wire, hello>>
      /\ io \in [Threads -> IoStates] /\ io[t].pc = "cancel" /\ doubt \in BOOLEAN
      /\ \/ call = "waiting" /\ call' = "failed" /\ doubt' = TRUE
         \/ call # "waiting" /\ call' = call /\ doubt' = doubt
      /\ \/ io[t].hello /\ IoGoto(t, "admit")
         \/ ~io[t].hello /\ IoGoto(t, "idle")
  BY DEF CancelReplies, IoKeeps, Types
<1>2. /\ io' \in [Threads -> IoStates] /\ io'[t].hello = io[t].hello
      /\ \A u \in Threads : u # t => io'[u] = io[u]
      /\ \/ io[t].hello /\ io'[t].pc = "admit"
         \/ ~io[t].hello /\ io'[t].pc = "idle"
  BY <1>1, IoMoves DEF MonitoringSteps
<1>3. Types'
  BY <1>1, <1>2 DEF Types, plane
<1>4. PlaneOK' /\ (Away <=> Away')
  BY <1>1, <1>2 DEF PlaneOK, Away, Threads, MonitoringSteps, ControlSteps, plane
<1>5. ReturnOK'
  <2>1. on_plane /\ Attended => Attended'
    BY <1>1, <1>2 DEF Attended, PlaneOK, Threads, plane
  <2> QED
    BY <1>1, <2>1 DEF ReturnOK, Missing, plane
<1>6. LockOK' /\ OrderOK'
  BY <1>1 DEF LockOK, OrderOK
<1>7. PipeOK' /\ BeliefOK'
  BY <1>1, <1>4 DEF PipeOK, BeliefOK, Confirmed
<1> QED
  BY <1>3, <1>4, <1>5, <1>6, <1>7

\* The worker is started for the board that is back, or told to begin again.
LEMMA ReconnectedStep ==
    ASSUME StreamsInv, Reconnected
    PROVE  StreamsInv'
<1> USE DEF StreamsInv
<1>1. /\ UNCHANGED <<stream, lock, plane, call, outgoing, replies, doubt>>
      /\ UNCHANGED <<cli, request, faults, config, wire, hello>>
      /\ io \in [Threads -> IoStates] /\ io["monitoring"].pc = "background"
      /\ io' = [io EXCEPT !["monitoring"] = [pc |-> "idle", hello |-> FALSE]]
      /\ worker \in Workers
  BY DEF Reconnected, IoKeeps, Types
<1>2. /\ io' \in [Threads -> IoStates] /\ io'["monitoring"].pc = "idle"
      /\ io'["control"] = io["control"]
  BY <1>1 DEF Threads, IoStates, MonitoringSteps
<1>3. /\ worker' \in Workers /\ again' \in BOOLEAN /\ reported' \in BOOLEAN
      /\ \/ worker.pc # "off" /\ again' = TRUE /\ worker' = worker /\ reported' = reported
         \/ worker.pc = "off" /\ worker'.pc = "check" /\ reported' = FALSE
  <2>1. 1 \in 0..Attempts
    BY StreamsAssumption
  <2>2. again \in BOOLEAN /\ reported \in BOOLEAN
    BY DEF Types
  <2>3. CASE worker.pc # "off"
    BY <1>1, <2>2, <2>3 DEF Reconnected, ReconcileInBackground
  <2>4. CASE worker.pc = "off"
    <3>1. worker' = [pc |-> "check", attempt |-> 1] /\ reported' = FALSE /\ again' = again
      BY <2>4 DEF Reconnected, ReconcileInBackground
    <3> QED
      BY <2>1, <2>2, <2>4, <3>1 DEF Workers, WorkerSteps
  <2> QED
    BY <2>3, <2>4
<1>4. Types'
  BY <1>1, <1>2, <1>3 DEF Types, plane
<1>5. PlaneOK' /\ (Away <=> Away')
  BY <1>1, <1>2 DEF PlaneOK, Away, MonitoringSteps, plane
<1>6. ReturnOK'
  <2>1. Attended'
    BY <1>1, <1>3 DEF Attended, Workers, WorkerSteps
  <2> QED
    BY <1>3, <2>1 DEF ReturnOK
<1>7. LockOK' /\ OrderOK'
  BY <1>1, <1>3 DEF LockOK, OrderOK
<1>8. PipeOK' /\ BeliefOK'
  BY <1>1, <1>5, BeliefFrame
<1> QED
  BY <1>4, <1>5, <1>6, <1>7, <1>8

------------------------------------------------------------------------------
(* The queues *)

\* What the first element and the others of a queue are.
LEMMA TailFacts ==
    ASSUME NEW S, NEW s \in Seq(S), s # <<>>
    PROVE  /\ Tail(s) \in Seq(S) /\ 1 \in DOMAIN s /\ Head(s) = s[1] /\ s[1] \in S
           /\ \A i \in DOMAIN s : i \in Nat /\ i >= 1
           /\ \A i \in DOMAIN Tail(s) : i \in Nat /\ i >= 1 /\ i + 1 \in DOMAIN s /\ Tail(s)[i] = s[i + 1]
           /\ \A i \in DOMAIN s : i # 1 => i - 1 \in DOMAIN Tail(s) /\ Tail(s)[i - 1] = s[i]
<1>1. Len(s) \in Nat /\ Len(s) >= 1 /\ DOMAIN s = 1..Len(s)
  OBVIOUS
<1>2. Tail(s) \in Seq(S) /\ Len(Tail(s)) = Len(s) - 1 /\ DOMAIN Tail(s) = 1..(Len(s) - 1)
  OBVIOUS
<1>3. ASSUME NEW i \in 1..(Len(s) - 1) PROVE Tail(s)[i] = s[i + 1]
  BY <1>1
<1>4. ASSUME NEW i \in DOMAIN s, i # 1 PROVE i - 1 \in DOMAIN Tail(s) /\ Tail(s)[i - 1] = s[i]
  <2>1. i - 1 \in 1..(Len(s) - 1) /\ (i - 1) + 1 = i
    BY <1>1, <1>4
  <2> QED
    BY <1>2, <1>3, <2>1
<1> QED
  BY <1>1, <1>2, <1>3, <1>4

\* What the last element and the others of a longer queue are.
LEMMA AppendFacts ==
    ASSUME NEW S, NEW s \in Seq(S), NEW e \in S
    PROVE  /\ Append(s, e) \in Seq(S) /\ Len(s) \in Nat
           /\ \A i \in DOMAIN s : /\ i \in Nat /\ i <= Len(s)
                                  /\ i \in DOMAIN Append(s, e) /\ Append(s, e)[i] = s[i]
           /\ Len(s) + 1 \in DOMAIN Append(s, e) /\ Append(s, e)[Len(s) + 1] = e
           /\ \A i \in DOMAIN Append(s, e) : i \in DOMAIN s \/ i = Len(s) + 1
<1>1. Len(s) \in Nat /\ DOMAIN s = 1..Len(s)
  OBVIOUS
<1>2. Append(s, e) \in Seq(S) /\ DOMAIN Append(s, e) = 1..(Len(s) + 1)
  OBVIOUS
<1>3. Append(s, e)[Len(s) + 1] = e /\ \A i \in 1..Len(s) : Append(s, e)[i] = s[i]
  OBVIOUS
<1> QED
  BY <1>1, <1>2, <1>3

\* A reply to the command under way: nothing newer is on its way, so the board
\* does what the command said.
LEMMA DeliverReplyStep ==
    ASSUME StreamsInv, DeliverReply
    PROVE  StreamsInv'
<1> USE DEF StreamsInv
<1> DEFINE mine == call = "waiting" /\ replies[1].id = request
<1>1. /\ UNCHANGED <<stream, lock, worker, again, reported, io, plane, outgoing>>
      /\ UNCHANGED <<cli, request, faults, config, wire, hello>>
      /\ doubt' = doubt /\ replies # <<>> /\ replies' = Tail(replies)
      /\ replies \in Seq(Answers) /\ request \in Nat
  BY StreamsAssumption DEF DeliverReply, IoKeeps, Types
<1>2. /\ replies' \in Seq(Answers) /\ 1 \in DOMAIN replies
      /\ Head(replies) = replies[1] /\ replies[1] \in Answers
      /\ \A i \in DOMAIN replies : i \in Nat /\ i >= 1
      /\ \A i \in DOMAIN replies' :
            i \in Nat /\ i >= 1 /\ i + 1 \in DOMAIN replies /\ replies'[i] = replies[i + 1]
      /\ \A i \in DOMAIN replies : i # 1 => i - 1 \in DOMAIN replies' /\ replies'[i - 1] = replies[i]
  BY <1>1, TailFacts
<1>3. replies[1].ok \in BOOLEAN
  BY <1>2 DEF Answers
<1>4. \/ mine /\ replies[1].ok /\ call' = "ok"
      \/ mine /\ ~replies[1].ok /\ call' = "failed"
      \/ ~mine /\ call' = call
  BY <1>2, <1>3 DEF DeliverReply
<1>5. Types'
  BY <1>1, <1>2, <1>4 DEF Types, plane
<1>6. LockOK' /\ OrderOK'
  BY <1>1, <1>4 DEF LockOK, OrderOK
<1>7. ReturnOK'
  BY <1>1 DEF ReturnOK, Missing, Attended, plane
<1>8. PlaneOK' /\ (Away <=> Away')
  BY <1>1, PlaneFrame
<1>9. PipeOK'
  BY <1>1, <1>2 DEF PipeOK
<1>10. /\ \A i \in DOMAIN outgoing : outgoing[i].id \in Nat
       /\ \A i \in DOMAIN wire : wire[i].id \in Nat
       /\ \A i \in DOMAIN replies : replies[i].id \in Nat
  BY QueueTypes
<1>11. CASE mine
  <2>1. outgoing = <<>> /\ wire = <<>>
    <3>1. DOMAIN outgoing = {} /\ DOMAIN wire = {}
      <4>1. ASSUME NEW j \in DOMAIN outgoing PROVE FALSE
        <5>1. replies[1].id < outgoing[j].id /\ outgoing[j].id <= request
          BY <1>2 DEF PipeOK
        <5> QED
          BY <1>1, <1>10, <1>11, <5>1
      <4>2. ASSUME NEW j \in DOMAIN wire PROVE FALSE
        <5>1. replies[1].id < wire[j].id /\ wire[j].id <= request
          BY <1>2 DEF PipeOK
        <5> QED
          BY <1>1, <1>10, <1>11, <5>1
      <4> QED
        BY <4>1, <4>2
    <3>2. outgoing \in Seq(Requests) /\ wire \in Seq(Requests)
      BY DEF Types
    <3> QED
      BY <3>1, <3>2
  <2>2. replies[1].ok => Confirmed
    BY <1>2, <1>11 DEF Confirmed
  <2>3. Confirmed => replies[1].ok
    BY <1>1, <1>2, <1>10, <1>11 DEF Confirmed, PipeOK
  <2>4. BeliefOK'
    BY <1>1, <1>4, <1>8, <1>11, <2>1, <2>2, <2>3 DEF BeliefOK
  <2> QED
    BY <1>5, <1>6, <1>7, <1>8, <1>9, <2>4
<1>12. CASE ~mine
  <2>1. call = "waiting" => (Confirmed <=> Confirmed')
    <3>1. Confirmed' => Confirmed
      BY <1>1, <1>2 DEF Confirmed
    <3>2. ASSUME call = "waiting", NEW i \in DOMAIN replies, replies[i].id = request, replies[i].ok
          PROVE  Confirmed'
      <4>1. i # 1
        BY <1>12, <3>2
      <4>2. i - 1 \in DOMAIN replies' /\ replies'[i - 1] = replies[i]
        BY <1>2, <4>1
      <4> QED
        BY <1>1, <3>2, <4>2 DEF Confirmed
    <3> QED
      BY <3>1, <3>2 DEF Confirmed
  <2>2. BeliefOK'
    BY <1>1, <1>4, <1>8, <1>12, <2>1 DEF BeliefOK
  <2> QED
    BY <1>5, <1>6, <1>7, <1>8, <1>9, <2>2
<1> QED
  BY <1>11, <1>12

\* The oldest command goes to the wire, or nowhere.
LEMMA SendNextStep ==
    ASSUME StreamsInv, SendNext
    PROVE  StreamsInv'
<1> USE DEF StreamsInv
<1>1. /\ UNCHANGED <<stream, lock, cli, worker, again, reported, io, plane, call, request,
                     replies, hello, config, faults, doubt>>
      /\ outgoing # <<>> /\ outgoing' = Tail(outgoing) /\ outgoing \in Seq(Requests)
      /\ wire \in Seq(Requests) /\ request \in Nat
  BY StreamsAssumption DEF SendNext, Types
<1>2. /\ outgoing' \in Seq(Requests) /\ 1 \in DOMAIN outgoing
      /\ Head(outgoing) = outgoing[1] /\ outgoing[1] \in Requests
      /\ \A i \in DOMAIN outgoing : i \in Nat /\ i >= 1
      /\ \A i \in DOMAIN outgoing' :
            i \in Nat /\ i >= 1 /\ i + 1 \in DOMAIN outgoing /\ outgoing'[i] = outgoing[i + 1]
  BY <1>1, TailFacts
<1>3. wire' = wire \/ wire' = Append(wire, outgoing[1])
  BY <1>2 DEF SendNext
<1>4. /\ wire' \in Seq(Requests) /\ Len(wire) \in Nat
      /\ \A i \in DOMAIN wire : i \in Nat /\ i <= Len(wire) /\ wire'[i] = wire[i]
      /\ \A i \in DOMAIN wire' :
            i \in DOMAIN wire \/ (i = Len(wire) + 1 /\ wire'[i] = outgoing[1])
  <2>1. CASE wire' = wire
    BY <1>1, <2>1
  <2>2. CASE wire' = Append(wire, outgoing[1])
    BY <1>1, <1>2, <2>2, AppendFacts
  <2> QED
    BY <1>3, <2>1, <2>2
<1>5. Types'
  BY <1>1, <1>2, <1>4 DEF Types, plane
<1>6. LockOK' /\ OrderOK'
  BY <1>1 DEF LockOK, OrderOK
<1>7. ReturnOK'
  BY <1>1 DEF ReturnOK, Missing, Attended, plane
<1>8. PlaneOK' /\ (Away <=> Away') /\ (Confirmed <=> Confirmed')
  BY <1>1, PlaneFrame DEF Confirmed
<1>9. /\ \A i \in DOMAIN outgoing : outgoing[i].id \in Nat
      /\ \A i \in DOMAIN wire : wire[i].id \in Nat
      /\ \A i \in DOMAIN replies : replies[i].id \in Nat
  BY QueueTypes
<1>10. \A i \in DOMAIN outgoing' : outgoing[1].id < outgoing'[i].id
  BY <1>2 DEF PipeOK
<1>11. PipeOK'
  <2>1. /\ \A i \in DOMAIN outgoing' : outgoing'[i].id <= request'
        /\ \A i \in DOMAIN wire' : wire'[i].id <= request'
    BY <1>1, <1>2, <1>4 DEF PipeOK
  <2>2. ASSUME NEW i \in DOMAIN outgoing', NEW j \in DOMAIN outgoing', i < j
        PROVE  outgoing'[i].id < outgoing'[j].id
    <3>1. i + 1 \in DOMAIN outgoing /\ j + 1 \in DOMAIN outgoing /\ i + 1 < j + 1
      BY <1>2, <2>2
    <3> QED
      BY <1>2, <3>1 DEF PipeOK
  <2>3. \A i, j \in DOMAIN wire' : i < j => wire'[i].id < wire'[j].id
    BY <1>2, <1>4 DEF PipeOK
  <2>4. \A i \in DOMAIN wire', j \in DOMAIN outgoing' : wire'[i].id < outgoing'[j].id
    BY <1>2, <1>4, <1>10 DEF PipeOK
  <2>5. \A i \in DOMAIN replies :
            /\ \A j \in DOMAIN wire' : replies[i].id < wire'[j].id
            /\ \A j \in DOMAIN outgoing' : replies[i].id < outgoing'[j].id
    BY <1>2, <1>4 DEF PipeOK
  <2>6. /\ \A i, j \in DOMAIN replies : i < j => replies[i].id < replies[j].id
        /\ \A i \in DOMAIN replies : replies[i].id <= request
    BY DEF PipeOK
  <2> QED
    BY <1>1, <2>1, <2>2, <2>3, <2>4, <2>5, <2>6 DEF PipeOK
<1>12. BeliefOK'
  <2>1. CASE call = "waiting"
    <3>1. \A i \in DOMAIN outgoing' :
              /\ outgoing'[i].id = request => outgoing'[i].interval = stream.desired
              /\ ~doubt => outgoing'[i].id = request
      BY <1>2, <2>1 DEF BeliefOK
    <3>2. \A i \in DOMAIN wire' :
              /\ wire'[i].id = request => wire'[i].interval = stream.desired
              /\ ~doubt => wire'[i].id = request
      BY <1>2, <1>4, <2>1 DEF BeliefOK
    <3>3. /\ Confirmed => config = stream.desired \/ Away
          /\ stream.actual # 0 /\ ~doubt => config = stream.actual \/ Away \/ Confirmed
      BY <2>1 DEF BeliefOK
    <3> QED
      BY <1>1, <1>8, <2>1, <3>1, <3>2, <3>3 DEF BeliefOK
  <2>2. CASE call # "waiting"
    BY <1>1, <1>8, <2>2 DEF BeliefOK
  <2> QED
    BY <2>1, <2>2
<1> QED
  BY <1>5, <1>6, <1>7, <1>8, <1>11, <1>12

------------------------------------------------------------------------------
(* The board *)

\* A command is carried out and answered: if it is the one under way and succeeds,
\* the board does what is desired.
LEMMA ReplyStep ==
    ASSUME StreamsInv, wire # <<>>, NEW ok \in BOOLEAN, SendMonitoringReply(ok),
           config' = IF ok THEN wire[1].interval ELSE config
    PROVE  StreamsInv'
<1> USE DEF StreamsInv
<1>1. /\ UNCHANGED <<stream, lock, cli, worker, again, reported, io, plane, call, request,
                     outgoing, doubt, hello, faults>>
      /\ wire' = Tail(wire) /\ wire \in Seq(Requests) /\ replies \in Seq(Answers)
      /\ replies' = Append(replies, [id |-> Head(wire).id, ok |-> ok])
      /\ request \in Nat
  BY StreamsAssumption DEF SendMonitoringReply, server, Types
<1>2. /\ wire' \in Seq(Requests) /\ 1 \in DOMAIN wire
      /\ Head(wire) = wire[1] /\ wire[1] \in Requests
      /\ \A i \in DOMAIN wire : i \in Nat /\ i >= 1
      /\ \A i \in DOMAIN wire' :
            i \in Nat /\ i >= 1 /\ i + 1 \in DOMAIN wire /\ wire'[i] = wire[i + 1]
  BY <1>1, TailFacts
<1> DEFINE new == [id |-> wire[1].id, ok |-> ok]
<1>3. /\ new \in Answers /\ new.id = wire[1].id /\ new.ok = ok
      /\ wire[1].id \in Nat /\ wire[1].interval \in Wanted
  BY <1>2 DEF Answers, Requests
<1>4. replies' = Append(replies, new)
  BY <1>1, <1>2
<1> HIDE DEF new
<1>5. /\ replies' \in Seq(Answers) /\ Len(replies) \in Nat
      /\ \A i \in DOMAIN replies :
            i \in Nat /\ i <= Len(replies) /\ i \in DOMAIN replies' /\ replies'[i] = replies[i]
      /\ Len(replies) + 1 \in DOMAIN replies' /\ replies'[Len(replies) + 1] = new
      /\ \A i \in DOMAIN replies' : i \in DOMAIN replies \/ i = Len(replies) + 1
  BY <1>1, <1>3, <1>4, AppendFacts
<1>6. Types'
  <2>1. config' \in Wanted
    BY <1>3 DEF Types
  <2> QED
    BY <1>1, <1>2, <1>5, <2>1 DEF Types, plane
<1>7. LockOK' /\ OrderOK'
  BY <1>1 DEF LockOK, OrderOK
<1>8. ReturnOK'
  BY <1>1 DEF ReturnOK, Missing, Attended, plane
<1>9. PlaneOK' /\ (Away <=> Away')
  BY <1>1, PlaneFrame
<1>10. /\ \A i \in DOMAIN outgoing : outgoing[i].id \in Nat
       /\ \A i \in DOMAIN wire : wire[i].id \in Nat
       /\ \A i \in DOMAIN replies : replies[i].id \in Nat
  BY QueueTypes
<1>11. \A i \in DOMAIN wire' : wire[1].id < wire'[i].id
  BY <1>2 DEF PipeOK
<1>12. PipeOK'
  <2>1. /\ \A i \in DOMAIN wire' : wire'[i].id <= request'
        /\ \A i \in DOMAIN replies' : replies'[i].id <= request'
        /\ \A i \in DOMAIN outgoing : outgoing[i].id <= request'
    BY <1>1, <1>2, <1>3, <1>5 DEF PipeOK
  <2>2. ASSUME NEW i \in DOMAIN wire', NEW j \in DOMAIN wire', i < j
        PROVE  wire'[i].id < wire'[j].id
    <3>1. i + 1 \in DOMAIN wire /\ j + 1 \in DOMAIN wire /\ i + 1 < j + 1
      BY <1>2, <2>2
    <3> QED
      BY <1>2, <3>1 DEF PipeOK
  <2>3. \A i, j \in DOMAIN replies' : i < j => replies'[i].id < replies'[j].id
    BY <1>2, <1>3, <1>5 DEF PipeOK
  <2>4. \A i \in DOMAIN wire', j \in DOMAIN outgoing : wire'[i].id < outgoing[j].id
    BY <1>2 DEF PipeOK
  <2>5. \A i \in DOMAIN replies' :
            /\ \A j \in DOMAIN wire' : replies'[i].id < wire'[j].id
            /\ \A j \in DOMAIN outgoing : replies'[i].id < outgoing[j].id
    BY <1>2, <1>3, <1>5, <1>11 DEF PipeOK
  <2>6. \A i, j \in DOMAIN outgoing : i < j => outgoing[i].id < outgoing[j].id
    BY DEF PipeOK
  <2> QED
    BY <1>1, <2>1, <2>2, <2>3, <2>4, <2>5, <2>6 DEF PipeOK
<1>13. ~Confirmed
  BY <1>1, <1>2, <1>10 DEF Confirmed, PipeOK
<1>14. Confirmed' <=> (wire[1].id = request /\ ok)
  BY <1>1, <1>3, <1>5, <1>13 DEF Confirmed
<1>15. BeliefOK'
  <2>1. call # "ok" /\ (call # "waiting" => doubt)
    BY <1>2 DEF BeliefOK, Types
  <2>2. CASE call = "waiting"
    <3>1. Confirmed' => config' = stream.desired
      BY <1>2, <1>14, <2>2 DEF BeliefOK
    <3>2. ~doubt => wire[1].id = request
      BY <1>2, <2>2 DEF BeliefOK
    <3>3. stream.actual # 0 /\ ~doubt => config' = stream.actual \/ Away \/ Confirmed'
      BY <1>13, <1>14, <2>2, <3>2 DEF BeliefOK
    <3> QED
      BY <1>1, <1>2, <1>9, <2>2, <3>1, <3>3 DEF BeliefOK
  <2>3. CASE call # "waiting"
    BY <1>1, <2>1, <2>3 DEF BeliefOK
  <2> QED
    BY <2>2, <2>3
<1> QED
  BY <1>6, <1>7, <1>8, <1>9, <1>12, <1>15

\* A start of the section that succeeds or fails, and its stop.
LEMMA HandleCommandStep ==
    ASSUME StreamsInv, HandleSampleStop \/ \E ok \in BOOLEAN : HandleSampleStart(ok)
    PROVE  StreamsInv'
<1>1. wire \in Seq(Requests)
  BY DEF StreamsInv, Types
<1>2. CASE HandleSampleStop
  <2>1. wire # <<>> /\ SendMonitoringReply(TRUE) /\ Head(wire).interval = 0 /\ config' = 0
    BY <1>2 DEF HandleSampleStop, HandleCommand, StopSection
  <2>2. Head(wire) = wire[1]
    BY <1>1, <2>1, TailFacts
  <2> QED
    BY <2>1, <2>2, ReplyStep
<1>3. ASSUME NEW ok \in BOOLEAN, HandleSampleStart(ok) PROVE StreamsInv'
  <2>1. /\ wire # <<>> /\ SendMonitoringReply(ok)
        /\ config' = IF ok THEN Head(wire).interval ELSE config
    BY <1>3 DEF HandleSampleStart, HandleCommand, StartSection
  <2>2. Head(wire) = wire[1]
    BY <1>1, <2>1, TailFacts
  <2> QED
    BY <2>1, <2>2, ReplyStep
<1> QED
  BY <1>2, <1>3

\* A new socket of the board: what was on the way is lost, and its hello will
\* tell the server.
LEMMA HandshakeStep ==
    ASSUME StreamsInv, RecoverConnection \/ Restarts
    PROVE  StreamsInv'
<1> USE DEF StreamsInv
<1>1. /\ UNCHANGED <<stream, lock, cli, worker, again, reported, io, plane, call, request,
                     outgoing, doubt, replies>>
      /\ wire' = <<>> /\ hello' = TRUE
      /\ config' = config \/ config' = 0
      /\ faults' = faults \/ (faults < MaxFaults /\ faults' = faults + 1)
  BY DEF RecoverConnection, Restarts, Handshake, server
<1>2. Types'
  <2>1. faults' \in 0..MaxFaults /\ config' \in Wanted
    BY <1>1, StreamsAssumption DEF Types, Wanted
  <2>2. wire' \in Seq(Requests)
    BY <1>1
  <2> QED
    BY <1>1, <2>1, <2>2 DEF Types, plane
<1>3. LockOK' /\ OrderOK'
  BY <1>1 DEF LockOK, OrderOK
<1>4. ReturnOK'
  BY <1>1 DEF ReturnOK, Missing, Attended, plane
<1>5. PlaneOK' /\ Away' /\ (Confirmed <=> Confirmed')
  BY <1>1 DEF PlaneOK, Away, Confirmed, plane
<1>6. PipeOK'
  BY <1>1 DEF PipeOK
<1>7. BeliefOK'
  BY <1>1, <1>5 DEF BeliefOK
<1> QED
  BY <1>2, <1>3, <1>4, <1>5, <1>6, <1>7

------------------------------------------------------------------------------
(* The theorems *)

\* The inductive invariant holds in every state that can be reached.
THEOREM Invariance == Spec => []StreamsInv
<1>1. Init => StreamsInv
  BY InitInv
<1>2. StreamsInv /\ [Next]_vars => StreamsInv'
  <2> SUFFICES ASSUME StreamsInv, [Next]_vars PROVE StreamsInv'
    OBVIOUS
  <2>1. CASE UNCHANGED vars
    <3>1. UNCHANGED <<stream, lock, cli, worker, again, reported, io, registered, on_plane,
                      call, request, outgoing, doubt, wire, replies, hello, config, faults>>
      BY <2>1 DEF vars, server, plane
    <3> QED
      BY <3>1 DEF StreamsInv, Types, LockOK, OrderOK, PlaneOK, ReturnOK, PipeOK, BeliefOK,
                  Missing, Attended, Away, Confirmed
  <2>2. ASSUME NEW c \in Consumers, NEW i \in Intervals \cup {0}, Order(c, i)
        PROVE  StreamsInv'
    BY <2>2, OrderStep DEF Wanted
  <2>3. CASE UserStep
    BY <2>3, ChangeBookStep, UnsubscribeRefusedStep, SubscribeAppliedStep
       DEF UserStep, Subscribe, Unsubscribe
  <2>4. ASSUME NEW t \in Callers, StartSample(t) \/ StopSample(t) PROVE StreamsInv'
    BY <2>4, SendStep DEF StartSample, StopSample
  <2>5. CASE TimeOut
    BY <2>5, TimeOutStep
  <2>6. CASE WorkerStep \/ ReconcileRaises
    BY <2>6, ReconcileCheckStep, ReconcileStreamStep, ReconcileAppliedStep,
       ReconcileRetryStep, ReconcileEndStep, ReconcileRaisesStep DEF WorkerStep
  <2>7. ASSUME NEW t \in Threads, Lose(t) \/ IoStep(t) PROVE StreamsInv'
    BY <2>7, LoseStep, ListStreamsStep, InvalidateStep, CancelRepliesStep DEF IoStep
  <2>8. CASE LoopStep \/ Registered
    BY <2>8, ForgetStep, AcceptHelloStep, AdmitStep, ReconnectedStep, DeliverReplyStep,
       SendNextStep, RegisteredStep DEF LoopStep
  <2>9. CASE HandleSampleStop \/ \E ok \in BOOLEAN : HandleSampleStart(ok)
    BY <2>9, HandleCommandStep
  <2>10. CASE RecoverConnection \/ Restarts
    BY <2>10, HandshakeStep
  <2> QED
    BY <2>1, <2>2, <2>3, <2>4, <2>5, <2>6, <2>7, <2>8, <2>9, <2>10 DEF Next
<1> QED
  BY <1>1, <1>2, PTL DEF Spec

\* What the stream service believes when nothing is under way: a stream it
\* takes for running runs on the board at that interval unless a command is in
\* doubt, and a stream that is wanted and stopped has been reported.
THEOREM StreamsAreConsistent == Spec => []StreamConsistent
<1>1. StreamsInv => StreamConsistent
  <2> SUFFICES ASSUME StreamsInv PROVE StreamConsistent
    OBVIOUS
  <2> USE DEF StreamsInv
  <2>1. TypeOK
    <3>1. worker.attempt \in 0..Attempts
      BY DEF Types, Workers
    <3>2. stream \in Streams /\ stream.desired = ComputeProducerInterval(stream.consumers)
      BY DEF Types, StreamOK
    <3>3. stream.consumers \in [Consumers -> Wanted] /\ stream.actual \in Wanted
      BY <3>2 DEF Streams
    <3> QED
      BY <3>1, <3>2, <3>3 DEF TypeOK, Types, LockOK, Wanted
  <2>2. ActiveIsReal
    <3> SUFFICES ASSUME Settled, on_plane, stream.actual # 0, ~doubt
                 PROVE  config = stream.actual
      BY DEF ActiveIsReal
    <3>1. call = "none" /\ ~Away
      BY DEF Settled, LockOK, Away, Threads
    <3> QED
      BY <3>1 DEF BeliefOK
  <2>3. NoForgottenReturn
    BY StreamsAssumption
       DEF NoForgottenReturn, Settled, ReturnOK, Missing, Attended, Threads
  <2> QED
    BY <2>1, <2>2, <2>3 DEF StreamConsistent
<1> QED
  BY <1>1, Invariance, PTL

\* The stream service keeps the book of its users: a subscription is granted or
\* refused as a whole, and neither a loss nor a return of the board nor the
\* reconciliation changes who wants samples.
THEOREM BookIsKept == Spec => BookKept
<1> DEFINE book == IF cli.pc = "apply" THEN cli.previous.consumers ELSE stream.consumers
           order == IF cli.pc = "idle" THEN None
                    ELSE [consumer |-> cli.consumer, interval |-> cli.interval]
<1>1. Init => Book!Init
  BY DEF Init, Book!Init, IdleCli, Absent
<1>2. StreamsInv /\ [Next]_vars => [Book!Next]_<<book, order>>
  <2> SUFFICES ASSUME StreamsInv, [Next]_vars PROVE [Book!Next]_<<book, order>>
    OBVIOUS
  <2> USE DEF StreamsInv
  <2>1. cli.pc # "idle" =>
            /\ order = [consumer |-> cli.consumer, interval |-> cli.interval]
            /\ order.consumer = cli.consumer /\ order.interval = cli.interval
            /\ order # None
    <3> SUFFICES ASSUME cli.pc # "idle" PROVE order # None
      OBVIOUS
    <3>1. cli.consumer \in Consumers /\ cli.interval \in Intervals \cup {0}
      BY DEF OrderOK, Types, Orders, Wanted
    <3>2. [consumer |-> cli.consumer, interval |-> cli.interval]
              \in [consumer : Consumers, interval : Intervals \cup {0}]
      BY <3>1
    <3> QED
      BY <3>2, StreamsAssumption
  <2>2. ASSUME cli' = cli, stream'.consumers = stream.consumers
        PROVE  UNCHANGED <<book, order>>
    BY <2>2
  <2>3. CASE UNCHANGED vars
    BY <2>2, <2>3 DEF vars, server
  <2>4. ASSUME NEW c \in Consumers, NEW i \in Intervals \cup {0}, Order(c, i)
        PROVE  Book!Next
    <3>1. /\ order = None /\ order' = [consumer |-> c, interval |-> i]
          /\ book' = book
      BY <2>4 DEF Order, IdleCli
    <3>2. Book!Place(c, i)
      BY <3>1 DEF Book!Place
    <3> QED
      BY <3>2 DEF Book!Next
  <2>5. ASSUME ChangeBook
        PROVE  Book!Next \/ UNCHANGED <<book, order>>
    <3> DEFINE new == Updated(cli.consumer, cli.interval)
    <3>1. cli.pc = "lock" /\ stream' = new
      BY <2>5 DEF ChangeBook
    <3>2. new.consumers = [stream.consumers EXCEPT ![cli.consumer] = cli.interval]
      BY <3>1, UpdatedFacts DEF OrderOK, Types, Orders
    <3> HIDE DEF new
    <3>3. CASE cli' = IdleCli
      <4>1. order' = None /\ book' = [book EXCEPT ![order.consumer] = order.interval]
        BY <2>1, <3>1, <3>2, <3>3 DEF IdleCli
      <4> QED
        BY <2>1, <3>1, <4>1 DEF Book!Next, Book!Grant
    <3>4. CASE cli' = [cli EXCEPT !.pc = "apply", !.previous = stream]
      <4>1. /\ cli'.pc = "apply" /\ cli'.previous = stream
            /\ cli'.consumer = cli.consumer /\ cli'.interval = cli.interval
        BY <3>4 DEF Types, Orders
      <4> QED
        BY <3>1, <4>1
    <3> QED
      BY <2>5, <3>3, <3>4 DEF ChangeBook
  <2>6. ASSUME UnsubscribeRefused PROVE Book!Next
    <3>1. cli.pc = "lock" /\ order' = None /\ book' = book
      BY <2>6 DEF UnsubscribeRefused, IdleCli
    <3> QED
      BY <2>1, <3>1 DEF Book!Next, Book!Refuse
  <2>7. ASSUME SubscribeApplied PROVE Book!Next
    <3>1. /\ cli.pc = "apply" /\ cli' = IdleCli /\ cli'.pc = "idle" /\ order' = None
          /\ book = cli.previous.consumers /\ book' = stream'.consumers
          /\ stream.known /\ StreamOK(stream) /\ call \in {"ok", "failed"}
      BY <2>7, StreamsAssumption DEF SubscribeApplied, IdleCli, LockOK, Types
    <3>2. CASE call = "ok"
      <4>1. stream'.consumers = stream.consumers
        BY <2>7, <3>1, <3>2, ActiveFacts DEF SubscribeApplied
      <4>2. book' = [book EXCEPT ![order.consumer] = order.interval]
        BY <2>1, <3>1, <4>1 DEF OrderOK
      <4> QED
        BY <2>1, <3>1, <4>2 DEF Book!Next, Book!Grant
    <3>3. CASE call = "failed"
      <4>1. stream' = cli.previous
        BY <2>7, <3>3 DEF SubscribeApplied
      <4> QED
        BY <2>1, <3>1, <4>1 DEF Book!Next, Book!Refuse
    <3> QED
      BY <3>1, <3>2, <3>3
  <2>8. CASE UserStep
    BY <2>5, <2>6, <2>7, <2>8 DEF UserStep, Subscribe, Unsubscribe
  <2>9. ASSUME NEW t \in Callers, StartSample(t) \/ StopSample(t)
        PROVE  UNCHANGED <<book, order>>
    BY <2>2, <2>9 DEF StartSample, StopSample, Send
  <2>10. CASE TimeOut
    BY <2>2, <2>10 DEF TimeOut
  <2>11. CASE WorkerStep \/ ReconcileRaises
    <3>1. cli' = cli
      BY <2>11 DEF WorkerStep, ReconcileCheck, ReconcileStream, ReconcileApplied,
                   ReconcileRetry, ReconcileEnd, ReconcileRaises, WorkerKeeps
    <3>2. CASE ReconcileApplied
      BY <2>2, <3>1, <3>2, ActiveFacts, StreamsAssumption DEF ReconcileApplied, Types, LockOK
    <3>3. CASE ~ReconcileApplied
      <4>1. stream' = stream
        BY <2>11, <3>3 DEF WorkerStep, ReconcileCheck, ReconcileStream,
                   ReconcileRetry, ReconcileEnd, ReconcileRaises
      <4> QED
        BY <2>2, <3>1, <4>1
    <3> QED
      BY <3>2, <3>3
  <2>12. ASSUME NEW t \in Threads, Lose(t) \/ IoStep(t)
         PROVE  UNCHANGED <<book, order>>
    <3>1. CASE Invalidate(t)
      <4>1. stream'.consumers = stream.consumers /\ cli' = cli
        BY <3>1 DEF Invalidate, IoKeeps, Types, StreamOK, Streams
      <4> QED
        BY <2>2, <4>1
    <3>2. CASE Lose(t) \/ ListStreams(t) \/ CancelReplies(t)
      BY <2>2, <3>2 DEF Lose, ListStreams, CancelReplies, IoKeeps
    <3> QED
      BY <2>12, <3>1, <3>2 DEF IoStep
  <2>13. CASE LoopStep \/ Registered
    <3>1. stream' = stream /\ cli' = cli
      BY <2>13 DEF LoopStep, Registered, Forget, AcceptHello, Admit, Reconnected,
                   DeliverReply, SendNext, IoKeeps
    <3> QED
      BY <2>2, <3>1
  <2>14. CASE HandleSampleStop \/ \E ok \in BOOLEAN : HandleSampleStart(ok)
    BY <2>2, <2>14 DEF HandleSampleStop, HandleSampleStart, SendMonitoringReply, server
  <2>15. CASE RecoverConnection \/ Restarts
    BY <2>2, <2>15 DEF RecoverConnection, Restarts, Handshake, server
  <2> QED
    BY <2>3, <2>4, <2>8, <2>9, <2>10, <2>11, <2>12, <2>13, <2>14, <2>15 DEF Next
<1> QED
  BY <1>1, <1>2, Invariance, PTL DEF Spec, BookKept, Book!Spec

==============================================================================
