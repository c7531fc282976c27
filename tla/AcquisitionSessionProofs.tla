------------------------ MODULE AcquisitionSessionProofs ------------------------
(***************************************************************************)
(* What an acquisition session leaves behind, for every set of boards and  *)
(* every loss of replies, boards and notifications.  Neither DataHasFile   *)
(* nor SuccessIsClean is inductive.  The first needs that one client at a  *)
(* time is being started and that the channels of a client are off, in its *)
(* queue too, until its producer runs; the second what each loop of the    *)
(* finalization has done to the clients it has visited.                    *)
(***************************************************************************)
EXTENDS AcquisitionSession, TLAPS

Steps == {"idle", "register", "check", "open", "start", "enable", "wait", "leave",
          "disable", "flush", "close", "close_lost", "ended"}

RunType ==
    run \in [pc : Steps, client_ids : SUBSET Clients, todo : SUBSET Clients,
             masks : SUBSET Clients, opened : SUBSET Clients, started : SUBSET Clients,
             lost : SUBSET Clients, failed : SUBSET Clients, raised : BOOLEAN,
             successful : SUBSET Clients]

\* The sets of the session, beyond TypeOK: when they are still empty and when
\* they are empty again.
SetsOK ==
    /\ run.masks \subseteq run.client_ids
    /\ session_clients \subseteq Clients
    /\ run.pc = "ended" => session_clients = {}
    /\ run.pc \in {"idle", "register", "check"} =>
          run.opened = {} /\ run.started = {} /\ run.failed = {}
    /\ run.pc # "ended" => run.successful = {}

\* One client at a time is between its OPEN and the outcome of its start, and
\* its producer runs before its channels are enabled.
StartOK ==
    /\ run.pc \in {"open", "start", "enable"} =>
          run.todo \cap run.opened = {} /\ run.failed \subseteq run.opened
    /\ run.pc = "open" => run.opened \subseteq run.started \cup run.failed
    /\ run.pc \in {"start", "enable"} =>
          \A c, d \in Clients : Starting(c) /\ Starting(d) => c = d
    /\ run.pc = "enable" => \A c \in Clients : Starting(c) => c \in producer

\* The channels of a client are off, also in its queue, until its producer
\* runs; a file that was opened stays open until it is closed.
HardwareOK ==
    /\ run.pc \in {"register", "check"} => run.client_ids \cap (rc19 \cup late) = {}
    /\ run.pc \in {"open", "start", "enable", "wait", "leave", "disable"} =>
          run.client_ids \cap (rc19 \cup late) \subseteq producer
    /\ run.pc \in {"open", "start", "enable", "wait", "leave", "disable", "flush"} =>
          run.opened \subseteq file

\* The clients that will be reported successful if nothing more fails.
Survivors == IF run.raised THEN {} ELSE (run.started \ run.failed) \ run.lost

\* What each loop of the finalization has already done to the survivors.
FinalOK ==
    /\ run.pc = "disable" =>
          (Survivors \ run.todo) \cap (rc19 \cup late) = {}
    /\ run.pc \in {"flush", "close", "close_lost"} =>
          Survivors \cap (rc19 \cup late) = {}
    /\ run.pc = "flush" => (Survivors \ run.todo) \cap producer = {}
    /\ run.pc \in {"close", "close_lost"} => Survivors \cap producer = {}
    /\ run.pc = "close" => (Survivors \ run.todo) \cap file = {}
    /\ run.pc = "close_lost" =>
          /\ Survivors \cap file = {}
          /\ run.todo \cap Survivors = {}

SessionInv ==
    /\ RunType /\ TypeOK /\ SetsOK
    /\ StartOK /\ HardwareOK /\ FinalOK /\ SuccessIsClean

------------------------------------------------------------------------------

\* Idle session, idle hardware.
LEMMA InitInv == Init => SessionInv
<1> SUFFICES ASSUME Init PROVE SessionInv
  OBVIOUS
<1>1. RunType
  BY DEF Init, IdleRun, RunType, Steps
<1>2. /\ run.pc = "idle" /\ run.client_ids = {} /\ run.todo = {} /\ run.masks = {}
      /\ run.opened = {} /\ run.started = {} /\ run.failed = {} /\ run.successful = {}
  BY DEF Init, IdleRun
<1>3. TypeOK /\ SetsOK
  BY <1>2 DEF Init, TypeOK, SetsOK
<1>4. StartOK /\ HardwareOK /\ FinalOK /\ SuccessIsClean
  BY <1>2 DEF StartOK, HardwareOK, FinalOK, SuccessIsClean
<1> QED
  BY <1>1, <1>3, <1>4 DEF SessionInv

\* The steps of the other threads and of the boards: the session thread does
\* not move, and a late write only moves from the queue to the register.
Others ==
    \/ RequestStop
    \/ \E c \in Clients :
          \/ \E control \in BOOLEAN : ClientLost(c, control)
          \/ OnClientLost(c) \/ ClientBack(c) \/ LateEnable(c)

\* What they leave alone.
LEMMA OthersFacts ==
    ASSUME Others
    PROVE  /\ run' = run /\ file' = file /\ producer' = producer
           /\ rc19' \cup late' = rc19 \cup late
           /\ session_clients' = session_clients
<1>1. CASE RequestStop
  BY <1>1 DEF RequestStop, hardware, shared
<1>2. ASSUME NEW c \in Clients, NEW control \in BOOLEAN, ClientLost(c, control)
      PROVE  /\ run' = run /\ file' = file /\ producer' = producer
             /\ rc19' \cup late' = rc19 \cup late
             /\ session_clients' = session_clients
  BY <1>2 DEF ClientLost, hardware, shared
<1>3. ASSUME NEW c \in Clients, OnClientLost(c) \/ ClientBack(c) \/ LateEnable(c)
      PROVE  /\ run' = run /\ file' = file /\ producer' = producer
             /\ rc19' \cup late' = rc19 \cup late
             /\ session_clients' = session_clients
  BY <1>3 DEF OnClientLost, ClientBack, LateEnable, hardware, shared
<1> QED
  BY <1>1, <1>2, <1>3 DEF Others

\* The other threads cannot break what the session thread relies on.
LEMMA OthersStep == ASSUME SessionInv, Others PROVE SessionInv'
<1> USE DEF SessionInv
<1>1. /\ run' = run /\ file' = file /\ producer' = producer
      /\ rc19' \cup late' = rc19 \cup late
      /\ session_clients' = session_clients
  BY OthersFacts
<1>2. RunType' /\ SetsOK'
  BY <1>1 DEF RunType, SetsOK
<1>3. TypeOK'
  <2>1. CASE RequestStop
    BY <1>1, <2>1 DEF TypeOK, RequestStop, hardware, registry, shared
  <2>2. ASSUME NEW c \in Clients, NEW control \in BOOLEAN, ClientLost(c, control)
        PROVE  TypeOK'
    BY <1>1, <2>2 DEF TypeOK, ClientLost, hardware, shared
  <2>3. ASSUME NEW c \in Clients, OnClientLost(c) PROVE TypeOK'
    BY <1>1, <2>3 DEF TypeOK, OnClientLost, hardware
  <2>4. ASSUME NEW c \in Clients, ClientBack(c) \/ LateEnable(c) PROVE TypeOK'
    BY <1>1, <2>4 DEF TypeOK, ClientBack, LateEnable, hardware, registry, shared
  <2> QED
    BY <2>1, <2>2, <2>3, <2>4 DEF Others
<1>4. StartOK'
  BY <1>1 DEF StartOK, Starting
<1>5. HardwareOK' /\ FinalOK' /\ SuccessIsClean'
  BY <1>1 DEF HardwareOK, FinalOK, Survivors, SuccessIsClean
<1> QED
  BY <1>2, <1>3, <1>4, <1>5

------------------------------------------------------------------------------
(* The session thread: what each of its steps does to its record and to the    *)
(* hardware, and why the invariant survives.                                   *)

\* A new session begins with its channels off and nothing of its own.
LEMMA BeginSessionStep ==
    ASSUME SessionInv, NEW cs \in SUBSET Clients, BeginSession(cs)
    PROVE  SessionInv'
<1> USE DEF SessionInv
<1>1. RunType'
  BY DEF BeginSession, IdleRun, RunType, Steps
<1>2. /\ run'.pc = "register" /\ run'.client_ids = cs /\ run'.todo = {}
      /\ run'.masks = {} /\ run'.opened = {} /\ run'.started = {}
      /\ run'.lost = {} /\ run'.failed = {} /\ run'.raised = FALSE
      /\ run'.successful = {}
  BY DEF BeginSession, IdleRun, RunType
<1>3. TypeOK' /\ SetsOK'
  BY <1>2 DEF TypeOK, SetsOK, BeginSession, registry, shared, history
<1>4. StartOK'
  BY <1>2 DEF TypeOK, SetsOK, StartOK, Starting, BeginSession, registry, shared,
             history
<1>5. HardwareOK'
  BY <1>2 DEF TypeOK, SetsOK, StartOK, Starting, HardwareOK, BeginSession,
             registry, shared, history
<1>6. FinalOK' /\ SuccessIsClean'
  BY <1>2 DEF TypeOK, SetsOK, FinalOK, Survivors, SuccessIsClean, BeginSession,
             registry, shared, history
<1> QED
  BY <1>1, <1>3, <1>4, <1>5, <1>6

\* Registration publishes the clients of the session.
LEMMA RegisterStep ==
    ASSUME SessionInv, Register
    PROVE  SessionInv'
<1> USE DEF SessionInv
<1>1. RunType'
  BY DEF Register, RunType, Steps
<1>2. /\ run'.pc = "check"
      /\ run'.todo = run.client_ids
      /\ UNCHANGED <<run.client_ids, run.masks, run.opened, run.started, run.lost,
                      run.failed, run.raised, run.successful>>
  BY DEF Register, RunType
<1>3. TypeOK' /\ SetsOK'
  BY <1>2 DEF TypeOK, SetsOK, Register, hardware, registry, history
<1>4. StartOK'
  BY <1>2 DEF TypeOK, SetsOK, StartOK, Starting, Register, hardware, registry,
             history
<1>5. HardwareOK'
  BY <1>2 DEF TypeOK, SetsOK, StartOK, Starting, HardwareOK, Register, hardware,
             registry, history
<1>6. FinalOK' /\ SuccessIsClean'
  BY <1>2 DEF TypeOK, SetsOK, FinalOK, Survivors, SuccessIsClean, Register,
             hardware, registry, history
<1> QED
  BY <1>1, <1>3, <1>4, <1>5, <1>6

\* A flush during the checks only touches a client whose channels are off.
LEMMA CheckClientStep ==
    ASSUME SessionInv, NEW c \in Clients, NEW ok \in BOOLEAN, CheckClient(c, ok)
    PROVE  SessionInv'
<1> USE DEF SessionInv
<1>1. RunType'
  BY DEF CheckClient, RunType, Steps
<1>2. /\ run'.todo = run.todo \ {c}
      /\ run'.masks = (IF ok THEN run.masks \cup {c} ELSE run.masks)
      /\ UNCHANGED <<run.pc, run.client_ids, run.opened, run.started, run.lost,
                      run.failed, run.raised, run.successful>>
  BY DEF CheckClient, RunType
<1>3. TypeOK' /\ SetsOK'
  BY <1>2 DEF TypeOK, SetsOK, CheckClient, FlushClient, Command, Reaches,
             registry, shared, history, Visit
<1>4. StartOK'
  BY <1>2 DEF TypeOK, SetsOK, StartOK, Starting, CheckClient, FlushClient,
             Command, Reaches, registry, shared, history, Visit
<1>5. HardwareOK'
  BY <1>2 DEF TypeOK, SetsOK, StartOK, Starting, HardwareOK, CheckClient,
             FlushClient, Command, Reaches, registry, shared, history, Visit
<1>6. FinalOK' /\ SuccessIsClean'
  BY <1>2 DEF TypeOK, SetsOK, FinalOK, Survivors, SuccessIsClean, CheckClient,
             FlushClient, Command, Reaches, registry, shared, history, Visit
<1> QED
  BY <1>1, <1>3, <1>4, <1>5, <1>6

\* The clients that passed the checks are the ones to open.
LEMMA CheckedStep ==
    ASSUME SessionInv, Checked
    PROVE  SessionInv'
<1> USE DEF SessionInv
<1>1. RunType'
  BY DEF Checked, RunType, Steps
<1>2. /\ run'.pc = "open"
      /\ run'.todo = run.masks
      /\ run'.masks = {}
      /\ UNCHANGED <<run.client_ids, run.opened, run.started, run.lost, run.failed,
                      run.raised, run.successful>>
  BY DEF Checked, RunType
<1>3. TypeOK' /\ SetsOK'
  BY <1>2 DEF TypeOK, SetsOK, Checked, hardware, registry, shared, history
<1>4. StartOK'
  BY <1>2 DEF TypeOK, SetsOK, StartOK, Starting, Checked, hardware, registry,
             shared, history
<1>5. HardwareOK'
  BY <1>2 DEF TypeOK, SetsOK, StartOK, Starting, HardwareOK, Checked, hardware,
             registry, shared, history
<1>6. FinalOK' /\ SuccessIsClean'
  BY <1>2 DEF TypeOK, SetsOK, FinalOK, Survivors, SuccessIsClean, Checked,
             hardware, registry, shared, history
<1> QED
  BY <1>1, <1>3, <1>4, <1>5, <1>6

\* OPEN: a confirmed one has its file, an unconfirmed one touches no other file.
LEMMA OpenClientStep ==
    ASSUME SessionInv, NEW c \in Clients, NEW ok \in BOOLEAN, OpenClient(c, ok)
    PROVE  SessionInv'
<1> USE DEF SessionInv
<1>1. RunType'
  BY DEF OpenClient, RunType, Steps
<1>2. /\ run'.pc = (IF ok THEN "start" ELSE run.pc)
      /\ run'.todo = run.todo \ {c}
      /\ run'.opened = (IF ok THEN run.opened \cup {c} ELSE run.opened)
      /\ UNCHANGED <<run.client_ids, run.masks, run.started, run.lost, run.failed,
                      run.raised, run.successful>>
  BY DEF OpenClient, RunType
<1>3. TypeOK' /\ SetsOK'
  BY <1>2 DEF TypeOK, SetsOK, OpenClient, registry, shared, Visit
<1>4. StartOK'
  BY <1>2 DEF TypeOK, SetsOK, StartOK, Starting, OpenClient, registry, shared,
             Visit
<1>5. HardwareOK'
  BY <1>2 DEF TypeOK, SetsOK, StartOK, Starting, HardwareOK, OpenClient,
             registry, shared, Visit
<1>6. FinalOK' /\ SuccessIsClean'
  BY <1>2 DEF TypeOK, SetsOK, FinalOK, Survivors, SuccessIsClean, OpenClient,
             registry, shared, Visit
<1> QED
  BY <1>1, <1>3, <1>4, <1>5, <1>6

\* A confirmed START leaves the one client being started with its producer.
LEMMA StartProducerStep ==
    ASSUME SessionInv, NEW c \in Clients, NEW ok \in BOOLEAN, StartProducer(c, ok)
    PROVE  SessionInv'
<1> USE DEF SessionInv
<1>1. RunType'
  BY DEF StartProducer, FailIf, RunType, Steps
<1>2. /\ run'.pc = (IF ok THEN "enable" ELSE "open")
      /\ run'.failed = (IF ok THEN run.failed ELSE run.failed \cup {c})
      /\ UNCHANGED <<run.client_ids, run.todo, run.masks, run.opened, run.started,
                      run.lost, run.raised, run.successful>>
  BY DEF StartProducer, FailIf, RunType
<1>3. TypeOK' /\ SetsOK'
  BY <1>2 DEF TypeOK, SetsOK, StartProducer, Command, registry, shared, history
<1>4. StartOK'
  BY <1>2 DEF TypeOK, SetsOK, StartOK, Starting, StartProducer, Command,
             registry, shared, history
<1>5. HardwareOK'
  BY <1>2 DEF TypeOK, SetsOK, StartOK, Starting, HardwareOK, StartProducer,
             Command, registry, shared, history
<1>6. FinalOK' /\ SuccessIsClean'
  BY <1>2 DEF TypeOK, SetsOK, FinalOK, Survivors, SuccessIsClean, StartProducer,
             Command, registry, shared, history
<1> QED
  BY <1>1, <1>3, <1>4, <1>5, <1>6

\* The write of RC19, confirmed, lost or late, reaches a running producer.
LEMMA EnableChannelsStep ==
    ASSUME SessionInv, NEW c \in Clients, NEW ok \in BOOLEAN, EnableChannels(c, ok)
    PROVE  SessionInv'
<1> USE DEF SessionInv
<1>1. RunType'
  BY DEF EnableChannels, FailIf, RunType, Steps
<1>2. /\ run'.pc = "open"
      /\ run'.started = (IF ok THEN run.started \cup {c} ELSE run.started)
      /\ run'.failed = (IF ok THEN run.failed ELSE run.failed \cup {c})
      /\ UNCHANGED <<run.client_ids, run.todo, run.masks, run.opened, run.lost,
                      run.raised, run.successful>>
  BY DEF EnableChannels, FailIf, RunType
<1>3. TypeOK' /\ SetsOK'
  BY <1>2 DEF TypeOK, SetsOK, Starting, EnableChannels, Command, Reaches,
             registry, shared, history
<1>4. StartOK'
  BY <1>2 DEF TypeOK, SetsOK, StartOK, Starting, EnableChannels, Command,
             Reaches, registry, shared, history
<1>5. HardwareOK'
  BY <1>2 DEF TypeOK, SetsOK, StartOK, Starting, HardwareOK, EnableChannels,
             Command, Reaches, registry, shared, history
<1>6. FinalOK' /\ SuccessIsClean'
  BY <1>2 DEF TypeOK, SetsOK, FinalOK, Survivors, SuccessIsClean,
             EnableChannels, Command, Reaches, registry, shared, history
<1> QED
  BY <1>1, <1>3, <1>4, <1>5, <1>6

\* The end of the starts: without an open file nobody is reported.
LEMMA OpenedStep ==
    ASSUME SessionInv, Opened
    PROVE  SessionInv'
<1> USE DEF SessionInv
<1>1. RunType'
  <2>1. \E p \in {"ended", "wait"} : run' = [run EXCEPT !.pc = p, !.todo = {}]
    BY DEF Opened
  <2> QED
    BY <2>1 DEF RunType, Steps
<1>2. /\ run'.pc = (IF run.opened = {} THEN "ended" ELSE "wait")
      /\ run'.todo = {}
      /\ UNCHANGED <<run.client_ids, run.masks, run.opened, run.started, run.lost,
                      run.failed, run.raised, run.successful>>
  BY DEF Opened, RunType
<1>3. TypeOK' /\ SetsOK'
  BY <1>2 DEF TypeOK, SetsOK, Opened, hardware, registry, history
<1>4. StartOK'
  BY <1>2 DEF TypeOK, SetsOK, StartOK, Starting, Opened, hardware, registry,
             history
<1>5. HardwareOK'
  BY <1>2 DEF TypeOK, SetsOK, StartOK, Starting, HardwareOK, Opened, hardware,
             registry, history
<1>6. FinalOK' /\ SuccessIsClean'
  BY <1>2 DEF TypeOK, SetsOK, FinalOK, Survivors, SuccessIsClean, Opened,
             hardware, registry, history
<1> QED
  BY <1>1, <1>3, <1>4, <1>5, <1>6

\* The copy of the lost clients is taken.
LEMMA WaitOverStep ==
    ASSUME SessionInv, NEW elapsed \in BOOLEAN, WaitOver(elapsed)
    PROVE  SessionInv'
<1> USE DEF SessionInv
<1>1. RunType'
  BY DEF WaitOver, RunType, Steps, TypeOK, SetsOK
<1>2. /\ run'.pc = "leave"
      /\ run'.lost = lost_clients
      /\ UNCHANGED <<run.client_ids, run.todo, run.masks, run.opened, run.started,
                      run.failed, run.raised, run.successful>>
  BY DEF WaitOver, RunType
<1>3. TypeOK' /\ SetsOK'
  BY <1>2 DEF TypeOK, SetsOK, WaitOver, hardware, registry, shared, history
<1>4. StartOK'
  BY <1>2 DEF TypeOK, SetsOK, StartOK, Starting, WaitOver, hardware, registry,
             shared, history
<1>5. HardwareOK'
  BY <1>2 DEF TypeOK, SetsOK, StartOK, Starting, HardwareOK, WaitOver, hardware,
             registry, shared, history
<1>6. FinalOK' /\ SuccessIsClean'
  BY <1>2 DEF TypeOK, SetsOK, FinalOK, Survivors, SuccessIsClean, WaitOver,
             hardware, registry, shared, history
<1> QED
  BY <1>1, <1>3, <1>4, <1>5, <1>6

\* The finalization visits every opened client that is not lost.
LEMMA LeaveStep ==
    ASSUME SessionInv, Leave
    PROVE  SessionInv'
<1> USE DEF SessionInv
<1>1. RunType'
  BY DEF Leave, RunType, Steps
<1>2. /\ run'.pc = "disable"
      /\ run'.todo = run.opened \ run.lost
      /\ UNCHANGED <<run.client_ids, run.masks, run.opened, run.started, run.lost,
                      run.failed, run.raised, run.successful>>
  BY DEF Leave, RunType
<1>3. TypeOK' /\ SetsOK'
  BY <1>2 DEF TypeOK, SetsOK, Leave, hardware, registry, history
<1>4. StartOK'
  BY <1>2 DEF TypeOK, SetsOK, StartOK, Starting, Leave, hardware, registry,
             history
<1>5. HardwareOK'
  BY <1>2 DEF TypeOK, SetsOK, StartOK, Starting, HardwareOK, Leave, hardware,
             registry, history
<1>6. FinalOK' /\ SuccessIsClean'
  BY <1>2 DEF TypeOK, SetsOK, FinalOK, Survivors, SuccessIsClean, Leave,
             hardware, registry, history
<1> QED
  BY <1>1, <1>3, <1>4, <1>5, <1>6

\* An error is finalized like a stop, and reports nobody.
LEMMA UnexpectedErrorStep ==
    ASSUME SessionInv, UnexpectedError
    PROVE  SessionInv'
<1> USE DEF SessionInv
<1>1. RunType'
  BY DEF UnexpectedError, RunType, Steps
<1>2. /\ run'.pc = "disable"
      /\ run'.todo = run.client_ids
      /\ run'.raised = TRUE
      /\ UNCHANGED <<run.client_ids, run.masks, run.opened, run.started, run.lost,
                      run.failed, run.successful>>
  BY DEF UnexpectedError, RunType
<1>3. TypeOK' /\ SetsOK'
  BY <1>2 DEF TypeOK, SetsOK, UnexpectedError, hardware, registry, shared,
             history
<1>4. StartOK'
  BY <1>2 DEF TypeOK, SetsOK, StartOK, Starting, UnexpectedError, hardware,
             registry, shared, history
<1>5. HardwareOK'
  BY <1>2 DEF TypeOK, SetsOK, StartOK, Starting, HardwareOK, UnexpectedError,
             hardware, registry, shared, history
<1>6. FinalOK' /\ SuccessIsClean'
  BY <1>2 DEF TypeOK, SetsOK, FinalOK, Survivors, SuccessIsClean,
             UnexpectedError, hardware, registry, shared, history
<1> QED
  BY <1>1, <1>3, <1>4, <1>5, <1>6

\* After the first loop the channels of every survivor are off for good.
LEMMA DisableToFlushStep ==
    ASSUME SessionInv, NextPhase /\ run.pc = "disable"
    PROVE  SessionInv'
<1> USE DEF SessionInv
<1>1. RunType'
  <2>1. run' = [run EXCEPT !.pc = "flush", !.todo = Finalized]
    BY DEF NextPhase
  <2>2. Finalized \in SUBSET Clients
    BY DEF Finalized, RunType
  <2> QED
    BY <2>1, <2>2 DEF RunType, Steps
<1>2. /\ run'.pc = "flush"
      /\ run'.todo = Finalized
      /\ UNCHANGED <<run.client_ids, run.masks, run.opened, run.started, run.lost,
                      run.failed, run.raised, run.successful>>
  BY DEF NextPhase, RunType
<1>3. TypeOK' /\ SetsOK'
  BY <1>2 DEF TypeOK, SetsOK, NextPhase, hardware, registry, shared, history,
             Finalized
<1>4. StartOK'
  BY <1>2 DEF TypeOK, SetsOK, StartOK, Starting, NextPhase, hardware, registry,
             shared, history, Finalized
<1>5. HardwareOK'
  BY <1>2 DEF TypeOK, SetsOK, StartOK, Starting, HardwareOK, NextPhase,
             hardware, registry, shared, history, Finalized
<1>6. FinalOK' /\ SuccessIsClean'
  BY <1>2 DEF TypeOK, SetsOK, FinalOK, Survivors, SuccessIsClean, NextPhase,
             hardware, registry, shared, history, Finalized
<1> QED
  BY <1>1, <1>3, <1>4, <1>5, <1>6

\* After the second the producers of the survivors are stopped.
LEMMA FlushToCloseStep ==
    ASSUME SessionInv, NextPhase /\ run.pc = "flush"
    PROVE  SessionInv'
<1> USE DEF SessionInv
<1>1. RunType'
  <2>1. run' = [run EXCEPT !.pc = "close", !.todo = Finalized]
    BY DEF NextPhase
  <2>2. Finalized \in SUBSET Clients
    BY DEF Finalized, RunType
  <2> QED
    BY <2>1, <2>2 DEF RunType, Steps
<1>2. /\ run'.pc = "close"
      /\ run'.todo = Finalized
      /\ UNCHANGED <<run.client_ids, run.masks, run.opened, run.started, run.lost,
                      run.failed, run.raised, run.successful>>
  BY DEF NextPhase, RunType
<1>3. TypeOK' /\ SetsOK'
  BY <1>2 DEF TypeOK, SetsOK, NextPhase, hardware, registry, shared, history,
             Finalized
<1>4. StartOK'
  BY <1>2 DEF TypeOK, SetsOK, StartOK, Starting, NextPhase, hardware, registry,
             shared, history, Finalized
<1>5. HardwareOK'
  BY <1>2 DEF TypeOK, SetsOK, StartOK, Starting, HardwareOK, NextPhase,
             hardware, registry, shared, history, Finalized
<1>6. FinalOK' /\ SuccessIsClean'
  BY <1>2 DEF TypeOK, SetsOK, FinalOK, Survivors, SuccessIsClean, NextPhase,
             hardware, registry, shared, history, Finalized
<1> QED
  BY <1>1, <1>3, <1>4, <1>5, <1>6

\* After the third the files of the survivors are closed.
LEMMA CloseToLostStep ==
    ASSUME SessionInv, NextPhase /\ run.pc = "close"
    PROVE  SessionInv'
<1> USE DEF SessionInv
<1>1. RunType'
  <2> DEFINE todo == IF run.raised THEN {} ELSE run.opened \cap run.lost
  <2>1. run' = [run EXCEPT !.pc = "close_lost", !.todo = todo]
    BY DEF NextPhase
  <2>2. todo \in SUBSET Clients
    BY DEF RunType
  <2> HIDE DEF todo
  <2> QED
    BY <2>1, <2>2 DEF RunType, Steps
<1>2. /\ run'.pc = "close_lost"
      /\ run'.todo = (IF run.raised THEN {} ELSE run.opened \cap run.lost)
      /\ UNCHANGED <<run.client_ids, run.masks, run.opened, run.started, run.lost,
                      run.failed, run.raised, run.successful>>
  BY DEF NextPhase, RunType
<1>3. TypeOK' /\ SetsOK'
  BY <1>2 DEF TypeOK, SetsOK, NextPhase, hardware, registry, shared, history,
             Finalized
<1>4. StartOK'
  BY <1>2 DEF TypeOK, SetsOK, StartOK, Starting, NextPhase, hardware, registry,
             shared, history, Finalized
<1>5. HardwareOK'
  BY <1>2 DEF TypeOK, SetsOK, StartOK, Starting, HardwareOK, NextPhase,
             hardware, registry, shared, history, Finalized
<1>6. FinalOK' /\ SuccessIsClean'
  BY <1>2 DEF TypeOK, SetsOK, FinalOK, Survivors, SuccessIsClean, NextPhase,
             hardware, registry, shared, history, Finalized
<1> QED
  BY <1>1, <1>3, <1>4, <1>5, <1>6

\* A confirmed write comes after everything queued at the board.
LEMMA DisableChannelsStep ==
    ASSUME SessionInv, NEW c \in Clients, NEW ok \in BOOLEAN, DisableChannels(c, ok)
    PROVE  SessionInv'
<1> USE DEF SessionInv
<1>1. RunType'
  BY DEF DisableChannels, FailIf, RunType, Steps
<1>2. /\ run'.todo = run.todo \ {c}
      /\ run'.failed = (IF ok THEN run.failed ELSE run.failed \cup {c})
      /\ UNCHANGED <<run.pc, run.client_ids, run.masks, run.opened, run.started,
                      run.lost, run.raised, run.successful>>
  BY DEF DisableChannels, FailIf, RunType
<1>3. TypeOK' /\ SetsOK'
  BY <1>2 DEF TypeOK, SetsOK, DisableChannels, Command, Reaches, registry,
             shared, history, Visit
<1>4. StartOK'
  BY <1>2 DEF TypeOK, SetsOK, StartOK, Starting, DisableChannels, Command,
             Reaches, registry, shared, history, Visit
<1>5. HardwareOK'
  BY <1>2 DEF TypeOK, SetsOK, StartOK, Starting, HardwareOK, DisableChannels,
             Command, Reaches, registry, shared, history, Visit
<1>6. FinalOK' /\ SuccessIsClean'
  BY <1>2 DEF TypeOK, SetsOK, FinalOK, Survivors, SuccessIsClean,
             DisableChannels, Command, Reaches, registry, shared, history, Visit
<1> QED
  BY <1>1, <1>3, <1>4, <1>5, <1>6

\* A confirmed flush has stopped the producer.
LEMMA FlushAndResetTriggerStep ==
    ASSUME SessionInv, NEW c \in Clients, NEW ok \in BOOLEAN, NEW reset \in BOOLEAN, FlushAndResetTrigger(c, ok, reset)
    PROVE  SessionInv'
<1> USE DEF SessionInv
<1>1. RunType'
  BY DEF FlushAndResetTrigger, FailIf, RunType, Steps
<1>2. /\ run'.todo = run.todo \ {c}
      /\ run'.failed = (IF ok /\ reset THEN run.failed ELSE run.failed \cup {c})
      /\ UNCHANGED <<run.pc, run.client_ids, run.masks, run.opened, run.started,
                      run.lost, run.raised, run.successful>>
  BY DEF FlushAndResetTrigger, FailIf, RunType
<1>3. TypeOK' /\ SetsOK'
  BY <1>2 DEF TypeOK, SetsOK, FlushAndResetTrigger, FlushClient, Command,
             Reaches, registry, shared, history, Visit
<1>4. StartOK'
  BY <1>2 DEF TypeOK, SetsOK, StartOK, Starting, FlushAndResetTrigger,
             FlushClient, Command, Reaches, registry, shared, history, Visit
<1>5. HardwareOK'
  BY <1>2 DEF TypeOK, SetsOK, StartOK, Starting, HardwareOK,
             FlushAndResetTrigger, FlushClient, Command, Reaches, registry,
             shared, history, Visit
<1>6. FinalOK' /\ SuccessIsClean'
  BY <1>2 DEF TypeOK, SetsOK, FinalOK, Survivors, SuccessIsClean,
             FlushAndResetTrigger, FlushClient, Command, Reaches, registry,
             shared, history, Visit
<1> QED
  BY <1>1, <1>3, <1>4, <1>5, <1>6

\* A confirmed CLOSE has closed the file.
LEMMA CloseClientStep ==
    ASSUME SessionInv, NEW c \in Clients, NEW ok \in BOOLEAN, CloseClient(c, ok)
    PROVE  SessionInv'
<1> USE DEF SessionInv
<1>1. RunType'
  BY DEF CloseClient, FailIf, RunType, Steps
<1>2. /\ run'.todo = run.todo \ {c}
      /\ run'.failed = (IF ok THEN run.failed ELSE run.failed \cup {c})
      /\ UNCHANGED <<run.pc, run.client_ids, run.masks, run.opened, run.started,
                      run.lost, run.raised, run.successful>>
  BY DEF CloseClient, FailIf, RunType
<1>3. TypeOK' /\ SetsOK'
  BY <1>2 DEF TypeOK, SetsOK, CloseClient, CloseFileForClient, CloseFile,
             Command, registry, shared, Visit
<1>4. StartOK'
  BY <1>2 DEF TypeOK, SetsOK, StartOK, Starting, CloseClient,
             CloseFileForClient, CloseFile, Command, registry, shared, Visit
<1>5. HardwareOK'
  BY <1>2 DEF TypeOK, SetsOK, StartOK, Starting, HardwareOK, CloseClient,
             CloseFileForClient, CloseFile, Command, registry, shared, Visit
<1>6. FinalOK' /\ SuccessIsClean'
  BY <1>2 DEF TypeOK, SetsOK, FinalOK, Survivors, SuccessIsClean, CloseClient,
             CloseFileForClient, CloseFile, Command, registry, shared, Visit
<1> QED
  BY <1>1, <1>3, <1>4, <1>5, <1>6

\* The lost clients are no survivors.
LEMMA CloseLostClientStep ==
    ASSUME SessionInv, NEW c \in Clients, NEW stopped \in BOOLEAN, NEW ok \in BOOLEAN, CloseLostClient(c, stopped, ok)
    PROVE  SessionInv'
<1> USE DEF SessionInv
<1>1. RunType'
  BY DEF CloseLostClient, FailIf, RunType, Steps
<1>2. /\ run'.todo = run.todo \ {c}
      /\ run'.failed = run.failed \cup {c}
      /\ UNCHANGED <<run.pc, run.client_ids, run.masks, run.opened, run.started,
                      run.lost, run.raised, run.successful>>
  BY DEF CloseLostClient, FailIf, RunType
<1>3. TypeOK' /\ SetsOK'
  <2>1. TypeOK'
    BY <1>2 DEF TypeOK, CloseLostClient, CloseFile, Command, registry, shared
  <2>2. SetsOK'
    BY <1>2 DEF TypeOK, SetsOK, CloseLostClient, registry, shared, Visit
  <2> QED
    BY <2>1, <2>2
<1>4. StartOK'
  BY <1>2 DEF TypeOK, SetsOK, StartOK, Starting, CloseLostClient, CloseFile,
             Command, registry, shared, Visit
<1>5. HardwareOK'
  BY <1>2 DEF TypeOK, SetsOK, StartOK, Starting, HardwareOK, CloseLostClient,
             CloseFile, Command, registry, shared, Visit
<1>6. FinalOK' /\ SuccessIsClean'
  BY <1>2 DEF TypeOK, SetsOK, FinalOK, Survivors, SuccessIsClean,
             CloseLostClient, CloseFile, Command, registry, shared, Visit
<1> QED
  BY <1>1, <1>3, <1>4, <1>5, <1>6

\* The survivors are reported, and they are clean.
LEMMA SessionEndedStep ==
    ASSUME SessionInv, SessionEnded
    PROVE  SessionInv'
<1> USE DEF SessionInv
<1>1. RunType'
  BY DEF SessionEnded, RunType, Steps
<1>2. /\ run'.pc = "ended"
      /\ run'.successful = Survivors
      /\ UNCHANGED <<run.client_ids, run.todo, run.masks, run.opened, run.started,
                      run.lost, run.failed, run.raised>>
  BY DEF SessionEnded, RunType, Survivors
<1>3. TypeOK' /\ SetsOK'
  BY <1>2 DEF TypeOK, SetsOK, SessionEnded, hardware, registry, history
<1>4. StartOK'
  BY <1>2 DEF TypeOK, SetsOK, StartOK, Starting, SessionEnded, hardware,
             registry, history
<1>5. HardwareOK'
  BY <1>2 DEF TypeOK, SetsOK, StartOK, Starting, HardwareOK, SessionEnded,
             hardware, registry, history
<1>6. FinalOK' /\ SuccessIsClean'
  BY <1>2 DEF TypeOK, SetsOK, FinalOK, Survivors, SuccessIsClean, SessionEnded,
             hardware, registry, history
<1> QED
  BY <1>1, <1>3, <1>4, <1>5, <1>6

\* The thread forgets the session.
LEMMA CloseSessionStep ==
    ASSUME SessionInv, CloseSession
    PROVE  SessionInv'
<1> USE DEF SessionInv
<1>1. RunType'
  BY DEF CloseSession, IdleRun, RunType, Steps
<1>2. /\ run'.pc = "idle" /\ run'.client_ids = {} /\ run'.todo = {}
      /\ run'.masks = {} /\ run'.opened = {} /\ run'.started = {}
      /\ run'.lost = {} /\ run'.failed = {} /\ run'.raised = FALSE
      /\ run'.successful = {}
  BY DEF CloseSession, IdleRun, RunType
<1>3. TypeOK' /\ SetsOK'
  BY <1>2 DEF TypeOK, SetsOK, CloseSession, hardware, registry, shared
<1>4. StartOK'
  BY <1>2 DEF TypeOK, SetsOK, StartOK, Starting, CloseSession, hardware,
             registry, shared
<1>5. HardwareOK'
  BY <1>2 DEF TypeOK, SetsOK, StartOK, Starting, HardwareOK, CloseSession,
             hardware, registry, shared
<1>6. FinalOK' /\ SuccessIsClean'
  BY <1>2 DEF TypeOK, SetsOK, FinalOK, Survivors, SuccessIsClean, CloseSession,
             hardware, registry, shared
<1> QED
  BY <1>1, <1>3, <1>4, <1>5, <1>6
------------------------------------------------------------------------------

\* The invariant of a session, for any boards and any number of sessions.
THEOREM Invariance == Spec => []SessionInv
<1>1. ASSUME SessionInv, [Next]_vars PROVE SessionInv'
  <2>1. CASE UNCHANGED vars
    BY <1>1, <2>1 DEF vars, hardware, registry, shared, history, SessionInv, RunType,
       TypeOK, SetsOK, StartOK, Starting, HardwareOK, FinalOK, Survivors, SuccessIsClean
  <2>2. CASE \E cs \in SUBSET Clients : BeginSession(cs)
    BY <1>1, <2>2, BeginSessionStep
  <2>3. CASE SessionStep
    <3>1. CASE \/ Register \/ Checked \/ Opened \/ WaitOver(FALSE) \/ Leave
               \/ SessionEnded \/ CloseSession
      BY <1>1, <3>1, RegisterStep, CheckedStep, OpenedStep, WaitOverStep, LeaveStep,
         SessionEndedStep, CloseSessionStep
    <3>2. CASE NextPhase
      BY <1>1, <3>2, DisableToFlushStep, FlushToCloseStep, CloseToLostStep DEF NextPhase
    <3>3. ASSUME NEW c \in Clients, NEW ok \in BOOLEAN,
                 \/ CheckClient(c, ok) \/ OpenClient(c, ok)
                 \/ StartProducer(c, ok) \/ EnableChannels(c, ok)
                 \/ DisableChannels(c, ok) \/ CloseClient(c, ok)
                 \/ \E reset \in BOOLEAN : FlushAndResetTrigger(c, ok, reset)
                 \/ \E stopped \in BOOLEAN : CloseLostClient(c, stopped, ok)
          PROVE  SessionInv'
      BY <1>1, <3>3, CheckClientStep, OpenClientStep, StartProducerStep,
         EnableChannelsStep, DisableChannelsStep, CloseClientStep,
         FlushAndResetTriggerStep, CloseLostClientStep
    <3> QED
      BY <2>3, <3>1, <3>2, <3>3 DEF SessionStep
  <2>4. CASE WaitOver(TRUE) \/ UnexpectedError
    BY <1>1, <2>4, WaitOverStep, UnexpectedErrorStep
  <2>5. CASE Others
    BY <1>1, <2>5, OthersStep
  <2> QED
    BY <1>1, <2>1, <2>2, <2>3, <2>4, <2>5 DEF Next, Others
<1> QED
  BY <1>1, InitInv, PTL DEF Spec

\* "OPEN_READY, START confermato del producer e, solo dopo, RC19": in every
\* session, with any boards, data never lacks its producer and its file.
THEOREM SessionIsConsistent == Spec => []SessionConsistent
<1>1. SessionInv => SessionConsistent
  BY DEF SessionInv, SessionConsistent, TypeOK, HardwareOK, DataHasFile
<1> QED
  BY <1>1, Invariance, PTL

\* No client is reported successful that still has its channels enabled or a
\* write of RC19 queued, its producer running or its file open.
THEOREM ReportedIsClean == Spec => []SuccessIsClean
<1>1. SessionInv => SuccessIsClean
  BY DEF SessionInv
<1> QED
  BY <1>1, Invariance, PTL
================================================================================
