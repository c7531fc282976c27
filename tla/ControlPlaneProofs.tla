------------------------ MODULE ControlPlaneProofs ------------------------
(***************************************************************************)
(* What the control plane gives its users, for any boards, ids, attempts,  *)
(* calls and restarts.                                                     *)
(*                                                                         *)
(* The handshake: a board is admitted only when it is connected itself, or *)
(* for a conclusion it sent before it started over: any other conclusion   *)
(* is on its way only while the board that sent it is connected, since the *)
(* board leaves that state with a new socket only.                         *)
(*                                                                         *)
(* The MAC registry, asked at the end of the handshake: the numeric ids    *)
(* are distinct, and for life while no save fails.                         *)
(*                                                                         *)
(* The calls on the boards that are admitted: the waiters do not           *)
(* leak, are woken by the loss of their board, and return the reply that   *)
(* came in time.                                                           *)
(***************************************************************************)
EXTENDS ControlHandshake, MacRegistry, ReplyHandler, SequenceTheorems, TLAPS

\* A step of the server admits no board beside one with the same multipmt_id:
\* only _on_end adds a board, and it validates the identity when it does.
LEMMA ServerStepUnique ==
    ASSUME NEW c \in Clients, NEW numbered \in BOOLEAN, NEW outcome \in Outcomes,
           UniqueMultipmtIds, ServerStep(c, numbered, outcome)
    PROVE  UniqueMultipmtIds'
<1>0. multipmt_id' = multipmt_id
  BY DEF ServerStep, OnHello, OnReady, OnStartupAck, OnEnd, Receives
<1>1. CASE OnHello(c, outcome) \/ OnReady(c, outcome)
           \/ OnStartupAck(c, numbered, outcome)
  <2>1. registered' \in {registered, registered \ {c}}
    BY <1>1 DEF OnHello, OnReady, OnStartupAck, Advance
  <2>. QED BY <1>0, <2>1 DEF UniqueMultipmtIds
<1>2. CASE OnEnd(c)
  <2>1. CASE Expected(c, "startup_ack") /\ ValidIdentity(c)
    <3>1. registered' = registered \cup {c}
      BY <1>2, <2>1 DEF OnEnd
    <3>. QED BY <1>0, <2>1, <3>1 DEF UniqueMultipmtIds, ValidIdentity
  <2>2. CASE ~(Expected(c, "startup_ack") /\ ValidIdentity(c))
    <3>1. registered' = registered
      BY <1>2, <2>2 DEF OnEnd
    <3>. QED BY <1>0, <3>1 DEF UniqueMultipmtIds
  <2>. QED BY <2>1, <2>2
<1>. QED BY <1>1, <1>2 DEF ServerStep

\* Two boards registered on the control plane never have the same multipmt_id,
\* whatever the number of boards, the ids they are configured with, and the
\* interleaving of their handshakes, expiries, losses and restarts (_on_end).
THEOREM IdsUnique == Spec => []UniqueMultipmtIds
<1>1. Init => UniqueMultipmtIds
  BY DEF Init, UniqueMultipmtIds
<1>2. UniqueMultipmtIds /\ [Next]_vars => UniqueMultipmtIds'
  <2>. SUFFICES ASSUME UniqueMultipmtIds, [Next]_vars PROVE UniqueMultipmtIds'
    OBVIOUS
  <2>1. CASE Listen
    BY <2>1 DEF Listen, UniqueMultipmtIds
  <2>2. ASSUME NEW c \in Clients, NEW kept \in 0..MaxStale,
               BoardRestart(c, kept)
        PROVE  UniqueMultipmtIds'
    BY <2>2 DEF BoardRestart, server, UniqueMultipmtIds
  <2>3. ASSUME NEW c \in Clients, Expire(c) \/ ClientLost(c)
        PROVE  UniqueMultipmtIds'
    <3>1. registered' \in {registered, registered \ {c}} /\ multipmt_id' = multipmt_id
      BY <2>3 DEF Expire, ClientLost
    <3>. QED BY <3>1 DEF UniqueMultipmtIds
  <2>4. ASSUME NEW c \in Clients, NEW numbered \in BOOLEAN, NEW outcome \in Outcomes,
               ServerStep(c, numbered, outcome)
        PROVE  UniqueMultipmtIds'
    BY <2>4, ServerStepUnique
  <2>5. CASE UNCHANGED vars
    BY <2>5 DEF vars, server, UniqueMultipmtIds
  <2>6. ASSUME NEW c \in Clients, BoardStep(c) \/ TimeOut(c)
        PROVE  UniqueMultipmtIds'
    BY <2>6 DEF BoardStep, BoardReceive, StartAttempt, TimeOut, server, UniqueMultipmtIds
  <2>. QED BY <2>1, <2>2, <2>3, <2>4, <2>5, <2>6 DEF Next
<1>. QED BY <1>1, <1>2, PTL DEF Spec

------------------------------------------------------------------------------
(* Who is admitted *)

Messages == [phase : Phases, attempt : Attempts \cup {"none"}]
BoardStates == [pc : {"retry", "hello", "ready", "startup_ack", "connected"},
           attempt : Attempts \cup {"none"}]

WiresOK ==
    /\ board \in [Clients -> BoardStates] /\ to_server \in [Clients -> Seq(Messages)]
    /\ former \in [Clients -> Nat]

EndIsConnected ==
    \A c \in Clients : \A i \in DOMAIN to_server[c] :
        to_server[c][i].phase = "end" => board[c].pc = "connected" \/ i <= former[c]

HandshakeInv == WiresOK /\ EndIsConnected

\* What is on a wire after a message is sent.
LEMMA SentFacts ==
    ASSUME NEW S, NEW q \in Seq(S), NEW x \in S, NEW i \in DOMAIN Append(q, x)
    PROVE  Append(q, x)[i] = x \/ (i \in DOMAIN q /\ Append(q, x)[i] = q[i])
<1>1. Len(q) \in Nat /\ DOMAIN q = 1..Len(q)
  BY LenProperties
<1>2. /\ Append(q, x) \in Seq(S) /\ Len(Append(q, x)) = Len(q) + 1
      /\ \A j \in 1..Len(q) : Append(q, x)[j] = q[j]
      /\ Append(q, x)[Len(q) + 1] = x
  BY AppendProperties
<1>3. i \in 1..(Len(q) + 1)
  BY <1>2, LenProperties
<1>4. i \in 1..Len(q) \/ i = Len(q) + 1
  BY <1>1, <1>3
<1> QED
  BY <1>1, <1>2, <1>4

\* ... and after the first one is read.
LEMMA ReadFacts ==
    ASSUME NEW S, NEW q \in Seq(S), q # <<>>
    PROVE  /\ 1 \in DOMAIN q /\ Head(q) = q[1] /\ Tail(q) \in Seq(S)
           /\ \A i \in DOMAIN Tail(q) :
                 i \in Nat /\ i + 1 \in DOMAIN q /\ Tail(q)[i] = q[i + 1]
<1>1. Len(q) \in Nat /\ DOMAIN q = 1..Len(q) /\ Len(q) # 0
  BY LenProperties, EmptySeq
<1>2. /\ Tail(q) \in Seq(S) /\ Len(Tail(q)) = Len(q) - 1 /\ Head(q) = q[1]
      /\ \A i \in 1..Len(Tail(q)) : Tail(q)[i] = q[i + 1]
  BY HeadTailProperties
<1>3. DOMAIN Tail(q) = 1..(Len(q) - 1)
  BY <1>2, LenProperties
<1> QED
  BY <1>1, <1>2, <1>3

\* A board sends: only the conclusion leaves it connected.
LEMMA SendKeeps ==
    ASSUME HandshakeInv, NEW c \in Clients, NEW m \in Messages, NEW b \in BoardStates,
           board[c].pc # "connected",
           m.phase = "end" => b.pc = "connected",
           board' = [board EXCEPT ![c] = b],
           to_server' = [to_server EXCEPT ![c] = Append(@, m)], former' = former
    PROVE  HandshakeInv'
<1>1. /\ board \in [Clients -> BoardStates] /\ to_server \in [Clients -> Seq(Messages)]
      /\ former \in [Clients -> Nat]
  BY DEF HandshakeInv, WiresOK
<1>2. WiresOK'
  <2>1. Append(to_server[c], m) \in Seq(Messages)
    BY <1>1, AppendProperties
  <2> QED
    BY <1>1, <2>1 DEF WiresOK
<1>3. ASSUME NEW d \in Clients, NEW i \in DOMAIN to_server'[d], to_server'[d][i].phase = "end"
      PROVE  board'[d].pc = "connected" \/ i <= former'[d]
  <2>1. CASE d # c
    BY <1>1, <1>3, <2>1 DEF HandshakeInv, EndIsConnected
  <2>2. CASE d = c
    <3>1. to_server'[c] = Append(to_server[c], m) /\ to_server[c] \in Seq(Messages)
      BY <1>1
    <3>2. \/ to_server'[c][i] = m
          \/ i \in DOMAIN to_server[c] /\ to_server'[c][i] = to_server[c][i]
      BY <1>3, <2>2, <3>1, SentFacts
    <3>3. CASE to_server'[c][i] = m
      BY <1>1, <1>3, <2>2, <3>3
    <3>4. CASE i \in DOMAIN to_server[c] /\ to_server'[c][i] = to_server[c][i]
      BY <1>3, <2>2, <3>4 DEF HandshakeInv, EndIsConnected
    <3> QED
      BY <3>2, <3>3, <3>4
  <2> QED
    BY <2>1, <2>2
<1> QED
  BY <1>2, <1>3 DEF HandshakeInv, EndIsConnected

\* The steps of the board.
LEMMA BoardKeeps ==
    ASSUME HandshakeInv, NEW c \in Clients, NEW kept \in 0..MaxStale,
           BoardStep(c) \/ TimeOut(c) \/ BoardRestart(c, kept)
    PROVE  HandshakeInv'
<1>1. /\ board \in [Clients -> BoardStates] /\ to_server \in [Clients -> Seq(Messages)]
      /\ board[c] \in BoardStates
  BY DEF HandshakeInv, WiresOK
<1>2. ASSUME NEW a \in Attempts, StartAttempt(c, a) PROVE HandshakeInv'
  <2>1. Message("hello", a) \in Messages /\ Message("hello", a).phase = "hello"
    BY DEF Message, Messages, Phases
  <2>2. [pc |-> "hello", attempt |-> a] \in BoardStates
    BY DEF BoardStates
  <2> QED
    BY <1>2, <2>1, <2>2, SendKeeps DEF StartAttempt
<1>3. ASSUME board[c].pc # "connected", board' = [board EXCEPT ![c].pc = "retry"],
             to_server' = to_server, former' = former
      PROVE  HandshakeInv'
  <2>1. [board[c] EXCEPT !.pc = "retry"] \in BoardStates
    BY <1>1 DEF BoardStates
  <2>2. board' \in [Clients -> BoardStates] /\ \A d \in Clients : d # c => board'[d] = board[d]
    BY <1>1, <1>3, <2>1
  <2> QED
    BY <1>3, <2>2 DEF HandshakeInv, WiresOK, EndIsConnected
<1>4. CASE TimeOut(c)
  BY <1>3, <1>4 DEF TimeOut, Waiting, Awaited, wires
<1>5. CASE BoardRestart(c, kept)
  <2> DEFINE q == SubSeq(to_server[c], 1, kept)
  <2>1. [board[c] EXCEPT !.pc = "retry"] \in BoardStates
    BY <1>1 DEF BoardStates
  <2>2. kept \in Nat /\ kept <= Len(to_server[c]) /\ to_server[c] \in Seq(Messages)
    BY <1>1, <1>5, FreshAttempt DEF BoardRestart
  <2>3. q \in Seq(Messages) /\ DOMAIN q = 1..kept
    BY <2>2
  <2>4. /\ board' \in [Clients -> BoardStates] /\ to_server' \in [Clients -> Seq(Messages)]
        /\ former' \in [Clients -> Nat]
        /\ to_server'[c] = q /\ former'[c] = kept
        /\ \A d \in Clients : d # c => /\ board'[d] = board[d] /\ former'[d] = former[d]
                                      /\ to_server'[d] = to_server[d]
    BY <1>1, <1>5, <2>1, <2>2, <2>3 DEF BoardRestart, HandshakeInv, WiresOK
  <2> HIDE DEF q
  <2>5. \A i \in DOMAIN q : i <= kept
    BY <2>2, <2>3
  <2> QED
    BY <2>4, <2>5 DEF HandshakeInv, WiresOK, EndIsConnected
<1>6. CASE BoardReceive(c)
  <2> DEFINE pc == board[c].pc
             m == Message(Answer[pc], board[c].attempt)
             b == [board[c] EXCEPT !.pc = IF pc = "startup_ack" THEN "connected" ELSE Answer[pc]]
  <2>1. pc \in {"hello", "ready", "startup_ack"}
    BY <1>6 DEF BoardReceive, Waiting, Awaited
  <2>2. /\ Answer[pc] \in Phases
        /\ Answer[pc] = "end" <=> pc = "startup_ack"
        /\ pc # "startup_ack" => Answer[pc] \in {"ready", "startup_ack"}
    BY <2>1 DEF Answer, Phases
  <2>3. m \in Messages /\ m.phase = Answer[pc]
    BY <1>1, <2>2 DEF Message, Messages, BoardStates
  <2>4. b \in BoardStates /\ (pc = "startup_ack" => b.pc = "connected")
    BY <1>1, <2>2 DEF BoardStates
  <2>5. CASE Head(to_board[c]) = Message(Awaited[pc], board[c].attempt)
    <3>1. /\ board' = [board EXCEPT ![c] = b]
          /\ to_server' = [to_server EXCEPT ![c] = Append(@, m)] /\ former' = former
      BY <1>1, <1>6, <2>5 DEF BoardReceive
    <3> HIDE DEF m, b
    <3> QED
      BY <2>1, <2>2, <2>3, <2>4, <3>1, SendKeeps
  <2>6. CASE Head(to_board[c]) # Message(Awaited[pc], board[c].attempt)
    BY <1>3, <1>6, <2>1, <2>6 DEF BoardReceive
  <2> QED
    BY <2>5, <2>6
<1> QED
  BY <1>2, <1>4, <1>5, <1>6 DEF BoardStep

\* The server reads the wire and sends on the other one.
LEMMA ServerKeeps ==
    ASSUME HandshakeInv, NEW c \in Clients, to_server[c] # <<>>,
           to_server' = [to_server EXCEPT ![c] = Tail(@)], board' = board,
           former' = [former EXCEPT ![c] = IF @ > 0 THEN @ - 1 ELSE 0]
    PROVE  HandshakeInv'
<1>1. /\ board \in [Clients -> BoardStates] /\ to_server \in [Clients -> Seq(Messages)]
      /\ to_server[c] \in Seq(Messages) /\ former \in [Clients -> Nat]
  BY DEF HandshakeInv, WiresOK
<1>2. /\ Tail(to_server[c]) \in Seq(Messages)
      /\ \A i \in DOMAIN Tail(to_server[c]) :
            /\ i \in Nat /\ i + 1 \in DOMAIN to_server[c]
            /\ Tail(to_server[c])[i] = to_server[c][i + 1]
  BY <1>1, ReadFacts
<1>3. /\ to_server'[c] = Tail(to_server[c]) /\ former' \in [Clients -> Nat]
      /\ former'[c] = IF former[c] > 0 THEN former[c] - 1 ELSE 0
      /\ \A d \in Clients : d # c => to_server'[d] = to_server[d] /\ former'[d] = former[d]
  BY <1>1
<1>4. WiresOK'
  BY <1>1, <1>2, <1>3 DEF WiresOK
<1>5. ASSUME NEW d \in Clients, NEW i \in DOMAIN to_server'[d], to_server'[d][i].phase = "end"
      PROVE  board'[d].pc = "connected" \/ i <= former'[d]
  <2>1. CASE d # c
    BY <1>3, <1>5, <2>1 DEF HandshakeInv, EndIsConnected
  <2>2. CASE d = c
    <3>0. /\ i \in Nat /\ i + 1 \in DOMAIN to_server[c]
          /\ to_server[c][i + 1].phase = "end"
      <4> DEFINE t == Tail(to_server[c])
      <4>1. to_server'[d] = t
        BY <1>3, <2>2
      <4>2. i \in DOMAIN t /\ t[i].phase = "end"
        BY <1>5, <4>1
      <4>3. \A j \in DOMAIN t : j \in Nat /\ j + 1 \in DOMAIN to_server[c] /\ t[j] = to_server[c][j + 1]
        BY <1>2
      <4> HIDE DEF t
      <4> QED
        BY <4>2, <4>3
    <3>1. board[c].pc = "connected" \/ i + 1 <= former[c]
      BY <3>0 DEF HandshakeInv, EndIsConnected
    <3>2. former[c] \in Nat /\ former'[c] = IF former[c] > 0 THEN former[c] - 1 ELSE 0
      BY <1>1, <1>3
    <3>3. i + 1 <= former[c] => i <= former'[c]
      BY <3>0, <3>2
    <3> QED
      BY <2>2, <3>1, <3>3
  <2> QED
    BY <2>1, <2>2
<1> QED
  BY <1>4, <1>5 DEF HandshakeInv, EndIsConnected

\* A board is admitted only when it is connected itself, or for a conclusion it
\* sent before it started over: the server never takes one that gave up on the
\* attempt (_on_end), for any number of boards, attempts and restarts.
THEOREM AdmissionIsMutual == Spec => AdmittedIsConnected
<1> DEFINE Admitted ==
      \A d \in registered' \ registered : former[d] = 0 => board[d].pc = "connected"
<1>1. Init => HandshakeInv
  <2> SUFFICES ASSUME Init PROVE HandshakeInv
    OBVIOUS
  <2>1. DOMAIN <<>> = {}
    OBVIOUS
  <2> QED
    BY <2>1 DEF Init, HandshakeInv, WiresOK, EndIsConnected, BoardStates
<1>2. ASSUME HandshakeInv, NEW c \in Clients, NEW numbered \in BOOLEAN, NEW outcome \in Outcomes,
             ServerStep(c, numbered, outcome)
      PROVE  HandshakeInv' /\ Admitted
  <2>1. /\ to_server[c] # <<>> /\ to_server' = [to_server EXCEPT ![c] = Tail(@)] /\ board' = board
        /\ former' = [former EXCEPT ![c] = IF @ > 0 THEN @ - 1 ELSE 0]
    BY <1>2 DEF ServerStep, OnHello, OnReady, OnStartupAck, OnEnd, Receives
  <2>2. CASE OnHello(c, outcome) \/ OnReady(c, outcome) \/ OnStartupAck(c, numbered, outcome)
    <3>1. registered' \in {registered, registered \ {c}}
      BY <2>2 DEF OnHello, OnReady, OnStartupAck, Advance
    <3> QED
      BY <1>2, <2>1, <3>1, ServerKeeps
  <2>3. CASE OnEnd(c)
    <3>1. to_server[c] \in Seq(Messages) /\ Head(to_server[c]).phase = "end"
      BY <1>2, <2>3 DEF OnEnd, Receives, HandshakeInv, WiresOK
    <3>2. 1 \in DOMAIN to_server[c] /\ Head(to_server[c]) = to_server[c][1]
      BY <2>1, <3>1, ReadFacts
    <3>3. former[c] = 0 => board[c].pc = "connected"
      BY <1>2, <3>1, <3>2 DEF HandshakeInv, EndIsConnected
    <3>4. registered' \subseteq registered \cup {c}
      BY <2>3 DEF OnEnd
    <3> QED
      BY <1>2, <2>1, <3>3, <3>4, ServerKeeps
  <2> QED
    BY <1>2, <2>2, <2>3 DEF ServerStep
<1>3. ASSUME HandshakeInv, [Next]_vars
      PROVE  HandshakeInv' /\ Admitted
  <2>1. ASSUME NEW c \in Clients, NEW kept \in 0..MaxStale,
               BoardStep(c) \/ TimeOut(c) \/ BoardRestart(c, kept)
        PROVE  HandshakeInv' /\ registered' = registered
    <3>1. registered' = registered
      BY <2>1 DEF BoardStep, BoardReceive, StartAttempt, TimeOut, BoardRestart, server
    <3> QED
      BY <1>3, <2>1, <3>1, BoardKeeps
  <2>2. ASSUME UNCHANGED <<board, to_server, former>> PROVE HandshakeInv'
    BY <1>3, <2>2 DEF HandshakeInv, WiresOK, EndIsConnected
  <2>3. CASE Listen
    BY <2>2, <2>3 DEF Listen, wires
  <2>4. ASSUME NEW c \in Clients, Expire(c) \/ ClientLost(c)
        PROVE  HandshakeInv' /\ registered' \subseteq registered
    BY <2>2, <2>4 DEF Expire, ClientLost, wires
  <2>5. CASE UNCHANGED vars
    BY <2>2, <2>5 DEF vars, server, wires
  <2>6. ASSUME NEW c \in Clients, BoardStep(c) \/ TimeOut(c)
        PROVE  HandshakeInv' /\ registered' = registered
    <3>1. 0 \in 0..MaxStale
      BY FreshAttempt
    <3> QED
      BY <2>1, <2>6, <3>1
  <2> QED
    BY <1>2, <1>3, <2>1, <2>3, <2>4, <2>5, <2>6 DEF Next
<1>4. HandshakeInv /\ [Next]_vars
         => /\ HandshakeInv'
            /\ [\A c \in registered' \ registered :
                   former[c] = 0 => board[c].pc = "connected"]_vars
  BY <1>3
<1> QED
  BY <1>1, <1>4, PTL DEF Spec, AdmittedIsConnected

------------------------------------------------------------------------------
(* The MAC registry *)

\* The registry in force is one of the three, all of which are sound.
LEMMA CurrentSound ==
    ASSUME RegistryInv
    PROVE  /\ Current \in Registries
           /\ Distinct(Current) /\ Bounded(Current)
  <1>1. /\ Empty \in Registries
        /\ Distinct(Empty) /\ Bounded(Empty)
    BY DEF Empty, Registries, Ids, Absent, Distinct, Bounded
  <1>2. memory \in Registries /\ file \in Registries
    BY DEF RegistryInv, RegistryTypeOK
  <1>3. CASE loaded
    BY <1>2, <1>3 DEF RegistryInv, Current
  <1>4. CASE ~loaded /\ readable
    BY <1>2, <1>4 DEF RegistryInv, Current
  <1>5. CASE ~loaded /\ ~readable
    BY <1>1, <1>5 DEF Current
  <1> QED BY <1>3, <1>4, <1>5

\* add_client_mac keeps a registry sound: the id it gives is above all others.
LEMMA AddedSound ==
    ASSUME RegistryInv, NEW m \in Macs
    PROVE  /\ Added(m) \in Registries /\ Added(m).index \in Nat
           /\ Added(m).ids[m] = Added(m).index
           /\ \A n \in Macs \ {m} : Added(m).ids[n] = Current.ids[n]
           /\ Distinct(Added(m)) /\ Bounded(Added(m))
  <1> DEFINE cur == Current
             new == cur.index + 1
  <1>1. cur \in Registries /\ Distinct(cur) /\ Bounded(cur)
    BY CurrentSound
  <1>2. /\ cur.ids \in [Macs -> Ids] /\ cur.index \in Ids
        /\ \A n \in Macs : cur.ids[n] \in Ids /\ cur.ids[n] <= cur.index
    BY <1>1 DEF Registries, Bounded
  <1>3. new \in Nat /\ new # Absent /\ \A n \in Macs : cur.ids[n] < new
    BY <1>2 DEF Ids, Absent
  <1>4. /\ Added(m).ids = [cur.ids EXCEPT ![m] = new]
        /\ Added(m).index = new
    BY DEF Added
  <1>5. Added(m) \in Registries
    <2>1. [cur.ids EXCEPT ![m] = new] \in [Macs -> Ids]
      BY <1>2, <1>3 DEF Ids
    <2> QED BY <2>1, <1>3 DEF Added, Registries, Ids
  <1>6. /\ Added(m).ids[m] = new
        /\ \A n \in Macs \ {m} : Added(m).ids[n] = cur.ids[n]
    BY <1>2, <1>4
  <1>7. Bounded(Added(m))
    <2> SUFFICES ASSUME NEW n \in Macs PROVE Added(m).ids[n] <= new
      BY <1>4 DEF Bounded
    <2>1. CASE n = m
      BY <2>1, <1>6, <1>3
    <2>2. CASE n # m
      BY <2>2, <1>6, <1>3, <1>2 DEF Ids, Absent
    <2> QED BY <2>1, <2>2
  <1>8. Distinct(Added(m))
    <2> SUFFICES ASSUME NEW k \in Macs, NEW n \in Macs, k # n,
                        Added(m).ids[k] # Absent
                 PROVE  Added(m).ids[k] # Added(m).ids[n]
      BY DEF Distinct
    <2>1. CASE k = m
      BY <2>1, <1>6, <1>3, <1>2 DEF Ids, Absent
    <2>2. CASE n = m
      BY <2>2, <1>6, <1>3, <1>2 DEF Ids, Absent
    <2>3. CASE k # m /\ n # m
      BY <2>3, <1>1, <1>6 DEF Distinct
    <2> QED BY <2>1, <2>2, <2>3
  <1> HIDE DEF cur, new
  <1> QED BY <1>3, <1>4, <1>5, <1>6, <1>7, <1>8 DEF cur

\* An empty registry and no file.
LEMMA RegistryInitInv == RegistryInit => RegistryInv
  <1> SUFFICES ASSUME RegistryInit PROVE RegistryInv
    OBVIOUS
  <1>1. /\ Empty \in Registries
        /\ Distinct(Empty) /\ Bounded(Empty)
    BY DEF Empty, Registries, Ids, Absent, Distinct, Bounded
  <1> QED BY <1>1 DEF RegistryInit, RegistryInv, RegistryTypeOK, InStep

\* Every lookup, load and save, failed ones too, keeps the invariant.
LEMMA RegistryNextInv == RegistryInv /\ [RegistryNext]_registryVars => RegistryInv'
  <1> SUFFICES ASSUME RegistryInv, [RegistryNext]_registryVars PROVE RegistryInv'
    OBVIOUS
  <1> USE DEF RegistryInv
  <1>0. /\ Empty \in Registries
        /\ Distinct(Empty) /\ Bounded(Empty)
    BY DEF Empty, Registries, Ids, Absent, Distinct, Bounded
  <1>1. CASE Restart
    <2>1. RegistryTypeOK' /\ Distinct(memory') /\ Bounded(memory')
                  /\ Distinct(file') /\ Bounded(file')
      BY <1>0, <1>1 DEF Restart, RegistryTypeOK
    <2>2. InStep'
      <3> SUFFICES ASSUME ~trouble, NEW g \in given
                   PROVE  Current'.ids[g[1]] = g[2]
        BY <1>1 DEF Restart, InStep
      <3>1. CASE loaded
        BY <3>1, <1>1 DEF Restart, InStep, Current
      <3>2. CASE ~loaded
        BY <3>2, <1>1 DEF Restart, InStep, Current
      <3> QED BY <3>1, <3>2
    <2> QED BY <2>1, <2>2 DEF Distinct, Bounded
  <1>2. ASSUME NEW m \in Macs, Lookup(m) PROVE RegistryInv'
    <2>1. /\ Current \in Registries
          /\ Distinct(Current) /\ Bounded(Current)
      BY CurrentSound
    <2>2. Current.ids[m] \in Nat
      BY <1>2, <2>1 DEF Lookup, Registries, Ids
    <2>3. Current' = Current
      BY <1>2 DEF Lookup, Current
    <2>4. RegistryTypeOK'
      BY <1>2, <2>1, <2>2 DEF Lookup, RegistryTypeOK
    <2>5. InStep'
      <3> SUFFICES ASSUME ~trouble
                   PROVE  /\ \A g \in given' : Current.ids[g[1]] = g[2]
                          /\ readable /\ file = Current
        BY <1>2, <2>3 DEF Lookup, InStep
      <3>1. \A g \in given' : Current.ids[g[1]] = g[2]
        BY <1>2 DEF Lookup, InStep
      <3>2. loaded \/ readable
        BY <1>2 DEF Lookup, Current, Empty
      <3>3. readable /\ file = Current
        BY <3>2 DEF InStep, Current
      <3> QED BY <3>1, <3>3
    <2> QED BY <1>2, <2>1, <2>4, <2>5 DEF Lookup, Distinct, Bounded
  <1>3. ASSUME NEW m \in Macs, Register(m) PROVE RegistryInv'
    <2>1. /\ Added(m) \in Registries /\ Added(m).index \in Nat
          /\ Added(m).ids[m] = Added(m).index
          /\ \A n \in Macs \ {m} : Added(m).ids[n] = Current.ids[n]
          /\ Distinct(Added(m)) /\ Bounded(Added(m))
      BY AddedSound
    <2>2. RegistryTypeOK'
      BY <1>3, <2>1 DEF Register, RegistryTypeOK
    <2>3. Current' = Added(m)
      BY <1>3 DEF Register, Current
    <2>4. InStep'
      <3> SUFFICES ASSUME ~trouble, NEW g \in given'
                   PROVE  Added(m).ids[g[1]] = g[2]
        BY <1>3, <2>3 DEF Register, InStep
      <3>1. CASE g = <<m, Added(m).index>>
        BY <3>1, <2>1
      <3>2. CASE g \in given
        <4>1. g[1] \in Macs /\ g[2] \in Nat /\ Current.ids[g[1]] = g[2]
          BY <3>2 DEF RegistryTypeOK, InStep
        <4>2. g[1] # m
          BY <4>1, <1>3 DEF Register, Absent
        <4> QED BY <4>1, <4>2, <2>1
      <3> QED BY <3>1, <3>2, <1>3 DEF Register
    <2> QED BY <1>3, <2>1, <2>2, <2>4 DEF Register, Distinct, Bounded
  <1>4. ASSUME NEW m \in Macs, CrashWhileSaving(m) PROVE RegistryInv'
    BY <1>0, <1>4 DEF CrashWhileSaving, RegistryTypeOK, InStep, Distinct, Bounded
  <1>5. ASSUME NEW m \in Macs, NEW truncated \in BOOLEAN, RegisterUnsaved(m, truncated)
        PROVE  RegistryInv'
    <2>1. /\ Added(m) \in Registries
          /\ Distinct(Added(m)) /\ Bounded(Added(m))
      BY AddedSound
    <2> QED BY <1>5, <2>1 DEF RegisterUnsaved, RegistryTypeOK, InStep, Distinct, Bounded
  <1>6. CASE UNCHANGED registryVars
    BY <1>6 DEF registryVars, RegistryTypeOK, InStep, Current, Distinct, Bounded
  <1> QED BY <1>1, <1>2, <1>3, <1>4, <1>5, <1>6 DEF RegistryNext

\* The invariant holds in every reachable state.
LEMMA RegistryInvariance == RegistrySpec => []RegistryInv
  BY RegistryInitInv, RegistryNextInv, PTL DEF RegistrySpec

\* Two boards never share a numeric id (get_id_from_mac, add_client_mac),
\* whatever saves fail and however often the server restarts.
THEOREM IdsDistinct == RegistrySpec => []DistinctIds
  <1>1. RegistryInv => DistinctIds
    BY CurrentSound DEF DistinctIds
  <1> QED BY <1>1, RegistryInvariance, PTL

\* Without a failed save the ids survive every restart.
THEOREM IdsStable == RegistrySpec => []IdsForLife
  <1>1. RegistryInv => IdsForLife
    <2> SUFFICES ASSUME RegistryInv, ~trouble, NEW g \in given, NEW h \in given
                 PROVE  g[1] = h[1] <=> g[2] = h[2]
      BY DEF IdsForLife
    <2>1. /\ g[1] \in Macs /\ g[2] \in Nat /\ Current.ids[g[1]] = g[2]
          /\ h[1] \in Macs /\ h[2] \in Nat /\ Current.ids[h[1]] = h[2]
      BY DEF RegistryInv, RegistryTypeOK, InStep
    <2>2. Distinct(Current)
      BY CurrentSound
    <2> QED BY <2>1, <2>2 DEF Distinct, Absent
  <1> QED BY <1>1, RegistryInvariance, PTL

------------------------------------------------------------------------------
(* Requests and replies *)

\* No waiter, no call.
LEMMA RepliesInitInv == RepliesInit => RepliesInv
  <1>1. <<>> \in Seq(Keys)
    OBVIOUS
  <1> QED BY <1>1 DEF RepliesInit, RepliesInv, RepliesTypeOK, NoLeak, Kept, Reached, Cancelled, ReplyInTimeIsReturned, OnCall

\* The steps of a calling thread.
LEMMA RepliesCallInv ==
    ASSUME RepliesInv, NEW k \in Keys, Call(k)
    PROVE  RepliesInv'
  <1> USE DEF RepliesInv, plane, calls, table, wire
  <1>1. CASE CheckPlane(k)
    <2>1. CASE k[1] \in on_plane
      BY <1>1, <2>1 DEF CheckPlane, Moves, RepliesTypeOK, NoLeak, Kept, Reached, Cancelled,
                        ReplyInTimeIsReturned, OnCall
    <2>2. CASE k[1] \notin on_plane
      <3>1. k \notin in_time \ error
        BY <1>1, <2>2 DEF CheckPlane, Moves, Reached
      <3> QED BY <1>1, <2>2, <3>1 DEF CheckPlane, Moves, Returns, RepliesTypeOK, NoLeak, Kept,
                        Reached, Cancelled, ReplyInTimeIsReturned, OnCall
    <2> QED BY <2>1, <2>2
  <1>2. CASE RegisterPendingReply(k)
    BY <1>2 DEF RegisterPendingReply, Moves, RepliesTypeOK, NoLeak, Kept, Reached, Cancelled,
                ReplyInTimeIsReturned, OnCall
  <1>3. CASE QueueMessage(k)
    <2>1. outgoing' \in Seq(Keys)
      BY <1>3 DEF QueueMessage, RepliesTypeOK
    <2> QED BY <1>3, <2>1 DEF QueueMessage, Moves, RepliesTypeOK, NoLeak, Kept, Reached,
                Cancelled, ReplyInTimeIsReturned, OnCall
  <1>4. CASE WaitPendingReply(k)
    BY <1>4 DEF WaitPendingReply, Moves, Returns, RepliesTypeOK, NoLeak, Kept, Reached,
                Cancelled, ReplyInTimeIsReturned, OnCall
  <1>5. CASE WakeUp(k)
    BY <1>5 DEF WakeUp, Moves, Returns, RepliesTypeOK, NoLeak, Kept, Reached, Cancelled,
                ReplyInTimeIsReturned, OnCall
  <1>6. CASE WaitTimesOut(k)
    BY <1>6 DEF WaitTimesOut, Moves, Returns, RepliesTypeOK, NoLeak, Kept, Reached, Cancelled,
                ReplyInTimeIsReturned, OnCall
  <1>7. CASE Finish(k)
    BY <1>7 DEF Finish, Moves, RepliesTypeOK, NoLeak, Kept, Reached, Cancelled,
                ReplyInTimeIsReturned, OnCall
  <1> QED BY <1>1, <1>2, <1>3, <1>4, <1>5, <1>6, <1>7 DEF Call

\* The steps of the I/O thread and of clear_queues.
LEMMA RepliesIoInv ==
    ASSUME RepliesInv,
           \/ \E k \in Keys : DeliverPendingReply(k)
           \/ \E succeeds \in BOOLEAN : SendNext(succeeds)
           \/ \E c \in Boards : ConnectionLost(c) \/ CancelClient(c) \/ ClientBack(c)
           \/ CancelAll \/ EmptyQueue
    PROVE  RepliesInv'
  <1> USE DEF RepliesInv, plane, calls, table, wire
  <1>1. ASSUME NEW k \in Keys, DeliverPendingReply(k) PROVE RepliesInv'
    BY <1>1 DEF DeliverPendingReply, RepliesTypeOK, NoLeak, Kept, Reached, Cancelled,
                ReplyInTimeIsReturned, OnCall
  <1>2. ASSUME NEW succeeds \in BOOLEAN, SendNext(succeeds) PROVE RepliesInv'
    <2>1. Head(outgoing) \in Keys /\ Tail(outgoing) \in Seq(Keys)
      BY <1>2, HeadTailProperties DEF SendNext, RepliesTypeOK
    <2> QED BY <1>2, <2>1 DEF SendNext, RepliesTypeOK, NoLeak, Kept, Reached, Cancelled,
                ReplyInTimeIsReturned, OnCall
  <1>3. ASSUME NEW c \in Boards, ConnectionLost(c) PROVE RepliesInv'
    BY <1>3 DEF ConnectionLost, RepliesTypeOK, NoLeak, Kept, Reached, Cancelled,
                ReplyInTimeIsReturned, OnCall
  <1>4. ASSUME NEW c \in Boards, CancelClient(c) PROVE RepliesInv'
    BY <1>4 DEF CancelClient, Cancel, RepliesTypeOK, NoLeak, Kept, Reached, Cancelled,
                ReplyInTimeIsReturned, OnCall
  <1>5. ASSUME NEW c \in Boards, ClientBack(c) PROVE RepliesInv'
    BY <1>5 DEF ClientBack, RepliesTypeOK, NoLeak, Kept, Reached, Cancelled,
                ReplyInTimeIsReturned, OnCall
  <1>6. CASE CancelAll
    BY <1>6 DEF CancelAll, Cancel, RepliesTypeOK, NoLeak, Kept, Reached, Cancelled,
                ReplyInTimeIsReturned, OnCall
  <1>7. CASE EmptyQueue
    <2>1. <<>> \in Seq(Keys)
      OBVIOUS
    <2> QED BY <1>7, <2>1 DEF EmptyQueue, RepliesTypeOK, NoLeak, Kept, Reached, Cancelled,
                ReplyInTimeIsReturned, OnCall
  <1> QED BY <1>1, <1>2, <1>3, <1>4, <1>5, <1>6, <1>7

\* The invariant holds in every reachable state.
LEMMA RepliesInvariance == RepliesSpec => []RepliesInv
  <1>1. RepliesInv /\ [RepliesNext]_replyVars => RepliesInv'
    <2>1. ASSUME RepliesInv, UNCHANGED replyVars PROVE RepliesInv'
      BY <2>1 DEF replyVars, plane, calls, table, wire, RepliesInv, RepliesTypeOK, NoLeak, Kept, Reached,
                  Cancelled, ReplyInTimeIsReturned, OnCall
    <2> QED BY <2>1, RepliesCallInv, RepliesIoInv DEF RepliesNext
  <1> QED BY <1>1, RepliesInitInv, PTL DEF RepliesSpec

\* No waiter is left in _reply_waiters by a call that is over.
THEOREM NoWaiterLeaks == RepliesSpec => []NoLeak
  <1>1. RepliesInv => NoLeak
    BY DEF RepliesInv
  <1> QED BY <1>1, RepliesInvariance, PTL

\* A reply delivered while its call is on is what the call returns, unless the
\* waiter was cancelled.
THEOREM RepliesReturned == RepliesSpec => []ReplyInTimeIsReturned
  <1>1. RepliesInv => ReplyInTimeIsReturned
    BY DEF RepliesInv
  <1> QED BY <1>1, RepliesInvariance, PTL

\* After cancel_client no call that had registered its waiter before still
\* waits for the lost board.
THEOREM LossWakesCallers == RepliesSpec => []LostClientWakesCallers
  <1>1. RepliesInv => LostClientWakesCallers
    BY DEF RepliesInv, Kept, Cancelled, LostClientWakesCallers
  <1> QED BY <1>1, RepliesInvariance, PTL
==============================================================================
