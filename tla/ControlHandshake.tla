--------------------------- MODULE ControlHandshake ---------------------------
(***************************************************************************)
(* The handshake of the control plane, both sides: the board, which tries  *)
(* again and again on one DEALER socket (handshake_core in                 *)
(* client/communication/control_manager.py), and the I/O thread of the      *)
(* server, which keeps one session per board (_on_hello to _on_end in       *)
(* server/communication/control_manager.py).                               *)
(*                                                                         *)
(*   board:  hello      ready     startup_ack    end (Conclusion_ack)      *)
(*   server:   hello_ack   startup           end                           *)
(*                                                                         *)
(* A message names its attempt: within one attempt each phase is sent once, *)
(* so "in reply to the last message I sent" is a phase and an attempt.  The *)
(* socket keeps what is sent before the server listens, and is FIFO.       *)
(***************************************************************************)
EXTENDS FiniteSets, Integers, Sequences

CONSTANTS
    Clients,        \* the boards
    MultipmtIds,    \* the ids boards may be configured with, the same one included
    Attempts,       \* identities of attempts in use at one time (a bound)
    MaxStale,       \* messages left behind by a timeout or a restart (a bound)
    MaxRestarts     \* restarts of boards (a bound)

ASSUME FreshAttempt == MaxStale \in Nat /\ Cardinality(Attempts) >= MaxStale + 2

VARIABLES
    multipmt_id,    \* per board: its configured id
    board,          \* per board: the last phase it sent, and its attempt
    to_server,      \* per board: messages on the way to the server
    former,         \* per board: how many of those were sent before a restart
    to_board,       \* per board: messages on the way to the board
    listening,      \* the control socket of the server is open and served
    sessions,       \* _handshake_sessions: the phase accepted, and its attempt
    registered,     \* boards on the control plane
    restarts        \* restarts so far

server == <<sessions, registered>>
wires == <<to_server, former, to_board>>
vars == <<multipmt_id, board, wires, listening, server, restarts>>

None == [phase |-> "none", attempt |-> "none"]

Message(phase, attempt) == [phase |-> phase, attempt |-> attempt]

Init ==
    /\ multipmt_id \in [Clients -> MultipmtIds]
    /\ board = [c \in Clients |-> [pc |-> "retry", attempt |-> "none"]]
    /\ to_server = [c \in Clients |-> <<>>] /\ to_board = [c \in Clients |-> <<>>]
    /\ former = [c \in Clients |-> 0]
    /\ listening = FALSE
    /\ sessions = [c \in Clients |-> None] /\ registered = {}
    /\ restarts = 0

------------------------------------------------------------------------------
(* The board *)

\* Every request id is new.
Fresh(c, a) ==
    /\ sessions[c].attempt # a
    /\ \A wire \in {to_server[c], to_board[c]} :
          \A i \in DOMAIN wire : wire[i].attempt # a

StartAttempt(c, a) ==
    /\ board[c].pc = "retry" /\ Fresh(c, a)
    /\ board' = [board EXCEPT ![c] = [pc |-> "hello", attempt |-> a]]
    /\ to_server' = [to_server EXCEPT ![c] = Append(@, Message("hello", a))]
    /\ UNCHANGED <<multipmt_id, former, to_board, listening, server, restarts>>

\* What the board waits for after each phase it sends, and what it sends next.
Awaited == [hello |-> "hello_ack", ready |-> "startup", startup_ack |-> "end"]
Answer == [hello |-> "ready", ready |-> "startup_ack", startup_ack |-> "end"]

Waiting(c) == board[c].pc \in DOMAIN Awaited

\* The next message must be the answer awaited; any other ends the attempt.
\* Having sent the conclusion the board is connected.
BoardReceive(c) ==
    /\ Waiting(c) /\ to_board[c] # <<>>
    /\ LET pc == board[c].pc
       IN  IF Head(to_board[c]) = Message(Awaited[pc], board[c].attempt)
           THEN /\ board' = [board EXCEPT ![c].pc = IF pc = "startup_ack" THEN "connected"
                                                   ELSE Answer[pc]]
                /\ to_server' = [to_server EXCEPT
                      ![c] = Append(@, Message(Answer[pc], board[c].attempt))]
           ELSE /\ board' = [board EXCEPT ![c].pc = "retry"]
                /\ UNCHANGED to_server
    /\ to_board' = [to_board EXCEPT ![c] = Tail(@)]
    /\ UNCHANGED <<multipmt_id, former, listening, server, restarts>>

\* 20 s without a message.
TimeOut(c) ==
    /\ Waiting(c) /\ to_board[c] = <<>>
    /\ Len(to_server[c]) <= MaxStale
    /\ board' = [board EXCEPT ![c].pc = "retry"]
    /\ UNCHANGED <<multipmt_id, wires, listening, server, restarts>>

\* The client process starts again, or goes back to the handshake after a lost
\* connection (start_connection): closing the old socket drops what it still
\* holds, but not the messages the ROUTER of the server has already received.
BoardRestart(c, kept) ==
    /\ restarts < MaxRestarts /\ kept <= Len(to_server[c])
    /\ restarts' = restarts + 1
    /\ board' = [board EXCEPT ![c].pc = "retry"]
    /\ to_server' = [to_server EXCEPT ![c] = SubSeq(@, 1, kept)]
    /\ former' = [former EXCEPT ![c] = kept]
    /\ to_board' = [to_board EXCEPT ![c] = <<>>]
    /\ UNCHANGED <<multipmt_id, listening, server>>

------------------------------------------------------------------------------
(* The server *)

\* start_connection and start_listener.
Listen ==
    /\ ~listening
    /\ listening' = TRUE
    /\ sessions' = [c \in Clients |-> None]
    /\ UNCHANGED <<multipmt_id, board, wires, registered, restarts>>

\* A send also succeeds on a connection the board has just left: the answer is lost.
Outcomes == {"sent", "lost", "failed", "unreachable"}

\* The I/O thread reads the next message of the board.
Receives(c, phase) ==
    /\ listening /\ to_server[c] # <<>>
    /\ Head(to_server[c]).phase = phase
    /\ to_server' = [to_server EXCEPT ![c] = Tail(@)]
    /\ former' = [former EXCEPT ![c] = IF @ > 0 THEN @ - 1 ELSE 0]
    /\ UNCHANGED <<multipmt_id, board, listening, restarts>>

\* _handshake_sessions.pop
Pop(c) == sessions' = [sessions EXCEPT ![c] = None]

\* A handler sends its answer and moves the session on; a send that fails drops
\* the session, and the board too if it is unreachable.
Advance(c, phase, answer, outcome) ==
    IF outcome \in {"sent", "lost"}
    THEN /\ to_board' = [to_board EXCEPT
               ![c] = IF outcome = "lost" THEN @
                      ELSE Append(@, Message(answer, Head(to_server[c]).attempt))]
         /\ sessions' = [sessions EXCEPT
               ![c] = Message(phase, Head(to_server[c]).attempt)]
         /\ UNCHANGED registered
    ELSE /\ Pop(c)
         /\ registered' = IF outcome = "unreachable" THEN registered \ {c} ELSE registered
         /\ UNCHANGED to_board

\* _check_handshake_message: an answer to the last message of this session.
Expected(c, previous) == sessions[c] = Message(previous, Head(to_server[c]).attempt)

\* _validate_handshake_identity: no other board is registered with this id.
ValidIdentity(c) == \A d \in registered \ {c} : multipmt_id[d] # multipmt_id[c]

\* Mutant: a hello while a session is open is ignored.
OnHelloOnce(c, outcome) ==
    /\ Receives(c, "hello")
    /\ IF sessions[c] = None THEN Advance(c, "hello", "hello_ack", outcome)
       ELSE UNCHANGED <<to_board, server>>

\* A hello always starts over.
OnHello(c, outcome) ==
    /\ Receives(c, "hello")
    /\ Advance(c, "hello", "hello_ack", outcome)

OnReady(c, outcome) ==
    /\ Receives(c, "ready")
    /\ IF Expected(c, "hello") THEN Advance(c, "ready", "startup", outcome)
       ELSE Pop(c) /\ UNCHANGED <<to_board, registered>>

\* Mutant: the board is admitted with the identity, before it has concluded.
OnStartupAckAdmits(c, numbered, outcome) ==
    /\ Receives(c, "startup_ack")
    /\ IF Expected(c, "ready") /\ ValidIdentity(c) /\ numbered
       THEN /\ to_board' = [to_board EXCEPT
                  ![c] = Append(@, Message("end", Head(to_server[c]).attempt))]
            /\ Pop(c)
            /\ registered' = registered \cup {c}
       ELSE Pop(c) /\ UNCHANGED <<to_board, registered>>

\* The identity is validated, and the board gets its numeric id if the MAC
\* registry has one.
OnStartupAck(c, numbered, outcome) ==
    /\ Receives(c, "startup_ack")
    /\ IF Expected(c, "ready") /\ ValidIdentity(c) /\ numbered
       THEN Advance(c, "startup_ack", "end", outcome)
       ELSE Pop(c) /\ UNCHANGED <<to_board, registered>>

\* Mutant: the identity is not validated again.
OnEndValidatedOnce(c) ==
    /\ Receives(c, "end")
    /\ Pop(c)
    /\ registered' = IF Expected(c, "startup_ack") THEN registered \cup {c} ELSE registered
    /\ UNCHANGED to_board

\* "Another client may have been admitted with the same multipmt_id since
\* startup_ack".  A board that is still registered is lost first.
OnEnd(c) ==
    /\ Receives(c, "end")
    /\ Pop(c)
    /\ registered' = IF Expected(c, "startup_ack") /\ ValidIdentity(c)
                     THEN registered \cup {c} ELSE registered
    /\ UNCHANGED to_board

\* _expire_handshake_sessions, which knows nothing of the board.
Expire(c) ==
    /\ listening /\ sessions[c] # None
    /\ Pop(c)
    /\ UNCHANGED <<multipmt_id, board, wires, listening, registered, restarts>>

\* The probe finds a board unreachable.
ClientLost(c) ==
    /\ listening /\ c \in registered
    /\ registered' = registered \ {c}
    /\ UNCHANGED <<multipmt_id, board, wires, listening, sessions, restarts>>

------------------------------------------------------------------------------

BoardStep(c) == BoardReceive(c) \/ \E a \in Attempts : StartAttempt(c, a)

ServerStep(c, numbered, outcome) ==
    \/ OnHello(c, outcome) \/ OnReady(c, outcome)
    \/ OnStartupAck(c, numbered, outcome)
    \/ OnEnd(c)

Next ==
    \/ Listen
    \/ \E c \in Clients :
          \/ BoardStep(c) \/ TimeOut(c)
          \/ \E kept \in 0..MaxStale : BoardRestart(c, kept)
          \/ Expire(c) \/ ClientLost(c)
          \/ \E numbered \in BOOLEAN, outcome \in Outcomes : ServerStep(c, numbered, outcome)

Spec == Init /\ [][Next]_vars

\* Nothing more will come: the server does not listen yet, or has read everything.
Unanswered(c) == ~listening \/ to_server[c] = <<>>

\* A server that listens answers in time (what a board had sent before a restart
\* too), every send succeeds and no connection is lost.  The waits of the board are then ended by answers, or by a server
\* that does not listen yet or has refused the board.
TimelyNext ==
    \/ Listen
    \/ \E c \in Clients :
          \/ BoardStep(c) \/ BoardRestart(c, 0)
          \/ Unanswered(c) /\ TimeOut(c)
          \/ ServerStep(c, TRUE, "sent")

\* The server is started some day, its I/O thread reads what arrives, and the
\* board reads, retries, and gives up waiting for what does not come.
TimelySpec ==
    /\ Init /\ [][TimelyNext]_vars
    /\ WF_vars(Listen)
    /\ \A c \in Clients :
          /\ WF_vars(BoardStep(c)) /\ WF_vars(ServerStep(c, TRUE, "sent"))
          /\ WF_vars(listening /\ Unanswered(c) /\ TimeOut(c))

------------------------------------------------------------------------------
(* Properties *)

Phases == {"hello", "ready", "startup_ack", "end"}

\* A session is open only while the server listens, and each wire carries only
\* the phases of its direction.
TypeOK ==
    /\ \A c \in Clients :
          /\ board[c].pc \in {"retry", "hello", "ready", "startup_ack", "connected"}
          /\ board[c].attempt \in Attempts \cup {"none"}
          /\ to_server[c] \in Seq([phase : Phases, attempt : Attempts])
          /\ to_board[c] \in Seq([phase : {"hello_ack", "startup", "end"},
                                  attempt : Attempts])
          /\ sessions[c] \in [phase : Phases \ {"end"}, attempt : Attempts] \cup {None}
    /\ \A c \in Clients : former[c] \in 0..Len(to_server[c])
    /\ listening \in BOOLEAN /\ registered \subseteq Clients
    /\ ~listening => sessions = [c \in Clients |-> None] /\ registered = {}

\* "Duplicate multipmt_id received" (_validate_handshake_identity): two
\* registered boards never have the same multipmt_id, though the handshakes of
\* both may be under way together and each was alone when it was validated.
UniqueMultipmtIds ==
    \A c, d \in registered : multipmt_id[c] = multipmt_id[d] => c = d

\* A board is admitted only when it is connected itself: the server never takes
\* one that gave up on the attempt, whatever expires, fails, is lost or is left
\* behind.  The one exception is the conclusion of a board that started over
\* after sending it: _on_end admits the board for it, and admits it again when
\* the new attempt concludes.
AdmittedIsConnected ==
    [][\A c \in registered' \ registered : former[c] = 0 => board[c].pc = "connected"]_vars

OwnId(c) == \A d \in Clients \ {c} : multipmt_id[d] # multipmt_id[c]

In(c) == board[c].pc = "connected" /\ c \in registered

\* No message of an attempt the board has given up is on the way.
NothingStale(c) ==
    \A wire \in {to_server[c], to_board[c]} :
        \A i \in DOMAIN wire :
            board[c].pc # "retry" /\ wire[i].attempt = board[c].attempt

\* "retrying until success" (handshake): a board that tries while the server
\* listens gets in.  It does not if an earlier attempt timed out: the board
\* reads one answer per attempt, always that of an earlier one.
BoardGetsIn == \A c \in Clients : listening /\ OwnId(c) ~> In(c)
==============================================================================
