------------------------- MODULE MCControlHandshake -------------------------
(* The control handshake for TLC: behaviours with any delay, failure and loss,
   and beside them those of a timely server (TimelySpec), the only ones about
   which it can be said that a board gets in. *)
EXTENDS ControlHandshake

VARIABLE timely     \* whether the server of this behaviour is timely

mcVars == <<vars, timely>>

Timely(A) == timely /\ A /\ UNCHANGED timely

\* Ids are only compared with each other: one board may as well have the first.
MCInit ==
    /\ Init /\ timely \in BOOLEAN
    /\ multipmt_id[CHOOSE c \in Clients : TRUE] = CHOOSE i \in MultipmtIds : TRUE
MCNext == Timely(TimelyNext) \/ (~timely /\ Next /\ UNCHANGED timely)

MCSpec ==
    /\ MCInit /\ [][MCNext]_mcVars
    /\ WF_mcVars(Timely(Listen))
    /\ \A c \in Clients :
          /\ WF_mcVars(Timely(BoardStep(c)))
          /\ WF_mcVars(Timely(ServerStep(c, TRUE, "sent")))
          /\ WF_mcVars(Timely(listening /\ Unanswered(c) /\ TimeOut(c)))

\* A board with an id of its own gets in, whatever restarts and refusals of
\* others come between, if the server is timely and no answer to an attempt the
\* board gave up is still to come (handshake, _handle_handshake_message).
CleanBoardGetsIn ==
    \A c \in Clients : timely /\ listening /\ OwnId(c) /\ NothingStale(c) ~> In(c)
=============================================================================
