---------------------------- MODULE ClientLiveness ----------------------------
(***************************************************************************)
(* The loss and the return of boards on the three planes                   *)
(* (server/services/client_liveness_service.py, with the hellos of          *)
(* server/communication/).  One I/O thread per plane handles one board at a *)
(* time, in several locked steps; the loss of the control plane removes the *)
(* board from the planes of the other two threads.                         *)
(***************************************************************************)
CONSTANT
    Clients             \* the boards

VARIABLES
    planes,             \* per board: the planes it is registered on
    client_announced,   \* complete and announced since their last loss
    client_seen,        \* complete at least once
    loss_reported,      \* (board, plane) whose loss has been reported
    pending_hellos,     \* acquisition hellos kept for boards not yet on control
    io                  \* per plane: step of the I/O thread, board, admit after

Planes == {"control", "acquisition", "monitoring"}

vars == <<planes, client_announced, client_seen, loss_reported, pending_hellos, io>>

Idle == [pc |-> "idle", client |-> "none", admit |-> FALSE]

Init ==
    /\ planes = [c \in Clients |-> {}]
    /\ client_announced = {} /\ client_seen = {} /\ loss_reported = {}
    /\ pending_hellos = {}
    /\ io = [p \in Planes |-> Idle]

\* The thread of plane p takes up board c.
Takes(p, c, pc, admit) ==
    /\ io[p] = Idle
    /\ io' = [io EXCEPT ![p] = [pc |-> pc, client |-> c, admit |-> admit]]

\* The thread of plane p goes from one step to the next.
GoesOn(p, from, to) ==
    /\ io[p].pc = from
    /\ io' = [io EXCEPT ![p] = IF to = "idle" THEN Idle ELSE [@ EXCEPT !.pc = to]]

------------------------------------------------------------------------------
(* What an I/O thread takes up *)

\* Boards to which the thread of plane p sends: the control plane talks to any
\* board during its handshake, the others to boards of the control plane.
Talks(p, c) == p = "control" \/ "control" \in planes[c]

\* A probe or a send finds the board unreachable.
Unreachable(p, c) ==
    /\ Talks(p, c)
    /\ Takes(p, c, "report", FALSE)
    /\ UNCHANGED <<planes, client_announced, client_seen, loss_reported, pending_hellos>>

\* _accept_hello, or the end of the control handshake: a board that is already
\* registered is lost first, then admitted.
AcceptHello(p, c) ==
    /\ Talks(p, c)
    /\ Takes(p, c, IF p \in planes[c] THEN "report" ELSE "add", TRUE)
    /\ UNCHANGED <<planes, client_announced, client_seen, loss_reported, pending_hellos>>

\* An acquisition hello of a board not yet on the control plane is kept, then
\* served or dropped (_handle_late_hello, _retry_pending_hellos); a monitoring
\* hello is refused.
KeepHello(c) ==
    /\ "control" \notin planes[c] /\ io["acquisition"] = Idle
    /\ pending_hellos' = pending_hellos \cup {c}
    /\ UNCHANGED <<planes, client_announced, client_seen, loss_reported, io>>

RetryHello(c) ==
    /\ c \in pending_hellos /\ "control" \in planes[c]
    /\ Takes("acquisition", c, IF "acquisition" \in planes[c] THEN "report" ELSE "add", TRUE)
    /\ pending_hellos' = pending_hellos \ {c}
    /\ UNCHANGED <<planes, client_announced, client_seen, loss_reported>>

DropHello(c) ==
    /\ c \in pending_hellos /\ "control" \notin planes[c] /\ io["acquisition"] = Idle
    /\ pending_hellos' = pending_hellos \ {c}
    /\ UNCHANGED <<planes, client_announced, client_seen, loss_reported, io>>

------------------------------------------------------------------------------
(* handle_client_lost *)

AfterLoss(p) == IF io[p].admit THEN "add" ELSE "idle"

Report(p) ==
    /\ GoesOn(p, "report", "check")
    /\ loss_reported' = loss_reported \cup {<<io[p].client, p>>}
    /\ UNCHANGED <<planes, client_announced, client_seen, pending_hellos>>

\* The board may be gone from the plane already: nothing to do.
CheckRegistered(p) ==
    /\ GoesOn(p, "check", IF p \in planes[io[p].client] THEN "remove" ELSE AfterLoss(p))
    /\ UNCHANGED <<planes, client_announced, client_seen, loss_reported, pending_hellos>>

\* The control plane removes the others first, one step each.
Remove(p) ==
    /\ GoesOn(p, "remove", IF p = "control" THEN "remove_acquisition" ELSE "discard")
    /\ planes' = [planes EXCEPT ![io[p].client] =
                     @ \ {IF p = "control" THEN "monitoring" ELSE p}]
    /\ UNCHANGED <<client_announced, client_seen, loss_reported, pending_hellos>>

RemoveAcquisition ==
    /\ GoesOn("control", "remove_acquisition", "forget")
    /\ planes' = [planes EXCEPT ![io["control"].client] = @ \ {"acquisition"}]
    /\ UNCHANGED <<client_announced, client_seen, loss_reported, pending_hellos>>

\* Mutant: only the control flag is cleared.
ForgetOnlyControl ==
    /\ GoesOn("control", "forget", "discard")
    /\ planes' = [planes EXCEPT ![io["control"].client] = @ \ {"control"}]
    /\ UNCHANGED <<client_announced, client_seen, loss_reported, pending_hellos>>

\* remove_client pops the whole record.
Forget ==
    /\ GoesOn("control", "forget", "discard")
    /\ planes' = [planes EXCEPT ![io["control"].client] = {}]
    /\ UNCHANGED <<client_announced, client_seen, loss_reported, pending_hellos>>

Discard(p) ==
    /\ GoesOn(p, "discard", AfterLoss(p))
    /\ client_announced' = client_announced \ {io[p].client}
    /\ loss_reported' = IF p = "control"
                        THEN loss_reported \ ({io[p].client} \X (Planes \ {"control"}))
                        ELSE loss_reported
    /\ UNCHANGED <<planes, client_seen, pending_hellos>>

------------------------------------------------------------------------------
(* Admission, and handle_client_plane_connected *)

\* add_client: the other planes do not register a board the control plane
\* forgot meanwhile; the board is reported admitted all the same.
Add(p) ==
    LET c == io[p].client
    IN  /\ GoesOn(p, "add", "check_control")
        /\ planes' = IF Talks(p, c) THEN [planes EXCEPT ![c] = @ \cup {p}] ELSE planes
        /\ UNCHANGED <<client_announced, client_seen, loss_reported, pending_hellos>>

\* The planes are read one after the other, each under the registry's lock; a
\* missing one ends the call.
CheckPlane(p, read, step, next) ==
    /\ GoesOn(p, step, IF read \in planes[io[p].client] THEN next ELSE "idle")
    /\ UNCHANGED <<planes, client_announced, client_seen, loss_reported, pending_hellos>>

Check(p) ==
    \/ CheckPlane(p, "control", "check_control", "check_acquisition")
    \/ CheckPlane(p, "acquisition", "check_acquisition", "check_monitoring")
    \/ CheckPlane(p, "monitoring", "check_monitoring", "announce")

\* Mutant: a board is announced the first time only.
AnnounceOnce(p) ==
    LET c == io[p].client
    IN  /\ GoesOn(p, "announce", "idle")
        /\ client_announced' = IF c \in client_seen THEN client_announced
                               ELSE client_announced \cup {c}
        /\ client_seen' = client_seen \cup {c}
        /\ UNCHANGED <<planes, loss_reported, pending_hellos>>

\* The messages to the user, which a running connect suppresses, are left out.
Announce(p) ==
    LET c == io[p].client
    IN  /\ GoesOn(p, "announce", "idle")
        /\ IF c \in client_announced
           THEN UNCHANGED <<client_announced, client_seen, loss_reported>>
           ELSE /\ client_announced' = client_announced \cup {c}
                /\ client_seen' = client_seen \cup {c}
                /\ loss_reported' = loss_reported \ ({c} \X Planes)
        /\ UNCHANGED <<planes, pending_hellos>>

------------------------------------------------------------------------------

Step(p) ==
    \/ Report(p) \/ CheckRegistered(p) \/ Remove(p) \/ Discard(p)
    \/ Add(p) \/ Check(p) \/ Announce(p)

Next ==
    \/ \E p \in Planes, c \in Clients :
          Unreachable(p, c) \/ AcceptHello(p, c)
    \/ \E c \in Clients : KeepHello(c) \/ RetryHello(c) \/ DropHello(c)
    \/ \E p \in Planes : Step(p)
    \/ RemoveAcquisition \/ Forget

Spec == Init /\ [][Next]_vars

------------------------------------------------------------------------------
(* Properties *)

Steps == {"idle", "report", "check", "remove", "remove_acquisition", "forget", "discard", "add",
          "check_control", "check_acquisition", "check_monitoring", "announce"}

\* Every I/O thread is at one of its steps, and every announced board is
\* remembered as seen, so that its return is told from a first connection.
TypeOK ==
    /\ planes \in [Clients -> SUBSET Planes]
    /\ client_announced \subseteq client_seen /\ client_seen \subseteq Clients
    /\ loss_reported \subseteq Clients \X Planes
    /\ pending_hellos \subseteq Clients
    /\ \A p \in Planes : io[p].pc \in Steps

\* No I/O thread is in the middle of handling the board.
Settled(c) == \A p \in Planes : io[p].client # c

\* A board on every plane has been announced, so a return is never missed,
\* though its planes complete from three threads, each of which looks at all
\* of them only after its own, and losses on one plane overlap returns on
\* another.
CompleteIsAnnounced ==
    \A c \in Clients : planes[c] = Planes /\ Settled(c) => c \in client_announced

\* Every registered board is on the control plane, also while its removal is
\* under way on one thread and its admission on another.
PlanesNeedControl ==
    \A c \in Clients : planes[c] # {} => "control" \in planes[c]

\* The books of the liveness service are nested (announced boards are seen
\* ones) and the planes of a board hang on its control plane.
PlanesConsistent == TypeOK /\ PlanesNeedControl

\* "Clients found complete (control, acquisition, monitoring) and already
\* announced since their last loss" (client_announced): an announced board is
\* complete, unless its loss is being handled.  The planes are read outside
\* the lock, so a loss handled in between is overlooked.
AnnouncedIsComplete ==
    \A c \in client_announced : Settled(c) => planes[c] = Planes
==============================================================================
