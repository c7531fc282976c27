------------------------ MODULE ClientLivenessProofs ------------------------
(***************************************************************************)
(* No return of a board is missed and no board is on a plane without       *)
(* control, for every set of boards and every interleaving of the three    *)
(* I/O threads.                                                            *)
(***************************************************************************)
EXTENDS ClientLiveness, TLAPS

\* A thread that is not idle works on a board.
ThreadsOK ==
    /\ io \in [Planes -> [pc : Steps, client : Clients \cup {"none"}, admit : BOOLEAN]]
    /\ \A p \in Planes : io[p].pc # "idle" => io[p].client \in Clients
    /\ \A p \in Planes : io[p].pc \in {"remove_acquisition", "forget"} => p = "control"

\* The thread that is about to discard the announcement of a board has taken the
\* board off its plane, and is the only one that could put it back.
DiscardedIsOff ==
    \A p \in Planes : io[p].pc = "discard" => p \notin planes[io[p].client]

\* The steps of handle_client_plane_connected.
Announcing(p, c) ==
    /\ io[p].client = c
    /\ io[p].pc \in {"check_control", "check_acquisition", "check_monitoring", "announce"}

\* A board that has just become complete is being looked at by some thread.
CompleteIsSeen ==
    \A c \in Clients : planes[c] = Planes /\ c \notin client_announced =>
        \E p \in Planes : Announcing(p, c)

\* The inductive invariant: CompleteIsAnnounced says nothing while a thread
\* handles the board, so it is carried by CompleteIsSeen, which survives Discard
\* because of DiscardedIsOff.
Inv == PlanesConsistent /\ ThreadsOK /\ DiscardedIsOff /\ CompleteIsSeen

\* No board is registered and no thread works.
LEMMA InitInv == Init => Inv
BY DEF Init, Inv, PlanesConsistent, TypeOK, PlanesNeedControl, ThreadsOK, DiscardedIsOff,
       CompleteIsSeen, Idle, Steps, Planes

\* A step of a thread changes only that thread.
LEMMA GoesOnFacts ==
    ASSUME ThreadsOK, NEW p \in Planes, NEW from \in Steps \ {"idle"}, NEW to \in Steps,
           GoesOn(p, from, to),
           to \in {"remove_acquisition", "forget"} => p = "control"
    PROVE  /\ ThreadsOK'
           /\ io[p].client \in Clients /\ io[p].pc = from
           /\ io'[p].pc = to
           /\ to # "idle" => io'[p].client = io[p].client
           /\ \A q \in Planes \ {p} : io'[q] = io[q]
BY DEF GoesOn, ThreadsOK, Idle, Steps

\* Taking up a board changes only a thread that was idle.
LEMMA TakesFacts ==
    ASSUME ThreadsOK, NEW p \in Planes, NEW c \in Clients, NEW pc \in {"report", "add"},
           NEW admit \in BOOLEAN, Takes(p, c, pc, admit)
    PROVE  /\ ThreadsOK'
           /\ io[p].pc = "idle" /\ io'[p].pc = pc
           /\ \A q \in Planes \ {p} : io'[q] = io[q]
BY DEF Takes, ThreadsOK, Idle, Steps

\* Every step keeps the invariant.
LEMMA NextInv == ASSUME Inv, [Next]_vars PROVE Inv'
<1> USE DEF Inv, PlanesConsistent
<1>1. CASE UNCHANGED vars
  BY <1>1 DEF vars, TypeOK, PlanesNeedControl, ThreadsOK, DiscardedIsOff, CompleteIsSeen,
              Announcing
<1>2. ASSUME NEW p \in Planes, NEW c \in Clients, NEW pc \in {"report", "add"},
             NEW admit \in BOOLEAN, Takes(p, c, pc, admit),
             UNCHANGED <<planes, client_announced, client_seen, loss_reported>>,
             pending_hellos' \subseteq Clients
      PROVE  Inv'
  <2>1. /\ ThreadsOK' /\ io[p].pc = "idle" /\ io'[p].pc = pc
        /\ \A q \in Planes \ {p} : io'[q] = io[q]
    BY <1>2, TakesFacts
  <2>2. TypeOK' /\ PlanesNeedControl'
    BY <1>2, <2>1 DEF TypeOK, PlanesNeedControl, Steps
  <2>3. DiscardedIsOff'
    BY <1>2, <2>1 DEF DiscardedIsOff
  <2>4. CompleteIsSeen'
    BY <1>2, <2>1 DEF CompleteIsSeen, Announcing
  <2> QED
    BY <2>1, <2>2, <2>3, <2>4
<1>3. ASSUME NEW c \in Clients,
             \/ KeepHello(c) \/ DropHello(c)
      PROVE  Inv'
  BY <1>3 DEF KeepHello, DropHello, TypeOK, PlanesNeedControl, ThreadsOK, DiscardedIsOff,
              CompleteIsSeen, Announcing
<1>4. ASSUME NEW p \in Planes, NEW c \in Clients, Unreachable(p, c) \/ AcceptHello(p, c)
      PROVE  Inv'
  BY <1>4, <1>2 DEF Unreachable, AcceptHello, TypeOK
<1>5. ASSUME NEW c \in Clients, RetryHello(c)
      PROVE  Inv'
  <2>1. "acquisition" \in Planes
    BY DEF Planes
  <2> QED
    BY <1>5, <1>2, <2>1 DEF RetryHello, TypeOK
<1>6. ASSUME NEW p \in Planes, Report(p)
      PROVE  Inv'
  <2>1. GoesOn(p, "report", "check")
    BY <1>6 DEF Report
  <2>2. /\ ThreadsOK' /\ io[p].client \in Clients /\ io[p].pc = "report"
        /\ io'[p].pc = "check"
        /\ \A q \in Planes \ {p} : io'[q] = io[q]
    BY <2>1, GoesOnFacts DEF Steps
  <2>3. TypeOK' /\ PlanesNeedControl'
    BY <1>6, <2>2 DEF Report, TypeOK, PlanesNeedControl, ThreadsOK
  <2>4. DiscardedIsOff' /\ CompleteIsSeen'
    BY <1>6, <2>2 DEF Report, DiscardedIsOff, CompleteIsSeen, Announcing
  <2> QED
    BY <2>2, <2>3, <2>4
<1>7. ASSUME NEW p \in Planes, CheckRegistered(p)
      PROVE  Inv'
  <2> DEFINE to == IF p \in planes[io[p].client] THEN "remove" ELSE AfterLoss(p)
  <2>1. GoesOn(p, "check", to) /\ to \in {"remove", "add", "idle"}
    BY <1>7 DEF CheckRegistered, AfterLoss
  <2>2. /\ ThreadsOK' /\ io[p].pc = "check" /\ io'[p].pc = to
        /\ \A q \in Planes \ {p} : io'[q] = io[q]
    BY <2>1, GoesOnFacts DEF Steps
  <2>3. TypeOK' /\ PlanesNeedControl'
    BY <1>7, <2>2 DEF CheckRegistered, TypeOK, PlanesNeedControl, ThreadsOK
  <2>4. DiscardedIsOff' /\ CompleteIsSeen'
    BY <1>7, <2>1, <2>2 DEF CheckRegistered, DiscardedIsOff, CompleteIsSeen, Announcing
  <2> QED
    BY <2>2, <2>3, <2>4
<1>8. ASSUME NEW p \in Planes, Remove(p)
      PROVE  Inv'
  <2> DEFINE to == IF p = "control" THEN "remove_acquisition" ELSE "discard"
             gone == IF p = "control" THEN "monitoring" ELSE p
  <2>1. GoesOn(p, "remove", to)
    BY <1>8 DEF Remove
  <2>2. /\ ThreadsOK' /\ io[p].client \in Clients /\ io[p].pc = "remove"
        /\ io'[p].pc = to /\ io'[p].client = io[p].client
        /\ \A q \in Planes \ {p} : io'[q] = io[q]
    BY <2>1, GoesOnFacts DEF Steps
  <2>3. /\ planes' = [planes EXCEPT ![io[p].client] = @ \ {gone}]
        /\ gone \in Planes \ {"control"}
        /\ UNCHANGED <<client_announced, client_seen, loss_reported, pending_hellos>>
    BY <1>8 DEF Remove, Planes
  <2>4. TypeOK'
    BY <2>2, <2>3 DEF TypeOK, ThreadsOK
  <2>5. PlanesNeedControl'
    BY <2>2, <2>3 DEF TypeOK, PlanesNeedControl
  <2>6. DiscardedIsOff'
    BY <2>2, <2>3 DEF DiscardedIsOff, TypeOK, ThreadsOK
  <2>7. CompleteIsSeen'
    BY <2>2, <2>3 DEF CompleteIsSeen, Announcing, TypeOK
  <2> QED
    BY <2>2, <2>4, <2>5, <2>6, <2>7
<1>9. ASSUME NEW p \in Planes, Discard(p)
      PROVE  Inv'
  <2>1. GoesOn(p, "discard", AfterLoss(p)) /\ AfterLoss(p) \in {"add", "idle"}
    BY <1>9 DEF Discard, AfterLoss
  <2>2. /\ ThreadsOK' /\ io[p].client \in Clients /\ io[p].pc = "discard"
        /\ io'[p].pc = AfterLoss(p)
        /\ \A q \in Planes \ {p} : io'[q] = io[q]
    BY <2>1, GoesOnFacts DEF Steps
  <2>3. /\ UNCHANGED <<planes, client_seen, pending_hellos>>
        /\ client_announced' = client_announced \ {io[p].client}
        /\ loss_reported' \subseteq loss_reported
    BY <1>9 DEF Discard
  <2>4. TypeOK' /\ PlanesNeedControl'
    BY <2>2, <2>3 DEF TypeOK, PlanesNeedControl, ThreadsOK
  <2>5. DiscardedIsOff'
    BY <2>1, <2>2, <2>3 DEF DiscardedIsOff
  <2>6. planes[io[p].client] # Planes
    BY <2>2 DEF DiscardedIsOff
  <2>7. CompleteIsSeen'
    BY <2>2, <2>3, <2>6 DEF CompleteIsSeen, Announcing
  <2> QED
    BY <2>2, <2>4, <2>5, <2>7
<1>10. ASSUME NEW p \in Planes, Add(p)
       PROVE  Inv'
  <2>1. GoesOn(p, "add", "check_control")
    BY <1>10 DEF Add
  <2>2. /\ ThreadsOK' /\ io[p].client \in Clients /\ io[p].pc = "add"
        /\ io'[p].pc = "check_control" /\ io'[p].client = io[p].client
        /\ \A q \in Planes \ {p} : io'[q] = io[q]
    BY <2>1, GoesOnFacts DEF Steps
  <2>3. /\ \/ UNCHANGED planes
           \/ /\ p = "control" \/ "control" \in planes[io[p].client]
              /\ planes' = [planes EXCEPT ![io[p].client] = @ \cup {p}]
        /\ UNCHANGED <<client_announced, client_seen, loss_reported, pending_hellos>>
    BY <1>10 DEF Add, Talks
  <2>4. TypeOK'
    BY <2>2, <2>3 DEF TypeOK, ThreadsOK
  <2>5. PlanesNeedControl'
    BY <2>2, <2>3 DEF TypeOK, PlanesNeedControl
  <2>6. DiscardedIsOff'
    BY <2>2, <2>3 DEF DiscardedIsOff, TypeOK, ThreadsOK
  <2>7. CompleteIsSeen'
    BY <2>2, <2>3 DEF CompleteIsSeen, Announcing, TypeOK
  <2> QED
    BY <2>2, <2>4, <2>5, <2>6, <2>7
<1>11. ASSUME NEW p \in Planes, Check(p)
       PROVE  Inv'
  <2>1. PICK read \in Planes,
             step \in {"check_control", "check_acquisition", "check_monitoring"},
             next \in {"check_acquisition", "check_monitoring", "announce"} :
             CheckPlane(p, read, step, next)
    BY <1>11 DEF Check, Planes
  <2> DEFINE to == IF read \in planes[io[p].client] THEN next ELSE "idle"
  <2>2. GoesOn(p, step, to)
    BY <2>1 DEF CheckPlane
  <2>3. /\ ThreadsOK' /\ io[p].client \in Clients /\ io[p].pc = step
        /\ io'[p].pc = to /\ (to # "idle" => io'[p].client = io[p].client)
        /\ \A q \in Planes \ {p} : io'[q] = io[q]
    BY <2>1, <2>2, GoesOnFacts DEF Steps
  <2>4. UNCHANGED <<planes, client_announced, client_seen, loss_reported, pending_hellos>>
    BY <2>1 DEF CheckPlane
  <2>5. TypeOK' /\ PlanesNeedControl'
    BY <2>3, <2>4 DEF TypeOK, PlanesNeedControl, ThreadsOK
  <2>6. DiscardedIsOff'
    BY <2>1, <2>3, <2>4 DEF DiscardedIsOff
  <2>7. CompleteIsSeen'
    BY <2>1, <2>3, <2>4 DEF CompleteIsSeen, Announcing
  <2> QED
    BY <2>3, <2>5, <2>6, <2>7
<1>12. ASSUME NEW p \in Planes, Announce(p)
       PROVE  Inv'
  <2>1. GoesOn(p, "announce", "idle")
    BY <1>12 DEF Announce
  <2>2. /\ ThreadsOK' /\ io[p].client \in Clients /\ io[p].pc = "announce"
        /\ io'[p].pc = "idle"
        /\ \A q \in Planes \ {p} : io'[q] = io[q]
    BY <2>1, GoesOnFacts DEF Steps
  <2>3. /\ UNCHANGED <<planes, pending_hellos>>
        /\ client_announced' = client_announced \cup {io[p].client}
        /\ client_seen' = client_seen \cup {io[p].client}
        /\ loss_reported' \subseteq loss_reported
    BY <1>12 DEF Announce, TypeOK
  <2>4. TypeOK' /\ PlanesNeedControl'
    BY <2>2, <2>3 DEF TypeOK, PlanesNeedControl, ThreadsOK
  <2>5. DiscardedIsOff'
    BY <2>2, <2>3 DEF DiscardedIsOff
  <2>6. CompleteIsSeen'
    BY <2>2, <2>3 DEF CompleteIsSeen, Announcing
  <2> QED
    BY <2>2, <2>4, <2>5, <2>6
<1>13. CASE RemoveAcquisition \/ Forget
  <2> DEFINE c == io["control"].client
  <2>1. "control" \in Planes
    BY DEF Planes
  <2>2. PICK from \in {"remove_acquisition", "forget"}, to \in {"forget", "discard"},
             left \in SUBSET Planes :
             /\ GoesOn("control", from, to)
             /\ planes' = [planes EXCEPT ![c] = left]
             /\ "acquisition" \notin left
             /\ to = "forget" => left = planes[c] \ {"acquisition"}
             /\ to = "discard" => left = {}
    <3>1. CASE RemoveAcquisition
      <4>1. c \in Clients
        BY <3>1, <2>1 DEF RemoveAcquisition, GoesOn, ThreadsOK
      <4>2. planes[c] \ {"acquisition"} \in SUBSET Planes
        BY <4>1 DEF TypeOK
      <4> QED
        BY <3>1, <4>2 DEF RemoveAcquisition
    <3>2. CASE Forget
      BY <3>2 DEF Forget
    <3> QED
      BY <1>13, <3>1, <3>2
  <2>3. /\ ThreadsOK' /\ c \in Clients /\ io["control"].pc = from
        /\ io'["control"].pc = to /\ io'["control"].client = c
        /\ \A q \in Planes \ {"control"} : io'[q] = io[q]
    BY <2>1, <2>2, GoesOnFacts DEF Steps
  <2>4. UNCHANGED <<client_announced, client_seen, loss_reported, pending_hellos>>
    BY <1>13 DEF RemoveAcquisition, Forget
  <2>5. TypeOK'
    BY <2>2, <2>3, <2>4 DEF TypeOK, ThreadsOK
  <2>6. PlanesNeedControl'
    BY <2>2, <2>3, <2>4 DEF TypeOK, PlanesNeedControl
  <2>7. DiscardedIsOff'
    BY <2>1, <2>2, <2>3 DEF DiscardedIsOff, TypeOK, ThreadsOK
  <2>8. CompleteIsSeen'
    BY <2>2, <2>3, <2>4 DEF CompleteIsSeen, Announcing, TypeOK, Planes
  <2> QED
    BY <2>3, <2>5, <2>6, <2>7, <2>8
<1> QED
  BY <1>1, <1>3, <1>4, <1>5, <1>6, <1>7, <1>8, <1>9, <1>10, <1>11, <1>12, <1>13
     DEF Next, Step

------------------------------------------------------------------------------

\* The invariant holds in every reachable state.
THEOREM Invariance == Spec => []Inv
BY InitInv, NextInv, PTL DEF Spec

\* Announced boards are seen ones and no board is on the acquisition or on the
\* monitoring plane without control, while one thread removes it and others
\* admit it (handle_client_lost, _accept_hello).
THEOREM PlanesAreConsistent == Spec => []PlanesConsistent
<1>1. Inv => PlanesConsistent
  BY DEF Inv
<1> QED
  BY <1>1, Invariance, PTL

\* A board that is back on all its planes is announced, whichever of the three
\* threads was the last (handle_client_plane_connected).
THEOREM NoReturnMissed == Spec => []CompleteIsAnnounced
<1>1. Inv => CompleteIsAnnounced
  BY DEF Inv, CompleteIsSeen, CompleteIsAnnounced, Announcing, Settled
<1> QED
  BY <1>1, Invariance, PTL
=============================================================================
