------------------------ MODULE MCAcquisitionSession ------------------------
(* The acquisition session for TLC: interchangeable boards. *)
EXTENDS AcquisitionSession, TLC

Symmetry == Permutations(Clients)

\* The history variables guard no action: hidden where no property reads them.
WithoutHistory == <<hardware, registry, stop_requested, shared, run>>

\* For liveness only: one session, the receiver confirms every CLOSE, no write
\* is late and no error is unexpected.  The session thread and the I/O threads
\* still interleave in every way, and every other outcome may be unknown.
FewerOutcomes ==
    /\ late' = {} /\ unclosed' = {} /\ ~run'.raised
    /\ run.pc = "ended" => run'.pc = "ended"

FairSpecFewerOutcomes ==
    /\ Init /\ [][Next /\ FewerOutcomes]_vars
    /\ WF_vars(SessionStep /\ FewerOutcomes)
    /\ \A c \in Clients : WF_vars(OnClientLost(c))
==============================================================================
