------------------------- MODULE MCServerLifecycle -------------------------
(* The threads of the server for TLC: interchangeable boards. *)
EXTENDS ServerLifecycle, TLC

Symmetry == Permutations(Clients)

\* The history variables guard no action: hidden where no property reads them.
WithoutHistory == <<stateVars, cli, io, session, hv_previous, sockets>>
============================================================================
