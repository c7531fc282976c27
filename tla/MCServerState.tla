---------------------------- MODULE MCServerState ----------------------------
(* The state of the server for TLC, on its own: any order of events and
   registry operations, on interchangeable boards. *)
EXTENDS ServerState, TLC

Symmetry == Permutations(Clients)
==============================================================================
