----------------------------- MODULE MCReceiver -----------------------------
(***************************************************************************)
(* Receiver with one worker, so that the commands and the packets of all   *)
(* sources compete for the same queue.                                     *)
(***************************************************************************)
EXTENDS Receiver

CONSTANT w1

MCWorkerOf == [s \in Sources |-> w1]

\* The stop counts as one of the commands of the server.
StopIsACommand == keep_running' \/ cl.n < MaxCommands

=============================================================================
