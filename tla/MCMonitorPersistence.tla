------------------------- MODULE MCMonitorPersistence -------------------------
(* The workers of the pool are interchangeable.  The samples and the changes *)
(* of the configuration meet only in the CLI: the registers change, or are  *)
(* unknown, only while the pool is not running and has accepted nothing.     *)
EXTENDS MonitorPersistence, TLC

Symmetry == Permutations(Workers)
PoolOrChanges == (register = 1 /\ ~missed) \/ (service = "down" /\ \A k \in Keys : accepted[k] = 0)

==============================================================================
