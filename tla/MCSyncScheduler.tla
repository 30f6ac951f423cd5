-------------------------- MODULE MCSyncScheduler ---------------------------
(* Instances of the scheduler: every process that can exist, and a lock    *)
(* object for each of them.                                                *)
EXTENDS SyncScheduler

MCProcs == AllProcs
MCLocks == 1 .. Cardinality(AllProcs)
=============================================================================
