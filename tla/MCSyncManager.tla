--------------------------- MODULE MCSyncManager ---------------------------
(* Model values, symmetry for TLC's runs of SyncManager. *)
EXTENDS SyncManager, TLC

CONSTANTS t1, t2, t3

Symmetry == Permutations(Threads) \cup Permutations(MutexArcs)
============================================================================
