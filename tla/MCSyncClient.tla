---------------------------- MODULE MCSyncClient ----------------------------
(* Model values and symmetry for model checking SyncClient.                *)
EXTENDS SyncClient, TLC

Symmetry == Permutations(File) \cup Permutations(Worker)
=============================================================================
