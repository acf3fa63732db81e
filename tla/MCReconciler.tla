---------------------------- MODULE MCReconciler ----------------------------
(* Model values and symmetry for model checking Reconciler.                *)
EXTENDS Reconciler, TLC

Symmetry == Permutations(File) \cup Permutations(Worker)
=============================================================================
