---------------------------- MODULE MCLifecycle ----------------------------
(***************************************************************************)
(* Small instances of Lifecycle.                                           *)
(***************************************************************************)
EXTENDS Lifecycle, TLC

WorkerSymmetry == Permutations(Workers)
=============================================================================
