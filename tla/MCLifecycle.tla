---------------------------- MODULE MCLifecycle ----------------------------
(***************************************************************************)
(* Small instances of Lifecycle.  Each .cfg says who may act: which kinds  *)
(* of ZIP are uploaded, which buttons are pressed, and what may go wrong.  *)
(***************************************************************************)
EXTENDS Lifecycle, TLC

Symmetry == Permutations(Workers) \cup Permutations(Clients)
=============================================================================
