----------------------------- MODULE MCUploads -----------------------------
(***************************************************************************)
(* Small instances of Uploads.                                             *)
(***************************************************************************)
EXTENDS Uploads, TLC

Symmetry == Permutations(Requests)
=============================================================================
