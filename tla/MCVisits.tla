------------------------------ MODULE MCVisits ------------------------------
(***************************************************************************)
(* Small instances of Visits: one or two threads, days of two ticks.  The  *)
(* bounds are in the .cfg files.                                           *)
(***************************************************************************)
EXTENDS Visits
=============================================================================
