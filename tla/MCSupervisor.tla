---------------------------- MODULE MCSupervisor ----------------------------
(***************************************************************************)
(* Small instances of Supervisor: two or three apps, limits of one or two. *)
(***************************************************************************)
EXTENDS Supervisor
=============================================================================
