---------------------------- MODULE MCSelfUpdate ----------------------------
(***************************************************************************)
(* Small instances of SelfUpdate.  Every version has files 1 and 2; file 3 *)
(* exists in the installed version only, file 4 in the uploaded ones only. *)
(***************************************************************************)
EXTENDS SelfUpdate

MCFiles   == 1 .. 4
MCCarries == [v \in Versions |-> IF v = Installed THEN {1, 2, 3} ELSE {1, 2, 4}]
MCKind    == [v \in Versions |-> CASE v = "crashing" -> "broken"
                                   [] v = "slow" -> "slow"
                                   [] OTHER -> "good"]
=============================================================================
