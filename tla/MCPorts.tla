------------------------------ MODULE MCPorts ------------------------------
(***************************************************************************)
(* Two callers and two apps.  The ranges of the two roles overlap, which   *)
(* the configuration allows, so both roles contend for port 2; the public  *)
(* range fills up and is walked past its end.  For the liveness run the    *)
(* backend range is empty (its end before its start).                      *)
(***************************************************************************)
EXTENDS Ports

PerRole(public, backend) == [role \in Roles |-> IF role = PUBLIC THEN public ELSE backend]

MCRangeStart == PerRole(1, 2)
MCRangeEnd   == PerRole(2, 2)
MCEmptyEnd   == PerRole(2, 1)
=============================================================================
