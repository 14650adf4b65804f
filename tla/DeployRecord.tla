---------------------------- MODULE DeployRecord ----------------------------
(***************************************************************************)
(* What the deploys table promises the people who look at it: the life of  *)
(* a deploy record, with everything that makes it move left out.  A record *)
(* is queued once, built at most once, ends in one of three ways, and only *)
(* a record that waits for settings ever changes after it has ended - or   *)
(* one that is live, where the clean-up behind it can fail.                *)
(***************************************************************************)
CONSTANTS Deploys,
          CleanUpCanFail   \* does the system refuse to remove an open file?

VARIABLE status

Ended == {"live", "failed", "needs_setup"}

Init == status = [d \in Deploys |-> "unborn"]

Move(d, from, to) == status[d] = from /\ status' = [status EXCEPT ![d] = to]

Queue(d)     == Move(d, "unborn", "queued")
Build(d)     == Move(d, "queued", "building")
End(d)       == \E result \in Ended : Move(d, "building", result)
Interrupt(d) == Move(d, "queued", "failed") \/ Move(d, "building", "failed")
Settle(d)    == Move(d, "needs_setup", "live")
Relapse(d)   == CleanUpCanFail /\ Move(d, "live", "failed")

\* The records of an app go together, when the app is deleted.
Forget == \E gone \in SUBSET {d \in Deploys : status[d] # "unborn"} :
    status' = [d \in Deploys |-> IF d \in gone THEN "gone" ELSE status[d]]

Next == \/ \E d \in Deploys : Queue(d) \/ Build(d) \/ End(d) \/ Interrupt(d)
        \/ \E d \in Deploys : Settle(d) \/ Relapse(d)
        \/ Forget

Spec == Init /\ [][Next]_status
=============================================================================
