-------------------------- MODULE DeviceDirectory --------------------------
(***************************************************************************)
(* What the Hub promises about its list of online devices, with no         *)
(* connections, locks or timers in it.  A device is "absent" (not listed), *)
(* "online" (listed, it has a working connection) or "leaving" (listed,    *)
(* but its connection is gone and the offline grace of main.go:137-143     *)
(* runs).  An online device never disappears in one step: it must first be *)
(* leaving, and a leaving device that returns was listed all along.        *)
(***************************************************************************)
CONSTANT Devices

VARIABLE status

States == {"absent", "online", "leaving"}

TypeOK == status \in [Devices -> States]

Init == status = [d \in Devices |-> "absent"]

(* A device connects, for the first time or while it is leaving. *)
Arrive(d) == /\ status[d] # "online"
             /\ status' = [status EXCEPT ![d] = "online"]

(* Its only connection breaks: it stays listed, its absence unconfirmed. *)
Break(d) == /\ status[d] = "online"
            /\ status' = [status EXCEPT ![d] = "leaving"]

(* The grace period ends and nobody came back: the departure is final. *)
Depart(d) == /\ status[d] = "leaving"
             /\ status' = [status EXCEPT ![d] = "absent"]

Next == \E d \in Devices : Arrive(d) \/ Break(d) \/ Depart(d)

Safe == Init /\ [][Next]_status

(* A device does not stay in grace for ever. *)
Spec == Safe /\ \A d \in Devices : WF_status(Depart(d))
=============================================================================
