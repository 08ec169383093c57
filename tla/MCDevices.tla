------------------------------ MODULE MCDevices ------------------------------
(***************************************************************************)
(* Instances of DeviceAdmission and DeviceListing.  The two share no state *)
(* here: the listing has its own table and hub, which change as they like. *)
(* In a behaviour one of them runs and the other rests.                    *)
(*                                                                         *)
(* Of the connections, c1 and c2 are of dA and c3 is of dB.                *)
(***************************************************************************)
EXTENDS DeviceAdmission, DeviceListing, TLC

CONSTANTS c1, c2, c3, dA, dB

VARIABLE running  \* "admission" or "listing"

MCDeviceOf == [c \in Conns |-> IF c = c3 THEN dB ELSE dA]

(* The two connections of dA differ in nothing, nor do the devices of the  *)
(* list.                                                                   *)
MCSymmetry == Permutations({c1, c2}) \cup Permutations(Pairs)

(* A list at rest is that of an empty table, and not asked for. *)
DevicesInit ==
  /\ running \in {"admission", "listing"}
  /\ Init
  /\ ListingInit
  /\ running = "admission" =>
       /\ second = 1 /\ HasRow = {} /\ inHub = {} /\ size = 1
       /\ filter = [disabled |-> "any", online |-> "any"]

RunAdmission == running = "admission" /\ Next /\ UNCHANGED <<running, listingVars>>

RunListing == running = "listing" /\ ListingNext /\ UNCHANGED <<running, vars>>

DevicesNext == RunAdmission \/ RunListing

DevicesSpec == DevicesInit /\ [][DevicesNext]_<<running, vars, listingVars>>
=============================================================================
