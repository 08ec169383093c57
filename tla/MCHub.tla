------------------------------- MODULE MCHub -------------------------------
(* Small instances of Hub: c1 and c2 are two connections of the phone dA,  *)
(* c3 is a connection of the computer dB, c4 one of a third device dC.     *)
EXTENDS Hub, TLC

CONSTANTS c1, c2, c3, c4, dA, dB, dC, u1, u2

MCDeviceOf == [c \in Conns |-> CASE c = c3 -> dB [] c = c4 -> dC [] OTHER -> dA]
MCRoleOf   == [c \in Conns |-> IF c = c3 THEN "pc" ELSE "mobile"]
MCOnlineAt == [c \in Conns |-> IF c = c1 THEN 1 ELSE IF c = c2 THEN 2 ELSE 3]

(* All devices of one account; c4's device of another one. *)
MCOneOwner  == [d \in Devices |-> u1]
MCTwoOwners == [d \in Devices |-> IF d = dC THEN u2 ELSE u1]

(* Requests differ in nothing, and no definition chooses among them.  Only *)
(* for runs without liveness properties.                                   *)
MCSymmetry == Permutations(Requests)

(* For the run about names: the devices start with the same saved name;    *)
(* renames and what clients report bring the others.                       *)
NamesInit == Init /\ dbName = [d \in Devices |-> CHOOSE n \in Names : TRUE]

NamesSpec == NamesInit /\ [][Next]_vars
=============================================================================
