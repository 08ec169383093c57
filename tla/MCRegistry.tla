----------------------------- MODULE MCRegistry -----------------------------
(* Instances of OnlineRegistry: c1 and c2 are connections of dA, c3 of dB. *)
EXTENDS OnlineRegistry

CONSTANTS c1, c2, c3, dA, dB

MCDeviceOf == [c \in Conns |-> IF c = c3 THEN dB ELSE dA]
=============================================================================
