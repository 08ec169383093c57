--------------------------- MODULE TokenAuthority ---------------------------
(***************************************************************************)
(* What the session store promises about a login token, with no database,  *)
(* cache or request in it.  A token is "fresh" (never issued), "live" (a   *)
(* handshake with it is accepted), "limbo" (refused, but a request under   *)
(* way may still make it live) or "dead".  Death is final: nobody is let   *)
(* in again by a token that was given up.                                  *)
(***************************************************************************)
CONSTANT Tokens

VARIABLE status

States == {"fresh", "live", "limbo", "dead"}

(* What may become of a token in one step. *)
Moves(s) == CASE s = "fresh" -> {"fresh", "live"}
              [] s = "dead"  -> {"dead"}
              [] OTHER       -> {"live", "limbo", "dead"}

Init == status = [t \in Tokens |-> "fresh"]

(* One command may concern several tokens: a new session ends the last.    *)
Next == status' \in [Tokens -> States] /\ \A t \in Tokens : status'[t] \in Moves(status[t])

Spec == Init /\ [][Next]_status
=============================================================================
