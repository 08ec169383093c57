----------------------------- MODULE Filtering -----------------------------
(* What SelectSeq returns for a test of membership, as a recursive         *)
(* function: so that it can be reasoned about.                             *)
EXTENDS Integers, Sequences

(* What is left of s when only the members of S stay, in their order. *)
Only(s, S) ==
  LET upTo[n \in 0..Len(s)] ==
        IF n = 0 THEN <<>>
        ELSE IF s[n] \in S THEN Append(upTo[n - 1], s[n]) ELSE upTo[n - 1]
  IN upTo[Len(s)]
=============================================================================
