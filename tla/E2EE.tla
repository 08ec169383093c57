--------------------------------- MODULE E2EE ---------------------------------
(***************************************************************************)
(* The server's view of end-to-end encryption (e2ee.go): it reads nothing  *)
(* of a message but whether its payload holds a well-formed envelope.      *)
(***************************************************************************)

(* payload.enc: absent (as is everything when the payload does not parse), *)
(* of another version or algorithm or without iv, ct or salt, or whole.    *)
Envelopes == {"none", "bad", "good"}

(* The gate before routing.  A bad envelope is refused, never taken for    *)
(* plaintext.                                                              *)
CheckEncryption(enc, require) ==
  CASE enc = "good"           -> "encrypted"
    [] enc = "none" /\ ~require -> "plain"
    [] OTHER                  -> "refused"
=============================================================================
