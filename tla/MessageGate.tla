----------------------------- MODULE MessageGate -----------------------------
(***************************************************************************)
(* What becomes of one message between its arrival and its delivery, on    *)
(* both ways into the server: a WebSocket frame (readPump, main.go         *)
(* 864-935) and an HTTP push (pushHandler, main.go 1374-1445).             *)
(*                                                                         *)
(* A text is a sequence of pieces: blocks in brackets that hold a number,  *)
(* a signature in brackets, a merge hint, an ellipsis, a word.  The block  *)
(* "short86" has three digits only with its country code.                  *)
(***************************************************************************)
EXTENDS E2EE, Filtering

CONSTANTS
  SenderNumbers,  \* numbers that blocks may hold
  PreviewLimit,   \* message_protocol.max_payload_preview, in pieces
  MaxText,        \* bound: pieces of a text
  MaxPreview      \* bound: pieces of a preview that the sender gives

ASSUME GateAssumption ==
  /\ SenderNumbers \cap {"short86", "sign", "merge", "dots", "word", "more"} = {}
  /\ PreviewLimit \in Int /\ MaxText \in Nat /\ MaxPreview \in Nat

VARIABLES
  arrival,  \* the message, as it arrived
  outcome   \* what became of it

gateVars == <<arrival, outcome>>

Pieces == SenderNumbers \cup {"short86", "sign", "merge", "dots", "word"}

TextsUpTo(n) == UNION {[1..k -> Pieces] : k \in 0..n}

DropLeading(s, S) ==
  LET rest == {i \in DOMAIN s : s[i] \notin S}
      first == CHOOSE i \in rest : \A j \in rest : i <= j
  IN IF rest = {} THEN <<>> ELSE SubSeq(s, first, Len(s))

Clean_Signs(s) ==
  DropLeading(Only(DropLeading(s, SenderNumbers \cup {"short86", "sign"}),
                   Pieces \ {"merge"}), {"dots"})

(* The blocks with a number at the head go, signatures stay; then every    *)
(* merge hint, then an ellipsis at the head.                               *)
Clean(s) ==
  DropLeading(Only(DropLeading(s, SenderNumbers \cup {"short86"}),
                   Pieces \ {"merge"}), {"dots"})

(* The first number of the text, or else of the preview. *)
FoundSender(p) ==
  LET numbers == Only(p.text \o p.preview, SenderNumbers)
  IN IF numbers = <<>> THEN p.sender ELSE Head(numbers)

IsSms(type, kind) == kind = "sms" \/ type = "notify_pc"

SanitizeSmsPayload(type, p) ==
  IF IsSms(type, p.kind)
  THEN [p EXCEPT !.text = Clean(p.text), !.preview = Clean(p.preview),
                 !.sender = FoundSender(p)]
  ELSE p

EffectiveLimit == IF PreviewLimit > 0 THEN PreviewLimit ELSE 40

Truncate(s) ==
  IF Len(s) <= EffectiveLimit THEN s ELSE Append(SubSeq(s, 1, EffectiveLimit), "more")

EnsurePreview(p) ==
  IF p.preview = <<>> THEN [p EXCEPT !.preview = Truncate(p.text)] ELSE p

-----------------------------------------------------------------------------
Outcome(verdict, type, p) == [verdict |-> verdict, type |-> type, payload |-> p]

(* A frame of a connection: control messages are not relayed, the gate may *)
(* refuse it, and only plaintext is sanitised.                             *)
ReadFrame ==
  /\ arrival.way = "ws"
  /\ outcome.verdict = "pending"
  /\ LET p == arrival.payload
         gate == CheckEncryption(p.enc, arrival.require)
     IN outcome' =
          IF arrival.type \in {"pong", "presence"} THEN Outcome("dropped", "", p)
          ELSE IF arrival.type = "ping" THEN Outcome("answered", "pong", p)
          ELSE CASE gate = "refused"   -> Outcome("refused", "", p)
                 [] gate = "encrypted" -> Outcome("relayed", arrival.type, p)
                 [] gate = "plain"     ->
                      Outcome("relayed", arrival.type, SanitizeSmsPayload(arrival.type, p))
  /\ UNCHANGED arrival

(* The defaults of a push: type, and with it kind. *)
PushType == IF arrival.type = "" THEN "notify_pc" ELSE arrival.type

PushPayload ==
  LET p == arrival.payload
  IN [p EXCEPT !.kind = IF @ = "" /\ PushType = "notify_pc" THEN "sms" ELSE @]

Push_PreviewFirst ==
  /\ arrival.way = "push"
  /\ outcome.verdict = "pending"
  /\ outcome' = IF arrival.require THEN Outcome("refused", "", arrival.payload)
                ELSE Outcome("relayed", PushType,
                             SanitizeSmsPayload(PushType, EnsurePreview(PushPayload)))
  /\ UNCHANGED arrival

Push_NoRequire ==
  /\ arrival.way = "push"
  /\ outcome.verdict = "pending"
  /\ outcome' = Outcome("relayed", PushType,
                        EnsurePreview(SanitizeSmsPayload(PushType, PushPayload)))
  /\ UNCHANGED arrival

(* A push, which is always plaintext. *)
Push ==
  /\ arrival.way = "push"
  /\ outcome.verdict = "pending"
  /\ outcome' = IF arrival.require THEN Outcome("refused", "", arrival.payload)
                ELSE Outcome("relayed", PushType,
                             EnsurePreview(SanitizeSmsPayload(PushType, PushPayload)))
  /\ UNCHANGED arrival

-----------------------------------------------------------------------------
Payloads(enc, texts, previews) ==
  [enc : enc, kind : {"", "sms", "image"}, text : texts, preview : previews,
   sender : {""}]

FrameTypes == {"notify_pc", "notify_mobile", "clipboard", "ping", "pong", "presence"}

Arrivals ==
       [way : {"ws"}, type : {"notify_pc", "clipboard"}, require : BOOLEAN,
        payload : Payloads({"none", "good"}, TextsUpTo(MaxText), TextsUpTo(MaxPreview))]
  \cup [way : {"ws"}, type : FrameTypes, require : BOOLEAN,
        payload : Payloads(Envelopes, {<<>>}, {<<>>})]
  \cup [way : {"push"}, type : {"", "notify_pc", "clipboard"}, require : BOOLEAN,
        payload : Payloads({"none"}, TextsUpTo(MaxText), TextsUpTo(MaxPreview))]

GateInit ==
  /\ arrival \in Arrivals
  /\ outcome = Outcome("pending", "", arrival.payload)

GateNext == ReadFrame \/ Push

GateSpec == GateInit /\ [][GateNext]_gateVars

-----------------------------------------------------------------------------
(* Correctness. *)

Relayed == outcome.verdict = "relayed"

Content(s) == Only(s, {"sign", "word"})

Held(s) == {s[i] : i \in DOMAIN s} \cap SenderNumbers

(* What is relayed of a text still says the same: its words and signatures *)
(* are all there and in order, and if a number was taken from it, the      *)
(* message now names a number of it as its sender (main.go:976-983, 1050). *)
SanitizeKeepsContent ==
  Relayed =>
    LET was == arrival.payload
        is  == outcome.payload
    IN /\ Content(is.text) = Content(was.text)
       /\ Held(was.text) # Held(is.text) => is.sender \in Held(was.text)
       /\ was.enc = "good" => is = was

(* The preview that the server makes for a push is taken from the text as  *)
(* it is sent, so that it never shows a number that was taken from it      *)
(* (main.go:1421-1422, 1433-1437).                                         *)
PreviewShowsCleanText ==
  Relayed /\ arrival.way = "push" /\ arrival.payload.preview = <<>> =>
    LET p == outcome.payload
        shown == Only(p.preview, Pieces)
    IN /\ Len(shown) <= Len(p.text)
       /\ shown = SubSeq(p.text, 1, Len(shown))
       /\ p.text # <<>> => shown # <<>>

(* When encryption is required, no way into the server lets a message      *)
(* through that is not in an envelope (e2ee.go:99-114, main.go:1394-1398). *)
RequireClosesEveryWay ==
  Relayed /\ arrival.require => outcome.payload.enc = "good"
=============================================================================
