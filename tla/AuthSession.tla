---------------------------- MODULE AuthSession ----------------------------
(***************************************************************************)
(* The session of one account: auth_service.go over one MySQL row and      *)
(* three kinds of Redis keys (store_redis.go).  Login, AuthenticateToken,  *)
(* Logout, ChangePassword and InvalidateSessions are sequences of Redis    *)
(* and MySQL commands with nothing around them; one action is one command. *)
(* The admin channel subscriber (main.go:1585-1646) is a process that runs *)
(* InvalidateSessions for each kick_user message it receives.              *)
(*                                                                         *)
(* Keys and rows of different accounts are disjoint, and a token stands    *)
(* for its hash.  A definition X_Fault is X with a plausible bug: it       *)
(* stands in for X to see that a property notices.                         *)
(***************************************************************************)
EXTENDS Integers, FiniteSets

CONSTANTS
  Requests,    \* HTTP requests and handshakes that may be made
  Subscriber,  \* the goroutine that reads the admin channel
  Kinds,       \* which kinds of request are made
  Tokens,      \* tokens NewToken may return, each once
  NoToken,     \* an absent row, key or argument
  Failures,    \* commands may fail, and messages may be lost
  Volatile     \* sessions expire and Redis keys go (TTL, eviction, restart)

Procs == Requests \cup {Subscriber}

AllKinds == {"login", "auth", "logout", "change", "kick"}

ASSUME AuthAssumption ==
  /\ NoToken \notin Tokens
  /\ Subscriber \notin Requests
  /\ Kinds \subseteq AllKinds
  /\ Failures \in BOOLEAN /\ Volatile \in BOOLEAN

VARIABLES
  session,   \* the token of the MySQL session row that has not expired
  cached,    \* tokens with a key token:<hash>
  index,     \* user_token:<id>, the token cached last
  plain,     \* plain_token:<id>, the token handed out again
  issued,    \* tokens NewToken has returned
  handed,    \* tokens a client has been given
  channel,   \* kick_user messages published and not yet received
  op         \* the requests and the subscriber

store == <<session, cached, index, plain>>
vars == <<store, issued, handed, channel, op>>

-----------------------------------------------------------------------------
(* The program of each kind of request: a label is the command to come. *)

(* AuthenticateToken has found the token good. *)
Admitted(kind) == CASE kind = "auth"   -> "done"
                    [] kind = "change" -> "updating"
                    [] kind = "logout" -> "deleting"

AfterDelete(kind) == IF kind = "kick" THEN "done" ELSE "dropping"

AfterPlain(kind) == CASE kind = "logout" -> "done"
                      [] kind = "change" -> "publishing"
                      [] kind = "kick"   -> "deleting"

(* Where a request goes when its command fails: some errors are returned,  *)
(* some are ignored (the blank assignments of the code) or only logged.    *)
AfterError(kind, label) ==
  CASE label = "looking"                          -> "finding"
    [] label \in {"timing", "backfilling"}        -> Admitted(kind)
    [] label = "indexing"                         -> "unplain"
    [] kind # "logout" /\ label = "deleting"      -> AfterDelete(kind)
    [] kind # "logout" /\ label = "dropping"      -> "unplain"
    [] kind # "logout" /\ label = "unplain"       -> AfterPlain(kind)
    [] label = "publishing"                       -> "issuing"
    [] OTHER                                      -> "failed"

Ended == {"done", "failed"}

Idle(p) == op[p].pc \in Ended \cup {"idle"}

At(p, label) == op[p].pc = label

Goto(p, label) == op' = [op EXCEPT ![p].pc = label]

Start(p, kind, t, label) ==
  op' = [op EXCEPT ![p] = [kind |-> kind, tok |-> t, pc |-> label]]

-----------------------------------------------------------------------------
(* Requests arrive. *)

(* The password was right.  (A wrong one ends the request with no effect.) *)
StartLogin(r) == /\ "login" \in Kinds
                 /\ At(r, "idle")
                 /\ Start(r, "login", NoToken, "counting")
                 /\ UNCHANGED <<store, issued, handed, channel>>

(* A handshake, a logout or a change of password brings a token. *)
StartWithToken(r, kind, t) ==
  /\ kind \in Kinds
  /\ At(r, "idle")
  /\ t \in handed
  /\ Start(r, kind, t, "looking")
  /\ UNCHANGED <<store, issued, handed, channel>>

StartKick(r) == /\ "kick" \in Kinds
                /\ At(r, "idle")
                /\ Start(r, "kick", NoToken, "indexing")
                /\ UNCHANGED <<store, issued, handed, channel>>

(* The subscriber handles one message after the other. *)
Receive == /\ channel > 0
           /\ Idle(Subscriber)
           /\ channel' = channel - 1
           /\ Start(Subscriber, "kick", NoToken, "indexing")
           /\ UNCHANGED <<store, issued, handed>>

-----------------------------------------------------------------------------
(* Login. *)

(* OnlineCount: whether a client is online is the hub's business. *)
CountOnline(p) == /\ At(p, "counting")
                  /\ \E label \in {"reading", "issuing"} : Goto(p, label)
                  /\ UNCHANGED <<store, issued, handed, channel>>

ReadSession_NoNilCheck(p) == /\ At(p, "reading")
                             /\ Start(p, op[p].kind, session, "comparing")
                             /\ UNCHANGED <<store, issued, handed, channel>>

(* A client is online: the session it uses is looked up ... *)
ReadSession(p) ==
  /\ At(p, "reading")
  /\ IF session = NoToken THEN Goto(p, "issuing")
                          ELSE Start(p, op[p].kind, session, "comparing")
  /\ UNCHANGED <<store, issued, handed, channel>>

(* ... and its token handed out again if the plain text kept is that of    *)
(* the same token.                                                         *)
ComparePlain(p) ==
  /\ At(p, "comparing")
  /\ IF plain = op[p].tok
     THEN /\ Goto(p, "done")
          /\ handed' = handed \cup {plain}
     ELSE /\ Goto(p, "issuing")
          /\ UNCHANGED handed
  /\ UNCHANGED <<store, issued, channel>>

(* A new token replaces the session row, in Login and ChangePassword. *)
Issue(p) ==
  \E t \in Tokens \ issued :
    /\ At(p, "issuing")
    /\ session' = t
    /\ issued' = issued \cup {t}
    /\ Start(p, op[p].kind, t, "caching")
    /\ UNCHANGED <<cached, index, plain, handed, channel>>

(* CacheToken sets both keys in one transaction. *)
CacheToken(t) == /\ cached' = cached \cup {t}
                 /\ index' = t

CacheNew(p) == /\ At(p, "caching")
               /\ CacheToken(op[p].tok)
               /\ Goto(p, "storing")
               /\ UNCHANGED <<session, plain, issued, handed, channel>>

(* StorePlainToken; then the answer. *)
StorePlain(p) == /\ At(p, "storing")
                 /\ plain' = op[p].tok
                 /\ handed' = handed \cup {op[p].tok}
                 /\ Goto(p, "done")
                 /\ UNCHANGED <<session, cached, index, issued, channel>>

-----------------------------------------------------------------------------
(* AuthenticateToken, for a handshake and for ChangePassword; the first    *)
(* two commands are Logout's, too.                                         *)

LookupToken(p) ==
  /\ At(p, "looking")
  /\ Goto(p, IF op[p].tok \in cached THEN Admitted(op[p].kind) ELSE "finding")
  /\ UNCHANGED <<store, issued, handed, channel>>

FindUser_AnySession(p) ==
  /\ At(p, "finding")
  /\ Goto(p, IF session = NoToken THEN "failed"
             ELSE IF op[p].kind = "logout" THEN "deleting" ELSE "timing")
  /\ UNCHANGED <<store, issued, handed, channel>>

(* FindUserByTokenHash: the database has the last word. *)
FindUser(p) ==
  /\ At(p, "finding")
  /\ Goto(p, IF session # op[p].tok THEN "failed"
             ELSE IF op[p].kind = "logout" THEN "deleting" ELSE "timing")
  /\ UNCHANGED <<store, issued, handed, channel>>

(* GetSession, to know how long the cache entry may live. *)
TimeLeft(p) ==
  /\ At(p, "timing")
  /\ Goto(p, IF session = NoToken THEN Admitted(op[p].kind) ELSE "backfilling")
  /\ UNCHANGED <<store, issued, handed, channel>>

Backfill(p) == /\ At(p, "backfilling")
               /\ CacheToken(op[p].tok)
               /\ Goto(p, Admitted(op[p].kind))
               /\ UNCHANGED <<session, plain, issued, handed, channel>>

(* ChangePassword: the old password is verified, and the new one stored.   *)
UpdatePassword(p) ==
  /\ At(p, "updating")
  /\ \E label \in {"deleting", "failed"} : Goto(p, label)
  /\ UNCHANGED <<store, issued, handed, channel>>

-----------------------------------------------------------------------------
(* Taking a session back: Logout, ChangePassword, InvalidateSessions. *)

(* InvalidateSessions knows the token from the reverse index only. *)
ReadIndex(p) ==
  /\ At(p, "indexing")
  /\ IF index = NoToken THEN Goto(p, "unplain")
                        ELSE Start(p, op[p].kind, index, "dropping")
  /\ UNCHANGED <<store, issued, handed, channel>>

DeleteSession(p) == /\ At(p, "deleting")
                    /\ session' = NoToken
                    /\ Goto(p, AfterDelete(op[p].kind))
                    /\ UNCHANGED <<cached, index, plain, issued, handed, channel>>

DropToken_IndexOnly(p) == /\ At(p, "dropping")
                          /\ index' = NoToken
                          /\ Goto(p, "unplain")
                          /\ UNCHANGED <<session, cached, plain, issued, handed, channel>>

DropToken(p) == /\ At(p, "dropping")
                /\ cached' = cached \ {op[p].tok}
                /\ index' = NoToken
                /\ Goto(p, "unplain")
                /\ UNCHANGED <<session, plain, issued, handed, channel>>

DropPlain(p) == /\ At(p, "unplain")
                /\ plain' = NoToken
                /\ Goto(p, AfterPlain(op[p].kind))
                /\ UNCHANGED <<session, cached, index, issued, handed, channel>>

(* ChangePassword tells every server of the account, itself included. *)
PublishKickUser(p) == /\ At(p, "publishing")
                      /\ channel' = channel + 1
                      /\ Goto(p, "issuing")
                      /\ UNCHANGED <<store, issued, handed>>

-----------------------------------------------------------------------------
(* What may go wrong, and the passing of time. *)

(* The command to come fails, without effect.  (One that fails after it    *)
(* took effect leaves the store as the failure of the one after it does,   *)
(* or as its success where there is none or the error is ignored.)         *)
Fail(p) == /\ Failures
           /\ ~Idle(p)
           /\ Goto(p, AfterError(op[p].kind, op[p].pc))
           /\ UNCHANGED <<store, issued, handed, channel>>

(* Pub/Sub drops what is published while the subscriber is reconnecting.   *)
Lose == /\ Failures
        /\ channel > 0
        /\ channel' = channel - 1
        /\ UNCHANGED <<store, issued, handed, op>>

(* An expired row is invisible to every query, whether purged or not.      *)
SessionExpires == /\ Volatile
                  /\ session # NoToken
                  /\ session' = NoToken
                  /\ UNCHANGED <<cached, index, plain, issued, handed, channel, op>>

KeyGoes == /\ Volatile
           /\ \/ \E t \in cached : cached' = cached \ {t} /\ UNCHANGED <<index, plain>>
              \/ index # NoToken /\ index' = NoToken /\ UNCHANGED <<cached, plain>>
              \/ plain # NoToken /\ plain' = NoToken /\ UNCHANGED <<cached, index>>
           /\ UNCHANGED <<session, issued, handed, channel, op>>

-----------------------------------------------------------------------------
Init ==
  /\ session = NoToken
  /\ cached = {}
  /\ index = NoToken
  /\ plain = NoToken
  /\ issued = {}
  /\ handed = {}
  /\ channel = 0
  /\ op = [p \in Procs |-> [kind |-> "kick", tok |-> NoToken, pc |-> "idle"]]

Arrive(r) == \/ StartLogin(r) \/ StartKick(r)
             \/ \E t \in Tokens, kind \in {"auth", "logout", "change"} :
                  StartWithToken(r, kind, t)

Work(p) == \/ CountOnline(p) \/ ReadSession(p) \/ ComparePlain(p)
           \/ Issue(p) \/ CacheNew(p) \/ StorePlain(p)
           \/ LookupToken(p) \/ FindUser(p) \/ TimeLeft(p) \/ Backfill(p)
           \/ UpdatePassword(p) \/ ReadIndex(p) \/ DeleteSession(p)
           \/ DropToken(p) \/ DropPlain(p) \/ PublishKickUser(p)

Next == \/ \E r \in Requests : Arrive(r)
        \/ \E p \in Procs : Work(p) \/ Fail(p)
        \/ Receive \/ Lose \/ SessionExpires \/ KeyGoes

Spec == Init /\ [][Next]_vars

-----------------------------------------------------------------------------
(* Correctness. *)

Labels == {"idle", "counting", "reading", "comparing", "issuing", "caching", "storing",
           "looking", "finding", "timing", "backfilling", "updating", "indexing",
           "deleting", "dropping", "unplain", "publishing"} \cup Ended

OpStates == [kind : AllKinds, tok : Tokens \cup {NoToken}, pc : Labels]

(* Types; a client is never given an empty token.                          *)
TypeOK ==
  /\ session \in Tokens \cup {NoToken}
  /\ cached \subseteq Tokens
  /\ index \in Tokens \cup {NoToken}
  /\ plain \in Tokens \cup {NoToken}
  /\ issued \subseteq Tokens
  /\ handed \subseteq Tokens
  /\ channel \in Nat
  /\ op \in [Procs -> OpStates]

(* The invariant behind the refinement.  What a request knows of its token *)
(* and of itself when it is about to run a command.                        *)
UsesToken == {"comparing", "caching", "storing", "looking", "finding", "timing",
              "backfilling"}

Sound(o, known) ==
  /\ o \in OpStates
  /\ o.tok \in known \cup {NoToken}
  /\ o.pc \in UsesToken => o.tok # NoToken
  /\ o.pc \in {"looking", "finding", "timing", "backfilling"}
       => o.kind \in {"auth", "logout", "change"}
  /\ o.pc = "updating" => o.kind = "change"
  /\ o.pc = "indexing" => o.kind = "kick"
  /\ o.pc \in {"deleting", "dropping", "unplain"} => o.kind \in {"logout", "change", "kick"}

(* Only tokens that were issued are anywhere in the store or known to a    *)
(* request.                                                                *)
AuthInv ==
  /\ issued \subseteq Tokens
  /\ cached \subseteq issued
  /\ handed \subseteq issued
  /\ {session, index, plain} \subseteq issued \cup {NoToken}
  /\ channel \in Nat
  /\ op \in [Procs -> OpStates]
  /\ \A p \in Procs : Sound(op[p], issued)

(* AuthenticateToken lets the token in, by the cache or by the database.   *)
Accepted(t) == t \in cached \/ session = t

(* A request on its way to write the token to the cache: Login between its *)
(* session row and its cache entry, AuthenticateToken between its query    *)
(* and the backfill.                                                       *)
Holds(p, t) == op[p].tok = t /\ op[p].pc \in {"caching", "timing", "backfilling"}

Status == [t \in Tokens |->
             IF t \notin issued THEN "fresh"
             ELSE IF Accepted(t) THEN "live"
             ELSE IF \E p \in Procs : Holds(p, t) THEN "limbo"
             ELSE "dead"]

Authority == INSTANCE TokenAuthority WITH status <- Status

(* A token that is refused, and that no request under way holds, is never  *)
(* accepted again: not by a backfill, a late login, a repeated logout, a   *)
(* kick, an expiry or a failure (auth_service.go:301-332, store_redis.go). *)
ImplementsAuthority == Authority!Spec

(* When Logout has answered, its token is refused, whatever logins, kicks, *)
(* expiry and other logouts run beside it; only a handshake with it or a   *)
(* change of password can have put it back (auth_service.go:334-353).      *)
(* That there is such a request excuses, whenever it looked the token up.  *)
LogoutEndsToken ==
  \A p \in Procs : op[p].kind = "logout" /\ At(p, "done") =>
    \/ ~Accepted(op[p].tok)
    \/ \E q \in Procs : \/ op[q].kind = "auth" /\ op[q].tok = op[p].tok
                        \/ op[q].kind = "change"

(* Not so: auth_service.go:334 says that after Logout every handshake with *)
(* the token fails; AuthenticateToken may fill the cache again.            *)
LogoutIsFinal ==
  \A p \in Procs : op[p].kind = "logout" /\ At(p, "done") => ~Accepted(op[p].tok)

Quiet == channel = 0 /\ \A p \in Procs : Idle(p)

(* Not so: auth_service.go:141-142 says that InvalidateSessions ends all   *)
(* old tokens at once; even when nothing else is going on, the token it    *)
(* has found to drop may not be the only one in the cache.                 *)
KickFindsAllTokens ==
  [][\A p \in Procs :
       /\ At(p, "indexing") /\ op'[p].pc # "indexing"
       /\ \A q \in Procs \ {p} : Idle(q)
       => \A t \in cached : op'[p].tok = t]_vars

(* Not so: auth_service.go:355 says that the client replaces its token by  *)
(* the new one; the server's own kick_user message may end it.             *)
ChangedTokenIsGood ==
  Quiet => \A p \in Procs :
             op[p].kind = "change" /\ At(p, "done") => Accepted(op[p].tok)
=============================================================================
