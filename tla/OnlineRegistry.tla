--------------------------- MODULE OnlineRegistry ---------------------------
(***************************************************************************)
(* The registry of online devices in Redis: one hash per account with one  *)
(* time to live (store_redis.go 133-179), written by the handler of each   *)
(* connection and by its keepOnline goroutine (main.go 1282-1348).  Login  *)
(* asks it whether the account has a client.                               *)
(*                                                                         *)
(* One account.  One action is one command to Redis, or one critical       *)
(* section of the hub, of which the registry sees only who is served, who  *)
(* is in grace and who was replaced (module Hub has the rest).             *)
(*                                                                         *)
(* Time is counted in intervals of keepOnline: Tick ends one, and each     *)
(* keeper beats once after it.  A definition X_Fault is X with a bug.      *)
(***************************************************************************)
EXTENDS Integers, FiniteSets

CONSTANTS
  Conns,      \* connections that may ever be made
  Devices,    \* the devices of the account
  DeviceOf,   \* the device of a connection
  TTL,        \* redis.online_ttl_sec in intervals: three, or less below 3 s
  MaxFaults   \* bound: crashes, losses of Redis data and failing commands

ASSUME RegistryAssumption ==
  /\ DeviceOf \in [Conns -> Devices]
  /\ TTL \in Nat \ {0}
  /\ MaxFaults \in Nat

VARIABLES
  pc,        \* where wsHandler is
  hub,       \* per connection: "out" of the hub, "live" in it, or in "grace"
  replaced,  \* Client.replaced
  keep,      \* the keepOnline goroutine
  entries,   \* the fields of the hash
  life,      \* intervals until the hash expires; 0 when there is none
  faults,    \* faults so far
  gap        \* per connection: intervals it was live and its device missing

handlerVars == <<pc, hub, replaced>>
redisVars   == <<entries, life>>
vars == <<handlerVars, keep, redisVars, faults, gap>>

SameDevice(c, k) == DeviceOf[c] = DeviceOf[k]

Served(d) == \E c \in Conns : DeviceOf[c] = d /\ hub[c] = "live"

Beating(c) == keep[c] \in {"due", "writing"}

Goto(c, label) == pc' = [pc EXCEPT ![c] = label]

(* A command fails, without effect; the code goes on. *)
Failing == faults < MaxFaults /\ faults' = faults + 1

-----------------------------------------------------------------------------
(* Commands. *)

MarkOnline_KeepTTL(d) ==
  /\ entries' = entries \cup {d}
  /\ life' = IF entries = {} THEN TTL ELSE life
  /\ gap' = [c \in Conns |-> IF DeviceOf[c] = d THEN 0 ELSE gap[c]]

MarkOnline_NoExpire(d) ==
  /\ entries' = entries \cup {d}
  /\ life' = life
  /\ gap' = [c \in Conns |-> IF DeviceOf[c] = d THEN 0 ELSE gap[c]]

(* HSET and EXPIRE in one transaction. *)
MarkOnline(d) ==
  /\ entries' = entries \cup {d}
  /\ life' = TTL
  /\ gap' = [c \in Conns |-> IF DeviceOf[c] = d THEN 0 ELSE gap[c]]

(* TouchOnline, which keepOnline once used: EXPIRE only. *)
TouchOnline(d) ==
  /\ life' = IF entries = {} THEN 0 ELSE TTL
  /\ UNCHANGED <<entries, gap>>

-----------------------------------------------------------------------------
(* wsHandler. *)

(* The handshake registers the device before the connection is in the hub; *)
(* a failure is logged.                                                    *)
ArriveOnline(c) ==
  /\ pc[c] = "new"
  /\ Goto(c, "registering")
  /\ \/ MarkOnline(DeviceOf[c]) /\ UNCHANGED faults
     \/ Failing /\ UNCHANGED <<redisVars, gap>>
  /\ UNCHANGED <<hub, replaced, keep>>

(* hub.register takes the place of every connection of the device, and     *)
(* keepOnline starts.                                                      *)
Register(c) ==
  LET old == {k \in Conns : SameDevice(k, c) /\ hub[k] # "out"}
  IN /\ pc[c] = "registering"
     /\ Goto(c, "reading")
     /\ hub' = [k \in Conns |-> IF k = c THEN "live"
                                ELSE IF k \in old THEN "out" ELSE hub[k]]
     /\ replaced' = [k \in Conns |-> replaced[k] \/ k \in old]
     /\ gap' = [k \in Conns |-> IF k \in old THEN 0 ELSE gap[k]]
     /\ keep' = [keep EXCEPT ![c] = "started"]
     /\ UNCHANGED <<redisVars, faults>>

(* readPump ends, for whatever reason, and the hub unregisters. *)
Unregister(c) ==
  /\ pc[c] = "reading"
  /\ Goto(c, "deciding")
  /\ hub' = [hub EXCEPT ![c] = IF replaced[c] THEN @ ELSE "grace"]
  /\ gap' = [gap EXCEPT ![c] = 0]
  /\ UNCHANGED <<replaced, keep, redisVars, faults>>

(* finalizeGrace, by its timer. *)
FinalizeGrace(c) ==
  /\ hub[c] = "grace"
  /\ hub' = [hub EXCEPT ![c] = "out"]
  /\ UNCHANGED <<pc, replaced, keep, redisVars, faults, gap>>

(* The deferred function: a replaced connection leaves the entry alone. *)
Decide(c) ==
  /\ pc[c] = "deciding"
  /\ Goto(c, IF replaced[c] THEN "done" ELSE "removing")
  /\ UNCHANGED <<hub, replaced, keep, redisVars, faults, gap>>

(* MarkOffline: HDEL (a hash without fields is gone), ... *)
RemoveField(c) ==
  /\ pc[c] = "removing"
  /\ \/ /\ Goto(c, "counting")
        /\ entries' = entries \ {DeviceOf[c]}
        /\ life' = IF entries' = {} THEN 0 ELSE life
        /\ UNCHANGED faults
     \/ /\ Goto(c, "done")
        /\ Failing
        /\ UNCHANGED redisVars
  /\ UNCHANGED <<hub, replaced, keep, gap>>

(* ... HLEN, whose failure is ignored, ... *)
CountFields(c) ==
  /\ pc[c] = "counting"
  /\ \/ /\ Goto(c, IF entries = {} THEN "deleting" ELSE "done")
        /\ UNCHANGED faults
     \/ /\ Goto(c, "done")
        /\ Failing
  /\ UNCHANGED <<hub, replaced, keep, redisVars, gap>>

(* ... and DEL, whatever has been written since. *)
DeleteHash(c) ==
  /\ pc[c] = "deleting"
  /\ Goto(c, "done")
  /\ \/ /\ entries' = {}
        /\ life' = 0
        /\ UNCHANGED faults
     \/ /\ Failing
        /\ UNCHANGED redisVars
  /\ UNCHANGED <<hub, replaced, keep, gap>>

-----------------------------------------------------------------------------
(* keepOnline. *)

KeepChecks_Always(c) ==
  /\ keep[c] = "due"
  /\ keep' = [keep EXCEPT ![c] = "writing"]
  /\ UNCHANGED <<handlerVars, redisVars, faults, gap>>

(* The tick: under the read lock, is the connection in the hub and not in  *)
(* grace?                                                                  *)
KeepChecks(c) ==
  /\ keep[c] = "due"
  /\ keep' = [keep EXCEPT ![c] = IF hub[c] = "live" THEN "writing" ELSE "off"]
  /\ UNCHANGED <<handlerVars, redisVars, faults, gap>>

KeepWrites_Touch(c) ==
  /\ keep[c] = "writing"
  /\ keep' = [keep EXCEPT ![c] = "idle"]
  /\ \/ TouchOnline(DeviceOf[c]) /\ UNCHANGED faults
     \/ Failing /\ UNCHANGED <<redisVars, gap>>
  /\ UNCHANGED handlerVars

(* The write, after the lock was released. *)
KeepWrites(c) ==
  /\ keep[c] = "writing"
  /\ keep' = [keep EXCEPT ![c] = "idle"]
  /\ \/ MarkOnline(DeviceOf[c]) /\ UNCHANGED faults
     \/ Failing /\ UNCHANGED <<redisVars, gap>>
  /\ UNCHANGED handlerVars

-----------------------------------------------------------------------------
(* Time, and what may go wrong. *)

Resting == \A c \in Conns : ~Beating(c) /\ pc[c] # "registering"

(* An interval ends when every keeper has done its beat: a beat is bounded *)
(* by a timeout of 3 s, an interval is 30 s unless configured otherwise.   *)
(* register, which waits for nothing but the lock, follows MarkOnline.     *)
Tick ==
  /\ Resting
  /\ life' = IF life = 0 THEN 0 ELSE life - 1
  /\ entries' = IF life' = 0 THEN {} ELSE entries
  /\ keep' = [c \in Conns |-> IF keep[c] = "off" THEN "off" ELSE "due"]
  /\ gap' = [c \in Conns |-> IF hub[c] = "live" /\ DeviceOf[c] \notin entries'
                             THEN gap[c] + 1 ELSE 0]
  /\ UNCHANGED <<handlerVars, faults>>

(* The server process is killed and started again: every connection ends,  *)
(* and no deferred function runs.                                          *)
Crash ==
  /\ Failing
  /\ \E c \in Conns : pc[c] \notin {"new", "done"}
  /\ pc' = [c \in Conns |-> IF pc[c] = "new" THEN "new" ELSE "done"]
  /\ hub' = [c \in Conns |-> "out"]
  /\ keep' = [c \in Conns |-> "off"]
  /\ gap' = [c \in Conns |-> 0]
  /\ UNCHANGED <<replaced, redisVars>>

(* Redis restarts without its data, or evicts the key. *)
LoseHash ==
  /\ Failing
  /\ entries # {}
  /\ entries' = {}
  /\ life' = 0
  /\ UNCHANGED <<handlerVars, keep, gap>>

-----------------------------------------------------------------------------
Init ==
  /\ pc = [c \in Conns |-> "new"]
  /\ hub = [c \in Conns |-> "out"]
  /\ replaced = [c \in Conns |-> FALSE]
  /\ keep = [c \in Conns |-> "off"]
  /\ entries = {}
  /\ life = 0
  /\ faults = 0
  /\ gap = [c \in Conns |-> 0]

Handle(c) == \/ Register(c) \/ Decide(c)
             \/ RemoveField(c) \/ CountFields(c) \/ DeleteHash(c)

Keep(c) == KeepChecks(c) \/ KeepWrites(c)

Next == \/ \E c \in Conns : \/ ArriveOnline(c) \/ Unregister(c) \/ FinalizeGrace(c)
                            \/ Handle(c) \/ Keep(c)
        \/ Tick \/ Crash \/ LoseHash

Spec == Init /\ [][Next]_vars

(* Handlers that can run and tickers do run, and time passes.  Nothing is  *)
(* assumed of clients (they need not arrive or leave) nor of faults.       *)
Fairness == /\ \A c \in Conns : WF_vars(Handle(c)) /\ WF_vars(Keep(c))
            /\ WF_vars(Tick)

FairSpec == Spec /\ Fairness

-----------------------------------------------------------------------------
(* Correctness. *)

Labels == {"new", "registering", "reading", "deciding",
           "removing", "counting", "deleting", "done"}

(* Types; the hash has a time to live exactly when it has fields.          *)
TypeOK ==
  /\ pc \in [Conns -> Labels]
  /\ hub \in [Conns -> {"out", "live", "grace"}]
  /\ replaced \in [Conns -> BOOLEAN]
  /\ keep \in [Conns -> {"off", "started", "idle", "due", "writing"}]
  /\ entries \subseteq Devices
  /\ life \in 0..TTL
  /\ life = 0 <=> entries = {}
  /\ faults \in 0..MaxFaults
  /\ gap \in [Conns -> Nat]

(* The invariant behind MissingIsShort: a live connection has a keeper,    *)
(* and has waited one interval for each failure and one for the beat that  *)
(* is now due.                                                             *)
GapInv ==
  \A c \in Conns :
    /\ hub[c] = "live" => keep[c] # "off"
    /\ gap[c] <= faults + (IF Beating(c) THEN 1 ELSE 0)
    /\ hub[c] # "live" => gap[c] = 0

(* Whatever order the commands of a reconnecting device take, and even if  *)
(* the device that left last deletes the whole hash (store_redis.go:157):  *)
(* the entry of a working connection is back after one interval, plus one  *)
(* for each fault (main.go:1321-1324 on MarkOnline against TouchOnline).   *)
MissingIsShort == \A c \in Conns : gap[c] <= 1 + faults

(* The invariant behind ExpiresOnlyDeserted: as long as there was no more  *)
(* than one fault, a hash that a live connection has put its entry in has  *)
(* most of its time to live before it (main.go:1321-1348).                 *)
Fresh(slack) == life = 0 \/ life >= TTL - slack

LifeInv ==
  \A c \in Conns :
    /\ pc[c] = "registering" /\ faults = 0 => Fresh(0)
    /\ hub[c] = "live" =>
         /\ keep[c] = "started" /\ faults = 0 => Fresh(0)
         /\ keep[c] = "idle" /\ faults <= 1   => Fresh(faults)
         /\ Beating(c) /\ faults = 0          => Fresh(1)

(* The hash never expires under a connection whose keeper has beaten: a    *)
(* third of the TTL leaves room for one fault (main.go:1321), if the TTL   *)
(* has three intervals at all: one of a second or two has not.             *)
ExpiresOnlyDeserted ==
  [][Tick /\ life = 1 /\ faults <= 1
       => \A c \in Conns : ~(hub[c] = "live" /\ keep[c] = "idle")]_vars

(* An account whose clients are all gone stops counting as online: by      *)
(* MarkOffline, or by the TTL if the server was killed, a command failed   *)
(* or a late keepOnline put an entry back (store_redis.go:19, 150-161).    *)
AccountGoesOffline ==
  <>[](\A d \in Devices : ~Served(d)) => <>[](entries = {})

(* Not so: store_redis.go:19 and config.default.yaml:69 say that the       *)
(* entries of a killed process expire and leave no ghost.  The TTL is that *)
(* of the whole hash, and any other device of the account renews it.       *)
GhostsExpire ==
  \A d \in Devices :
    <>[](\A c \in Conns : DeviceOf[c] = d => pc[c] \in {"new", "done"})
      => <>[](d \notin entries)
=============================================================================
