--------------------------- MODULE DeviceAdmission ---------------------------
(***************************************************************************)
(* Who may connect: the devices table of one account (store_device.go),    *)
(* the admission of a handshake (EnsureDeviceAllowed), and the commands of *)
(* administrators, who come by HTTP (admin_http.go) and by a Redis channel *)
(* read by one goroutine (main.go:1585-1646).                              *)
(*                                                                         *)
(* One action is one SQL statement, or one critical section of the hub, of *)
(* which only membership is kept (module Hub has the rest).  A definition  *)
(* X_Fault is X with a plausible bug.                                      *)
(***************************************************************************)
EXTENDS Integers, Sequences, FiniteSets

CONSTANTS
  Conns,       \* connections that may ever be made
  Devices,     \* devices of the account
  DeviceOf,    \* the device of a connection
  Requests,    \* commands that administrators may give
  Subscriber,  \* the goroutine that reads the admin channel
  MaxFaults    \* bound: failing statements and breaks of the subscription

Procs == Requests \cup {Subscriber}

ASSUME AdmissionAssumption ==
  /\ DeviceOf \in [Conns -> Devices]
  /\ Devices # {}
  /\ Subscriber \notin Requests
  /\ MaxFaults \in Nat

VARIABLES
  rows,       \* devices: "none" (no row), "enabled" or "disabled"
  pc,         \* the handler of a connection; "serving" to "grace" is in the hub
  overtaken,  \* history: its device was banned after it had been admitted
  unchecked,  \* history: it was admitted because the query failed
  cmd,        \* the command an administrator's request, or the subscriber, runs
  inbox,      \* commands received by the subscriber and not yet handled
  listening,  \* the subscription is up
  faults      \* faults so far

connVars  == <<pc, overtaken, unchecked>>
linkVars  == <<inbox, listening>>
vars == <<rows, connVars, cmd, linkVars, faults>>

Actions == {"disable", "enable", "delete", "kick_device", "kick_user"}

Goto(c, label) == pc' = [pc EXCEPT ![c] = label]

Failing == faults < MaxFaults /\ faults' = faults + 1

-----------------------------------------------------------------------------
(* The handshake. *)

UpsertDevice_Enables(c) ==
  /\ pc[c] = "new"
  /\ Goto(c, "checking")
  /\ rows' = [rows EXCEPT ![DeviceOf[c]] = "enabled"]
  /\ UNCHANGED <<overtaken, unchecked, cmd, linkVars, faults>>

(* A new device gets a row; a known one keeps its disabled flag.  The      *)
(* connection is not refused when this fails.                              *)
UpsertDevice(c) ==
  LET d == DeviceOf[c]
  IN /\ pc[c] = "new"
     /\ Goto(c, "checking")
     /\ \/ /\ rows' = [rows EXCEPT ![d] = IF @ = "none" THEN "enabled" ELSE @]
           /\ UNCHANGED faults
        \/ /\ Failing
           /\ UNCHANGED rows
     /\ UNCHANGED <<overtaken, unchecked, cmd, linkVars>>

(* IsDeviceDisabled: a missing row counts as allowed, and so does a query  *)
(* that fails.                                                             *)
CheckDisabled(c) ==
  /\ pc[c] = "checking"
  /\ \/ /\ Goto(c, IF rows[DeviceOf[c]] = "disabled" THEN "done" ELSE "registering")
        /\ UNCHANGED <<unchecked, faults>>
     \/ /\ Goto(c, "registering")
        /\ unchecked' = [unchecked EXCEPT ![c] = TRUE]
        /\ Failing
  /\ UNCHANGED <<rows, overtaken, cmd, linkVars>>

InHub(c) == pc[c] \in {"serving", "closing", "grace"}

Register_LiveOnly(c) ==
  /\ pc[c] = "registering"
  /\ pc' = [k \in Conns |-> IF k = c THEN "serving"
                            ELSE IF pc[k] = "serving" /\ DeviceOf[k] = DeviceOf[c]
                                 THEN "done" ELSE pc[k]]
  /\ UNCHANGED <<rows, overtaken, unchecked, cmd, linkVars, faults>>

(* hub.register: an earlier connection of the device leaves the hub. *)
Register(c) ==
  /\ pc[c] = "registering"
  /\ pc' = [k \in Conns |-> IF k = c THEN "serving"
                            ELSE IF InHub(k) /\ DeviceOf[k] = DeviceOf[c]
                                 THEN "done" ELSE pc[k]]
  /\ UNCHANGED <<rows, overtaken, unchecked, cmd, linkVars, faults>>

(* readPump ends by itself or because the socket was closed; the hub keeps *)
(* the connection until its grace has ended.  (How it was admitted matters *)
(* no more.)                                                               *)
Disconnect(c) ==
  /\ \/ pc[c] \in {"serving", "closing"} /\ Goto(c, "grace")
     \/ pc[c] = "grace" /\ Goto(c, "done")
  /\ overtaken' = [overtaken EXCEPT ![c] = FALSE]
  /\ unchecked' = [unchecked EXCEPT ![c] = FALSE]
  /\ UNCHANGED <<rows, cmd, linkVars, faults>>

-----------------------------------------------------------------------------
(* Commands. *)

NoCommand(label) == [action |-> "kick_user", dev |-> CHOOSE d \in Devices : TRUE,
                     pc |-> label]

First(action) == CASE action \in {"disable", "enable"} -> "setting"
                   [] action = "delete"                -> "looking"
                   [] OTHER                            -> "kicking"

Run(p, action, d) ==
  cmd' = [cmd EXCEPT ![p] = [action |-> action, dev |-> d, pc |-> First(action)]]

At(p, label) == cmd[p].pc = label

Move(p, label) ==
  cmd' = [cmd EXCEPT ![p] = IF label = "done" THEN NoCommand("done")
                                              ELSE [@ EXCEPT !.pc = label]]

(* An administrator's HTTP request. *)
ByHTTP(r, action, d) ==
  /\ At(r, "idle")
  /\ Run(r, action, d)
  /\ UNCHANGED <<rows, connVars, linkVars, faults>>

(* An administrator publishes; what is published while the subscription is *)
(* down is lost.                                                           *)
ByChannel(r, action, d) ==
  /\ At(r, "idle")
  /\ inbox' = IF listening THEN Append(inbox, [action |-> action, dev |-> d]) ELSE inbox
  /\ Move(r, "done")
  /\ UNCHANGED <<rows, connVars, listening, faults>>

(* The subscriber runs the callback for one message after the other. *)
Receive ==
  /\ inbox # <<>>
  /\ At(Subscriber, "done")
  /\ Run(Subscriber, Head(inbox).action, Head(inbox).dev)
  /\ inbox' = Tail(inbox)
  /\ UNCHANGED <<rows, connVars, listening, faults>>

Wanted(p) == IF cmd[p].action = "disable" THEN "disabled" ELSE "enabled"

AfterSetting(p) == IF cmd[p].action = "disable" THEN "kicking" ELSE "done"

SetStatus_NoKick(p) ==
  /\ At(p, "setting")
  /\ rows' = [rows EXCEPT ![cmd[p].dev] = IF @ = "none" THEN @ ELSE Wanted(p)]
  /\ Move(p, "done")
  /\ UNCHANGED <<connVars, linkVars, faults>>

(* UPDATE.  No row is affected when there is none, and when it already has *)
(* the value: then the row is looked for.                                  *)
SetStatus(p) ==
  LET d == cmd[p].dev
  IN /\ At(p, "setting")
     /\ IF rows[d] \in {"none", Wanted(p)}
        THEN /\ Move(p, "confirming")
             /\ UNCHANGED rows
        ELSE /\ Move(p, AfterSetting(p))
             /\ rows' = [rows EXCEPT ![d] = Wanted(p)]
     /\ UNCHANGED <<connVars, linkVars, faults>>

(* deviceExists; a device without a row is reported as not found. *)
ConfirmExists(p) ==
  /\ At(p, "confirming")
  /\ Move(p, IF rows[cmd[p].dev] = "none" THEN "done" ELSE AfterSetting(p))
  /\ UNCHANGED <<rows, connVars, linkVars, faults>>

(* deleteDeviceSafely looks whether the device is disabled, ... *)
LookDisabled(p) ==
  /\ At(p, "looking")
  /\ Move(p, IF rows[cmd[p].dev] = "disabled" THEN "kicking" ELSE "done")
  /\ UNCHANGED <<rows, connVars, linkVars, faults>>

(* The connections a command kicks. *)
Targets(p) == {c \in Conns : cmd[p].action = "kick_user" \/ DeviceOf[c] = cmd[p].dev}

(* kickDevice and kickUser close the connections in service, not those in  *)
(* grace.  (Hub collects them and closes them one by one; those that come  *)
(* in between are not kicked.)                                             *)
KickConns(p) ==
  /\ At(p, "kicking")
  /\ pc' = [c \in Conns |-> IF c \in Targets(p) /\ pc[c] = "serving"
                            THEN "closing" ELSE pc[c]]
  /\ overtaken' = [c \in Conns |-> \/ overtaken[c]
                                   \/ /\ cmd[p].action = "disable"
                                      /\ c \in Targets(p)
                                      /\ pc[c] = "registering"]
  /\ Move(p, IF cmd[p].action = "delete" THEN "deleting" ELSE "done")
  /\ UNCHANGED <<rows, unchecked, linkVars, faults>>

(* ... and deletes its row, whatever has happened to it since. *)
DeleteRow(p) ==
  LET d == cmd[p].dev
  IN /\ At(p, "deleting")
     /\ rows' = [rows EXCEPT ![d] = "none"]
     /\ Move(p, "done")
     /\ UNCHANGED <<connVars, linkVars, faults>>

(* A statement fails: the error is answered or logged, and no more done.   *)
FailCommand(p) ==
  /\ cmd[p].pc \in {"setting", "confirming", "looking", "deleting"}
  /\ Failing
  /\ Move(p, "done")
  /\ UNCHANGED <<rows, connVars, linkVars>>

(* The subscription breaks; what was received may go with it. *)
LoseLink ==
  /\ listening
  /\ Failing
  /\ listening' = FALSE
  /\ inbox' \in {inbox, <<>>}
  /\ UNCHANGED <<rows, connVars, cmd>>

Resubscribe ==
  /\ ~listening
  /\ listening' = TRUE
  /\ UNCHANGED <<rows, connVars, cmd, inbox, faults>>

-----------------------------------------------------------------------------
Init ==
  /\ rows = [d \in Devices |-> "none"]
  /\ pc = [c \in Conns |-> "new"]
  /\ overtaken = [c \in Conns |-> FALSE]
  /\ unchecked = [c \in Conns |-> FALSE]
  /\ cmd = [p \in Procs |-> NoCommand(IF p = Subscriber THEN "done" ELSE "idle")]
  /\ inbox = <<>>
  /\ listening = TRUE
  /\ faults = 0

Handshake(c) == UpsertDevice(c) \/ CheckDisabled(c) \/ Register(c)

Command(p) == \/ SetStatus(p) \/ ConfirmExists(p) \/ LookDisabled(p)
              \/ KickConns(p) \/ DeleteRow(p)

(* kick_user names no device. *)
Give(r) == \/ \E a \in Actions \ {"kick_user"}, d \in Devices :
                ByHTTP(r, a, d) \/ ByChannel(r, a, d)
           \/ LET d == NoCommand("idle").dev
              IN ByHTTP(r, "kick_user", d) \/ ByChannel(r, "kick_user", d)

Next == \/ \E c \in Conns : Handshake(c) \/ Disconnect(c)
        \/ \E r \in Requests : Give(r)
        \/ \E p \in Procs : Command(p) \/ FailCommand(p)
        \/ Receive \/ LoseLink \/ Resubscribe

Spec == Init /\ [][Next]_vars

-----------------------------------------------------------------------------
(* Correctness. *)

Commands == [action : Actions, dev : Devices,
             pc : {"idle", "setting", "confirming", "looking", "kicking", "deleting", "done"}]

(* Types; and a device has one connection in the hub at most, whatever its *)
(* others are doing (main.go:183-217).                                     *)
TypeOK ==
  /\ rows \in [Devices -> {"none", "enabled", "disabled"}]
  /\ pc \in [Conns -> {"new", "checking", "registering",
                       "serving", "closing", "grace", "done"}]
  /\ \A c, k \in Conns : InHub(c) /\ InHub(k) /\ DeviceOf[c] = DeviceOf[k] => c = k
  /\ overtaken \in [Conns -> BOOLEAN]
  /\ unchecked \in [Conns -> BOOLEAN]
  /\ cmd \in [Procs -> Commands]
  /\ inbox \in Seq([action : Actions, dev : Devices])
  /\ listening \in BOOLEAN
  /\ faults \in 0..MaxFaults

(* The device is being banned: its row says so, its connections are not    *)
(* yet closed.                                                             *)
BeingBanned(d) ==
  \E p \in Procs : cmd[p].dev = d /\ cmd[p].action = "disable" /\ At(p, "kicking")

(* A device that is disabled has no connection in service, once the        *)
(* command that disabled it has kicked it (admin_http.go:258-262,          *)
(* main.go:1612-1620): however handshakes, enabling, deletion and commands *)
(* by either way are interleaved, but for a handshake that was already     *)
(* past its check, and one whose check could not be made.                  *)
DisabledIsOffline ==
  \A c \in Conns :
    pc[c] = "serving" /\ rows[DeviceOf[c]] = "disabled" /\ ~BeingBanned(DeviceOf[c])
      => overtaken[c] \/ unchecked[c]

(* What ends a ban: a command that enables the device, or its deletion,    *)
(* after which it comes back as a new one (store_device.go:74, 318-320);   *)
(* never a handshake or an answer to another command.                      *)
BanEndsByCommand ==
  [][\A d \in Devices :
       rows[d] = "disabled" /\ rows'[d] # "disabled" =>
         \E p \in Procs : /\ cmd[p].dev = d
                          /\ At(p, IF rows'[d] = "none" THEN "deleting" ELSE "setting")
                          /\ cmd'[p].pc = "done"]_vars

(* Not so: admin_http.go:317 says that only a disabled device is deleted;  *)
(* it may be enabled between the check and the deletion.                   *)
DeletesOnlyDisabled ==
  [][\A d \in Devices : rows[d] # "none" /\ rows'[d] = "none"
                        => rows[d] = "disabled"]_vars
=============================================================================
