--------------------------- MODULE AdmissionProofs ---------------------------
(* What is proved of DeviceAdmission for any number of connections,        *)
(* devices, commands and faults.                                           *)
EXTENDS DeviceAdmission, TLAPS

Labels == {"new", "checking", "registering", "serving", "closing", "grace", "done"}

CommandLabels == {"idle", "setting", "confirming", "looking", "kicking", "deleting", "done"}

Statuses == {"none", "enabled", "disabled"}

-----------------------------------------------------------------------------
(* Types.                                                                  *)

(* A device has one connection in the hub at most. *)
OneInHub == \A c, k \in Conns : InHub(c) /\ InHub(k) /\ DeviceOf[c] = DeviceOf[k] => c = k

HistoryOK == overtaken \in [Conns -> BOOLEAN] /\ unchecked \in [Conns -> BOOLEAN]

Messages == [action : Actions, dev : Devices]

LinkOK == inbox \in Seq(Messages) /\ listening \in BOOLEAN

Typed ==
  /\ rows \in [Devices -> Statuses]
  /\ pc \in [Conns -> Labels] /\ OneInHub
  /\ HistoryOK
  /\ cmd \in [Procs -> Commands]
  /\ LinkOK
  /\ faults \in 0..MaxFaults

LEMMA TypedIsTypeOK == Typed <=> TypeOK
BY DEF Typed, TypeOK, OneInHub, HistoryOK, LinkOK, Messages, Labels, Statuses

LEMMA NoCommandType ==
  ASSUME NEW label \in CommandLabels
  PROVE  NoCommand(label) \in Commands /\ NoCommand(label).pc = label
BY AdmissionAssumption DEF NoCommand, Commands, Actions, CommandLabels

LEMMA InitTyped == Init => Typed
<1> SUFFICES ASSUME Init PROVE Typed
  OBVIOUS
<1>1. rows \in [Devices -> Statuses] /\ pc \in [Conns -> Labels] /\ OneInHub
  BY DEF Init, Statuses, Labels, OneInHub, InHub
<1>2. cmd \in [Procs -> Commands]
  BY NoCommandType DEF Init, CommandLabels
<1>3. HistoryOK /\ LinkOK /\ faults \in 0..MaxFaults
  BY AdmissionAssumption DEF Init, HistoryOK, LinkOK
<1> QED
  BY <1>1, <1>2, <1>3 DEF Init, Typed

(* What Run and Move do to the commands. *)
LEMMA RunIs ==
  ASSUME cmd \in [Procs -> Commands], NEW p \in Procs, NEW a \in Actions, NEW d \in Devices,
         Run(p, a, d)
  PROVE  /\ cmd' \in [Procs -> Commands]
         /\ cmd'[p].pc = First(a)
         /\ \A q \in Procs \ {p} : cmd'[q] = cmd[q]
<1>1. First(a) \in CommandLabels
  BY DEF First, CommandLabels
<1>2. [action |-> a, dev |-> d, pc |-> First(a)] \in Commands
  BY <1>1 DEF Commands, CommandLabels
<1> QED
  BY <1>2 DEF Run

LEMMA MoveIs ==
  ASSUME cmd \in [Procs -> Commands], NEW p \in Procs, NEW label \in CommandLabels,
         Move(p, label)
  PROVE  /\ cmd' \in [Procs -> Commands]
         /\ cmd'[p].pc = label
         /\ label # "done" => cmd'[p].action = cmd[p].action /\ cmd'[p].dev = cmd[p].dev
         /\ \A q \in Procs \ {p} : cmd'[q] = cmd[q]
<1>1. cmd[p] \in Commands
  OBVIOUS
<1> DEFINE o == [cmd[p] EXCEPT !.pc = label]
<1>2. o \in Commands /\ o.pc = label /\ o.action = cmd[p].action /\ o.dev = cmd[p].dev
  BY <1>1 DEF Commands, CommandLabels
<1> HIDE DEF o
<1>3. CASE label = "done"
  <2>1. cmd' = [cmd EXCEPT ![p] = NoCommand("done")]
    BY <1>3 DEF Move
  <2> QED
    BY <1>3, <2>1, NoCommandType
<1>4. CASE label # "done"
  <2>1. cmd' = [cmd EXCEPT ![p] = o]
    BY <1>4 DEF Move, o
  <2> QED
    BY <1>2, <1>4, <2>1
<1> QED
  BY <1>3, <1>4

(* Every step of a command is a Move to a label, and what that label is.   *)
LEMMA CommandMoves ==
  ASSUME Typed, NEW p \in Procs, Command(p) \/ FailCommand(p)
  PROVE  \E label \in CommandLabels :
           /\ Move(p, label)
           /\ label = "kicking" => At(p, "setting") \/ At(p, "confirming") \/ At(p, "looking")
           /\ KickConns(p) => label \in {"done", "deleting"}
<1> USE DEF CommandLabels, At, AfterSetting
<1>1. CASE SetStatus(p)
  BY <1>1 DEF SetStatus, KickConns
<1>2. CASE ConfirmExists(p)
  BY <1>2 DEF ConfirmExists, KickConns
<1>3. CASE LookDisabled(p)
  BY <1>3 DEF LookDisabled, KickConns
<1>4. CASE KickConns(p)
  BY <1>4 DEF KickConns
<1>5. CASE DeleteRow(p)
  BY <1>5 DEF DeleteRow, KickConns
<1>6. CASE FailCommand(p)
  BY <1>6 DEF FailCommand, KickConns
<1> QED
  BY <1>1, <1>2, <1>3, <1>4, <1>5, <1>6 DEF Command

LEMMA StepTyped == Typed /\ [Next]_vars => Typed'
<1> SUFFICES ASSUME Typed, [Next]_vars PROVE Typed'
  OBVIOUS
<1> USE AdmissionAssumption
<1>0. /\ rows \in [Devices -> Statuses]
      /\ cmd \in [Procs -> Commands] /\ pc \in [Conns -> Labels]
  BY DEF Typed
<1>t. UNCHANGED rows => rows' \in [Devices -> Statuses]
  BY DEF Typed
<1>o. (\A k \in Conns : InHub(k)' => InHub(k)) => OneInHub'
  BY DEF Typed, OneInHub
<1>k. UNCHANGED linkVars => LinkOK'
  BY DEF linkVars, Typed, LinkOK
<1>f. (UNCHANGED faults \/ Failing) => faults' \in 0..MaxFaults
  BY DEF Failing, Typed
<1>h. UNCHANGED connVars => pc' \in [Conns -> Labels] /\ OneInHub' /\ HistoryOK'
  BY <1>o DEF connVars, Typed, HistoryOK, InHub
<1>1. ASSUME NEW c \in Conns, UpsertDevice(c) PROVE Typed'
  <2>1. rows' \in [Devices -> Statuses]
    BY <1>0, <1>1 DEF UpsertDevice, Statuses
  <2>2. pc' \in [Conns -> Labels] /\ \A k \in Conns : InHub(k)' => InHub(k)
    BY <1>0, <1>1 DEF UpsertDevice, Goto, Labels, InHub
  <2>3. UNCHANGED <<overtaken, unchecked, cmd, linkVars>> /\ (UNCHANGED faults \/ Failing)
    BY <1>1 DEF UpsertDevice
  <2> QED
    BY <2>1, <2>2, <2>3, <1>0, <1>k, <1>f, <1>o DEF Typed, HistoryOK
<1>2. ASSUME NEW c \in Conns, CheckDisabled(c) PROVE Typed'
  <2>1. pc' \in [Conns -> Labels] /\ \A k \in Conns : InHub(k)' => InHub(k)
    <3>1. PICK label \in {"done", "registering"} : Goto(c, label)
      BY <1>2 DEF CheckDisabled
    <3> QED
      BY <1>0, <3>1 DEF Goto, Labels, InHub
  <2>2. unchecked' \in [Conns -> BOOLEAN]
    BY <1>2 DEF CheckDisabled, Typed, HistoryOK
  <2>3. UNCHANGED <<rows, overtaken, cmd, linkVars>> /\ (UNCHANGED faults \/ Failing)
    BY <1>2 DEF CheckDisabled
  <2> QED
    BY <2>1, <2>2, <2>3, <1>0, <1>o, <1>t, <1>k, <1>f DEF Typed, HistoryOK
<1>3. ASSUME NEW c \in Conns, Register(c) \/ Disconnect(c) PROVE Typed'
  <2>1. pc' \in [Conns -> Labels]
    BY <1>0, <1>3 DEF Register, Disconnect, Goto, Labels
  <2>4. OneInHub'
    <3>1. CASE Register(c)
      <4>1. \A k \in Conns : InHub(k)' => k = c \/ (InHub(k) /\ DeviceOf[k] # DeviceOf[c])
        BY <1>0, <3>1 DEF Register, InHub
      <4> QED
        BY <4>1 DEF Typed, OneInHub
    <3>2. CASE Disconnect(c)
      <4>1. \A k \in Conns : InHub(k)' => InHub(k)
        BY <1>0, <3>2 DEF Disconnect, Goto, InHub
      <4> QED
        BY <4>1, <1>o
    <3> QED
      BY <1>3, <3>1, <3>2
  <2>2. HistoryOK'
    BY <1>3 DEF Register, Disconnect, Typed, HistoryOK
  <2>3. UNCHANGED <<rows, cmd, linkVars, faults>>
    BY <1>3 DEF Register, Disconnect
  <2> QED
    BY <2>1, <2>2, <2>3, <2>4, <1>0, <1>t, <1>k, <1>f DEF Typed
<1>4. ASSUME NEW r \in Requests, NEW a \in Actions, NEW d \in Devices,
             ByHTTP(r, a, d) \/ ByChannel(r, a, d)
      PROVE  Typed'
  <2>0. r \in Procs
    BY DEF Procs
  <2>1. CASE ByHTTP(r, a, d)
    <3>1. cmd' \in [Procs -> Commands]
      BY <1>0, <2>0, <2>1, RunIs DEF ByHTTP
    <3> QED
      BY <2>1, <3>1, <1>t, <1>k, <1>f, <1>h DEF ByHTTP, Typed
  <2>2. CASE ByChannel(r, a, d)
    <3>1. cmd' \in [Procs -> Commands]
      BY <1>0, <2>0, <2>2, MoveIs DEF ByChannel, CommandLabels
    <3>2. LinkOK'
      <4>1. [action |-> a, dev |-> d] \in Messages
        BY DEF Messages
      <4>2. Append(inbox, [action |-> a, dev |-> d]) \in Seq(Messages)
        BY <4>1 DEF Typed, LinkOK
      <4> QED
        BY <2>2, <4>2 DEF ByChannel, Typed, LinkOK
    <3> QED
      BY <2>2, <3>1, <3>2, <1>t, <1>f, <1>h DEF ByChannel, Typed
  <2> QED
    BY <1>4, <2>1, <2>2
<1>5. ASSUME NEW r \in Requests, Give(r) PROVE Typed'
  <2>1. NoCommand("idle").dev \in Devices
    BY DEF NoCommand
  <2>2. "kick_user" \in Actions
    BY DEF Actions
  <2> QED
    BY <1>4, <1>5, <2>1, <2>2 DEF Give
<1>6. ASSUME NEW p \in Procs, Command(p) \/ FailCommand(p) PROVE Typed'
  <2>0. cmd[p].dev \in Devices
    BY <1>0 DEF Commands
  <2>1. cmd' \in [Procs -> Commands]
    BY <1>0, <1>6, CommandMoves, MoveIs
  <2>2. CASE SetStatus(p)
    <3>1. rows' \in [Devices -> Statuses]
      <4>1. Wanted(p) \in Statuses
        BY DEF Wanted, Statuses
      <4> QED
        BY <1>0, <2>2, <4>1 DEF SetStatus
    <3> QED
      BY <2>1, <2>2, <3>1, <1>k, <1>f, <1>h DEF SetStatus, Typed
  <2>3. CASE ConfirmExists(p) \/ LookDisabled(p)
    BY <2>1, <2>3, <1>t, <1>k, <1>f, <1>h DEF ConfirmExists, LookDisabled, Typed
  <2>4. CASE KickConns(p)
    <3>1. pc' \in [Conns -> Labels] /\ \A k \in Conns : InHub(k)' => InHub(k)
      BY <1>0, <2>4 DEF KickConns, Labels, InHub
    <3>2. HistoryOK'
      BY <2>4 DEF KickConns, Typed, HistoryOK
    <3> QED
      BY <2>1, <2>4, <3>1, <3>2, <1>o, <1>t, <1>k, <1>f DEF KickConns, Typed
  <2>5. CASE DeleteRow(p)
    <3>1. rows' \in [Devices -> Statuses]
      BY <1>0, <2>0, <2>5 DEF DeleteRow, Statuses
    <3> QED
      BY <2>1, <2>5, <3>1, <1>k, <1>f, <1>h DEF DeleteRow, Typed
  <2>6. CASE FailCommand(p)
    BY <2>1, <2>6, <1>t, <1>k, <1>f, <1>h DEF FailCommand, Typed
  <2> QED
    BY <1>6, <2>2, <2>3, <2>4, <2>5, <2>6 DEF Command
<1>7. CASE Receive
  <2>0. Subscriber \in Procs
    BY DEF Procs
  <2>1. /\ Head(inbox).action \in Actions /\ Head(inbox).dev \in Devices
        /\ Tail(inbox) \in Seq(Messages)
    <3>1. inbox \in Seq(Messages) /\ inbox # <<>>
      BY <1>7 DEF Receive, Typed, LinkOK
    <3>2. Head(inbox) \in Messages /\ Tail(inbox) \in Seq(Messages)
      BY <3>1
    <3> QED
      BY <3>2 DEF Messages
  <2>2. cmd' \in [Procs -> Commands]
    BY <1>0, <1>7, <2>0, <2>1, RunIs DEF Receive
  <2>3. LinkOK'
    BY <1>7, <2>1 DEF Receive, Typed, LinkOK
  <2> QED
    BY <1>7, <2>2, <2>3, <1>t, <1>f, <1>h DEF Receive, Typed
<1>8. CASE LoseLink \/ Resubscribe
  <2>1. LinkOK'
    <3>1. inbox' \in {inbox, <<>>} /\ listening' \in BOOLEAN
      BY <1>8 DEF LoseLink, Resubscribe
    <3>2. inbox \in Seq(Messages) /\ <<>> \in Seq(Messages)
      BY DEF Typed, LinkOK
    <3> QED
      BY <3>1, <3>2 DEF LinkOK
  <2>2. UNCHANGED <<rows, connVars, cmd>> /\ (UNCHANGED faults \/ Failing)
    BY <1>8 DEF LoseLink, Resubscribe
  <2> QED
    BY <1>0, <2>1, <2>2, <1>t, <1>f, <1>h DEF Typed
<1>9. CASE UNCHANGED vars
  BY <1>0, <1>9, <1>t, <1>k, <1>f, <1>h DEF vars, Typed
<1> QED
  BY <1>1, <1>2, <1>3, <1>5, <1>6, <1>7, <1>8, <1>9 DEF Next, Handshake

(* Every reachable state is well typed, and no device ever has two         *)
(* connections in the hub, whatever handshakes and kicks are interleaved   *)
(* (main.go:183-217).                                                      *)
THEOREM TypeCorrect == Spec => []TypeOK
<1>1. Spec => []Typed
  BY InitTyped, StepTyped, PTL DEF Spec
<1> QED
  BY <1>1, TypedIsTypeOK, PTL

-----------------------------------------------------------------------------
(* Bans.                                                                   *)

(* The invariant behind DisabledIsOffline: a connection past its check may *)
(* belong to a disabled device only while that is being banned, unless the *)
(* ban overtook it or it was never checked.                                *)
BanReaches ==
  \A c \in Conns :
    /\ pc[c] \in {"registering", "serving"}
    /\ rows[DeviceOf[c]] = "disabled"
    /\ ~BeingBanned(DeviceOf[c])
    => overtaken[c] \/ unchecked[c]

(* The command of a device that is being banned goes on, except by kicking. *)
LEMMA BanGoesOn ==
  ASSUME Typed, [Next]_vars, NEW d \in Devices, BeingBanned(d)
  PROVE  \/ BeingBanned(d)'
         \/ \E p \in Procs : KickConns(p) /\ cmd[p].dev = d /\ cmd[p].action = "disable"
<1>1. PICK p \in Procs : cmd[p].dev = d /\ cmd[p].action = "disable" /\ cmd[p].pc = "kicking"
  BY DEF BeingBanned, At
<1>2. CASE cmd'[p] = cmd[p]
  BY <1>1, <1>2 DEF BeingBanned, At
<1>3. ASSUME NEW q \in Procs, Command(q) \/ FailCommand(q)
      PROVE  cmd'[p] = cmd[p] \/ KickConns(p)
  <2>1. cmd \in [Procs -> Commands]
    BY DEF Typed
  <2>2. CASE q # p
    BY <1>3, <2>1, <2>2, CommandMoves, MoveIs
  <2>3. CASE q = p
    BY <1>1, <1>3, <2>3 DEF Command, SetStatus, ConfirmExists, LookDisabled, DeleteRow,
       FailCommand, At
  <2> QED
    BY <2>2, <2>3
<1>4. ASSUME NEW r \in Requests, Give(r) PROVE cmd'[p] = cmd[p]
  <2>1. cmd[r].pc = "idle"
    BY <1>4 DEF Give, ByHTTP, ByChannel, At
  <2>2. r # p
    BY <1>1, <2>1
  <2> QED
    BY <1>4, <2>2 DEF Give, ByHTTP, ByChannel, Run, Move, Typed
<1>5. CASE Receive
  <2>1. Subscriber # p
    BY <1>1, <1>5 DEF Receive, At
  <2> QED
    BY <1>2, <1>5, <2>1 DEF Receive, Run, Typed
<1>6. CASE \/ \E c \in Conns : Handshake(c) \/ Disconnect(c)
           \/ LoseLink \/ Resubscribe \/ UNCHANGED vars
  BY <1>2, <1>6 DEF Handshake, UpsertDevice, CheckDisabled, Register, Disconnect, LoseLink,
     Resubscribe, vars
<1> QED
  BY <1>1, <1>2, <1>3, <1>4, <1>5, <1>6 DEF Next

(* A row becomes disabled only by a command, which then kicks.             *)
LEMMA BanBegins ==
  ASSUME Typed, [Next]_vars, NEW d \in Devices, rows[d] # "disabled", rows'[d] = "disabled"
  PROVE  BeingBanned(d)' /\ UNCHANGED connVars
<1>0. rows \in [Devices -> Statuses] /\ cmd \in [Procs -> Commands]
  BY DEF Typed
<1>1. ASSUME NEW p \in Procs, SetStatus(p) PROVE BeingBanned(d)' /\ UNCHANGED connVars
  <2>1. cmd[p].dev \in Devices
    BY <1>0 DEF Commands
  <2>2. rows' = [rows EXCEPT ![cmd[p].dev] = Wanted(p)] /\ Move(p, AfterSetting(p))
    BY <1>1 DEF SetStatus
  <2>3. cmd[p].dev = d /\ cmd[p].action = "disable"
    BY <1>0, <2>1, <2>2 DEF Wanted
  <2>4. Move(p, "kicking")
    BY <2>2, <2>3 DEF AfterSetting
  <2>5. cmd'[p].dev = d /\ cmd'[p].action = "disable" /\ cmd'[p].pc = "kicking"
    BY <1>0, <2>3, <2>4, MoveIs DEF CommandLabels
  <2> QED
    BY <1>1, <2>5 DEF SetStatus, BeingBanned, At
<1>2. ASSUME NEW p \in Procs, DeleteRow(p) PROVE FALSE
  BY <1>0, <1>2 DEF DeleteRow
<1>3. ASSUME NEW c \in Conns, UpsertDevice(c) PROVE FALSE
  BY <1>0, <1>3 DEF UpsertDevice
<1>4. \/ \E p \in Procs : SetStatus(p) \/ DeleteRow(p)
      \/ \E c \in Conns : UpsertDevice(c)
  <2>1. ASSUME UNCHANGED rows PROVE FALSE
    BY <2>1
  <2>2. ASSUME NEW p \in Procs, Command(p) \/ FailCommand(p)
        PROVE  SetStatus(p) \/ DeleteRow(p)
    BY <2>1, <2>2 DEF Command, ConfirmExists, LookDisabled, KickConns, FailCommand
  <2>3. ASSUME NEW c \in Conns, Handshake(c) \/ Disconnect(c) PROVE UpsertDevice(c)
    BY <2>1, <2>3 DEF Handshake, CheckDisabled, Register, Disconnect
  <2>4. ASSUME NEW r \in Requests, Give(r) PROVE FALSE
    BY <2>1, <2>4 DEF Give, ByHTTP, ByChannel
  <2>5. ASSUME Receive \/ LoseLink \/ Resubscribe \/ UNCHANGED vars PROVE FALSE
    BY <2>1, <2>5 DEF Receive, LoseLink, Resubscribe, vars
  <2> QED
    BY <2>2, <2>3, <2>4, <2>5 DEF Next
<1> QED
  BY <1>1, <1>2, <1>3, <1>4

(* How a connection comes to be past its check.                            *)
LEMMA PastCheck ==
  ASSUME Typed, [Next]_vars, NEW c \in Conns, pc'[c] \in {"registering", "serving"}
  PROVE  \/ /\ pc[c] \in {"registering", "serving"}
            /\ overtaken[c] => overtaken'[c]
            /\ unchecked[c] => unchecked'[c]
         \/ CheckDisabled(c)
<1> DEFINE Goal == \/ /\ pc[c] \in {"registering", "serving"}
                      /\ overtaken[c] => overtaken'[c]
                      /\ unchecked[c] => unchecked'[c]
                   \/ CheckDisabled(c)
<1> SUFFICES Goal
  OBVIOUS
<1>0. /\ pc \in [Conns -> Labels]
      /\ overtaken \in [Conns -> BOOLEAN] /\ unchecked \in [Conns -> BOOLEAN]
  BY DEF Typed, HistoryOK
<1>1. CASE UNCHANGED connVars
  BY <1>1 DEF connVars
<1>2. ASSUME NEW k \in Conns, Handshake(k) \/ Disconnect(k) PROVE Goal
  <2>1. CASE UpsertDevice(k)
    BY <1>0, <2>1 DEF UpsertDevice, Goto
  <2>2. CASE CheckDisabled(k)
    BY <1>0, <2>2 DEF CheckDisabled, Goto
  <2>3. CASE Register(k)
    BY <1>0, <2>3 DEF Register
  <2>4. CASE Disconnect(k)
    BY <1>0, <2>4 DEF Disconnect, Goto
  <2> QED
    BY <1>2, <2>1, <2>2, <2>3, <2>4 DEF Handshake
<1>3. ASSUME NEW p \in Procs, Command(p) \/ FailCommand(p) PROVE Goal
  <2>1. CASE KickConns(p)
    BY <1>0, <2>1 DEF KickConns
  <2>2. CASE ~KickConns(p)
    BY <1>1, <1>3, <2>2 DEF Command, SetStatus, ConfirmExists, LookDisabled, DeleteRow,
       FailCommand
  <2> QED
    BY <2>1, <2>2
<1>4. ASSUME NEW r \in Requests, Give(r) PROVE Goal
  BY <1>1, <1>4 DEF Give, ByHTTP, ByChannel
<1>5. CASE Receive \/ LoseLink \/ Resubscribe \/ UNCHANGED vars
  BY <1>1, <1>5 DEF Receive, LoseLink, Resubscribe, vars
<1> QED
  BY <1>2, <1>3, <1>4, <1>5 DEF Next

LEMMA StepBan == Typed /\ BanReaches /\ [Next]_vars => BanReaches'
<1> SUFFICES ASSUME Typed, BanReaches, [Next]_vars, NEW c \in Conns,
                    pc'[c] \in {"registering", "serving"},
                    rows'[DeviceOf[c]] = "disabled",
                    ~BeingBanned(DeviceOf[c])'
             PROVE  overtaken'[c] \/ unchecked'[c]
  BY DEF BanReaches, BeingBanned, At
<1> DEFINE d == DeviceOf[c]
<1>0. d \in Devices
  BY AdmissionAssumption
<1>1. rows[d] = "disabled"
  BY <1>0, BanBegins
<1>2. CASE CheckDisabled(c)
  <2>1. pc'[c] = "registering" => unchecked'[c]
    BY <1>1, <1>2 DEF CheckDisabled, Goto, Typed, Labels, HistoryOK
  <2>2. pc'[c] # "serving"
    BY <1>2 DEF CheckDisabled, Goto, Typed
  <2> QED
    BY <2>1, <2>2
<1>3. CASE /\ pc[c] \in {"registering", "serving"}
           /\ overtaken[c] => overtaken'[c]
           /\ unchecked[c] => unchecked'[c]
  <2>1. CASE ~BeingBanned(d)
    BY <1>1, <1>3, <2>1 DEF BanReaches
  <2>2. CASE BeingBanned(d)
    <3>1. PICK p \in Procs : KickConns(p) /\ cmd[p].dev = d /\ cmd[p].action = "disable"
      BY <1>0, <2>2, BanGoesOn
    <3>2. c \in Targets(p)
      BY <3>1 DEF Targets
    <3>3. pc[c] # "serving"
      BY <3>1, <3>2 DEF KickConns
    <3> QED
      BY <1>3, <3>1, <3>2, <3>3 DEF KickConns
  <2> QED
    BY <2>1, <2>2
<1> QED
  BY <1>2, <1>3, PastCheck

(* A disabled device has no connection in service once the command that    *)
(* disabled it has kicked it, whatever handshakes and commands of any      *)
(* number of administrators are interleaved (admin_http.go:258-262).       *)
THEOREM BansTakeEffect == Spec => []DisabledIsOffline
<1>1. Init => BanReaches
  BY DEF Init, BanReaches
<1>2. Spec => []Typed
  BY InitTyped, StepTyped, PTL DEF Spec
<1>3. BanReaches => DisabledIsOffline
  BY DEF BanReaches, DisabledIsOffline
<1> QED
  BY <1>1, <1>2, <1>3, StepBan, PTL DEF Spec

LEMMA StepBanEnds ==
  ASSUME Typed, [Next]_vars
  PROVE  \A d \in Devices :
           rows[d] = "disabled" /\ rows'[d] # "disabled" =>
             \E p \in Procs : /\ cmd[p].dev = d
                              /\ At(p, IF rows'[d] = "none" THEN "deleting" ELSE "setting")
                              /\ cmd'[p].pc = "done"
<1> SUFFICES ASSUME NEW d \in Devices, rows[d] = "disabled", rows'[d] # "disabled"
             PROVE  \E p \in Procs : /\ cmd[p].dev = d
                                     /\ At(p, IF rows'[d] = "none" THEN "deleting" ELSE "setting")
                                     /\ cmd'[p].pc = "done"
  OBVIOUS
<1>0. rows \in [Devices -> Statuses] /\ cmd \in [Procs -> Commands]
  BY DEF Typed
<1>1. ASSUME UNCHANGED rows PROVE FALSE
  BY <1>1
<1>2. ASSUME NEW p \in Procs, SetStatus(p)
      PROVE  cmd[p].dev = d /\ rows'[d] = "enabled" /\ At(p, "setting") /\ cmd'[p].pc = "done"
  <2>1. cmd[p].dev \in Devices
    BY <1>0 DEF Commands
  <2>2. rows' = [rows EXCEPT ![cmd[p].dev] = Wanted(p)] /\ Move(p, AfterSetting(p))
    BY <1>2 DEF SetStatus
  <2>3. cmd[p].dev = d /\ cmd[p].action # "disable"
    BY <1>0, <2>1, <2>2 DEF Wanted
  <2>4. Move(p, "done")
    BY <2>2, <2>3 DEF AfterSetting
  <2> QED
    BY <1>0, <1>2, <2>2, <2>3, <2>4, MoveIs DEF CommandLabels, SetStatus, Wanted
<1>3. ASSUME NEW p \in Procs, DeleteRow(p)
      PROVE  cmd[p].dev = d /\ rows'[d] = "none" /\ At(p, "deleting") /\ cmd'[p].pc = "done"
  BY <1>0, <1>3, MoveIs DEF DeleteRow, CommandLabels
<1>4. ASSUME NEW p \in Procs, Command(p) \/ FailCommand(p) PROVE SetStatus(p) \/ DeleteRow(p)
  BY <1>1, <1>4 DEF Command, ConfirmExists, LookDisabled, KickConns, FailCommand
<1>5. ASSUME NEW c \in Conns, Handshake(c) \/ Disconnect(c) PROVE FALSE
  BY <1>0, <1>1, <1>5
  DEF Handshake, UpsertDevice, CheckDisabled, Register, Disconnect
<1>6. ASSUME NEW r \in Requests, Give(r) PROVE FALSE
  BY <1>1, <1>6 DEF Give, ByHTTP, ByChannel
<1>7. ASSUME Receive \/ LoseLink \/ Resubscribe \/ UNCHANGED vars PROVE FALSE
  BY <1>1, <1>7 DEF Receive, LoseLink, Resubscribe, vars
<1>8. PICK p \in Procs : SetStatus(p) \/ DeleteRow(p)
  BY <1>4, <1>5, <1>6, <1>7 DEF Next
<1> QED
  BY <1>2, <1>3, <1>8

(* Only a command that enables the device, or its deletion, ends a ban     *)
(* (store_device.go:74, 318-320): no handshake and no failure does.        *)
THEOREM BansEndByCommand == Spec => BanEndsByCommand
<1>1. Spec => []Typed
  BY InitTyped, StepTyped, PTL DEF Spec
<1> QED
  BY <1>1, StepBanEnds, PTL DEF Spec, BanEndsByCommand
=============================================================================
