-------------------------------- MODULE Hub --------------------------------
(***************************************************************************)
(* The in-memory connection hub of src/main.go: registration of WebSocket  *)
(* connections, replacement of stale ones, the offline grace period with   *)
(* its timer, presence lists, routing of frames and the bounded send       *)
(* queues drained by writePump.                                            *)
(*                                                                         *)
(* A connection is the handler goroutine wsHandler/register/readPump       *)
(* (program counter pc), its writePump goroutine (wp) and, once it broke,  *)
(* its grace timer goroutine (timer).  One action is one critical section  *)
(* of Hub.mu, or one step outside the lock.  A device stands for one       *)
(* (user_id, device_id) pair; a connection identifier is used once.        *)
(*                                                                         *)
(* A definition X_Fault is X with a plausible bug.  No action refers to    *)
(* it: it stands in for X to see that a property notices.                  *)
(***************************************************************************)
EXTENDS Integers, Sequences, FiniteSets

CONSTANTS
  Conns,      \* connections that may ever be made
  Devices,    \* (user_id, device_id) pairs
  Users,      \* accounts
  DeviceOf,   \* the device of a connection
  Owner,      \* the account of a device
  RoleOf,     \* "pc" or "mobile", per connection
  OnlineAt,   \* creation time of a connection, only compared (main.go:1278)
  Names,      \* device names
  Requests,   \* HTTP and admin requests (rename, push, kick) that may be made
  QueueCap,   \* capacity of Client.send (SendQueueSize)
  MaxFrames   \* bound: data frames and pings that are read in all

ASSUME ConstantsAssumption ==
  /\ Devices # {} /\ Names # {}
  /\ {"server", "http-push"} \cap Conns = {}
  /\ DeviceOf \in [Conns -> Devices]
  /\ Owner \in [Devices -> Users]
  /\ RoleOf \in [Conns -> {"pc", "mobile"}]
  /\ OnlineAt \in [Conns -> Nat]
  /\ QueueCap \in Nat \ {0}
  /\ MaxFrames \in Nat

VARIABLES
  pc,        \* where the handler goroutine of a connection is
  clients,   \* Hub.clients: connections in the hub, all users together
  replaced,  \* Client.replaced
  grace,     \* Client.grace
  timer,     \* the grace timer and its finalizeGrace goroutine
  name,      \* Client.name
  stale,     \* register's local list of connections still to be closed
  silent,    \* register's local replacedGrace
  snap,      \* the list sendPresenceTo has built and not yet sent
  frame,     \* the type of the frame readPump has read and not yet routed
  nread,     \* frames read so far, of all connections (for MaxFrames)
  chan,      \* Client.send: "open" or "closed"
  queue,     \* messages buffered in Client.send
  wp,        \* the writePump goroutine
  sock,      \* the socket: "up", "dead" (peer gone, unnoticed), "closed"
  told,      \* the last presence list put in the queue (see TellList)
  lost,      \* the presence list sent last met a full queue and was dropped
  overtaken, \* a newer list was sent before the one built for a silent return
  panicked,  \* a send on a closed channel happened
  dbName,    \* devices.name in MySQL
  req        \* progress of the HTTP and admin requests

connVars  == <<stale, silent, snap, frame, nread>>
hubVars   == <<clients, replaced, grace, timer, name>>
chanVars  == <<chan, queue, panicked>>
toldVars  == <<told, lost, overtaken>>
otherVars == <<dbName, req>>
vars == <<pc, connVars, hubVars, chanVars, toldVars, wp, sock, otherVars>>

-----------------------------------------------------------------------------
(* The data. *)

Forwarded == {"notify_pc", "notify_mobile", "notify_all"}

Entries == [conn : Conns, name : Names]

Messages == [type : Forwarded \cup {"presence", "pong"},
             from : Conns \cup {"server", "http-push"}]

Presence       == [type |-> "presence", from |-> "server"]
Pong           == [type |-> "pong", from |-> "server"]
Frame(t, from) == [type |-> t, from |-> from]

RequestStates ==
  [pc : {"idle", "renaming", "announcing", "kicking", "done"},
   dev : Devices, name : Names, targets : SUBSET Conns]

(* A request without arguments: not started, or done. *)
NoRequest(label) == [pc |-> label, dev |-> CHOOSE d \in Devices : TRUE,
                     name |-> CHOOSE n \in Names : TRUE, targets |-> {}]

UserOf(c) == Owner[DeviceOf[c]]

SameDevice(c, k) == DeviceOf[c] = DeviceOf[k]

Group_EveryUser(u) == clients

(* h.clients[u] *)
Group(u) == {c \in clients : UserOf(c) = u}

Live_WithGrace(u) == Group(u)

(* The members of a group that may receive: those outside their grace. *)
Live(u) == {c \in Group(u) : ~grace[c]}

(* The roles a message type is delivered to; unknown types go to everyone. *)
TargetRoles(t) == CASE t = "notify_pc"     -> {"pc"}
                    [] t = "notify_mobile" -> {"mobile"}
                    [] OTHER               -> {"pc", "mobile"}

Superseded_GraceOnly(c) ==
  {k \in Group(UserOf(c)) : SameDevice(k, c) /\ grace[k]}
Superseded_LiveOnly(c) ==
  {k \in Group(UserOf(c)) : SameDevice(k, c) /\ ~grace[k]}
Superseded_AnyDevice(c) == Group(UserOf(c))

(* The connections a new one of the same device takes the place of. *)
Superseded(c) == {k \in Group(UserOf(c)) : SameDevice(k, c)}

TimersStopped_WholeHub(old) ==
  [k \in Conns |-> IF timer[k] = "armed" THEN "none" ELSE timer[k]]

(* Stop on the timers of those connections: it does not take back a timer  *)
(* that has fired and whose finalizeGrace waits for the lock.              *)
TimersStopped(old) ==
  [k \in Conns |-> IF k \in old /\ timer[k] = "armed" THEN "none" ELSE timer[k]]

(* One connection per device: a live one before a grace one, then the one  *)
(* created last.                                                           *)
Outranks(c, k) == IF grace[c] = grace[k] THEN OnlineAt[c] > OnlineAt[k]
                                         ELSE ~grace[c]

Dedup(S) == {c \in S : \A k \in S \ {c} : SameDevice(c, k) => Outranks(c, k)}

(* The presence list of a user: a connection stands for its platform, ip,  *)
(* online_at and capabilities, which never change; only its name can.      *)
Listing(u) == {[conn |-> c, name |-> name[c]] : c \in Dedup(Group(u))}

Receivers_WithGrace(u) == Dedup(Group(u))

(* Those who are sent it: one connection per device, none in grace. *)
Receivers(u) == {c \in Dedup(Group(u)) : ~grace[c]}

-----------------------------------------------------------------------------
(* Helpers shared by the actions. *)

Goto(c, label) == pc' = [pc EXCEPT ![c] = label]

HasRoom_OffByOne(k) == Len(queue[k]) <= QueueCap

(* The buffered channel of capacity SendQueueSize is not full. *)
HasRoom(k) == Len(queue[k]) < QueueCap

(* The non-blocking send of select/default: dropped when the queue is full; *)
(* on a closed channel Go panics.                                           *)
Send(receivers, msg) ==
  /\ queue' = [k \in Conns |-> IF k \in receivers /\ HasRoom(k)
                              THEN Append(queue[k], msg) ELSE queue[k]]
  /\ panicked' = (panicked \/ \E k \in receivers : chan[k] = "closed")
  /\ UNCHANGED chan

(* Sending a presence list.  The queue is FIFO, so that the list a client  *)
(* ends up with is the one put in its queue last: told keeps it, and the   *)
(* queue only its place.  lost is the "presence dropped" of the log.       *)
TellList(receivers, list) ==
  /\ Send(receivers, Presence)
  /\ told' = [k \in Conns |-> IF k \in receivers /\ HasRoom(k)
                             THEN list ELSE told[k]]
  /\ lost' = [k \in Conns |-> IF k \in receivers THEN ~HasRoom(k) ELSE lost[k]]

(* broadcastPresence holds the read lock while it builds and sends.  It     *)
(* overtakes a list that is already built for one of its receivers.        *)
BroadcastPresence(u) ==
  /\ TellList(Receivers(u), Listing(u))
  /\ overtaken' = [k \in Conns |-> IF k \in Receivers(u) THEN pc[k] = "sending"
                                                         ELSE overtaken[k]]

(* register has returned: writePump and readPump start. *)
StartReading(c) == /\ Goto(c, "reading")
                   /\ wp' = [wp EXCEPT ![c] = "running"]

AfterClosing(c, quiet) == IF quiet THEN "snapshot" ELSE "announcing"

-----------------------------------------------------------------------------
(* The handler goroutine. *)

(* wsHandler up to the new Client.  Its name is the saved one; or, when    *)
(* the lookup fails or finds none, whatever the client reports.            *)
Handshake(c) ==
  /\ pc[c] = "new"
  /\ Goto(c, "registering")
  /\ \E found \in BOOLEAN, reported \in Names :
       name' = [name EXCEPT ![c] = IF found THEN dbName[DeviceOf[c]] ELSE reported]
  /\ sock' = [sock EXCEPT ![c] = "up"]
  /\ chan' = [chan EXCEPT ![c] = "open"]
  /\ UNCHANGED <<connVars, clients, replaced, grace, timer,
                 queue, panicked, wp, toldVars, otherVars>>

(* The locked part of register: every connection of the same device is     *)
(* taken out and marked, its timer stopped, and the new one put in.        *)
Register(c) ==
  LET old == Superseded(c)
      quiet == \E k \in old : grace[k]
  IN /\ pc[c] = "registering"
     /\ clients' = (clients \ old) \cup {c}
     /\ replaced' = [k \in Conns |-> replaced[k] \/ k \in old]
     /\ timer' = TimersStopped(old)
     /\ stale' = [stale EXCEPT ![c] = old]
     /\ silent' = [silent EXCEPT ![c] = quiet]
     /\ Goto(c, IF old = {} THEN AfterClosing(c, quiet) ELSE "closing")
     /\ UNCHANGED <<grace, name, snap, frame, nread, chanVars,
                    wp, sock, toldVars, otherVars>>

CloseStale_NoClose(c) ==
  /\ pc[c] = "closing"
  /\ stale' = [stale EXCEPT ![c] = {}]
  /\ Goto(c, AfterClosing(c, silent[c]))
  /\ UNCHANGED <<silent, snap, frame, nread, hubVars, chanVars,
                 wp, sock, toldVars, otherVars>>

(* register outside the lock: the sockets of the replaced connections are  *)
(* closed one after the other.                                             *)
CloseStale(c) ==
  \E k \in stale[c] :
    /\ pc[c] = "closing"
    /\ sock' = [sock EXCEPT ![k] = "closed"]
    /\ stale' = [stale EXCEPT ![c] = @ \ {k}]
    /\ Goto(c, IF stale[c] = {k} THEN AfterClosing(c, silent[c]) ELSE "closing")
    /\ UNCHANGED <<silent, snap, frame, nread, hubVars, chanVars,
                   wp, toldVars, otherVars>>

(* An arrival that replaced no grace connection is announced to the group. *)
Announce(c) ==
  /\ pc[c] = "announcing"
  /\ BroadcastPresence(UserOf(c))
  /\ StartReading(c)
  /\ UNCHANGED <<connVars, hubVars, sock, otherVars>>

Snapshot_NotSent(c) ==
  /\ pc[c] = "snapshot"
  /\ StartReading(c)
  /\ UNCHANGED <<connVars, hubVars, chanVars, sock, toldVars, otherVars>>

(* A silent return: sendPresenceTo builds the list under the read lock ... *)
Snapshot(c) ==
  /\ pc[c] = "snapshot"
  /\ IF grace[c] \/ Group(UserOf(c)) = {}
     THEN /\ StartReading(c)
          /\ UNCHANGED snap
     ELSE /\ snap' = [snap EXCEPT ![c] = Listing(UserOf(c))]
          /\ Goto(c, "sending")
          /\ UNCHANGED wp
  /\ UNCHANGED <<stale, silent, frame, nread, hubVars, chanVars,
                 sock, toldVars, otherVars>>

(* ... and sends it with no lock held. *)
SendSnapshot(c) ==
  /\ pc[c] = "sending"
  /\ TellList({c}, snap[c])
  /\ snap' = [snap EXCEPT ![c] = {}]
  /\ StartReading(c)
  /\ UNCHANGED <<stale, silent, frame, nread, hubVars, sock, overtaken, otherVars>>

(* readPump: an application-level ping is answered on the own queue. *)
ReadPing(c) ==
  /\ pc[c] = "reading"
  /\ sock[c] # "closed"
  /\ nread < MaxFrames
  /\ nread' = nread + 1
  /\ Send({c}, Pong)
  /\ UNCHANGED <<pc, stale, silent, snap, frame, hubVars,
                 wp, sock, toldVars, otherVars>>

(* readPump: a data frame that passed the checks, to be routed. *)
ReadFrame(c, t) ==
  /\ pc[c] = "reading"
  /\ sock[c] # "closed"
  /\ nread < MaxFrames
  /\ nread' = nread + 1
  /\ frame' = [frame EXCEPT ![c] = t]
  /\ Goto(c, "routing")
  /\ UNCHANGED <<stale, silent, snap, hubVars, chanVars,
                 wp, sock, toldVars, otherVars>>

(* route: to every live connection of the user but the sender. *)
Route(c) ==
  /\ pc[c] = "routing"
  /\ Send({k \in Live(UserOf(c)) \ {c} : RoleOf[k] \in TargetRoles(frame[c])},
          Frame(frame[c], c))
  /\ frame' = [frame EXCEPT ![c] = "none"]
  /\ Goto(c, "reading")
  /\ UNCHANGED <<stale, silent, snap, nread, hubVars,
                 wp, sock, toldVars, otherVars>>

(* ReadMessage fails: peer gone, read deadline passed, or socket closed. *)
ReadError(c) ==
  /\ pc[c] = "reading"
  /\ sock[c] # "up"
  /\ Goto(c, "unregistering")
  /\ UNCHANGED <<connVars, hubVars, chanVars, wp, sock, toldVars, otherVars>>

ArmTimer_IfOthersRemain(c) ==
  timer' = IF Group(UserOf(c)) = {c} THEN timer ELSE [timer EXCEPT ![c] = "armed"]

(* time.AfterFunc(offlineGrace, ...) *)
ArmTimer(c) == timer' = [timer EXCEPT ![c] = "armed"]

(* unregister: the channel is closed; unless replaced, the connection      *)
(* stays in the hub in grace with an armed timer.  (What the client knows  *)
(* is of no interest any more: it is gone.)                                *)
Unregister(c) ==
  /\ pc[c] = "unregistering"
  /\ Goto(c, "leaving")
  /\ chan' = [chan EXCEPT ![c] = "closed"]
  /\ IF replaced[c]
     THEN UNCHANGED <<grace, timer>>
     ELSE /\ grace' = [grace EXCEPT ![c] = TRUE]
          /\ ArmTimer(c)
  /\ silent' = [silent EXCEPT ![c] = FALSE]
  /\ told' = [told EXCEPT ![c] = {}]
  /\ lost' = [lost EXCEPT ![c] = FALSE]
  /\ overtaken' = [overtaken EXCEPT ![c] = FALSE]
  /\ UNCHANGED <<stale, snap, frame, nread, clients, replaced, name, queue,
                 panicked, wp, sock, otherVars>>

(* readPump's deferred Close; what follows in wsHandler is outside the hub. *)
Leave(c) ==
  /\ pc[c] = "leaving"
  /\ Goto(c, "done")
  /\ sock' = [sock EXCEPT ![c] = "closed"]
  /\ UNCHANGED <<connVars, hubVars, chanVars, wp, toldVars, otherVars>>

-----------------------------------------------------------------------------
(* The grace timer. *)

TimerFires(c) ==
  /\ timer[c] = "armed"
  /\ timer' = [timer EXCEPT ![c] = "fired"]
  /\ UNCHANGED <<pc, connVars, clients, replaced, grace, name, chanVars,
                 wp, sock, toldVars, otherVars>>

FinalizeGrace_ByDevice(c) ==
  /\ timer[c] = "fired"
  /\ timer' = [timer EXCEPT ![c] = "departing"]
  /\ clients' = {k \in clients : ~SameDevice(k, c)}
  /\ grace' = [grace EXCEPT ![c] = FALSE]
  /\ UNCHANGED <<pc, connVars, replaced, name, chanVars,
                 wp, sock, toldVars, otherVars>>

(* The locked part of finalizeGrace. *)
FinalizeGrace(c) ==
  /\ timer[c] = "fired"
  /\ IF replaced[c] \/ ~grace[c]
     THEN /\ timer' = [timer EXCEPT ![c] = "none"]
          /\ UNCHANGED <<clients, grace>>
     ELSE /\ timer' = [timer EXCEPT ![c] = "departing"]
          /\ clients' = clients \ {c}
          /\ grace' = [grace EXCEPT ![c] = FALSE]
  /\ UNCHANGED <<pc, connVars, replaced, name, chanVars,
                 wp, sock, toldVars, otherVars>>

(* The broadcast after the lock was released. *)
AnnounceDeparture(c) ==
  /\ timer[c] = "departing"
  /\ BroadcastPresence(UserOf(c))
  /\ timer' = [timer EXCEPT ![c] = "none"]
  /\ UNCHANGED <<pc, connVars, clients, replaced, grace, name,
                 wp, sock, otherVars>>

-----------------------------------------------------------------------------
(* The writePump goroutine. *)

(* A buffered message is taken out and written.  A write fails only when   *)
(* the socket is not up; it may seem to succeed while the peer is gone.    *)
WriteMessage(c) ==
  /\ wp[c] = "running"
  /\ queue[c] # <<>>
  /\ queue' = [queue EXCEPT ![c] = Tail(@)]
  /\ \/ sock[c] # "closed" /\ UNCHANGED <<wp, sock>>
     \/ /\ sock[c] # "up"
        /\ wp' = [wp EXCEPT ![c] = "done"]
        /\ sock' = [sock EXCEPT ![c] = "closed"]
  /\ UNCHANGED <<pc, connVars, hubVars, chan, panicked, toldVars, otherVars>>

(* The channel is closed and drained, or the ping of the ticker fails. *)
StopWriting(c) ==
  /\ wp[c] = "running"
  /\ \/ chan[c] = "closed" /\ queue[c] = <<>>
     \/ sock[c] # "up"
  /\ wp' = [wp EXCEPT ![c] = "done"]
  /\ sock' = [sock EXCEPT ![c] = "closed"]
  /\ UNCHANGED <<pc, connVars, hubVars, chanVars, toldVars, otherVars>>

-----------------------------------------------------------------------------
(* The environment: the peer, and requests of users and administrators. *)

PeerDies(c) ==
  /\ sock[c] = "up"
  /\ sock' = [sock EXCEPT ![c] = "dead"]
  /\ UNCHANGED <<pc, connVars, hubVars, chanVars, wp, toldVars, otherVars>>

(* pushHandler: like route, with no sender to leave out. *)
Push(r, u, t) ==
  /\ req[r].pc = "idle"
  /\ Send({k \in Live(u) : RoleOf[k] \in TargetRoles(t)}, Frame(t, "http-push"))
  /\ req' = [req EXCEPT ![r] = NoRequest("done")]
  /\ UNCHANGED <<pc, connVars, hubVars, wp, sock, toldVars, dbName>>

(* A rename saves the name in the database, ... *)
SaveName(r, d, n) ==
  /\ req[r].pc = "idle"
  /\ dbName' = [dbName EXCEPT ![d] = n]
  /\ req' = [req EXCEPT ![r] =
               [NoRequest("renaming") EXCEPT !.dev = d, !.name = n]]
  /\ UNCHANGED <<pc, connVars, hubVars, chanVars, wp, sock, toldVars>>

(* ... then renameDevice sets it on the connections of the device ... *)
ApplyName(r) ==
  /\ req[r].pc = "renaming"
  /\ name' = [c \in Conns |-> IF c \in clients /\ DeviceOf[c] = req[r].dev
                              THEN req[r].name ELSE name[c]]
  /\ req' = [req EXCEPT ![r].pc = "announcing"]
  /\ UNCHANGED <<pc, connVars, clients, replaced, grace, timer, chanVars,
                 wp, sock, toldVars, dbName>>

AnnounceName_ToNobody(r) ==
  /\ req[r].pc = "announcing"
  /\ req' = [req EXCEPT ![r] = NoRequest("done")]
  /\ UNCHANGED <<pc, connVars, hubVars, chanVars, wp, sock, toldVars, dbName>>

(* ... and broadcasts the list after releasing the lock. *)
AnnounceName(r) ==
  /\ req[r].pc = "announcing"
  /\ BroadcastPresence(Owner[req[r].dev])
  /\ req' = [req EXCEPT ![r] = NoRequest("done")]
  /\ UNCHANGED <<pc, connVars, hubVars, wp, sock, dbName>>

(* kickUser and kickDevice collect their targets under the read lock, ... *)
Kick(r, targets) ==
  /\ req[r].pc = "idle"
  /\ targets # {}
  /\ req' = [req EXCEPT ![r] = [NoRequest("kicking") EXCEPT !.targets = targets]]
  /\ UNCHANGED <<pc, connVars, hubVars, chanVars, wp, sock, toldVars, dbName>>

KickUser(r, u) == Kick(r, Live(u))

KickDevice(r, d) == Kick(r, {c \in Live(Owner[d]) : DeviceOf[c] = d})

(* ... and close them one by one after releasing it. *)
SendKick(r) ==
  \E c \in req[r].targets :
    /\ req[r].pc = "kicking"
    /\ sock' = [sock EXCEPT ![c] = "closed"]
    /\ req' = [req EXCEPT ![r] = IF req[r].targets = {c} THEN NoRequest("done")
                                 ELSE [req[r] EXCEPT !.targets = @ \ {c}]]
    /\ UNCHANGED <<pc, connVars, hubVars, chanVars, wp, toldVars, dbName>>

-----------------------------------------------------------------------------
Init ==
  /\ pc = [c \in Conns |-> "new"]
  /\ clients = {}
  /\ replaced = [c \in Conns |-> FALSE]
  /\ grace = [c \in Conns |-> FALSE]
  /\ timer = [c \in Conns |-> "none"]
  /\ stale = [c \in Conns |-> {}]
  /\ silent = [c \in Conns |-> FALSE]
  /\ snap = [c \in Conns |-> {}]
  /\ frame = [c \in Conns |-> "none"]
  /\ nread = 0
  /\ chan = [c \in Conns |-> "none"]
  /\ queue = [c \in Conns |-> <<>>]
  /\ wp = [c \in Conns |-> "none"]
  /\ sock = [c \in Conns |-> "none"]
  /\ told = [c \in Conns |-> {}]
  /\ lost = [c \in Conns |-> FALSE]
  /\ overtaken = [c \in Conns |-> FALSE]
  /\ panicked = FALSE
  /\ dbName \in [Devices -> Names]
  /\ name = [c \in Conns |-> dbName[DeviceOf[c]]]
  /\ req = [r \in Requests |-> NoRequest("idle")]

(* The steps of the handler goroutine that wait for nobody. *)
Serve(c) == \/ Register(c) \/ CloseStale(c) \/ Announce(c)
            \/ Snapshot(c) \/ SendSnapshot(c) \/ Route(c)
            \/ ReadError(c) \/ Unregister(c) \/ Leave(c)

Expire(c) == TimerFires(c) \/ FinalizeGrace(c) \/ AnnounceDeparture(c)

Write(c) == WriteMessage(c) \/ StopWriting(c)

Receive(c) == ReadPing(c) \/ \E t \in Forwarded : ReadFrame(c, t)

StartRequest(r) ==
  \/ \E u \in Users : KickUser(r, u) \/ \E t \in Forwarded : Push(r, u, t)
  \/ \E d \in Devices : KickDevice(r, d) \/ \E n \in Names : SaveName(r, d, n)

FinishRequest(r) == ApplyName(r) \/ AnnounceName(r) \/ SendKick(r)

Next ==
  \/ \E c \in Conns : \/ Handshake(c) \/ Serve(c) \/ Receive(c)
                      \/ Expire(c) \/ Write(c) \/ PeerDies(c)
  \/ \E r \in Requests : StartRequest(r) \/ FinishRequest(r)

Spec == Init /\ [][Next]_vars

(* The Go scheduler runs every goroutine that can run, a sync.RWMutex does *)
(* not starve a writer, time.AfterFunc fires, and the read deadline makes  *)
(* ReadMessage fail on a socket whose peer is gone.                        *)
Fairness == /\ \A c \in Conns : /\ WF_vars(Serve(c))
                                /\ WF_vars(Expire(c))
                                /\ WF_vars(Write(c))
            /\ \A r \in Requests : WF_vars(FinishRequest(r))

FairSpec == Spec /\ Fairness

-----------------------------------------------------------------------------
(* Correctness. *)

Labels == {"new", "registering", "closing", "announcing", "snapshot", "sending",
           "reading", "routing", "unregistering", "leaving", "done"}

(* The handler goroutine between register's critical section and          *)
(* unregister's: the connection is in service.                            *)
InService == {"closing", "announcing", "snapshot", "sending",
              "reading", "routing", "unregistering"}

(* Types; the queue of a connection never exceeds its capacity.           *)
TypeOK ==
  /\ pc \in [Conns -> Labels]
  /\ clients \in SUBSET Conns
  /\ replaced \in [Conns -> BOOLEAN]
  /\ grace \in [Conns -> BOOLEAN]
  /\ timer \in [Conns -> {"none", "armed", "fired", "departing"}]
  /\ name \in [Conns -> Names]
  /\ stale \in [Conns -> SUBSET Conns]
  /\ silent \in [Conns -> BOOLEAN]
  /\ snap \in [Conns -> SUBSET Entries]
  /\ frame \in [Conns -> Forwarded \cup {"none"}]
  /\ \A c \in Conns : pc[c] = "routing" => frame[c] \in Forwarded
  /\ nread \in 0..MaxFrames
  /\ chan \in [Conns -> {"none", "open", "closed"}]
  /\ queue \in [Conns -> Seq(Messages)]
  /\ \A c \in Conns : Len(queue[c]) <= QueueCap
  /\ wp \in [Conns -> {"none", "running", "done"}]
  /\ sock \in [Conns -> {"none", "up", "dead", "closed"}]
  /\ told \in [Conns -> SUBSET Entries]
  /\ lost \in [Conns -> BOOLEAN]
  /\ overtaken \in [Conns -> BOOLEAN]
  /\ panicked \in BOOLEAN
  /\ dbName \in [Devices -> Names]
  /\ req \in [Requests -> RequestStates]

(* Nobody ever sends on a closed channel, which would panic the process:   *)
(* not a broadcast, a route or a push racing an unregister, and not the    *)
(* unlocked send of sendPresenceTo (main.go:363-365, 402-404, 801-802).    *)
NoSendOnClosedChannel == ~panicked

(* The hub never holds two connections of one device, whatever reconnects  *)
(* race with timers and unregisters (main.go:177-179, 358-361).            *)
OneConnPerDevice ==
  \A c, k \in clients : SameDevice(c, k) => c = k

(* Nothing stays in the hub for ever: a connection kept there in grace has *)
(* a timer running, or a fired one about to take it out (main.go:255-257). *)
GraceEntryHasTimer ==
  \A c \in clients : grace[c] => timer[c] \in {"armed", "fired"}

(* A connection in service is in the hub and not in grace, unless another  *)
(* connection of the same device took its place: no timer, kick or         *)
(* reconnect of anybody else takes it out (main.go:182-192, 263-276).      *)
LiveConnIsListed ==
  \A c \in Conns : pc[c] \in InService =>
    \/ c \in clients /\ ~grace[c]
    \/ /\ replaced[c]
       /\ \E k \in Conns \ {c} : SameDevice(c, k) /\ pc[k] \notin {"new", "registering"}

(* The invariant from which the others are proved: what a program counter  *)
(* says of the hub, of the grace flag and of the channel.                  *)
NotYetListed ==
  \A c \in Conns : pc[c] \in {"new", "registering"} =>
    c \notin clients /\ ~replaced[c] /\ ~grace[c] /\ timer[c] = "none"

OpenInService ==
  \A c \in Conns : pc[c] \in InService \cup {"registering"} => chan[c] = "open"

GraceOnlyAfterService ==
  \A c \in Conns : grace[c] => pc[c] \in {"leaving", "done"}

ListedAfterServiceIsInGrace ==
  \A c \in clients : pc[c] \in {"leaving", "done"} => grace[c]

ListedIsNotReplaced == \A c \in clients : ~replaced[c]

(* Together they are inductive: the code comments rely on each of them     *)
(* (main.go:102-118, 235-257, 402-404).                                    *)
HubInv ==
  /\ NotYetListed
  /\ OpenInService
  /\ GraceOnlyAfterService
  /\ ListedAfterServiceIsInGrace
  /\ ListedIsNotReplaced
  /\ OneConnPerDevice
  /\ GraceEntryHasTimer
  /\ LiveConnIsListed
  /\ NoSendOnClosedChannel

(* No step that concerns the list of user u is under way.                  *)
Settled(u) ==
  /\ \A c \in Conns : UserOf(c) = u =>
       /\ pc[c] \notin {"closing", "announcing", "snapshot", "sending"}
       /\ timer[c] # "departing"
  /\ \A r \in Requests : req[r].pc \in {"renaming", "announcing"}
                         => Owner[req[r].dev] # u

(* A client that can be expected to know the list: it is served and the    *)
(* presence frame sent to it last was not dropped.                         *)
Informed(c) == /\ c \in clients
               /\ pc[c] \in {"reading", "routing"}
               /\ ~lost[c]
               /\ Settled(UserOf(c))

(* When the dust has settled, a client has been told exactly the devices   *)
(* in the hub, however arrivals, returns and departures were interleaved   *)
(* (main.go:222-229, 282-283, 352).  This is so of a silent return as well, *)
(* unless a broadcast overtook the list that was built for it, and then    *)
(* from the next broadcast on.                                             *)
ViewConverges ==
  \A c \in Conns : Informed(c) /\ ~overtaken[c] =>
    {DeviceOf[e.conn] : e \in told[c]} = {DeviceOf[k] : k \in Group(UserOf(c))}

(* When the dust has settled, the names an informed client was told are    *)
(* those the connections have now (main.go:342-353).                       *)
ToldNamesAreCurrent ==
  \A c \in Conns : Informed(c) /\ ~overtaken[c] =>
    \A e \in told[c] : e.conn \in clients => e.name = name[e.conn]

(* Not so: the comment main.go:227-228 says that a silently returning      *)
(* connection gets the current list; the list is built before it is sent.  *)
SilentReturnConverges ==
  \A c \in Conns : Informed(c) =>
    {DeviceOf[e.conn] : e \in told[c]} = {DeviceOf[k] : k \in Group(UserOf(c))}

(* Not so: the comment main.go:1252-1253 says that the name a connection   *)
(* is given is the one finally saved; the lookup may fail, and the device  *)
(* may be renamed before the connection registers.                         *)
NameIsTheSavedOne ==
  \A c \in clients :
    (\A r \in Requests : req[r].pc = "renaming" => req[r].dev # DeviceOf[c])
      => name[c] = dbName[DeviceOf[c]]

(* Not so: README.md:234-235 says that a message goes to all devices of    *)
(* the group but the sender; route leaves out the sending connection only. *)
NoEchoToOwnDevice ==
  \A c \in Conns : \A i \in DOMAIN queue[c] :
    queue[c][i].from \in Conns => ~SameDevice(queue[c][i].from, c)

(* A frame comes back to the device that sent it only if the connection    *)
(* it was read from was replaced between ReadMessage and route: without a  *)
(* reconnect there is no echo (main.go:807-810).                           *)
EchoOnlyIfReplaced ==
  \A c \in Conns : \A i \in DOMAIN queue[c] :
    LET k == queue[c][i].from
    IN k \in Conns /\ SameDevice(k, c) => k # c /\ replaced[k]

(* Nothing of one account reaches another: not a frame that one of its     *)
(* connections sent, not a list entry (main.go:796-812).  A frame pushed   *)
(* over HTTP carries no account here: this says nothing of it.             *)
UserIsolation ==
  \A c \in Conns :
    /\ \A e \in told[c] \cup snap[c] : UserOf(e.conn) = UserOf(c)
    /\ \A i \in DOMAIN queue[c] :
         queue[c][i].from \in Conns => UserOf(queue[c][i].from) = UserOf(c)

(* What the hub says of a device, whatever the connections behind it. *)
Status == [d \in Devices |->
             IF \A c \in clients : DeviceOf[c] # d THEN "absent"
             ELSE IF \E c \in clients : DeviceOf[c] = d /\ ~grace[c] THEN "online"
             ELSE "leaving"]

Directory == INSTANCE DeviceDirectory WITH status <- Status

(* The hub implements the directory: a device with a working connection is *)
(* never taken off the list in one step, only a confirmed end of grace     *)
(* takes it off (main.go:106-112, 248-257), and every grace period that is *)
(* not cut short by a return ends.                                         *)
ImplementsDirectorySafe == Directory!Safe
ImplementsDirectory     == Directory!Spec

(* A connection that was replaced, or whose socket is gone, ends: both its *)
(* goroutines exit and it leaves the hub (main.go:214-218, 233-259).       *)
BrokenConnEnds ==
  \A c \in Conns : (replaced[c] \/ sock[c] \in {"dead", "closed"})
                   ~> (pc[c] = "done" /\ wp[c] = "done" /\ c \notin clients)
=============================================================================
