----------------------------- MODULE HubProofs -----------------------------
(* What is proved of Hub for every set of connections, devices, accounts   *)
(* and requests and for every capacity of the send queues.                 *)
EXTENDS Hub, TLAPS

(* The request record that stands for "nothing to do" is well typed. *)
LEMMA NoRequestType ==
  ASSUME NEW label \in {"idle", "renaming", "announcing", "kicking", "done"}
  PROVE  NoRequest(label) \in RequestStates
BY ConstantsAssumption DEF NoRequest, RequestStates

(* Type correctness: in particular no send queue outgrows its capacity.    *)
LEMMA InitType == Init => TypeOK
<1> SUFFICES ASSUME Init PROVE TypeOK
  OBVIOUS
<1> USE ConstantsAssumption DEF Init
<1>1. req \in [Requests -> RequestStates]
  BY NoRequestType
<1>2. name \in [Conns -> Names]
  OBVIOUS
<1>3. queue \in [Conns -> Seq(Messages)] /\ \A c \in Conns : Len(queue[c]) <= QueueCap
  OBVIOUS
<1>4. nread \in 0..MaxFrames
  OBVIOUS
<1> QED
  BY <1>1, <1>2, <1>3, <1>4 DEF TypeOK, Labels

(* A non-blocking send keeps the queues typed and within their capacity. *)
LEMMA SendType ==
  ASSUME TypeOK, NEW R, NEW msg \in Messages, Send(R, msg)
  PROVE  /\ queue' \in [Conns -> Seq(Messages)]
         /\ \A c \in Conns : Len(queue'[c]) <= QueueCap
         /\ panicked' \in BOOLEAN
         /\ chan' \in [Conns -> {"none", "open", "closed"}]
BY ConstantsAssumption DEF TypeOK, Send, HasRoom

LEMMA TellType ==
  ASSUME TypeOK, NEW R, NEW list \in SUBSET Entries, TellList(R, list)
  PROVE  /\ queue' \in [Conns -> Seq(Messages)]
         /\ \A c \in Conns : Len(queue'[c]) <= QueueCap
         /\ panicked' \in BOOLEAN
         /\ chan' \in [Conns -> {"none", "open", "closed"}]
         /\ told' \in [Conns -> SUBSET Entries]
         /\ lost' \in [Conns -> BOOLEAN]
<1>1. Presence \in Messages
  BY DEF Presence, Messages
<1>2. Send(R, Presence)
  BY DEF TellList
<1> QED
  BY <1>1, <1>2, SendType DEF TypeOK, TellList

LEMMA ListingType ==
  ASSUME TypeOK, NEW u
  PROVE  Listing(u) \in SUBSET Entries
BY DEF TypeOK, Listing, Dedup, Group, Entries

LEMMA BroadcastType ==
  ASSUME TypeOK, NEW u, BroadcastPresence(u)
  PROVE  /\ queue' \in [Conns -> Seq(Messages)]
         /\ \A c \in Conns : Len(queue'[c]) <= QueueCap
         /\ panicked' \in BOOLEAN
         /\ chan' \in [Conns -> {"none", "open", "closed"}]
         /\ told' \in [Conns -> SUBSET Entries]
         /\ lost' \in [Conns -> BOOLEAN]
         /\ overtaken' \in [Conns -> BOOLEAN]
<1>1. TellList(Receivers(u), Listing(u)) /\ Listing(u) \in SUBSET Entries
  BY ListingType DEF BroadcastPresence
<1>2. overtaken' \in [Conns -> BOOLEAN]
  BY DEF BroadcastPresence, TypeOK
<1> QED
  BY <1>1, <1>2, TellType

LEMMA StepType == TypeOK /\ [Next]_vars => TypeOK'
<1> SUFFICES ASSUME TypeOK, [Next]_vars PROVE TypeOK'
  OBVIOUS
<1> USE ConstantsAssumption
<1>h. ASSUME NEW c \in Conns, Handshake(c) PROVE TypeOK'
  BY <1>h DEF TypeOK, Handshake, Goto, Labels, connVars, otherVars, toldVars
<1>s. ASSUME NEW c \in Conns, Serve(c) PROVE TypeOK'
  <2>1. CASE Register(c)
    BY <2>1 DEF TypeOK, Register, Superseded, Group, SameDevice, UserOf, TimersStopped,
       AfterClosing, Goto, Labels, chanVars, otherVars, toldVars
  <2>2. CASE CloseStale(c)
    BY <2>2 DEF TypeOK, CloseStale, AfterClosing, Goto, Labels, hubVars, chanVars, otherVars, toldVars
  <2>3. CASE Announce(c)
    <3>1. BroadcastPresence(UserOf(c)) /\ Goto(c, "reading") /\ wp' = [wp EXCEPT ![c] = "running"]
      BY <2>3 DEF Announce, StartReading
    <3>2. UNCHANGED <<stale, silent, snap, frame, nread, clients, replaced, grace, timer, name,
                      sock, req, dbName>>
      BY <2>3 DEF Announce, connVars, hubVars, otherVars
    <3>3. pc' \in [Conns -> Labels] /\ wp' \in [Conns -> {"none", "running", "done"}]
      BY <3>1 DEF TypeOK, Goto, Labels
    <3>4. pc'[c] # "routing" /\ \A k \in Conns \ {c} : pc'[k] = pc[k]
      BY <3>1 DEF TypeOK, Goto
    <3>5. /\ queue' \in [Conns -> Seq(Messages)] /\ \A k \in Conns : Len(queue'[k]) <= QueueCap
          /\ panicked' \in BOOLEAN /\ chan' \in [Conns -> {"none", "open", "closed"}]
          /\ told' \in [Conns -> SUBSET Entries] /\ lost' \in [Conns -> BOOLEAN]
          /\ overtaken' \in [Conns -> BOOLEAN]
      BY <3>1, BroadcastType
    <3> QED
      BY <3>2, <3>3, <3>4, <3>5 DEF TypeOK
  <2>4. CASE Snapshot(c)
    <3>0. PICK L \in SUBSET Entries : snap' = snap \/ snap' = [snap EXCEPT ![c] = L]
      BY <2>4, ListingType DEF Snapshot
    <3>1. snap' \in [Conns -> SUBSET Entries]
      <4>1. snap \in [Conns -> SUBSET Entries]
        BY DEF TypeOK
      <4> QED
        BY <3>0, <4>1
    <3>a. PICK label \in {"reading", "sending"} : pc' = [pc EXCEPT ![c] = label]
      BY <2>4 DEF Snapshot, StartReading, Goto
    <3>2. pc' \in [Conns -> Labels] /\ pc'[c] # "routing" /\ \A k \in Conns \ {c} : pc'[k] = pc[k]
      BY <3>a DEF TypeOK, Labels
    <3>3. wp' \in [Conns -> {"none", "running", "done"}]
      <4>1. wp' = wp \/ wp' = [wp EXCEPT ![c] = "running"]
        BY <2>4 DEF Snapshot, StartReading
      <4> QED
        BY <4>1 DEF TypeOK
    <3>4. UNCHANGED <<stale, silent, frame, nread, hubVars, chanVars, sock, toldVars, otherVars>>
      BY <2>4 DEF Snapshot
    <3> QED
      BY <3>1, <3>2, <3>3, <3>4 DEF TypeOK, hubVars, chanVars, otherVars, toldVars
  <2>5. CASE SendSnapshot(c)
    <3>1. snap[c] \in SUBSET Entries
      BY DEF TypeOK
    <3> QED BY <2>5, <3>1, TellType DEF TypeOK, SendSnapshot, StartReading, Goto, Labels, hubVars, otherVars
  <2>6. CASE Route(c)
    <3>1. Frame(frame[c], c) \in Messages
      BY <2>6 DEF TypeOK, Frame, Messages, Forwarded, Route
    <3> QED
      BY <2>6, <3>1, SendType DEF TypeOK, Route, Goto, Labels, hubVars, otherVars, toldVars
  <2>7. CASE ReadError(c)
    BY <2>7 DEF TypeOK, ReadError, Goto, Labels, connVars, hubVars, chanVars, otherVars, toldVars
  <2>8. CASE Unregister(c)
    <3>1. /\ pc' \in [Conns -> Labels]
          /\ \A k \in Conns : pc'[k] = "routing" => pc[k] = "routing"
      BY <2>8 DEF TypeOK, Unregister, Goto, Labels
    <3>2. /\ grace' \in [Conns -> BOOLEAN]
          /\ timer' \in [Conns -> {"none", "armed", "fired", "departing"}]
      <4>1. \/ UNCHANGED <<grace, timer>>
            \/ /\ grace' = [grace EXCEPT ![c] = TRUE]
               /\ timer' = [timer EXCEPT ![c] = "armed"]
        BY <2>8 DEF Unregister, ArmTimer
      <4>2. CASE UNCHANGED <<grace, timer>>
        BY <4>2 DEF TypeOK
      <4>3. CASE /\ grace' = [grace EXCEPT ![c] = TRUE]
                 /\ timer' = [timer EXCEPT ![c] = "armed"]
        BY <4>3 DEF TypeOK
      <4> QED
        BY <4>1, <4>2, <4>3
    <3>3. /\ chan' \in [Conns -> {"none", "open", "closed"}]
          /\ silent' \in [Conns -> BOOLEAN]
          /\ told' \in [Conns -> SUBSET Entries]
          /\ lost' \in [Conns -> BOOLEAN]
          /\ overtaken' \in [Conns -> BOOLEAN]
      BY <2>8 DEF TypeOK, Unregister
    <3>4. UNCHANGED <<stale, snap, frame, nread, clients, replaced, name, queue,
                      panicked, wp, sock, otherVars>>
      BY <2>8 DEF Unregister
    <3> QED
      BY <3>1, <3>2, <3>3, <3>4 DEF TypeOK, otherVars
  <2>9. CASE Leave(c)
    BY <2>9 DEF TypeOK, Leave, Goto, Labels, connVars, hubVars, chanVars, otherVars, toldVars
  <2> QED
    BY <1>s, <2>1, <2>2, <2>3, <2>4, <2>5, <2>6, <2>7, <2>8, <2>9 DEF Serve
<1>r. ASSUME NEW c \in Conns, Receive(c) PROVE TypeOK'
  <2>1. CASE ReadPing(c)
    <3>1. Pong \in Messages
      BY DEF Pong, Messages
    <3> QED
      BY <2>1, <3>1, SendType, ConstantsAssumption DEF TypeOK, ReadPing, hubVars, otherVars, toldVars
  <2>2. ASSUME NEW t \in Forwarded, ReadFrame(c, t) PROVE TypeOK'
    BY <2>2, ConstantsAssumption DEF TypeOK, ReadFrame, Goto, Labels, hubVars, chanVars, otherVars, toldVars
  <2> QED
    BY <1>r, <2>1, <2>2 DEF Receive
<1>e. ASSUME NEW c \in Conns, Expire(c) PROVE TypeOK'
  <2>1. CASE TimerFires(c)
    BY <2>1 DEF TypeOK, TimerFires, connVars, chanVars, otherVars, toldVars
  <2>2. CASE FinalizeGrace(c)
    <3>0. PICK label \in {"none", "departing"} : timer' = [timer EXCEPT ![c] = label]
      <4>1. \/ timer' = [timer EXCEPT ![c] = "none"]
            \/ timer' = [timer EXCEPT ![c] = "departing"]
        BY <2>2 DEF FinalizeGrace
      <4> QED
        BY <4>1
    <3>a. timer' \in [Conns -> {"none", "armed", "fired", "departing"}]
      BY <3>0 DEF TypeOK
    <3>b. clients' \in SUBSET Conns
      BY <2>2 DEF TypeOK, FinalizeGrace
    <3>1. grace' \in [Conns -> BOOLEAN]
      <4>1. grace' = grace \/ grace' = [grace EXCEPT ![c] = FALSE]
        BY <2>2 DEF FinalizeGrace
      <4> QED
        BY <4>1 DEF TypeOK
    <3>2. UNCHANGED <<pc, connVars, replaced, name, chanVars, wp, sock, toldVars, otherVars>>
      BY <2>2 DEF FinalizeGrace
    <3> QED
      BY <3>a, <3>b, <3>1, <3>2 DEF TypeOK, connVars, chanVars, otherVars, toldVars
  <2>3. CASE AnnounceDeparture(c)
    BY <2>3, BroadcastType DEF TypeOK, AnnounceDeparture, connVars, otherVars
  <2> QED
    BY <1>e, <2>1, <2>2, <2>3 DEF Expire
<1>w. ASSUME NEW c \in Conns, Write(c) PROVE TypeOK'
  <2>1. CASE WriteMessage(c)
    <3>1. /\ Tail(queue[c]) \in Seq(Messages)
          /\ Len(Tail(queue[c])) <= QueueCap
      BY <2>1 DEF TypeOK, WriteMessage
    <3>2. /\ queue' \in [Conns -> Seq(Messages)]
          /\ \A k \in Conns : Len(queue'[k]) <= QueueCap
      BY <2>1, <3>1 DEF TypeOK, WriteMessage
    <3>a. \/ wp' = wp /\ sock' = sock
          \/ wp' = [wp EXCEPT ![c] = "done"] /\ sock' = [sock EXCEPT ![c] = "closed"]
      BY <2>1 DEF WriteMessage
    <3>3. /\ wp' \in [Conns -> {"none", "running", "done"}]
          /\ sock' \in [Conns -> {"none", "up", "dead", "closed"}]
      BY <3>a DEF TypeOK
    <3>4. UNCHANGED <<pc, connVars, hubVars, chan, panicked, toldVars, otherVars>>
      BY <2>1 DEF WriteMessage
    <3> QED
      BY <3>2, <3>3, <3>4 DEF TypeOK, connVars, hubVars, otherVars, toldVars
  <2>2. CASE StopWriting(c)
    BY <2>2 DEF TypeOK, StopWriting, connVars, hubVars, chanVars, otherVars, toldVars
  <2> QED
    BY <1>w, <2>1, <2>2 DEF Write
<1>p. ASSUME NEW c \in Conns, PeerDies(c) PROVE TypeOK'
  BY <1>p DEF TypeOK, PeerDies, connVars, hubVars, chanVars, otherVars, toldVars
<1>q. ASSUME NEW r \in Requests, StartRequest(r) PROVE TypeOK'
  <2>1. ASSUME NEW T \in SUBSET Conns, Kick(r, T) PROVE TypeOK'
    <3>1. [NoRequest("kicking") EXCEPT !.targets = T] \in RequestStates
      BY NoRequestType DEF RequestStates
    <3> QED
      BY <2>1, <3>1 DEF TypeOK, Kick, connVars, hubVars, chanVars, toldVars
  <2>2. \A u : Live(u) \in SUBSET Conns
    BY DEF TypeOK, Live, Group
  <2>3. ASSUME NEW u \in Users, NEW t \in Forwarded, Push(r, u, t) PROVE TypeOK'
    <3>1. Frame(t, "http-push") \in Messages
      BY DEF Frame, Messages
    <3> QED
      BY <2>3, <3>1, SendType, NoRequestType DEF TypeOK, Push, connVars, hubVars, toldVars
  <2>4. ASSUME NEW d \in Devices, NEW n \in Names, SaveName(r, d, n) PROVE TypeOK'
    <3>1. [NoRequest("renaming") EXCEPT !.dev = d, !.name = n] \in RequestStates
      BY NoRequestType DEF RequestStates
    <3> QED
      BY <2>4, <3>1 DEF TypeOK, SaveName, connVars, hubVars, chanVars, toldVars
  <2>5. ASSUME NEW u \in Users, KickUser(r, u) PROVE TypeOK'
    BY <2>1, <2>2, <2>5 DEF KickUser
  <2>6. ASSUME NEW d \in Devices, KickDevice(r, d) PROVE TypeOK'
    BY <2>1, <2>2, <2>6 DEF KickDevice
  <2> QED
    BY <1>q, <2>3, <2>4, <2>5, <2>6 DEF StartRequest
<1>f. ASSUME NEW r \in Requests, FinishRequest(r) PROVE TypeOK'
  <2>1. CASE ApplyName(r)
    <3>0. req[r] \in RequestStates
      BY DEF TypeOK
    <3>1. /\ req[r].name \in Names
          /\ [req[r] EXCEPT !.pc = "announcing"] \in RequestStates
      BY <3>0 DEF RequestStates
    <3> QED
      BY <2>1, <3>1 DEF TypeOK, ApplyName, connVars, chanVars, toldVars
  <2>2. CASE AnnounceName(r)
    <3>1. NoRequest("done") \in RequestStates
      BY NoRequestType
    <3> QED
      BY <2>2, <3>1, BroadcastType DEF TypeOK, AnnounceName, connVars, hubVars
  <2>3. CASE SendKick(r)
    <3>1. PICK k \in req[r].targets :
            /\ sock' = [sock EXCEPT ![k] = "closed"]
            /\ req' = [req EXCEPT ![r] = IF req[r].targets = {k} THEN NoRequest("done")
                                        ELSE [req[r] EXCEPT !.targets = @ \ {k}]]
            /\ UNCHANGED <<pc, connVars, hubVars, chanVars, wp, toldVars, dbName>>
      BY <2>3 DEF SendKick
    <3>2. NoRequest("done") \in RequestStates
      BY NoRequestType
    <3>3. req[r] \in RequestStates
      BY DEF TypeOK
    <3>4. [req[r] EXCEPT !.targets = @ \ {k}] \in RequestStates
      BY <3>3 DEF RequestStates
    <3>5. req' \in [Requests -> RequestStates]
      BY <3>1, <3>2, <3>4 DEF TypeOK
    <3> QED
      BY <3>1, <3>5 DEF TypeOK, connVars, hubVars, chanVars, toldVars
  <2> QED
    BY <1>f, <2>1, <2>2, <2>3 DEF FinishRequest
<1>u. ASSUME UNCHANGED vars PROVE TypeOK'
  BY <1>u DEF TypeOK, vars, connVars, hubVars, chanVars, otherVars, toldVars
<1> QED
  BY <1>h, <1>s, <1>r, <1>e, <1>w, <1>p, <1>q, <1>f, <1>u DEF Next

(* Every reachable state is well typed, with every queue within QueueCap.  *)
THEOREM TypeCorrect == Spec => []TypeOK
BY InitType, StepType, PTL DEF Spec

-----------------------------------------------------------------------------
(* The inductive invariant.  Only seven variables matter to it, and most   *)
(* steps leave all of them alone but one program counter in service.       *)

LEMMA InitInv == Init => HubInv
BY DEF Init, HubInv, NotYetListed, OpenInService, GraceOnlyAfterService, InService,
   ListedAfterServiceIsInGrace, ListedIsNotReplaced, OneConnPerDevice,
   GraceEntryHasTimer, LiveConnIsListed, NoSendOnClosedChannel

(* Who may be sent to: a connection in the hub outside its grace.          *)
LEMMA LiveIsOpen ==
  ASSUME TypeOK, HubInv, NEW k \in clients, ~grace[k]
  PROVE  chan[k] = "open"
BY DEF TypeOK, HubInv, Labels, InService, NotYetListed, OpenInService,
   ListedAfterServiceIsInGrace

LEMMA SendIsSafe ==
  ASSUME HubInv, NEW R, NEW msg, Send(R, msg), \A k \in R : chan[k] = "open"
  PROVE  ~panicked' /\ UNCHANGED chan
BY DEF HubInv, NoSendOnClosedChannel, Send

LEMMA BroadcastIsSafe ==
  ASSUME TypeOK, HubInv, NEW u, BroadcastPresence(u)
  PROVE  ~panicked' /\ UNCHANGED chan
<1>1. \A k \in Receivers(u) : k \in clients /\ ~grace[k]
  BY DEF Receivers, Dedup, Group
<1>2. Send(Receivers(u), Presence)
  BY DEF BroadcastPresence, TellList
<1> QED
  BY <1>1, <1>2, LiveIsOpen, SendIsSafe

(* A step that touches none of the seven variables. *)
LEMMA IdleStep ==
  ASSUME HubInv, UNCHANGED <<pc, clients, replaced, grace, timer, chan>>, ~panicked'
  PROVE  HubInv'
BY DEF HubInv, NotYetListed, OpenInService, GraceOnlyAfterService, InService,
   ListedAfterServiceIsInGrace, ListedIsNotReplaced, OneConnPerDevice,
   GraceEntryHasTimer, LiveConnIsListed, NoSendOnClosedChannel, SameDevice

(* A step that moves one connection from service to service. *)
LEMMA ServiceStep ==
  ASSUME TypeOK, HubInv, NEW c \in Conns, NEW label \in InService,
         pc[c] \in InService, Goto(c, label),
         UNCHANGED <<clients, replaced, grace, timer, chan>>, ~panicked'
  PROVE  HubInv'
<1>1. /\ pc'[c] \in InService
      /\ \A k \in Conns : k # c => pc'[k] = pc[k]
  BY DEF TypeOK, Goto
<1>2. NotYetListed' /\ OpenInService' /\ GraceOnlyAfterService'
  BY <1>1 DEF HubInv, NotYetListed, OpenInService, GraceOnlyAfterService, InService
<1>3. ListedAfterServiceIsInGrace' /\ ListedIsNotReplaced'
  BY <1>1 DEF TypeOK, HubInv, ListedAfterServiceIsInGrace, ListedIsNotReplaced, InService
<1>4. OneConnPerDevice' /\ GraceEntryHasTimer' /\ NoSendOnClosedChannel'
  BY DEF HubInv, OneConnPerDevice, GraceEntryHasTimer, NoSendOnClosedChannel, SameDevice
<1>5. LiveConnIsListed'
  BY <1>1 DEF HubInv, LiveConnIsListed, SameDevice, InService
<1> QED
  BY <1>2, <1>3, <1>4, <1>5 DEF HubInv

LEMMA StepInv == TypeOK /\ HubInv /\ [Next]_vars => HubInv'
<1> SUFFICES ASSUME TypeOK, HubInv, [Next]_vars PROVE HubInv'
  OBVIOUS
<1>0. ~panicked
  BY DEF HubInv, NoSendOnClosedChannel
<1>h. ASSUME NEW c \in Conns, Handshake(c) PROVE HubInv'
  <2>1. /\ pc[c] = "new" /\ pc'[c] = "registering" /\ chan'[c] = "open"
        /\ \A k \in Conns : k # c => pc'[k] = pc[k] /\ chan'[k] = chan[k]
        /\ UNCHANGED <<clients, replaced, grace, timer, panicked>>
    BY <1>h DEF TypeOK, Handshake, Goto
  <2>2. NotYetListed' /\ OpenInService' /\ GraceOnlyAfterService'
    BY <2>1 DEF HubInv, NotYetListed, OpenInService, GraceOnlyAfterService, InService
  <2>3. ListedAfterServiceIsInGrace' /\ ListedIsNotReplaced'
    BY <2>1 DEF TypeOK, HubInv, ListedAfterServiceIsInGrace, ListedIsNotReplaced
  <2>4. OneConnPerDevice' /\ GraceEntryHasTimer' /\ NoSendOnClosedChannel'
    BY <2>1 DEF HubInv, OneConnPerDevice, GraceEntryHasTimer, NoSendOnClosedChannel, SameDevice
  <2>5. LiveConnIsListed'
    BY <2>1 DEF HubInv, LiveConnIsListed, SameDevice, InService
  <2> QED
    BY <2>2, <2>3, <2>4, <2>5 DEF HubInv
<1>s. ASSUME NEW c \in Conns, Serve(c) PROVE HubInv'
  <2>1. CASE Register(c)
    <3> DEFINE old == Superseded(c)
    <3>1. /\ pc[c] = "registering" /\ pc'[c] \in InService
          /\ \A k \in Conns : k # c => pc'[k] = pc[k]
          /\ clients' = (clients \ old) \cup {c}
          /\ replaced' = [k \in Conns |-> replaced[k] \/ k \in old]
          /\ timer' = TimersStopped(old)
          /\ UNCHANGED <<grace, chan, panicked>>
      BY <2>1 DEF TypeOK, Register, Goto, InService, AfterClosing, chanVars
    <3>2. /\ c \notin clients /\ ~replaced[c] /\ ~grace[c]
          /\ chan[c] = "open"
      BY <3>1 DEF HubInv, NotYetListed, OpenInService
    <3>3. \A k \in Conns : k \in old <=> k \in clients /\ SameDevice(k, c)
      BY DEF TypeOK, Superseded, Group, UserOf, SameDevice
    <3>4. \A k \in Conns : k \notin old => timer'[k] = timer[k]
      BY <3>1 DEF TimersStopped
    <3> HIDE DEF old
    <3>5. NotYetListed'
      BY <3>1, <3>2, <3>3, <3>4 DEF TypeOK, HubInv, NotYetListed, InService
    <3>6. OpenInService' /\ GraceOnlyAfterService'
      BY <3>1, <3>2 DEF HubInv, OpenInService, GraceOnlyAfterService
    <3>7. ListedAfterServiceIsInGrace' /\ ListedIsNotReplaced'
      BY <3>1, <3>2, <3>3 DEF TypeOK, HubInv, ListedAfterServiceIsInGrace,
         ListedIsNotReplaced, InService
    <3>8. OneConnPerDevice'
      BY <3>1, <3>3 DEF TypeOK, HubInv, OneConnPerDevice, SameDevice
    <3>9. GraceEntryHasTimer'
      BY <3>1, <3>2, <3>4 DEF TypeOK, HubInv, GraceEntryHasTimer
    <3>10. LiveConnIsListed'
      <4> SUFFICES ASSUME NEW k \in Conns, pc'[k] \in InService
                   PROVE  \/ k \in clients' /\ ~grace'[k]
                          \/ /\ replaced'[k]
                             /\ \E j \in Conns \ {k} : /\ SameDevice(k, j)
                                                      /\ pc'[j] \notin {"new", "registering"}
        BY DEF LiveConnIsListed, SameDevice
      <4>1. CASE k = c
        BY <3>1, <3>2, <4>1
      <4>2. CASE k \in old
        <5>1. k # c /\ SameDevice(k, c)
          BY <3>2, <3>3, <4>2
        <5> QED
          BY <3>1, <4>2, <5>1 DEF InService
      <4>3. CASE k # c /\ k \notin old
        <5>1. pc[k] \in InService
          BY <3>1, <4>3
        <5>2. \/ k \in clients /\ ~grace[k]
              \/ /\ replaced[k]
                 /\ \E j \in Conns \ {k} : SameDevice(k, j) /\ pc[j] \notin {"new", "registering"}
          BY <5>1 DEF HubInv, LiveConnIsListed
        <5> QED
          BY <3>1, <4>3, <5>2
      <4> QED
        BY <4>1, <4>2, <4>3
    <3> QED
      BY <1>0, <3>1, <3>5, <3>6, <3>7, <3>8, <3>9, <3>10 DEF HubInv, NoSendOnClosedChannel
  <2>2. CASE CloseStale(c)
    <3>1. /\ pc[c] = "closing"
          /\ \E label \in InService : Goto(c, label)
          /\ UNCHANGED <<clients, replaced, grace, timer, chan, panicked>>
      BY <2>2 DEF CloseStale, AfterClosing, InService, hubVars, chanVars
    <3> QED
      BY <1>0, <3>1, ServiceStep DEF InService
  <2>3. CASE Announce(c)
    <3>1. /\ pc[c] = "announcing" /\ Goto(c, "reading")
          /\ UNCHANGED <<clients, replaced, grace, timer>>
      BY <2>3 DEF Announce, StartReading, hubVars
    <3>2. ~panicked' /\ UNCHANGED chan
      BY <2>3, BroadcastIsSafe DEF Announce
    <3> QED
      BY <3>1, <3>2, ServiceStep DEF InService
  <2>4. CASE Snapshot(c)
    <3>1. /\ pc[c] = "snapshot"
          /\ Goto(c, "reading") \/ Goto(c, "sending")
          /\ UNCHANGED <<clients, replaced, grace, timer, chan, panicked>>
      BY <2>4 DEF Snapshot, StartReading, hubVars, chanVars
    <3> QED
      BY <1>0, <3>1, ServiceStep DEF InService
  <2>5. CASE SendSnapshot(c)
    <3>1. /\ pc[c] = "sending" /\ Goto(c, "reading") /\ Send({c}, Presence)
          /\ UNCHANGED <<clients, replaced, grace, timer>>
      BY <2>5 DEF SendSnapshot, TellList, StartReading, hubVars
    <3>2. chan[c] = "open"
      BY <3>1 DEF HubInv, OpenInService, InService
    <3>3. ~panicked' /\ UNCHANGED chan
      BY <3>1, <3>2, SendIsSafe
    <3> QED
      BY <3>1, <3>3, ServiceStep DEF InService
  <2>6. CASE Route(c)
    <3> DEFINE R == {k \in Live(UserOf(c)) \ {c} : RoleOf[k] \in TargetRoles(frame[c])}
    <3>1. /\ pc[c] = "routing" /\ Goto(c, "reading") /\ Send(R, Frame(frame[c], c))
          /\ UNCHANGED <<clients, replaced, grace, timer>>
      BY <2>6 DEF Route, hubVars
    <3>2. \A k \in R : k \in clients /\ ~grace[k]
      BY DEF Live, Group
    <3> HIDE DEF R
    <3>3. ~panicked' /\ UNCHANGED chan
      BY <3>1, <3>2, LiveIsOpen, SendIsSafe
    <3> QED
      BY <3>1, <3>3, ServiceStep DEF InService
  <2>7. CASE ReadError(c)
    <3>1. /\ pc[c] = "reading" /\ Goto(c, "unregistering")
          /\ UNCHANGED <<clients, replaced, grace, timer, chan, panicked>>
      BY <2>7 DEF ReadError, hubVars, chanVars
    <3> QED
      BY <1>0, <3>1, ServiceStep DEF InService
  <2>8. CASE Unregister(c)
    <3>1. /\ pc[c] = "unregistering" /\ pc'[c] = "leaving"
          /\ \A k \in Conns : k # c => /\ pc'[k] = pc[k] /\ chan'[k] = chan[k]
                                      /\ grace'[k] = grace[k] /\ timer'[k] = timer[k]
          /\ UNCHANGED <<clients, replaced, panicked>>
          /\ replaced[c] => grace'[c] = grace[c] /\ timer'[c] = timer[c]
          /\ ~replaced[c] => grace'[c] /\ timer'[c] = "armed"
      BY <2>8 DEF TypeOK, ArmTimer, Unregister, Goto
    <3>2. c \in clients => ~replaced[c]
      BY DEF HubInv, ListedIsNotReplaced
    <3>3. /\ NotYetListed'
          /\ OpenInService'
          /\ GraceOnlyAfterService'
      <4>1. NotYetListed'
        BY <3>1 DEF HubInv, NotYetListed
      <4>2. OpenInService'
        BY <3>1 DEF HubInv, OpenInService, InService
      <4>3. GraceOnlyAfterService'
        BY <3>1 DEF HubInv, GraceOnlyAfterService
      <4> QED
        BY <4>1, <4>2, <4>3
    <3>c. clients \subseteq Conns
      BY DEF TypeOK
    <3>4. ListedAfterServiceIsInGrace' /\ ListedIsNotReplaced'
      <4>1. ListedAfterServiceIsInGrace'
        BY <3>1, <3>2, <3>c DEF HubInv, ListedAfterServiceIsInGrace
      <4>2. ListedIsNotReplaced'
        BY <3>1 DEF HubInv, ListedIsNotReplaced
      <4> QED
        BY <4>1, <4>2
    <3>5. OneConnPerDevice' /\ GraceEntryHasTimer'
      <4>1. OneConnPerDevice'
        BY <3>1 DEF HubInv, OneConnPerDevice, SameDevice
      <4>2. GraceEntryHasTimer'
        BY <3>1, <3>2, <3>c DEF HubInv, GraceEntryHasTimer
      <4> QED
        BY <4>1, <4>2
    <3>6. LiveConnIsListed'
      BY <3>1 DEF HubInv, LiveConnIsListed, SameDevice, InService
    <3> QED
      BY <1>0, <3>1, <3>3, <3>4, <3>5, <3>6 DEF HubInv, NoSendOnClosedChannel
  <2>9. CASE Leave(c)
    <3>1. /\ pc[c] = "leaving" /\ pc'[c] = "done"
          /\ \A k \in Conns : k # c => pc'[k] = pc[k]
          /\ UNCHANGED <<clients, replaced, grace, timer, chan, panicked>>
      BY <2>9 DEF TypeOK, Leave, Goto, hubVars, chanVars
    <3>2. NotYetListed' /\ OpenInService' /\ GraceOnlyAfterService'
      BY <3>1 DEF HubInv, NotYetListed, OpenInService, GraceOnlyAfterService, InService
    <3>3. ListedAfterServiceIsInGrace' /\ ListedIsNotReplaced'
      BY <3>1 DEF TypeOK, HubInv, ListedAfterServiceIsInGrace, ListedIsNotReplaced
    <3>4. OneConnPerDevice' /\ GraceEntryHasTimer' /\ NoSendOnClosedChannel'
      BY <1>0, <3>1 DEF HubInv, OneConnPerDevice, GraceEntryHasTimer, NoSendOnClosedChannel, SameDevice
    <3>5. LiveConnIsListed'
      BY <3>1 DEF HubInv, LiveConnIsListed, SameDevice, InService
    <3> QED
      BY <3>2, <3>3, <3>4, <3>5 DEF HubInv
  <2> QED
    BY <1>s, <2>1, <2>2, <2>3, <2>4, <2>5, <2>6, <2>7, <2>8, <2>9 DEF Serve
<1>r. ASSUME NEW c \in Conns, Receive(c) PROVE HubInv'
  <2>1. CASE ReadPing(c)
    <3>1. /\ pc[c] = "reading" /\ Send({c}, Pong)
          /\ UNCHANGED <<pc, clients, replaced, grace, timer>>
      BY <2>1 DEF ReadPing, hubVars
    <3>2. chan[c] = "open"
      BY <3>1 DEF HubInv, OpenInService, InService
    <3>3. ~panicked' /\ UNCHANGED chan
      BY <3>1, <3>2, SendIsSafe
    <3> QED
      BY <3>1, <3>3, IdleStep
  <2>2. ASSUME NEW t \in Forwarded, ReadFrame(c, t) PROVE HubInv'
    <3>1. /\ pc[c] = "reading" /\ Goto(c, "routing")
          /\ UNCHANGED <<clients, replaced, grace, timer, chan, panicked>>
      BY <2>2 DEF ReadFrame, hubVars, chanVars
    <3> QED
      BY <1>0, <3>1, ServiceStep DEF InService
  <2> QED
    BY <1>r, <2>1, <2>2 DEF Receive
<1>e. ASSUME NEW c \in Conns, Expire(c) PROVE HubInv'
  <2>1. CASE TimerFires(c)
    <3>1. /\ timer[c] = "armed" /\ timer'[c] = "fired"
          /\ \A k \in Conns : k # c => timer'[k] = timer[k]
          /\ UNCHANGED <<pc, clients, replaced, grace, chan, panicked>>
      BY <2>1 DEF TypeOK, TimerFires, chanVars
    <3>2. NotYetListed'
      BY <3>1 DEF HubInv, NotYetListed
    <3>3. GraceEntryHasTimer'
      <4> SUFFICES ASSUME NEW k \in clients', grace'[k] PROVE timer'[k] \in {"armed", "fired"}
        BY DEF GraceEntryHasTimer
      <4>1. k \in Conns /\ k \in clients /\ grace[k]
        BY <3>1 DEF TypeOK
      <4>2. timer[k] \in {"armed", "fired"}
        BY <4>1 DEF HubInv, GraceEntryHasTimer
      <4> QED
        BY <3>1, <4>1, <4>2
    <3> QED
      BY <3>1, <3>2, <3>3 DEF HubInv, OpenInService, GraceOnlyAfterService,
         ListedAfterServiceIsInGrace, ListedIsNotReplaced, OneConnPerDevice,
         LiveConnIsListed, NoSendOnClosedChannel, SameDevice
  <2>2. CASE FinalizeGrace(c)
    <3>1. CASE replaced[c] \/ ~grace[c]
      <4>1. /\ timer[c] = "fired" /\ timer'[c] = "none"
            /\ \A k \in Conns : k # c => timer'[k] = timer[k]
            /\ UNCHANGED <<pc, clients, replaced, grace, chan, panicked>>
        <5>1. timer[c] = "fired" /\ timer' = [timer EXCEPT ![c] = "none"]
          BY <2>2, <3>1 DEF FinalizeGrace
        <5>2. UNCHANGED <<pc, clients, replaced, grace, chan, panicked>>
          BY <2>2, <3>1 DEF FinalizeGrace, chanVars
        <5> QED
          BY <5>1, <5>2 DEF TypeOK
      <4>2. NotYetListed'
        BY <4>1 DEF HubInv, NotYetListed
      <4>3. GraceEntryHasTimer'
        <5> SUFFICES ASSUME NEW k \in clients', grace'[k] PROVE timer'[k] \in {"armed", "fired"}
          BY DEF GraceEntryHasTimer
        <5>1. k \in Conns /\ k \in clients /\ grace[k]
          BY <4>1 DEF TypeOK
        <5>2. k # c /\ timer[k] \in {"armed", "fired"}
          BY <3>1, <5>1 DEF HubInv, ListedIsNotReplaced, GraceEntryHasTimer
        <5> QED
          BY <4>1, <5>1, <5>2
      <4> QED
        BY <4>1, <4>2, <4>3 DEF HubInv, OpenInService, GraceOnlyAfterService,
           ListedAfterServiceIsInGrace, ListedIsNotReplaced, OneConnPerDevice,
           LiveConnIsListed, NoSendOnClosedChannel, SameDevice
    <3>2. CASE ~replaced[c] /\ grace[c]
      <4>1. /\ timer[c] = "fired" /\ timer'[c] = "departing"
            /\ clients' = clients \ {c} /\ ~grace'[c]
            /\ \A k \in Conns : k # c => timer'[k] = timer[k] /\ grace'[k] = grace[k]
            /\ UNCHANGED <<pc, replaced, chan, panicked>>
        BY <2>2, <3>2 DEF TypeOK, FinalizeGrace, chanVars
      <4>2. pc[c] \in {"leaving", "done"}
        BY <3>2 DEF HubInv, GraceOnlyAfterService
      <4>3. NotYetListed' /\ OpenInService' /\ GraceOnlyAfterService'
        BY <4>1, <4>2 DEF TypeOK, HubInv, NotYetListed, OpenInService, GraceOnlyAfterService
      <4>4. ListedAfterServiceIsInGrace' /\ ListedIsNotReplaced'
        BY <4>1 DEF TypeOK, HubInv, ListedAfterServiceIsInGrace, ListedIsNotReplaced
      <4>5. OneConnPerDevice' /\ GraceEntryHasTimer'
        BY <4>1 DEF TypeOK, HubInv, OneConnPerDevice, GraceEntryHasTimer, SameDevice
      <4>6. LiveConnIsListed'
        BY <4>1, <4>2 DEF HubInv, LiveConnIsListed, SameDevice, InService
      <4> QED
        BY <1>0, <4>1, <4>3, <4>4, <4>5, <4>6 DEF HubInv, NoSendOnClosedChannel
    <3> QED
      BY <3>1, <3>2
  <2>3. CASE AnnounceDeparture(c)
    <3>1. /\ timer[c] = "departing" /\ timer'[c] = "none"
          /\ \A k \in Conns : k # c => timer'[k] = timer[k]
          /\ UNCHANGED <<pc, clients, replaced, grace>>
      BY <2>3 DEF TypeOK, AnnounceDeparture
    <3>2. ~panicked' /\ UNCHANGED chan
      BY <2>3, BroadcastIsSafe DEF AnnounceDeparture
    <3>3. NotYetListed' /\ GraceEntryHasTimer'
      BY <3>1 DEF TypeOK, HubInv, NotYetListed, GraceEntryHasTimer
    <3> QED
      BY <3>1, <3>2, <3>3 DEF HubInv, OpenInService, GraceOnlyAfterService,
         ListedAfterServiceIsInGrace, ListedIsNotReplaced, OneConnPerDevice,
         LiveConnIsListed, NoSendOnClosedChannel, SameDevice
  <2> QED
    BY <1>e, <2>1, <2>2, <2>3 DEF Expire
<1>w. ASSUME NEW c \in Conns, Write(c) PROVE HubInv'
  BY <1>0, <1>w, IdleStep DEF Write, WriteMessage, StopWriting, hubVars, chanVars
<1>p. ASSUME NEW c \in Conns, PeerDies(c) PROVE HubInv'
  BY <1>0, <1>p, IdleStep DEF PeerDies, hubVars, chanVars
<1>q. ASSUME NEW r \in Requests, StartRequest(r) PROVE HubInv'
  <2>1. ASSUME NEW u \in Users, NEW t \in Forwarded, Push(r, u, t) PROVE HubInv'
    <3> DEFINE R == {k \in Live(u) : RoleOf[k] \in TargetRoles(t)}
    <3>1. /\ Send(R, Frame(t, "http-push"))
          /\ UNCHANGED <<pc, clients, replaced, grace, timer>>
      BY <2>1 DEF Push, hubVars
    <3>2. \A k \in R : k \in clients /\ ~grace[k]
      BY DEF Live, Group
    <3> HIDE DEF R
    <3>3. ~panicked' /\ UNCHANGED chan
      BY <3>1, <3>2, LiveIsOpen, SendIsSafe
    <3> QED
      BY <3>1, <3>3, IdleStep
  <2>2. ASSUME NEW T, Kick(r, T) PROVE HubInv'
    BY <1>0, <2>2, IdleStep DEF Kick, hubVars, chanVars
  <2>3. ASSUME NEW d \in Devices, NEW n \in Names, SaveName(r, d, n) PROVE HubInv'
    BY <1>0, <2>3, IdleStep DEF SaveName, hubVars, chanVars
  <2> QED
    BY <1>q, <2>1, <2>2, <2>3 DEF StartRequest, KickUser, KickDevice
<1>f. ASSUME NEW r \in Requests, FinishRequest(r) PROVE HubInv'
  <2>1. CASE ApplyName(r)
    BY <1>0, <2>1, IdleStep DEF ApplyName, chanVars
  <2>2. CASE AnnounceName(r)
    <3>1. ~panicked' /\ UNCHANGED chan
      BY <2>2, BroadcastIsSafe DEF AnnounceName
    <3> QED
      BY <2>2, <3>1, IdleStep DEF AnnounceName, hubVars
  <2>3. CASE SendKick(r)
    BY <1>0, <2>3, IdleStep DEF SendKick, hubVars, chanVars
  <2> QED
    BY <1>f, <2>1, <2>2, <2>3 DEF FinishRequest
<1>u. ASSUME UNCHANGED vars PROVE HubInv'
  BY <1>0, <1>u, IdleStep DEF vars, hubVars, chanVars
<1> QED
  BY <1>h, <1>s, <1>r, <1>e, <1>w, <1>p, <1>q, <1>f, <1>u DEF Next

(* No interleaving of broadcasts, routes, pushes and snapshots with an     *)
(* unregister ever sends on a closed channel; no device is in the hub      *)
(* twice; a connection kept in grace has a timer that takes it out; and a  *)
(* connection in service leaves the hub only to a newer one of its device. *)
THEOREM HubIsSafe == Spec => []HubInv
<1>1. TypeOK /\ HubInv /\ [Next]_vars => HubInv'
  BY StepInv
<1> QED
  BY <1>1, InitInv, TypeCorrect, PTL DEF Spec

(* The process is never brought down by a send on a closed channel.        *)
THEOREM NeverPanics == Spec => []NoSendOnClosedChannel
<1>1. HubInv => NoSendOnClosedChannel
  BY DEF HubInv
<1> QED
  BY <1>1, HubIsSafe, PTL

(* No device is in the hub twice.                                          *)
THEOREM DeviceIsListedOnce == Spec => []OneConnPerDevice
<1>1. HubInv => OneConnPerDevice
  BY DEF HubInv
<1> QED
  BY <1>1, HubIsSafe, PTL

(* What is kept in the hub in grace has a timer that will take it out.     *)
THEOREM GraceIsTimed == Spec => []GraceEntryHasTimer
<1>1. HubInv => GraceEntryHasTimer
  BY DEF HubInv
<1> QED
  BY <1>1, HubIsSafe, PTL

(* A connection in service is in the hub until one of its device comes.    *)
THEOREM ServedIsListed == Spec => []LiveConnIsListed
<1>1. HubInv => LiveConnIsListed
  BY DEF HubInv
<1> QED
  BY <1>1, HubIsSafe, PTL

-----------------------------------------------------------------------------
(* The hub implements the directory of devices.                            *)

LEMMA SameStatus ==
  ASSUME UNCHANGED <<clients, grace>> PROVE UNCHANGED Status
BY DEF Status

(* A step that changes the status of one device is a step of the directory. *)
LEMMA StatusOfOne ==
  ASSUME NEW d \in Devices, NEW now,
         \A e \in Devices : e # d => Status'[e] = Status[e],
         Status'[d] = now
  PROVE  Status' = [Status EXCEPT ![d] = now]
<1>1. /\ Status = [e \in Devices |-> Status[e]]
      /\ Status' = [e \in Devices |-> Status'[e]]
  BY DEF Status
<1> QED
  BY <1>1

LEMMA InitStatus == Init => Directory!Init
BY DEF Init, Directory!Init, Status

LEMMA StepStatus ==
  TypeOK /\ HubInv /\ HubInv' /\ [Next]_vars => [Directory!Next]_Status
<1> SUFFICES ASSUME TypeOK, HubInv, HubInv', [Next]_vars
             PROVE  [Directory!Next]_Status
  OBVIOUS
<1> USE ConstantsAssumption
<1>1. ASSUME NEW c \in Conns, Register(c) PROVE [Directory!Next]_Status
  <2> DEFINE d == DeviceOf[c]
  <2>1. /\ clients' = (clients \ Superseded(c)) \cup {c}
        /\ UNCHANGED grace
        /\ ~grace[c]
    BY <1>1 DEF Register, HubInv, NotYetListed
  <2>2. \A k \in clients : k \in Superseded(c) <=> DeviceOf[k] = d
    BY DEF Superseded, Group, UserOf, SameDevice
  <2>3. Status'[d] = "online"
    BY <2>1 DEF Status
  <2>4. \A e \in Devices : e # d => Status'[e] = Status[e]
    BY <2>1, <2>2 DEF Status, TypeOK
  <2>5. Status' = [Status EXCEPT ![d] = "online"]
    BY <2>3, <2>4, StatusOfOne
  <2>6. CASE Status[d] # "online"
    BY <2>5, <2>6 DEF Directory!Next, Directory!Arrive
  <2>7. CASE Status[d] = "online"
    BY <2>5, <2>7 DEF Status
  <2> QED
    BY <2>6, <2>7
<1>2. ASSUME NEW c \in Conns, Unregister(c) PROVE [Directory!Next]_Status
  <2> DEFINE d == DeviceOf[c]
  <2>1. CASE replaced[c]
    BY <1>2, <2>1, SameStatus DEF Unregister
  <2>2. CASE ~replaced[c]
    <3>1. c \in clients /\ ~grace[c]
      BY <1>2, <2>2 DEF Unregister, HubInv, LiveConnIsListed, InService
    <3>2. /\ UNCHANGED clients /\ grace'[c]
          /\ \A k \in Conns : k # c => grace'[k] = grace[k]
      BY <1>2, <2>2 DEF TypeOK, ArmTimer, Unregister
    <3>3. \A k \in clients : DeviceOf[k] = d => k = c
      BY <3>1 DEF HubInv, OneConnPerDevice, SameDevice
    <3>4. Status[d] = "online"
      BY <3>1 DEF Status
    <3>5. Status'[d] = "leaving"
      BY <3>1, <3>2, <3>3 DEF Status
    <3>6. \A e \in Devices : e # d => Status'[e] = Status[e]
      BY <3>2 DEF Status, TypeOK
    <3>7. Status' = [Status EXCEPT ![d] = "leaving"]
      BY <3>5, <3>6, StatusOfOne
    <3> QED
      BY <3>4, <3>7 DEF Directory!Next, Directory!Break
  <2> QED
    BY <2>1, <2>2
<1>3. ASSUME NEW c \in Conns, FinalizeGrace(c) PROVE [Directory!Next]_Status
  <2> DEFINE d == DeviceOf[c]
  <2>1. CASE replaced[c] \/ ~grace[c]
    BY <1>3, <2>1, SameStatus DEF FinalizeGrace
  <2>2. CASE ~replaced[c] /\ grace[c]
    <3>1. /\ clients' = clients \ {c}
          /\ \A k \in Conns : k # c => grace'[k] = grace[k]
      BY <1>3, <2>2 DEF TypeOK, FinalizeGrace
    <3>2. \A e \in Devices : e # d => Status'[e] = Status[e]
      BY <3>1 DEF Status, TypeOK
    <3>3. CASE c \in clients
      <4>1. \A k \in clients : DeviceOf[k] = d => k = c
        BY <3>3 DEF HubInv, OneConnPerDevice, SameDevice
      <4>2. Status[d] = "leaving" /\ Status'[d] = "absent"
        BY <2>2, <3>1, <3>3, <4>1 DEF Status
      <4>3. Status' = [Status EXCEPT ![d] = "absent"]
        BY <3>2, <4>2, StatusOfOne
      <4> QED
        BY <4>2, <4>3 DEF Directory!Next, Directory!Depart
    <3>4. CASE c \notin clients
      <4>1. clients' = clients /\ \A k \in clients : grace'[k] = grace[k]
        BY <3>1, <3>4 DEF TypeOK
      <4> QED
        BY <4>1 DEF Status
    <3> QED
      BY <3>3, <3>4
  <2> QED
    BY <2>1, <2>2
<1>4. CASE UNCHANGED <<clients, grace>>
  BY <1>4, SameStatus
<1>5. \/ \E c \in Conns : Register(c) \/ Unregister(c) \/ FinalizeGrace(c)
      \/ UNCHANGED <<clients, grace>>
  <2> DEFINE Quiet == UNCHANGED <<clients, grace>>
  <2>1. ASSUME NEW c \in Conns, Serve(c)
        PROVE  Register(c) \/ Unregister(c) \/ Quiet
    BY <2>1 DEF Serve, CloseStale, Announce, Snapshot, SendSnapshot, Route, ReadError, Leave,
       hubVars
  <2>2. ASSUME NEW c \in Conns, Expire(c)
        PROVE  FinalizeGrace(c) \/ Quiet
    BY <2>2 DEF Expire, TimerFires, AnnounceDeparture
  <2>3. ASSUME NEW c \in Conns, Handshake(c) \/ Receive(c) \/ Write(c) \/ PeerDies(c)
        PROVE  Quiet
    BY <2>3 DEF Handshake, Receive, ReadPing, ReadFrame, Write, WriteMessage, StopWriting,
       PeerDies, hubVars
  <2>4. ASSUME NEW r \in Requests, StartRequest(r)
        PROVE  Quiet
    BY <2>4 DEF StartRequest, KickUser, KickDevice, Kick, Push, SaveName, hubVars
  <2>5. ASSUME NEW r \in Requests, FinishRequest(r)
        PROVE  Quiet
    BY <2>5 DEF FinishRequest, ApplyName, AnnounceName, SendKick, hubVars
  <2>6. ASSUME UNCHANGED vars
        PROVE  Quiet
    BY <2>6 DEF vars, hubVars
  <2> QED
    BY <2>1, <2>2, <2>3, <2>4, <2>5, <2>6 DEF Next
<1> QED
  BY <1>1, <1>2, <1>3, <1>4, <1>5

(* Every behaviour of the hub is one of the directory: no device with a    *)
(* working connection vanishes in one step, whatever timers, kicks and     *)
(* reconnects do.                                                          *)
THEOREM HubImplementsDirectory == Spec => ImplementsDirectorySafe
<1>1. Init => Directory!Init
  BY InitStatus
<1>2. TypeOK /\ HubInv /\ HubInv' /\ [Next]_vars => [Directory!Next]_Status
  BY StepStatus
<1> QED
  BY <1>1, <1>2, TypeCorrect, HubIsSafe, PTL
  DEF Spec, ImplementsDirectorySafe, Directory!Safe

-----------------------------------------------------------------------------
(* Accounts do not see each other.                                         *)

ListsOfOwn(c) == \A e \in told[c] \cup snap[c] : UserOf(e.conn) = UserOf(c)

QueueOfOwn(c) ==
  \A i \in DOMAIN queue[c] :
    queue[c][i].from \in Conns => UserOf(queue[c][i].from) = UserOf(c)

LEMMA InitIsolation == Init => UserIsolation
BY DEF Init, UserIsolation

(* A send whose receivers may see the message keeps every queue apart.     *)
LEMMA SendIsolates ==
  ASSUME TypeOK, UserIsolation, NEW R, NEW msg \in Messages, Send(R, msg),
         msg.from \in Conns => \A k \in R : UserOf(k) = UserOf(msg.from)
  PROVE  \A c \in Conns : QueueOfOwn(c)'
<1> SUFFICES ASSUME NEW c \in Conns, NEW i \in DOMAIN queue'[c],
                    queue'[c][i].from \in Conns
             PROVE  UserOf(queue'[c][i].from) = UserOf(c)
  BY DEF QueueOfOwn, UserOf
<1>1. CASE queue'[c] = queue[c]
  BY <1>1 DEF UserIsolation
<1>2. CASE c \in R /\ queue'[c] = Append(queue[c], msg)
  <2>1. queue[c] \in Seq(Messages)
    BY DEF TypeOK
  <2>2. CASE i \in DOMAIN queue[c]
    BY <1>2, <2>1, <2>2 DEF UserIsolation
  <2>3. CASE i \notin DOMAIN queue[c]
    <3>1. queue'[c][i] = msg
      BY <1>2, <2>1, <2>3
    <3> QED
      BY <1>2, <3>1
  <2> QED
    BY <2>2, <2>3
<1> QED
  BY <1>1, <1>2 DEF TypeOK, Send

(* So does a list of the receivers' account.                               *)
LEMMA TellIsolates ==
  ASSUME TypeOK, UserIsolation, NEW R, NEW list \in SUBSET Entries, TellList(R, list),
         \A k \in R, e \in list : UserOf(e.conn) = UserOf(k)
  PROVE  \A c \in Conns : /\ QueueOfOwn(c)'
                          /\ \A e \in told'[c] : UserOf(e.conn) = UserOf(c)
<1>1. Presence \in Messages /\ Presence.from \notin Conns
  BY ConstantsAssumption DEF Presence, Messages
<1>2. \A c \in Conns : QueueOfOwn(c)'
  BY <1>1, SendIsolates DEF TellList
<1>3. \A c \in Conns : told'[c] = told[c] \/ (c \in R /\ told'[c] = list)
  BY DEF TellList, TypeOK
<1> QED
  BY <1>2, <1>3 DEF UserIsolation

LEMMA BroadcastIsolates ==
  ASSUME TypeOK, UserIsolation, NEW u, BroadcastPresence(u), snap' = snap
  PROVE  UserIsolation'
<1>1. \A k \in Receivers(u), e \in Listing(u) : UserOf(e.conn) = UserOf(k)
  BY DEF Receivers, Listing, Dedup, Group
<1>2. \A c \in Conns : /\ QueueOfOwn(c)'
                       /\ \A e \in told'[c] : UserOf(e.conn) = UserOf(c)
  BY <1>1, ListingType, TellIsolates DEF BroadcastPresence
<1> QED
  BY <1>2 DEF UserIsolation, QueueOfOwn, UserOf

(* The steps that put nothing new in a list or a queue.                    *)
LEMMA QuietIsolates ==
  ASSUME TypeOK, UserIsolation,
         \A c \in Conns : /\ snap'[c] \subseteq snap[c] /\ told'[c] \subseteq told[c]
                          /\ queue'[c] = queue[c]
  PROVE  UserIsolation'
BY DEF UserIsolation, UserOf

LEMMA StepIsolation == TypeOK /\ UserIsolation /\ [Next]_vars => UserIsolation'
<1> SUFFICES ASSUME TypeOK, UserIsolation, [Next]_vars PROVE UserIsolation'
  OBVIOUS
<1>1. ASSUME NEW c \in Conns, Serve(c) PROVE UserIsolation'
  <2>1. CASE Announce(c)
    BY <2>1, BroadcastIsolates DEF Announce, connVars
  <2>2. CASE Snapshot(c)
    <3>1. UNCHANGED <<queue, told>>
      BY <2>2 DEF Snapshot, chanVars, toldVars
    <3>2. CASE UNCHANGED snap
      BY <3>1, <3>2, QuietIsolates
    <3>3. CASE snap' = [snap EXCEPT ![c] = Listing(UserOf(c))]
      <4>1. \A e \in Listing(UserOf(c)) : UserOf(e.conn) = UserOf(c)
        BY DEF Listing, Dedup, Group
      <4>2. \A k \in Conns : \A e \in snap'[k] : UserOf(e.conn) = UserOf(k)
        BY <3>3, <4>1 DEF UserIsolation, TypeOK
      <4> QED
        BY <3>1, <4>2 DEF UserIsolation, UserOf
    <3> QED
      BY <2>2, <3>2, <3>3 DEF Snapshot
  <2>3. CASE SendSnapshot(c)
    <3>1. snap[c] \in SUBSET Entries /\ \A e \in snap[c] : UserOf(e.conn) = UserOf(c)
      BY DEF TypeOK, UserIsolation
    <3>2. TellList({c}, snap[c]) /\ snap' = [snap EXCEPT ![c] = {}]
      BY <2>3 DEF SendSnapshot
    <3>3. \A k \in Conns : /\ QueueOfOwn(k)'
                           /\ \A e \in told'[k] : UserOf(e.conn) = UserOf(k)
      BY <3>1, <3>2, TellIsolates
    <3>4. \A k \in Conns : snap'[k] \subseteq snap[k]
      BY <3>2 DEF TypeOK
    <3> QED
      BY <3>3, <3>4 DEF UserIsolation, QueueOfOwn, UserOf
  <2>4. CASE Route(c)
    <3> DEFINE R == {k \in Live(UserOf(c)) \ {c} : RoleOf[k] \in TargetRoles(frame[c])}
    <3>1. Frame(frame[c], c) \in Messages /\ Frame(frame[c], c).from = c
      BY <2>4 DEF TypeOK, Route, Frame, Messages
    <3>2. \A k \in R : UserOf(k) = UserOf(c)
      BY DEF Live, Group
    <3>3. Send(R, Frame(frame[c], c)) /\ UNCHANGED <<snap, told>>
      BY <2>4 DEF Route, toldVars
    <3>4. \A k \in Conns : QueueOfOwn(k)'
      <4> HIDE DEF R
      <4> QED
        BY <3>1, <3>2, <3>3, SendIsolates
    <3> QED
      BY <3>3, <3>4 DEF UserIsolation, QueueOfOwn, UserOf
  <2>5. CASE Unregister(c)
    BY <2>5, QuietIsolates DEF TypeOK, Unregister
  <2>6. CASE Register(c) \/ CloseStale(c) \/ ReadError(c) \/ Leave(c)
    BY <2>6, QuietIsolates
    DEF Register, CloseStale, ReadError, Leave, connVars, chanVars, toldVars
  <2> QED
    BY <1>1, <2>1, <2>2, <2>3, <2>4, <2>5, <2>6 DEF Serve
<1>2. ASSUME NEW c \in Conns, Receive(c) PROVE UserIsolation'
  <2>1. CASE ReadPing(c)
    <3>1. Pong \in Messages /\ Pong.from \notin Conns
      BY ConstantsAssumption DEF Pong, Messages
    <3>2. \A k \in Conns : QueueOfOwn(k)'
      BY <2>1, <3>1, SendIsolates DEF ReadPing
    <3> QED
      BY <2>1, <3>2 DEF ReadPing, UserIsolation, QueueOfOwn, UserOf, toldVars
  <2>2. ASSUME NEW t \in Forwarded, ReadFrame(c, t) PROVE UserIsolation'
    BY <2>2, QuietIsolates DEF ReadFrame, chanVars, toldVars
  <2> QED
    BY <1>2, <2>1, <2>2 DEF Receive
<1>3. ASSUME NEW c \in Conns, Expire(c) PROVE UserIsolation'
  <2>1. CASE AnnounceDeparture(c)
    BY <2>1, BroadcastIsolates DEF AnnounceDeparture, connVars
  <2>2. CASE TimerFires(c) \/ FinalizeGrace(c)
    BY <2>2, QuietIsolates DEF TimerFires, FinalizeGrace, connVars, chanVars, toldVars
  <2> QED
    BY <1>3, <2>1, <2>2 DEF Expire
<1>4. ASSUME NEW c \in Conns, Write(c) PROVE UserIsolation'
  <2>1. CASE WriteMessage(c)
    <3>1. UNCHANGED <<snap, told>>
      BY <2>1 DEF WriteMessage, connVars, toldVars
    <3>2. /\ queue[c] \in Seq(Messages) /\ queue[c] # <<>>
          /\ queue' = [queue EXCEPT ![c] = Tail(queue[c])]
      BY <2>1 DEF WriteMessage, TypeOK
    <3>3. \A i \in DOMAIN Tail(queue[c]) :
            i + 1 \in DOMAIN queue[c] /\ Tail(queue[c])[i] = queue[c][i + 1]
      BY <3>2
    <3>4. \A k \in Conns : QueueOfOwn(k)'
      <4> SUFFICES ASSUME NEW k \in Conns PROVE QueueOfOwn(k)'
        OBVIOUS
      <4>1. CASE k = c
        <5>1. queue'[k] = Tail(queue[c])
          BY <3>2, <4>1 DEF TypeOK
        <5> QED
          BY <3>3, <4>1, <5>1 DEF UserIsolation, QueueOfOwn, UserOf
      <4>2. CASE k # c
        BY <3>2, <4>2 DEF UserIsolation, QueueOfOwn, UserOf, TypeOK
      <4> QED
        BY <4>1, <4>2
    <3> QED
      BY <3>1, <3>4 DEF UserIsolation, QueueOfOwn, UserOf
  <2>2. CASE StopWriting(c)
    BY <2>2, QuietIsolates DEF StopWriting, connVars, chanVars, toldVars
  <2> QED
    BY <1>4, <2>1, <2>2 DEF Write
<1>5. ASSUME NEW c \in Conns, Handshake(c) \/ PeerDies(c) PROVE UserIsolation'
  BY <1>5, QuietIsolates DEF Handshake, PeerDies, connVars, chanVars, toldVars
<1>6. ASSUME NEW r \in Requests, StartRequest(r) PROVE UserIsolation'
  <2>1. ASSUME NEW u \in Users, NEW t \in Forwarded, Push(r, u, t) PROVE UserIsolation'
    <3>1. Frame(t, "http-push") \in Messages /\ Frame(t, "http-push").from \notin Conns
      BY ConstantsAssumption DEF Frame, Messages
    <3>2. \A k \in Conns : QueueOfOwn(k)'
      BY <2>1, <3>1, SendIsolates DEF Push
    <3> QED
      BY <2>1, <3>2 DEF Push, UserIsolation, QueueOfOwn, UserOf, connVars, toldVars
  <2>2. ASSUME NEW u \in Users, KickUser(r, u) PROVE UserIsolation'
    BY <2>2, QuietIsolates DEF KickUser, Kick, connVars, chanVars, toldVars
  <2>3. ASSUME NEW d \in Devices, KickDevice(r, d) PROVE UserIsolation'
    BY <2>3, QuietIsolates DEF KickDevice, Kick, connVars, chanVars, toldVars
  <2>4. ASSUME NEW d \in Devices, NEW n \in Names, SaveName(r, d, n) PROVE UserIsolation'
    BY <2>4, QuietIsolates DEF SaveName, connVars, chanVars, toldVars
  <2> QED
    BY <1>6, <2>1, <2>2, <2>3, <2>4 DEF StartRequest
<1>7. ASSUME NEW r \in Requests, FinishRequest(r) PROVE UserIsolation'
  <2>1. CASE AnnounceName(r)
    BY <2>1, BroadcastIsolates DEF AnnounceName, connVars
  <2>2. CASE ApplyName(r) \/ SendKick(r)
    BY <2>2, QuietIsolates DEF ApplyName, SendKick, connVars, chanVars, toldVars
  <2> QED
    BY <1>7, <2>1, <2>2 DEF FinishRequest
<1>8. CASE UNCHANGED vars
  BY <1>8, QuietIsolates DEF vars, connVars, chanVars, toldVars
<1> QED
  BY <1>1, <1>2, <1>3, <1>4, <1>5, <1>6, <1>7, <1>8 DEF Next

(* Nothing of one account reaches another, not a frame and not an entry of *)
(* a list, whatever connections come, are replaced and go (main.go:794).   *)
THEOREM AccountsAreApart == Spec => []UserIsolation
BY InitIsolation, StepIsolation, TypeCorrect, PTL DEF Spec

-----------------------------------------------------------------------------
(* What comes into the queues, and from whom.                              *)

(* A message of the queue of c after the step was there before it.         *)
WasQueued(c, i) == \E j \in DOMAIN queue[c] : queue'[c][i] = queue[c][j]

LEMMA SendAdds ==
  ASSUME TypeOK, NEW R, NEW msg \in Messages, Send(R, msg),
         NEW c \in Conns, NEW i \in DOMAIN queue'[c]
  PROVE  WasQueued(c, i) \/ (c \in R /\ queue'[c][i] = msg)
<1>1. CASE queue'[c] = queue[c]
  BY <1>1 DEF WasQueued
<1>2. CASE c \in R /\ queue'[c] = Append(queue[c], msg)
  <2>1. queue[c] \in Seq(Messages)
    BY DEF TypeOK
  <2>2. CASE i \in DOMAIN queue[c]
    BY <1>2, <2>1, <2>2 DEF WasQueued
  <2>3. CASE i \notin DOMAIN queue[c]
    BY <1>2, <2>1, <2>3
  <2> QED
    BY <2>2, <2>3
<1> QED
  BY <1>1, <1>2 DEF TypeOK, Send

(* Only Route puts a message of a connection into a queue, that of another *)
(* connection of the account which is in the hub outside its grace.        *)
LEMMA QueueStep ==
  ASSUME TypeOK, [Next]_vars, NEW c \in Conns, NEW i \in DOMAIN queue'[c],
         queue'[c][i].from \in Conns
  PROVE  \/ WasQueued(c, i)
         \/ \E k \in Conns : /\ Route(k)
                             /\ c \in Live(UserOf(k)) \ {k}
                             /\ queue'[c][i].from = k
<1> DEFINE Goal == \/ WasQueued(c, i)
                   \/ \E k \in Conns : /\ Route(k)
                                       /\ c \in Live(UserOf(k)) \ {k}
                                       /\ queue'[c][i].from = k
<1> SUFFICES Goal
  OBVIOUS
<1>0. CASE queue'[c] = queue[c]
  BY <1>0 DEF WasQueued
<1>b. ASSUME NEW R, Send(R, Presence) PROVE Goal
  <2>1. Presence \in Messages /\ Presence.from \notin Conns
    BY ConstantsAssumption DEF Presence, Messages
  <2> QED
    BY <1>b, <2>1, SendAdds
<1>t. ASSUME NEW u, BroadcastPresence(u) PROVE Goal
  BY <1>t, <1>b DEF BroadcastPresence, TellList
<1>1. ASSUME NEW k \in Conns, Serve(k) PROVE Goal
  <2>1. CASE Announce(k)
    BY <2>1, <1>t DEF Announce
  <2>2. CASE SendSnapshot(k)
    BY <2>2, <1>b DEF SendSnapshot, TellList
  <2>3. CASE Route(k)
    <3> DEFINE R == {l \in Live(UserOf(k)) \ {k} : RoleOf[l] \in TargetRoles(frame[k])}
    <3>1. Frame(frame[k], k) \in Messages /\ Frame(frame[k], k).from = k
      BY <2>3 DEF TypeOK, Route, Frame, Messages
    <3>2. Send(R, Frame(frame[k], k))
      BY <2>3 DEF Route
    <3>3. WasQueued(c, i) \/ (c \in R /\ queue'[c][i] = Frame(frame[k], k))
      <4> HIDE DEF R
      <4> QED
        BY <3>1, <3>2, SendAdds
    <3> QED
      BY <2>3, <3>1, <3>3
  <2>4. CASE Register(k) \/ CloseStale(k) \/ Snapshot(k) \/ ReadError(k)
             \/ Unregister(k) \/ Leave(k)
    BY <2>4, <1>0
    DEF Register, CloseStale, Snapshot, ReadError, Unregister, Leave, chanVars
  <2> QED
    BY <1>1, <2>1, <2>2, <2>3, <2>4 DEF Serve
<1>2. ASSUME NEW k \in Conns, Receive(k) PROVE Goal
  <2>1. CASE ReadPing(k)
    <3>1. Pong \in Messages /\ Pong.from \notin Conns
      BY ConstantsAssumption DEF Pong, Messages
    <3> QED
      BY <2>1, <3>1, SendAdds DEF ReadPing
  <2>2. ASSUME NEW t \in Forwarded, ReadFrame(k, t) PROVE Goal
    BY <2>2, <1>0 DEF ReadFrame, chanVars
  <2> QED
    BY <1>2, <2>1, <2>2 DEF Receive
<1>3. ASSUME NEW k \in Conns, Expire(k) PROVE Goal
  BY <1>3, <1>0, <1>t DEF Expire, TimerFires, FinalizeGrace, AnnounceDeparture, chanVars
<1>4. ASSUME NEW k \in Conns, Write(k) PROVE Goal
  <2>1. CASE WriteMessage(k)
    <3>1. /\ queue[k] \in Seq(Messages) /\ queue[k] # <<>>
          /\ queue' = [queue EXCEPT ![k] = Tail(queue[k])]
      BY <2>1 DEF WriteMessage, TypeOK
    <3>2. \A j \in DOMAIN Tail(queue[k]) :
            j + 1 \in DOMAIN queue[k] /\ Tail(queue[k])[j] = queue[k][j + 1]
      BY <3>1
    <3>3. CASE c = k
      <4>1. queue'[c] = Tail(queue[k])
        BY <3>1, <3>3 DEF TypeOK
      <4> QED
        BY <3>2, <3>3, <4>1 DEF WasQueued
    <3>4. CASE c # k
      BY <3>1, <3>4, <1>0 DEF TypeOK
    <3> QED
      BY <3>3, <3>4
  <2>2. CASE StopWriting(k)
    BY <2>2, <1>0 DEF StopWriting, chanVars
  <2> QED
    BY <1>4, <2>1, <2>2 DEF Write
<1>5. ASSUME NEW k \in Conns, Handshake(k) \/ PeerDies(k) PROVE Goal
  BY <1>5, <1>0 DEF Handshake, PeerDies, chanVars
<1>6. ASSUME NEW r \in Requests, StartRequest(r) PROVE Goal
  <2>1. ASSUME NEW u \in Users, NEW t \in Forwarded, Push(r, u, t) PROVE Goal
    <3>1. Frame(t, "http-push") \in Messages /\ Frame(t, "http-push").from \notin Conns
      BY ConstantsAssumption DEF Frame, Messages
    <3> QED
      BY <2>1, <3>1, SendAdds DEF Push
  <2>2. CASE UNCHANGED chanVars
    BY <2>2, <1>0 DEF chanVars
  <2> QED
    BY <1>6, <2>1, <2>2 DEF StartRequest, KickUser, KickDevice, Kick, SaveName
<1>7. ASSUME NEW r \in Requests, FinishRequest(r) PROVE Goal
  BY <1>7, <1>0, <1>t DEF FinishRequest, ApplyName, AnnounceName, SendKick, chanVars
<1>8. CASE UNCHANGED vars
  BY <1>8, <1>0 DEF vars, chanVars
<1> QED
  BY <1>1, <1>2, <1>3, <1>4, <1>5, <1>6, <1>7, <1>8 DEF Next

(* A connection once replaced stays so. *)
LEMMA ReplacedStays ==
  ASSUME TypeOK, [Next]_vars, NEW k \in Conns, replaced[k] PROVE replaced'[k]
<1>1. CASE \E c \in Conns : Register(c)
  BY <1>1 DEF Register
<1>2. CASE UNCHANGED replaced
  BY <1>2
<1>3. ASSUME NEW c \in Conns, Serve(c) PROVE Register(c) \/ UNCHANGED replaced
  BY <1>3 DEF Serve, CloseStale, Announce, Snapshot, SendSnapshot, Route, ReadError,
     Unregister, Leave, hubVars
<1>4. ASSUME NEW c \in Conns, Handshake(c) \/ Receive(c) \/ Expire(c) \/ Write(c) \/ PeerDies(c)
      PROVE  UNCHANGED replaced
  BY <1>4 DEF Handshake, Receive, ReadPing, ReadFrame, Expire, TimerFires, FinalizeGrace,
     AnnounceDeparture, Write, WriteMessage, StopWriting, PeerDies, hubVars
<1>5. ASSUME NEW r \in Requests, StartRequest(r) \/ FinishRequest(r)
      PROVE  UNCHANGED replaced
  BY <1>5 DEF StartRequest, KickUser, KickDevice, Kick, Push, SaveName, FinishRequest,
     ApplyName, AnnounceName, SendKick, hubVars
<1>6. CASE UNCHANGED vars
  BY <1>6 DEF vars, hubVars
<1> QED
  BY <1>1, <1>2, <1>3, <1>4, <1>5, <1>6 DEF Next

(* A connection that routes a frame is in service: it is the only one of   *)
(* its device in the hub, or it was replaced (LiveConnIsListed).           *)
LEMMA StepEcho ==
  TypeOK /\ HubInv /\ EchoOnlyIfReplaced /\ [Next]_vars => EchoOnlyIfReplaced'
<1> SUFFICES ASSUME TypeOK, HubInv, EchoOnlyIfReplaced, [Next]_vars,
                    NEW c \in Conns, NEW i \in DOMAIN queue'[c], NEW k \in Conns,
                    queue'[c][i].from = k, SameDevice(k, c)
             PROVE  k # c /\ replaced'[k]
  BY DEF EchoOnlyIfReplaced, SameDevice
<1>1. CASE WasQueued(c, i)
  <2>1. k # c /\ replaced[k]
    BY <1>1 DEF WasQueued, EchoOnlyIfReplaced
  <2> QED
    BY <2>1, ReplacedStays
<1>2. CASE Route(k) /\ c \in Live(UserOf(k)) \ {k}
  <2>1. pc[k] \in InService /\ c # k /\ c \in clients
    BY <1>2 DEF Route, InService, Live, Group
  <2>2. replaced[k]
    BY <2>1 DEF HubInv, LiveConnIsListed, OneConnPerDevice
  <2> QED
    BY <2>1, <2>2, ReplacedStays
<1> QED
  BY <1>1, <1>2, QueueStep

(* A frame comes back to the device that sent it only if the connection it *)
(* was read from was replaced before it was routed, whatever else goes on  *)
(* (main.go:807-810).                                                      *)
THEOREM EchoMeansReplaced == Spec => []EchoOnlyIfReplaced
<1>1. Init => EchoOnlyIfReplaced
  BY DEF Init, EchoOnlyIfReplaced
<1> QED
  BY <1>1, StepEcho, TypeCorrect, HubIsSafe, PTL DEF Spec

-----------------------------------------------------------------------------
(* What the clients are told.  A device list is out of date for as long as *)
(* a broadcast for its account is to come, and so is a name.               *)

Pending(u) ==
  \E k \in Conns : /\ UserOf(k) = u
                   /\ \/ timer[k] = "departing"
                      \/ pc[k] = "announcing"
                      \/ pc[k] = "closing" /\ ~silent[k]

NamePending(u) ==
  \E r \in Requests : req[r].pc = "announcing" /\ Owner[req[r].dev] = u

Served == {"reading", "routing"}

NotYet == {"new", "registering"}

(* The list a client has got, or is about to be sent.                      *)
View(c) == IF pc[c] = "sending" THEN snap[c] ELSE told[c]

Listens(c) == /\ c \in clients /\ ~overtaken[c]
              /\ pc[c] = "sending" \/ (pc[c] \in Served /\ ~lost[c])

ViewedDevices(c) == {DeviceOf[e.conn] : e \in View(c)}

ListedDevices(u) == {DeviceOf[k] : k \in Group(u)}

NamesAreCurrent(c) == \A e \in View(c) : e.conn \in clients => e.name = name[e.conn]

(* An entry of a list is a connection that has been registered, so that    *)
(* its name is that of the hub, and it cannot come into the hub again.     *)
EntriesAreRegistered ==
  \A c \in Conns : \A e \in told[c] \cup snap[c] : pc[e.conn] \notin NotYet

DevicesConverge ==
  \A c \in Conns : Listens(c) =>
    Pending(UserOf(c)) \/ ViewedDevices(c) = ListedDevices(UserOf(c))

NamesConverge ==
  \A c \in Conns : Listens(c) => NamePending(UserOf(c)) \/ NamesAreCurrent(c)

ViewInv ==
  /\ EntriesAreRegistered
  /\ DevicesConverge
  /\ NamesConverge

(* A timer is armed when the service has ended, and not before.            *)
TimerAfterService ==
  \A c \in Conns : timer[c] # "none" => pc[c] \in {"leaving", "done"}

LEMMA StepTimer == TypeOK /\ TimerAfterService /\ [Next]_vars => TimerAfterService'
<1> SUFFICES ASSUME TypeOK, TimerAfterService, [Next]_vars PROVE TimerAfterService'
  OBVIOUS
<1>1. ASSUME NEW c \in Conns, Serve(c) PROVE TimerAfterService'
  <2>1. CASE Register(c)
    BY <2>1 DEF TypeOK, TimerAfterService, Register, Goto, TimersStopped
  <2>2. CASE Unregister(c)
    <3>1. \A k \in Conns : k # c => timer'[k] = timer[k] /\ pc'[k] = pc[k]
      BY <2>2 DEF TypeOK, Unregister, ArmTimer, Goto
    <3>2. pc'[c] = "leaving"
      BY <2>2 DEF TypeOK, Unregister, Goto
    <3> QED
      BY <3>1, <3>2 DEF TimerAfterService
  <2>3. CASE \/ CloseStale(c) \/ Announce(c) \/ Snapshot(c) \/ SendSnapshot(c)
             \/ Route(c) \/ ReadError(c) \/ Leave(c)
    <3>1. /\ UNCHANGED timer
          /\ pc[c] \in {"leaving", "done"} => pc'[c] = "done"
          /\ \A k \in Conns : k # c => pc'[k] = pc[k]
      BY <2>3 DEF TypeOK, CloseStale, Announce, Snapshot, SendSnapshot, Route, ReadError,
         Leave, StartReading, Goto, hubVars
    <3> QED
      BY <3>1 DEF TimerAfterService
  <2> QED
    BY <1>1, <2>1, <2>2, <2>3 DEF Serve
<1>2. ASSUME NEW c \in Conns, Expire(c) PROVE TimerAfterService'
  <2>1. timer[c] # "none" /\ UNCHANGED pc
    BY <1>2 DEF Expire, TimerFires, FinalizeGrace, AnnounceDeparture
  <2>2. \A k \in Conns : k # c => timer'[k] = timer[k]
    <3>1. PICK label : timer' = [timer EXCEPT ![c] = label]
      BY <1>2 DEF Expire, TimerFires, FinalizeGrace, AnnounceDeparture
    <3> QED
      BY <3>1 DEF TypeOK
  <2> QED
    BY <2>1, <2>2 DEF TimerAfterService
<1>3. ASSUME NEW c \in Conns, Handshake(c) \/ Receive(c) \/ Write(c) \/ PeerDies(c)
      PROVE  TimerAfterService'
  <2>1. /\ UNCHANGED timer
        /\ \A k \in Conns : pc[k] \in {"leaving", "done"} => pc'[k] = pc[k]
    BY <1>3 DEF TypeOK, Handshake, Receive, ReadPing, ReadFrame, Write, WriteMessage,
       StopWriting, PeerDies, Goto, hubVars
  <2> QED
    BY <2>1 DEF TimerAfterService
<1>4. ASSUME NEW r \in Requests, StartRequest(r) \/ FinishRequest(r)
      PROVE  TimerAfterService'
  <2>1. UNCHANGED <<pc, timer>>
    BY <1>4 DEF StartRequest, KickUser, KickDevice, Kick, Push, SaveName, FinishRequest,
       ApplyName, AnnounceName, SendKick, hubVars
  <2> QED
    BY <2>1 DEF TimerAfterService
<1>5. CASE UNCHANGED vars
  BY <1>5 DEF vars, hubVars, TimerAfterService
<1> QED
  BY <1>1, <1>2, <1>3, <1>4, <1>5 DEF Next

LEMMA InitView == Init => ViewInv
BY DEF Init, ViewInv, EntriesAreRegistered, DevicesConverge, NamesConverge, Listens

(* With one connection per device, a list has everybody in it, and it is   *)
(* sent to everybody outside the grace period.                             *)
LEMMA DedupOfGroup ==
  ASSUME OneConnPerDevice, NEW u PROVE Dedup(Group(u)) = Group(u)
BY DEF OneConnPerDevice, Dedup, Group, SameDevice

LEMMA ListingIsCurrent ==
  ASSUME OneConnPerDevice, NEW u
  PROVE  /\ {DeviceOf[e.conn] : e \in Listing(u)} = ListedDevices(u)
         /\ \A e \in Listing(u) : e.conn \in Group(u) /\ e.name = name[e.conn]
<1>1. Listing(u) = {[conn |-> c, name |-> name[c]] : c \in Group(u)}
  BY DedupOfGroup DEF Listing
<1>2. \A e \in Listing(u) : e.conn \in Group(u) /\ e.name = name[e.conn]
  BY <1>1
<1>3. \A c \in Group(u) : \E e \in Listing(u) : e.conn = c
  <2> SUFFICES ASSUME NEW c \in Group(u) PROVE \E e \in Listing(u) : e.conn = c
    OBVIOUS
  <2>1. [conn |-> c, name |-> name[c]] \in Listing(u)
    BY <1>1
  <2> QED
    BY <2>1
<1> QED
  BY <1>2, <1>3 DEF ListedDevices

LEMMA BroadcastInforms ==
  ASSUME TypeOK, HubInv, NEW u, BroadcastPresence(u), NEW c \in Conns
  PROVE  /\ told'[c] \in {told[c], Listing(u)}
         /\ UserOf(c) # u => /\ told'[c] = told[c] /\ lost'[c] = lost[c]
                             /\ overtaken'[c] = overtaken[c]
         /\ c \in Group(u) /\ ~grace[c] =>
              /\ overtaken'[c] = (pc[c] = "sending")
              /\ ~lost'[c] => told'[c] = Listing(u)
<1>1. Receivers(u) = {k \in Group(u) : ~grace[k]}
  BY DedupOfGroup DEF HubInv, Receivers
<1>2. /\ told' = [k \in Conns |-> IF k \in Receivers(u) /\ HasRoom(k)
                                 THEN Listing(u) ELSE told[k]]
      /\ lost' = [k \in Conns |-> IF k \in Receivers(u) THEN ~HasRoom(k) ELSE lost[k]]
      /\ overtaken' = [k \in Conns |-> IF k \in Receivers(u) THEN pc[k] = "sending"
                                                            ELSE overtaken[k]]
  BY DEF BroadcastPresence, TellList
<1>3. UserOf(c) # u => c \notin Receivers(u)
  BY <1>1 DEF Group
<1>4. c \in Group(u) /\ ~grace[c] => c \in Receivers(u)
  BY <1>1
<1> QED
  BY <1>2, <1>3, <1>4

(* A broadcast settles everything for its account, whoever makes it.       *)
LEMMA BroadcastView ==
  ASSUME TypeOK, HubInv, ViewInv, NEW u, BroadcastPresence(u),
         UNCHANGED <<clients, grace, name, silent, snap>>,
         \A k \in Conns : \/ pc'[k] = pc[k]
                          \/ pc[k] = "announcing" /\ pc'[k] = "reading" /\ UserOf(k) = u,
         \A k \in Conns : timer'[k] = timer[k] \/ UserOf(k) = u,
         \A r \in Requests : req'[r] = req[r] \/ Owner[req[r].dev] = u
  PROVE  ViewInv'
<1>2. \A e \in Listing(u) : pc[e.conn] \notin NotYet
  BY ListingIsCurrent DEF TypeOK, HubInv, NotYetListed, NotYet, Group
<1>3. \A k \in Conns : pc'[k] \in NotYet => pc[k] \in NotYet
  BY DEF NotYet
<1>4. \A c \in Conns : told'[c] \in {told[c], Listing(u)}
  BY BroadcastInforms
<1>5. EntriesAreRegistered'
  <2> SUFFICES ASSUME NEW c \in Conns, NEW e \in told'[c] \cup snap[c]
               PROVE  pc'[e.conn] \notin NotYet
    BY DEF EntriesAreRegistered, NotYet
  <2>0. Listing(u) \subseteq Entries
    BY ListingType
  <2>1. told[c] \subseteq Entries /\ snap[c] \subseteq Entries
    BY DEF TypeOK
  <2>2. e.conn \in Conns
    BY <1>4, <2>0, <2>1 DEF Entries
  <2> QED
    BY <1>2, <1>3, <1>4, <2>2 DEF ViewInv, EntriesAreRegistered
<1>6. ASSUME NEW c \in Conns, Listens(c)', UserOf(c) = u
      PROVE  ViewedDevices(c)' = ListedDevices(u)' /\ NamesAreCurrent(c)'
  <2>1. /\ c \in clients /\ ~overtaken'[c]
        /\ pc'[c] = "sending" \/ (pc'[c] \in Served /\ ~lost'[c])
    BY <1>6 DEF Listens
  <2>2. pc[c] \in {"sending", "reading", "routing", "announcing"}
    BY <2>1 DEF Served
  <2>3. c \in Group(u) /\ ~grace[c]
    BY <1>6, <2>1, <2>2 DEF HubInv, GraceOnlyAfterService, Group
  <2>4. pc[c] # "sending"
    BY <2>1, <2>3, BroadcastInforms
  <2>5. pc'[c] # "sending" /\ ~lost'[c]
    BY <2>1, <2>4
  <2>6. View(c)' = Listing(u)
    BY <2>3, <2>5, BroadcastInforms DEF View
  <2>7. ListedDevices(u)' = ListedDevices(u)
    BY DEF ListedDevices, Group, UserOf
  <2>8. ViewedDevices(c)' = ListedDevices(u)
    BY <2>6, ListingIsCurrent DEF HubInv, ViewedDevices
  <2>9. NamesAreCurrent(c)'
    BY <2>6, ListingIsCurrent DEF HubInv, NamesAreCurrent
  <2> QED
    BY <2>7, <2>8, <2>9
<1>7. ASSUME NEW c \in Conns, Listens(c)', UserOf(c) # u
      PROVE  /\ Listens(c) /\ View(c)' = View(c)
             /\ Pending(UserOf(c)) => Pending(UserOf(c))'
             /\ NamePending(UserOf(c)) => NamePending(UserOf(c))'
  <2>1. /\ told'[c] = told[c] /\ lost'[c] = lost[c] /\ overtaken'[c] = overtaken[c]
        /\ pc'[c] = pc[c]
    BY <1>7, BroadcastInforms
  <2>2. Listens(c) /\ View(c)' = View(c)
    BY <1>7, <2>1 DEF Listens, View
  <2>3. Pending(UserOf(c)) => Pending(UserOf(c))'
    BY <1>7 DEF Pending, UserOf
  <2>4. NamePending(UserOf(c)) => NamePending(UserOf(c))'
    BY <1>7 DEF NamePending, UserOf
  <2> QED
    BY <2>2, <2>3, <2>4
<1>8. DevicesConverge'
  <2> SUFFICES ASSUME NEW c \in Conns, Listens(c)'
               PROVE  Pending(UserOf(c))' \/ ViewedDevices(c)' = ListedDevices(UserOf(c))'
    BY DEF DevicesConverge, UserOf
  <2>1. CASE UserOf(c) = u
    BY <1>6, <2>1
  <2>2. CASE UserOf(c) # u
    BY <1>7, <2>2 DEF ViewInv, DevicesConverge, ViewedDevices, ListedDevices, Group, UserOf
  <2> QED
    BY <2>1, <2>2
<1>9. NamesConverge'
  <2> SUFFICES ASSUME NEW c \in Conns, Listens(c)'
               PROVE  NamePending(UserOf(c))' \/ NamesAreCurrent(c)'
    BY DEF NamesConverge, UserOf
  <2>1. CASE UserOf(c) = u
    BY <1>6, <2>1
  <2>2. CASE UserOf(c) # u
    BY <1>7, <2>2 DEF ViewInv, NamesConverge, NamesAreCurrent
  <2> QED
    BY <2>1, <2>2
<1> QED
  BY <1>5, <1>8, <1>9 DEF ViewInv

(* A step after which those who listen have the list they had, or a new    *)
(* one, and that ends nothing which is to be announced.                    *)
IsFresh(c) == /\ ViewedDevices(c)' = ListedDevices(UserOf(c))'
              /\ NamesAreCurrent(c)'

LEMMA QuietView ==
  ASSUME ViewInv, UNCHANGED clients,
         \A c \in Conns :
           /\ Listens(c)' => IsFresh(c) \/ (Listens(c) /\ View(c)' = View(c))
           /\ pc'[c] \in NotYet => pc[c] \in NotYet
           /\ pc[c] \notin NotYet => name'[c] = name[c]
           /\ \A e \in told'[c] \cup snap'[c] :
                /\ e.conn \in Conns
                /\ e \in told[c] \cup snap[c] \/ pc[e.conn] \notin NotYet,
         \A u : Pending(u) => Pending(u)',
         \A u : NamePending(u) => NamePending(u)'
  PROVE  ViewInv'
<1>2. EntriesAreRegistered'
  BY DEF ViewInv, EntriesAreRegistered, NotYet
<1>4. DevicesConverge'
  <2> SUFFICES ASSUME NEW c \in Conns, Listens(c)', ~Pending(UserOf(c))'
               PROVE  ViewedDevices(c)' = ListedDevices(UserOf(c))'
    BY DEF DevicesConverge, UserOf
  <2>1. CASE IsFresh(c)
    BY <2>1 DEF IsFresh
  <2>2. CASE Listens(c) /\ View(c)' = View(c)
    <3>1. ViewedDevices(c) = ListedDevices(UserOf(c))
      BY <2>2 DEF ViewInv, DevicesConverge, UserOf
    <3> QED
      BY <2>2, <3>1 DEF ViewedDevices, ListedDevices, Group, UserOf
  <2> QED
    BY <2>1, <2>2
<1>5. NamesConverge'
  <2> SUFFICES ASSUME NEW c \in Conns, Listens(c)', ~NamePending(UserOf(c))'
               PROVE  NamesAreCurrent(c)'
    BY DEF NamesConverge, UserOf
  <2>1. CASE IsFresh(c)
    BY <2>1 DEF IsFresh
  <2>2. CASE Listens(c) /\ View(c)' = View(c)
    <3> SUFFICES ASSUME NEW e \in View(c), e.conn \in clients
                 PROVE  e.name = name'[e.conn]
      BY <2>2 DEF NamesAreCurrent
    <3>1. NamesAreCurrent(c)
      BY <2>2 DEF ViewInv, NamesConverge, UserOf
    <3>2. e \in told[c] \cup snap[c]
      BY DEF View
    <3>3. e.conn \in Conns /\ pc[e.conn] \notin NotYet
      <4>1. pc[e.conn] \notin NotYet
        BY <3>2 DEF ViewInv, EntriesAreRegistered
      <4>2. e.conn \in Conns
        BY <3>2, <2>2 DEF View
      <4> QED
        BY <4>1, <4>2
    <3> QED
      BY <3>1, <3>3 DEF NamesAreCurrent
  <2> QED
    BY <2>1, <2>2
<1> QED
  BY <1>2, <1>4, <1>5 DEF ViewInv

(* Entries are about connections.                                          *)
LEMMA EntryConns ==
  ASSUME TypeOK, NEW c \in Conns, NEW e \in told[c] \cup snap[c]
  PROVE  e.conn \in Conns
<1>1. e \in Entries
  BY DEF TypeOK
<1> QED
  BY <1>1 DEF Entries

(* Registration: the list changes only if an announcement follows.         *)
LEMMA RegisterView ==
  ASSUME TypeOK, HubInv, ViewInv, NEW c \in Conns, Register(c)
  PROVE  ViewInv'
<1> USE ConstantsAssumption
<1> DEFINE old == Superseded(c)
           quiet == \E k \in old : grace[k]
<1>1. /\ pc[c] = "registering"
      /\ clients' = (clients \ old) \cup {c}
      /\ pc'[c] = IF old = {} THEN AfterClosing(c, quiet) ELSE "closing"
      /\ silent'[c] = quiet
      /\ \A k \in Conns : k # c => pc'[k] = pc[k] /\ silent'[k] = silent[k]
      /\ \A k \in Conns : timer[k] = "departing" => timer'[k] = "departing"
      /\ UNCHANGED <<name, snap, told, lost, overtaken, req>>
  BY DEF TypeOK, Register, Goto, TimersStopped, otherVars, toldVars
<1>2. \A k \in Conns : k \in old <=> k \in clients /\ DeviceOf[k] = DeviceOf[c]
  BY DEF TypeOK, Superseded, Group, UserOf, SameDevice
<1>3. /\ ~quiet => pc'[c] \in {"closing", "announcing"}
      /\ quiet => pc'[c] = "closing" /\ old # {}
  BY <1>1 DEF AfterClosing
<1> HIDE DEF old, quiet
<1>4. EntriesAreRegistered'
  BY <1>1, <1>3, EntryConns DEF ViewInv, EntriesAreRegistered, NotYet
<1>5. \A k \in Conns : Listens(k)' => Listens(k) /\ k # c /\ View(k)' = View(k)
  BY <1>1, <1>3 DEF Listens, Served, View
<1>6. ~quiet => Pending(UserOf(c))'
  BY <1>1, <1>3 DEF Pending, UserOf
<1>7. \A u : Pending(u) => Pending(u)'
  <2> SUFFICES ASSUME NEW u, Pending(u) PROVE Pending(u)'
    OBVIOUS
  <2>1. PICK k \in Conns : /\ UserOf(k) = u
                           /\ \/ timer[k] = "departing"
                              \/ pc[k] = "announcing"
                              \/ pc[k] = "closing" /\ ~silent[k]
    BY DEF Pending
  <2>2. \/ timer'[k] = "departing"
        \/ pc'[k] = "announcing"
        \/ pc'[k] = "closing" /\ ~silent'[k]
    BY <1>1, <2>1
  <2> QED
    BY <2>1, <2>2 DEF Pending, UserOf
<1>8. \A u : (u # UserOf(c) \/ quiet) => ListedDevices(u)' = ListedDevices(u)
  <2> SUFFICES ASSUME NEW u, u # UserOf(c) \/ quiet
               PROVE  ListedDevices(u)' = ListedDevices(u)
    OBVIOUS
  <2>1. CASE u # UserOf(c)
    <3>1. Group(u)' = Group(u)
      BY <1>1, <1>2, <2>1 DEF TypeOK, Group, UserOf
    <3> QED
      BY <3>1 DEF ListedDevices
  <2>2. CASE quiet
    <3>1. PICK k \in Conns : k \in old
      BY <1>1, <1>2, <1>3, <2>2 DEF TypeOK, Superseded, Group, old
    <3> QED
      BY <1>1, <1>2, <3>1 DEF TypeOK, ListedDevices, Group, UserOf
  <2> QED
    BY <2>1, <2>2
<1>9. DevicesConverge'
  <2> SUFFICES ASSUME NEW k \in Conns, Listens(k)', ~Pending(UserOf(k))'
               PROVE  ViewedDevices(k)' = ListedDevices(UserOf(k))'
    BY DEF DevicesConverge, UserOf
  <2>1. Listens(k) /\ ~Pending(UserOf(k)) /\ View(k)' = View(k)
    BY <1>5, <1>7 DEF UserOf
  <2>2. ViewedDevices(k) = ListedDevices(UserOf(k))
    BY <2>1 DEF ViewInv, DevicesConverge
  <2>3. UserOf(k) # UserOf(c) \/ quiet
    BY <1>6 DEF UserOf
  <2>4. ListedDevices(UserOf(k))' = ListedDevices(UserOf(k))
    BY <1>8, <2>3 DEF UserOf
  <2> QED
    BY <2>1, <2>2, <2>4 DEF ViewedDevices, UserOf
<1>10. NamesConverge'
  <2> SUFFICES ASSUME NEW k \in Conns, Listens(k)', ~NamePending(UserOf(k))',
                      NEW e \in View(k), e.conn \in clients'
               PROVE  e.name = name[e.conn]
    BY <1>1, <1>5 DEF NamesConverge, NamesAreCurrent, UserOf
  <2>1. NamesAreCurrent(k)
    BY <1>1, <1>5 DEF ViewInv, NamesConverge, NamePending, UserOf
  <2>2. e.conn # c
    BY <1>1, EntryConns DEF ViewInv, EntriesAreRegistered, NotYet, View
  <2> QED
    BY <1>1, <2>1, <2>2 DEF NamesAreCurrent
<1> QED
  BY <1>4, <1>9, <1>10 DEF ViewInv

(* The end of a grace period takes a device off; its announcement follows. *)
LEMMA FinalizeView ==
  ASSUME TypeOK, HubInv, ViewInv, NEW c \in Conns, FinalizeGrace(c)
  PROVE  ViewInv'
<1> USE ConstantsAssumption
<1>1. /\ timer[c] = "fired"
      /\ \A k \in Conns : k # c => timer'[k] = timer[k]
      /\ UNCHANGED <<pc, silent, snap, name, told, lost, overtaken, req>>
      /\ \/ UNCHANGED clients
         \/ clients' = clients \ {c} /\ timer'[c] = "departing"
  <2>1. \/ UNCHANGED clients /\ timer' = [timer EXCEPT ![c] = "none"]
        \/ clients' = clients \ {c} /\ timer' = [timer EXCEPT ![c] = "departing"]
    BY DEF FinalizeGrace
  <2>2. UNCHANGED <<pc, silent, snap, name, told, lost, overtaken, req>> /\ timer[c] = "fired"
    BY DEF FinalizeGrace, connVars, otherVars, toldVars
  <2> QED
    BY <2>1, <2>2 DEF TypeOK
<1>2. \A u : Pending(u) => Pending(u)'
  BY <1>1 DEF Pending, UserOf
<1>3. \A u : NamePending(u) => NamePending(u)'
  BY <1>1 DEF NamePending
<1>4. \A k \in Conns : (Listens(k)' => Listens(k)) /\ View(k)' = View(k)
  BY <1>1 DEF Listens, View
<1>5. EntriesAreRegistered'
  BY <1>1 DEF ViewInv, EntriesAreRegistered
<1>6. DevicesConverge'
  <2> SUFFICES ASSUME NEW k \in Conns, Listens(k)', ~Pending(UserOf(k))'
               PROVE  ViewedDevices(k)' = ListedDevices(UserOf(k))'
    BY DEF DevicesConverge, UserOf
  <2>1. ViewedDevices(k) = ListedDevices(UserOf(k))
    BY <1>2, <1>4 DEF ViewInv, DevicesConverge, UserOf
  <2>2. UNCHANGED clients \/ UserOf(k) # UserOf(c)
    BY <1>1 DEF Pending, UserOf
  <2>3. Group(UserOf(k))' = Group(UserOf(k))
    BY <1>1, <2>2 DEF Group, UserOf
  <2> QED
    BY <1>4, <2>1, <2>3 DEF ViewedDevices, ListedDevices, UserOf
<1>7. NamesConverge'
  BY <1>1, <1>3, <1>4 DEF ViewInv, NamesConverge, NamesAreCurrent, UserOf
<1> QED
  BY <1>5, <1>6, <1>7 DEF ViewInv

(* A rename changes entries of its own account, and is announced there.    *)
LEMMA RenameView ==
  ASSUME TypeOK, HubInv, UserIsolation, ViewInv, NEW r \in Requests, ApplyName(r)
  PROVE  ViewInv'
<1> USE ConstantsAssumption
<1> DEFINE d == req[r].dev
<1>1. /\ \A k \in Conns : DeviceOf[k] # d => name'[k] = name[k]
      /\ req[r].pc = "renaming"
      /\ req'[r].pc = "announcing" /\ req'[r].dev = d
      /\ \A q \in Requests : q # r => req'[q] = req[q]
      /\ UNCHANGED <<pc, silent, snap, clients, timer, told, lost, overtaken>>
  <2>1. req[r] \in RequestStates
    BY DEF TypeOK
  <2> QED
    BY <2>1 DEF TypeOK, ApplyName, RequestStates, connVars, toldVars
<1>2. \A u : Pending(u) => Pending(u)'
  BY <1>1 DEF Pending, UserOf
<1>3. \A u : (u = Owner[d] \/ NamePending(u)) => NamePending(u)'
  BY <1>1 DEF NamePending
<1>4. \A k \in Conns : (Listens(k)' <=> Listens(k)) /\ View(k)' = View(k)
  BY <1>1 DEF Listens, View
<1>5. EntriesAreRegistered'
  BY <1>1 DEF ViewInv, EntriesAreRegistered
<1>6. DevicesConverge'
  BY <1>1, <1>2, <1>4 DEF ViewInv, DevicesConverge, ViewedDevices, ListedDevices, Group, UserOf
<1>7. NamesConverge'
  <2> SUFFICES ASSUME NEW k \in Conns, Listens(k)', ~NamePending(UserOf(k))',
                      NEW e \in View(k), e.conn \in clients
               PROVE  e.name = name'[e.conn]
    BY <1>1, <1>4 DEF NamesConverge, NamesAreCurrent, UserOf
  <2>1. e.conn \in Conns /\ UserOf(e.conn) = UserOf(k)
    BY EntryConns DEF UserIsolation, View
  <2>2. UserOf(k) # Owner[d]
    BY <1>3 DEF UserOf
  <2>3. name'[e.conn] = name[e.conn]
    BY <1>1, <2>1, <2>2 DEF UserOf
  <2>4. NamesAreCurrent(k)
    BY <1>3, <1>4 DEF ViewInv, NamesConverge, UserOf
  <2> QED
    BY <2>3, <2>4 DEF NamesAreCurrent
<1> QED
  BY <1>5, <1>6, <1>7 DEF ViewInv

(* Steps that move no connection, or only one that nobody waits for.       *)
Onward(c) == \/ pc'[c] = pc[c]
             \/ pc[c] = "new" /\ pc'[c] = "registering"
             \/ pc[c] = "reading" /\ pc'[c] = "routing"

LEMMA OnwardView ==
  ASSUME TypeOK, ViewInv,
         clients' = clients, silent' = silent, snap' = snap, timer' = timer,
         told' = told, lost' = lost, overtaken' = overtaken,
         \A c \in Conns : Onward(c),
         \A c \in Conns : pc[c] # "new" => name'[c] = name[c],
         \A u : NamePending(u) => NamePending(u)'
  PROVE  ViewInv'
<1>1. \A u : Pending(u) => Pending(u)'
  BY DEF Onward, Pending, UserOf
<1>2. \A c \in Conns :
        /\ Listens(c)' => Listens(c) /\ View(c)' = View(c)
        /\ pc'[c] \in NotYet => pc[c] \in NotYet
        /\ pc[c] \notin NotYet => pc[c] # "new"
  BY DEF Onward, Listens, Served, View, NotYet
<1> QED
  BY <1>1, <1>2, EntryConns, QuietView

LEMMA StepView ==
  TypeOK /\ HubInv /\ UserIsolation /\ TimerAfterService /\ ViewInv /\ [Next]_vars
    => ViewInv'
<1> SUFFICES ASSUME TypeOK, HubInv, UserIsolation, TimerAfterService, ViewInv, [Next]_vars
             PROVE  ViewInv'
  OBVIOUS
<1>0. \A c \in Conns : \A e \in told[c] \cup snap[c] : e.conn \in Conns
  BY EntryConns
(* What is pending depends on three variables, a pending name on one.      *)
<1>p. ASSUME UNCHANGED <<pc, silent, timer>> PROVE \A u : Pending(u) => Pending(u)'
  BY <1>p DEF Pending, UserOf
<1>n. ASSUME UNCHANGED req PROVE \A u : NamePending(u) => NamePending(u)'
  BY <1>n DEF NamePending
(* A step of one connection that moves it from a label at which nothing is *)
(* announced.                                                              *)
<1>m. ASSUME NEW c \in Conns, NEW label, Goto(c, label),
             pc[c] \notin {"announcing", "closing"}, UNCHANGED <<silent, timer>>
      PROVE  \A u : Pending(u) => Pending(u)'
  BY <1>m DEF TypeOK, Goto, Pending, UserOf
<1>1. ASSUME NEW c \in Conns, Serve(c) PROVE ViewInv'
  <2>1. CASE Register(c)
    BY <2>1, RegisterView
  <2>2. CASE CloseStale(c)
    <3>1. /\ pc[c] = "closing"
          /\ pc'[c] \in {AfterClosing(c, silent[c]), "closing"}
          /\ \A k \in Conns : k # c => pc'[k] = pc[k]
          /\ UNCHANGED <<clients, silent, snap, timer, name, told, lost, overtaken, req>>
      BY <2>2 DEF TypeOK, CloseStale, Goto, hubVars, toldVars, otherVars
    <3>2. \A u : Pending(u) => Pending(u)'
      BY <3>1 DEF Pending, AfterClosing, UserOf
    <3>3. \A k \in Conns : Listens(k)' => Listens(k) /\ View(k)' = View(k)
      BY <3>1 DEF AfterClosing, Listens, Served, View
    <3>4. \A k \in Conns : pc'[k] \in NotYet => pc[k] \in NotYet
      BY <3>1 DEF AfterClosing, NotYet
    <3> QED
      BY <1>0, <1>n, <3>1, <3>2, <3>3, <3>4, QuietView
  <2>3. CASE Announce(c)
    <3>1. /\ BroadcastPresence(UserOf(c))
          /\ pc[c] = "announcing" /\ pc'[c] = "reading"
          /\ \A k \in Conns : k # c => pc'[k] = pc[k]
          /\ UNCHANGED <<clients, grace, name, silent, snap, timer, req>>
      BY <2>3 DEF TypeOK, Announce, StartReading, Goto, connVars, hubVars, otherVars
    <3> QED
      BY <3>1, BroadcastView
  <2>4. CASE Snapshot(c)
    <3>1. PICK label \in {"reading", "sending"} : Goto(c, label)
      BY <2>4 DEF Snapshot, StartReading
    <3>2. /\ pc[c] = "snapshot"
          /\ UNCHANGED <<clients, grace, silent, timer, name, told, lost, overtaken, req>>
          /\ snap' = snap \/ snap' = [snap EXCEPT ![c] = Listing(UserOf(c))]
      BY <2>4 DEF Snapshot, hubVars, toldVars, otherVars
    <3>3. \A e \in Listing(UserOf(c)) : e.conn \in Conns /\ pc[e.conn] \notin NotYet
      BY ListingIsCurrent DEF TypeOK, HubInv, NotYetListed, NotYet, Group
    <3>4. \A k \in Conns : \A e \in snap'[k] :
            e.conn \in Conns /\ (e \in snap[k] \/ pc[e.conn] \notin NotYet)
      <4> SUFFICES ASSUME NEW k \in Conns, NEW e \in snap'[k]
                   PROVE  e.conn \in Conns /\ (e \in snap[k] \/ pc[e.conn] \notin NotYet)
        OBVIOUS
      <4>1. CASE e \in snap[k]
        BY <1>0, <4>1
      <4>2. CASE e \notin snap[k]
        <5>1. e \in Listing(UserOf(c))
          BY <3>2, <4>2 DEF TypeOK
        <5> QED
          BY <3>3, <5>1
      <4> QED
        BY <4>1, <4>2
    <3>5. pc'[c] = label /\ \A k \in Conns : k # c => pc'[k] = pc[k]
      BY <3>1 DEF TypeOK, Goto
    <3>6. \A u : Pending(u) => Pending(u)'
      BY <1>m, <3>1, <3>2
    <3>7. \A k \in Conns : pc'[k] \in NotYet => pc[k] \in NotYet
      BY <3>5 DEF NotYet
    (* Whoever is in the hub is given the list that is built now.          *)
    <3>8. Listens(c)' => IsFresh(c)
      <4> SUFFICES ASSUME Listens(c)' PROVE IsFresh(c)
        OBVIOUS
      <4>1. c \in Group(UserOf(c)) /\ ~grace[c]
        BY <3>2 DEF Listens, Group, HubInv, GraceOnlyAfterService
      <4>2. snap' = [snap EXCEPT ![c] = Listing(UserOf(c))] /\ Goto(c, "sending")
        BY <2>4, <4>1 DEF Snapshot
      <4>3. View(c)' = Listing(UserOf(c))
        BY <4>2 DEF TypeOK, Goto, View
      <4>4. ListedDevices(UserOf(c))' = ListedDevices(UserOf(c))
        BY <3>2 DEF ListedDevices, Group, UserOf
      <4>5. ViewedDevices(c)' = ListedDevices(UserOf(c))
        BY <4>3, ListingIsCurrent DEF HubInv, ViewedDevices
      <4>6. NamesAreCurrent(c)'
        BY <3>2, <4>3, ListingIsCurrent DEF HubInv, NamesAreCurrent
      <4> QED
        BY <4>4, <4>5, <4>6 DEF IsFresh
    <3>9. \A k \in Conns : k # c => (Listens(k)' => Listens(k) /\ View(k)' = View(k))
      BY <3>2, <3>5 DEF TypeOK, Listens, View
    <3> QED
      BY <1>0, <1>n, <3>2, <3>4, <3>6, <3>7, <3>8, <3>9, QuietView
  <2>5. CASE SendSnapshot(c)
    <3>1. /\ pc[c] = "sending" /\ Goto(c, "reading") /\ TellList({c}, snap[c])
          /\ snap' = [snap EXCEPT ![c] = {}]
          /\ UNCHANGED <<clients, silent, timer, name, overtaken, req>>
      BY <2>5 DEF SendSnapshot, StartReading, hubVars, otherVars
    <3>2. /\ told'[c] \in {told[c], snap[c]} /\ snap'[c] = {}
          /\ ~lost'[c] => told'[c] = snap[c]
          /\ \A k \in Conns : k # c => /\ told'[k] = told[k] /\ lost'[k] = lost[k]
                                      /\ snap'[k] = snap[k]
      BY <3>1 DEF TypeOK, TellList
    <3>3. pc'[c] = "reading" /\ \A k \in Conns : k # c => pc'[k] = pc[k]
      BY <3>1 DEF TypeOK, Goto
    <3>4. \A u : Pending(u) => Pending(u)'
      BY <1>m, <3>1
    <3>5. \A k \in Conns : Listens(k)' => Listens(k) /\ View(k)' = View(k)
      BY <3>1, <3>2, <3>3 DEF Listens, Served, View
    <3>6. \A k \in Conns : pc'[k] \in NotYet => pc[k] \in NotYet
      BY <3>3 DEF NotYet
    <3>7. \A k \in Conns : \A e \in told'[k] \cup snap'[k] : e \in told[k] \cup snap[k]
      BY <3>2
    <3> QED
      BY <1>0, <1>n, <3>1, <3>4, <3>5, <3>6, <3>7, QuietView
  <2>6. CASE Route(c) \/ ReadError(c) \/ Leave(c)
    <3>1. PICK label \in {"reading", "unregistering", "done"} : Goto(c, label)
      BY <2>6 DEF Route, ReadError, Leave
    <3>2. /\ pc[c] \in {"routing", "reading", "leaving"}
          /\ label = "reading" => pc[c] = "routing"
          /\ UNCHANGED <<clients, silent, snap, timer, name, told, lost, overtaken, req>>
      BY <2>6, <3>1 DEF TypeOK, Route, ReadError, Leave, Goto, connVars, hubVars, toldVars, otherVars
    <3>3. pc'[c] = label /\ \A k \in Conns : k # c => pc'[k] = pc[k]
      BY <3>1 DEF TypeOK, Goto
    <3>4. \A u : Pending(u) => Pending(u)'
      BY <1>m, <3>1, <3>2
    <3>5. \A k \in Conns : Listens(k)' => Listens(k) /\ View(k)' = View(k)
      BY <3>2, <3>3 DEF Listens, Served, View
    <3>6. \A k \in Conns : pc'[k] \in NotYet => pc[k] \in NotYet
      BY <3>3 DEF NotYet
    <3> QED
      BY <1>0, <1>n, <3>2, <3>4, <3>5, <3>6, QuietView
  <2>7. CASE Unregister(c)
    <3>1. /\ pc[c] = "unregistering" /\ pc'[c] = "leaving"
          /\ told'[c] = {}
          /\ \A k \in Conns : k # c => /\ pc'[k] = pc[k] /\ silent'[k] = silent[k]
                                      /\ told'[k] = told[k] /\ lost'[k] = lost[k]
                                      /\ overtaken'[k] = overtaken[k]
          /\ UNCHANGED <<clients, snap, name, req>>
      BY <2>7 DEF TypeOK, Unregister, Goto, otherVars
    <3>2. \A k \in Conns : timer[k] = "departing" => k # c /\ timer'[k] = "departing"
      <4>1. timer[c] = "none"
        BY <3>1 DEF TimerAfterService
      <4>2. UNCHANGED timer \/ timer' = [timer EXCEPT ![c] = "armed"]
        BY <2>7 DEF Unregister, ArmTimer
      <4> QED
        BY <4>1, <4>2 DEF TypeOK
    <3>3. \A u : Pending(u) => Pending(u)'
      BY <3>1, <3>2 DEF Pending, UserOf
    <3>4. \A k \in Conns : Listens(k)' => Listens(k) /\ View(k)' = View(k)
      BY <3>1 DEF Listens, Served, View
    <3>5. \A k \in Conns : pc'[k] \in NotYet => pc[k] \in NotYet
      BY <3>1 DEF NotYet
    <3>6. \A k \in Conns : \A e \in told'[k] \cup snap'[k] : e \in told[k] \cup snap[k]
      BY <3>1
    <3> QED
      BY <1>0, <1>n, <3>1, <3>3, <3>4, <3>5, <3>6, QuietView
  <2> QED
    BY <1>1, <2>1, <2>2, <2>3, <2>4, <2>5, <2>6, <2>7 DEF Serve
<1>2. ASSUME NEW c \in Conns, Handshake(c) \/ Receive(c) \/ Write(c) \/ PeerDies(c)
      PROVE  ViewInv'
  <2>1. /\ UNCHANGED <<clients, silent, snap, timer, told, lost, overtaken, req>>
        /\ \A k \in Conns : Onward(k) /\ (pc[k] # "new" => name'[k] = name[k])
    BY <1>2 DEF TypeOK, Handshake, Receive, ReadPing, ReadFrame, Write, WriteMessage,
       StopWriting, PeerDies, Goto, Onward, connVars, hubVars, toldVars, otherVars
  <2> QED
    BY <1>n, <2>1, OnwardView
<1>3. ASSUME NEW c \in Conns, Expire(c) PROVE ViewInv'
  <2>1. CASE TimerFires(c)
    <3>1. /\ timer[c] = "armed" /\ \A k \in Conns : k # c => timer'[k] = timer[k]
          /\ UNCHANGED <<pc, clients, silent, snap, name, told, lost, overtaken, req>>
      BY <2>1 DEF TypeOK, TimerFires, connVars, toldVars, otherVars
    <3>2. \A u : Pending(u) => Pending(u)'
      BY <3>1 DEF Pending, UserOf
    <3>3. \A k \in Conns : Listens(k)' => Listens(k) /\ View(k)' = View(k)
      BY <3>1 DEF Listens, View
    <3> QED
      BY <1>0, <1>n, <3>1, <3>2, <3>3, QuietView
  <2>2. CASE FinalizeGrace(c)
    BY <2>2, FinalizeView
  <2>3. CASE AnnounceDeparture(c)
    <3>1. /\ BroadcastPresence(UserOf(c))
          /\ \A k \in Conns : k # c => timer'[k] = timer[k]
          /\ UNCHANGED <<clients, grace, name, silent, snap, pc, req>>
      BY <2>3 DEF TypeOK, AnnounceDeparture, connVars, otherVars
    <3> QED
      BY <3>1, BroadcastView
  <2> QED
    BY <1>3, <2>1, <2>2, <2>3 DEF Expire
<1>4. ASSUME NEW r \in Requests, StartRequest(r) PROVE ViewInv'
  <2> DEFINE Starts == /\ req[r].pc = "idle" /\ \A q \in Requests : q # r => req'[q] = req[q]
                       /\ UNCHANGED <<pc, clients, silent, snap, timer, name, told, lost, overtaken>>
  <2>1. Starts
    <3>1. ASSUME NEW targets, Kick(r, targets) PROVE Starts
      BY <3>1 DEF TypeOK, Kick, connVars, hubVars, toldVars
    <3>2. ASSUME NEW u \in Users, NEW t \in Forwarded, Push(r, u, t) PROVE Starts
      BY <3>2 DEF TypeOK, Push, connVars, hubVars, toldVars
    <3>3. ASSUME NEW d \in Devices, NEW n \in Names, SaveName(r, d, n) PROVE Starts
      BY <3>3 DEF TypeOK, SaveName, connVars, hubVars, toldVars
    <3> QED
      BY <1>4, <3>1, <3>2, <3>3 DEF StartRequest, KickUser, KickDevice
  <2>2. \A u : NamePending(u) => NamePending(u)'
    BY <2>1 DEF NamePending
  <2> QED
    BY <2>1, <2>2, OnwardView DEF Onward
<1>5. ASSUME NEW r \in Requests, FinishRequest(r) PROVE ViewInv'
  <2>1. CASE ApplyName(r)
    BY <2>1, RenameView
  <2>2. CASE AnnounceName(r)
    <3>1. /\ BroadcastPresence(Owner[req[r].dev])
          /\ \A q \in Requests : q # r => req'[q] = req[q]
          /\ UNCHANGED <<clients, grace, name, silent, snap, pc, timer>>
      BY <2>2 DEF TypeOK, AnnounceName, connVars, hubVars
    <3> QED
      BY <3>1, BroadcastView
  <2>3. CASE SendKick(r)
    <3>1. /\ req[r].pc = "kicking" /\ \A q \in Requests : q # r => req'[q] = req[q]
          /\ UNCHANGED <<pc, clients, silent, snap, timer, name, told, lost, overtaken>>
      BY <2>3 DEF TypeOK, SendKick, connVars, hubVars, toldVars
    <3>2. \A u : NamePending(u) => NamePending(u)'
      BY <3>1 DEF NamePending
    <3> QED
      BY <3>1, <3>2, OnwardView DEF Onward
  <2> QED
    BY <1>5, <2>1, <2>2, <2>3 DEF FinishRequest
<1>6. CASE UNCHANGED vars
  BY <1>6, <1>n, OnwardView DEF Onward, vars, connVars, hubVars, toldVars, otherVars
<1> QED
  BY <1>1, <1>2, <1>3, <1>4, <1>5, <1>6 DEF Next

LEMMA ViewIsSafe == Spec => []ViewInv
<1>1. Init => TimerAfterService /\ ViewInv
  BY InitView DEF Init, TimerAfterService
<1> QED
  BY <1>1, StepTimer, StepView, TypeCorrect, HubIsSafe, AccountsAreApart, PTL DEF Spec

(* When nothing that concerns its account is under way, every client whose *)
(* last list was neither dropped nor overtaken has been told the devices   *)
(* in the hub, silent returns included (main.go:222-229, 282-283, 352).    *)
THEOREM ViewsConverge == Spec => []ViewConverges
<1>1. ViewInv => ViewConverges
  <2> SUFFICES ASSUME ViewInv, NEW c \in Conns, Informed(c), ~overtaken[c]
               PROVE  {DeviceOf[e.conn] : e \in told[c]} = ListedDevices(UserOf(c))
    BY DEF ViewConverges, ListedDevices
  <2>1. Listens(c) /\ ~Pending(UserOf(c)) /\ View(c) = told[c]
    BY DEF Informed, Settled, Listens, Served, Pending, View
  <2> QED
    BY <2>1 DEF ViewInv, DevicesConverge, ViewedDevices
<1> QED
  BY <1>1, ViewIsSafe, PTL

(* ... and their names (main.go:342-353).                                  *)
THEOREM NamesAreTold == Spec => []ToldNamesAreCurrent
<1>1. ViewInv => ToldNamesAreCurrent
  <2> SUFFICES ASSUME ViewInv, NEW c \in Conns, Informed(c), ~overtaken[c]
               PROVE  \A e \in told[c] : e.conn \in clients => e.name = name[e.conn]
    BY DEF ToldNamesAreCurrent
  <2>1. Listens(c) /\ ~NamePending(UserOf(c)) /\ View(c) = told[c]
    BY DEF Informed, Settled, Listens, Served, NamePending, View
  <2> QED
    BY <2>1 DEF ViewInv, NamesConverge, NamesAreCurrent
<1> QED
  BY <1>1, ViewIsSafe, PTL
=============================================================================
