--------------------------- MODULE RegistryProofs ---------------------------
(* What is proved of OnlineRegistry for every set of connections and       *)
(* devices, every time to live and any number of faults.                   *)
EXTENDS OnlineRegistry, TLAPS

LEMMA InitSafe == Init => TypeOK /\ GapInv
BY RegistryAssumption DEF Init, TypeOK, GapInv, Labels, Beating

(* HSET and EXPIRE leave a hash that has fields and a time to live, and    *)
(* end the waiting of the device's connections, of nobody else's.          *)
LEMMA MarkOnlineType ==
  ASSUME TypeOK, NEW d \in Devices, MarkOnline(d)
  PROVE  /\ entries' \subseteq Devices
         /\ life' \in 0..TTL
         /\ life' = 0 <=> entries' = {}
         /\ gap' \in [Conns -> Nat]
         /\ \A c \in Conns : gap'[c] = 0 \/ gap'[c] = gap[c]
         /\ \A c \in Conns : DeviceOf[c] = d => gap'[c] = 0
BY RegistryAssumption DEF TypeOK, MarkOnline

LEMMA FailingType ==
  ASSUME TypeOK, Failing
  PROVE  faults' \in 0..MaxFaults /\ faults' = faults + 1
BY RegistryAssumption DEF TypeOK, Failing

LEMMA StepType == TypeOK /\ [Next]_vars => TypeOK'
<1> SUFFICES ASSUME TypeOK, [Next]_vars PROVE TypeOK'
  OBVIOUS
<1>d. \A c \in Conns : DeviceOf[c] \in Devices
  BY RegistryAssumption
<1>1. ASSUME NEW c \in Conns, ArriveOnline(c) PROVE TypeOK'
  <2>1. pc' \in [Conns -> Labels] /\ UNCHANGED <<hub, replaced, keep>>
    BY <1>1 DEF TypeOK, ArriveOnline, Goto, Labels
  <2>2. CASE MarkOnline(DeviceOf[c]) /\ UNCHANGED faults
    BY <1>d, <2>1, <2>2, MarkOnlineType DEF TypeOK
  <2>3. CASE Failing /\ UNCHANGED <<redisVars, gap>>
    BY <2>1, <2>3, FailingType DEF TypeOK, redisVars
  <2> QED
    BY <1>1, <2>2, <2>3 DEF ArriveOnline
<1>2. ASSUME NEW c \in Conns, Unregister(c) \/ FinalizeGrace(c) PROVE TypeOK'
  <2>1. hub' \in [Conns -> {"out", "live", "grace"}]
    <3>1. PICK h \in {"out", "live", "grace"} : hub' = [hub EXCEPT ![c] = h]
      BY <1>2 DEF TypeOK, Unregister, FinalizeGrace
    <3> QED
      BY <3>1 DEF TypeOK
  <2>2. pc' \in [Conns -> Labels] /\ gap' \in [Conns -> Nat]
    BY <1>2 DEF TypeOK, Unregister, FinalizeGrace, Goto, Labels
  <2>3. UNCHANGED <<replaced, keep, entries, life, faults>>
    BY <1>2 DEF Unregister, FinalizeGrace, redisVars
  <2> QED
    BY <2>1, <2>2, <2>3 DEF TypeOK
<1>3. ASSUME NEW c \in Conns, Handle(c) PROVE TypeOK'
  <2>1. CASE Register(c)
    BY <2>1 DEF TypeOK, Register, Goto, Labels, redisVars
  <2>2. CASE Decide(c)
    <3>1. PICK label \in {"done", "removing"} : pc' = [pc EXCEPT ![c] = label]
      BY <2>2 DEF Decide, Goto
    <3> QED
      BY <2>2, <3>1 DEF TypeOK, Decide, Labels, redisVars
  <2>3. CASE RemoveField(c)
    <3>1. UNCHANGED <<hub, replaced, keep, gap>>
      BY <2>3 DEF RemoveField
    <3>2. CASE /\ Goto(c, "counting")
               /\ entries' = entries \ {DeviceOf[c]}
               /\ life' = IF entries' = {} THEN 0 ELSE life
               /\ UNCHANGED faults
      BY <3>1, <3>2, RegistryAssumption DEF TypeOK, Goto, Labels
    <3>3. CASE Goto(c, "done") /\ Failing /\ UNCHANGED redisVars
      BY <3>1, <3>3, FailingType DEF TypeOK, Goto, Labels, redisVars
    <3> QED
      BY <2>3, <3>2, <3>3 DEF RemoveField
  <2>4. CASE CountFields(c)
    <3>1. PICK label \in {"deleting", "done"} : pc' = [pc EXCEPT ![c] = label]
      BY <2>4 DEF CountFields, Goto
    <3>2. faults' \in 0..MaxFaults
      BY <2>4, FailingType DEF CountFields, TypeOK
    <3> QED
      BY <2>4, <3>1, <3>2 DEF TypeOK, CountFields, Labels, redisVars
  <2>5. CASE DeleteHash(c)
    <3>1. faults' \in 0..MaxFaults
      BY <2>5, FailingType DEF DeleteHash, TypeOK
    <3> QED
      BY <2>5, <3>1, RegistryAssumption DEF TypeOK, DeleteHash, Goto, Labels, redisVars
  <2> QED
    BY <1>3, <2>1, <2>2, <2>3, <2>4, <2>5 DEF Handle
<1>4. ASSUME NEW c \in Conns, Keep(c) PROVE TypeOK'
  <2>1. CASE KeepChecks(c)
    <3>1. PICK k \in {"writing", "off"} : keep' = [keep EXCEPT ![c] = k]
      BY <2>1 DEF KeepChecks
    <3> QED
      BY <2>1, <3>1 DEF TypeOK, KeepChecks, handlerVars, redisVars
  <2>2. CASE KeepWrites(c)
    <3>1. keep' \in [Conns -> {"off", "started", "idle", "due", "writing"}]
      BY <2>2 DEF TypeOK, KeepWrites
    <3>2. CASE MarkOnline(DeviceOf[c]) /\ UNCHANGED faults
      BY <1>d, <2>2, <3>1, <3>2, MarkOnlineType DEF TypeOK, KeepWrites, handlerVars
    <3>3. CASE Failing /\ UNCHANGED <<redisVars, gap>>
      BY <2>2, <3>1, <3>3, FailingType DEF TypeOK, KeepWrites, handlerVars, redisVars
    <3> QED
      BY <2>2, <3>2, <3>3 DEF KeepWrites
  <2> QED
    BY <1>4, <2>1, <2>2 DEF Keep
<1>5. CASE Tick
  <2>1. life' \in 0..TTL /\ entries' \subseteq Devices /\ (life' = 0 <=> entries' = {})
    BY <1>5, RegistryAssumption DEF TypeOK, Tick
  <2>2. /\ keep' \in [Conns -> {"off", "started", "idle", "due", "writing"}]
        /\ gap' \in [Conns -> Nat]
    BY <1>5 DEF TypeOK, Tick
  <2> QED
    BY <1>5, <2>1, <2>2 DEF TypeOK, Tick, handlerVars
<1>6. CASE Crash
  BY <1>6, FailingType DEF TypeOK, Crash, Labels, redisVars
<1>7. CASE LoseHash
  BY <1>7, FailingType, RegistryAssumption DEF TypeOK, LoseHash, handlerVars
<1>8. CASE UNCHANGED vars
  BY <1>8 DEF TypeOK, vars, handlerVars, redisVars
<1> QED
  BY <1>1, <1>2, <1>3, <1>4, <1>5, <1>6, <1>7, <1>8 DEF Next

(* Types of the registry; the hash has a time to live exactly when it has  *)
(* fields (store_redis.go:133-161).                                        *)
THEOREM RegistryTypeCorrect == Spec => []TypeOK
BY InitSafe, StepType, PTL DEF Spec

-----------------------------------------------------------------------------
(* A step that leaves hub and keepers alone, lengthens no gap and takes    *)
(* back no fault keeps GapInv.                                             *)
LEMMA QuietStep ==
  ASSUME TypeOK, GapInv, faults' \in Nat, faults' >= faults,
         UNCHANGED <<hub, keep>>,
         gap' \in [Conns -> Nat],
         \A c \in Conns : gap'[c] = 0 \/ gap'[c] = gap[c]
  PROVE  GapInv'
BY DEF TypeOK, GapInv, Beating

LEMMA StepGap == TypeOK /\ GapInv /\ [Next]_vars => GapInv'
<1> SUFFICES ASSUME TypeOK, GapInv, [Next]_vars PROVE GapInv'
  OBVIOUS
<1>d. \A c \in Conns : DeviceOf[c] \in Devices
  BY RegistryAssumption
<1>n. faults \in Nat /\ gap \in [Conns -> Nat]
  BY RegistryAssumption DEF TypeOK
<1>1. ASSUME NEW c \in Conns, ArriveOnline(c) PROVE GapInv'
  <2>1. CASE MarkOnline(DeviceOf[c]) /\ UNCHANGED faults
    BY <1>1, <1>d, <1>n, <2>1, MarkOnlineType, QuietStep DEF ArriveOnline
  <2>2. CASE Failing /\ UNCHANGED <<redisVars, gap>>
    BY <1>1, <1>n, <2>2, FailingType, QuietStep DEF ArriveOnline
  <2> QED
    BY <1>1, <2>1, <2>2 DEF ArriveOnline
<1>2. ASSUME NEW c \in Conns, Unregister(c) \/ FinalizeGrace(c) PROVE GapInv'
  BY <1>2, <1>n DEF TypeOK, GapInv, Beating, Unregister, FinalizeGrace, redisVars
<1>3. ASSUME NEW c \in Conns, Handle(c) PROVE GapInv'
  <2>1. CASE Register(c)
    BY <2>1, <1>n DEF TypeOK, GapInv, Beating, Register, SameDevice, redisVars
  <2>2. CASE Decide(c)
    BY <2>2, <1>n, QuietStep DEF Decide
  <2>3. CASE RemoveField(c) \/ CountFields(c) \/ DeleteHash(c)
    <3>1. faults' \in Nat /\ faults' >= faults
      BY <1>n, <2>3, FailingType DEF RemoveField, CountFields, DeleteHash
    <3> QED
      BY <1>n, <2>3, <3>1, QuietStep DEF RemoveField, CountFields, DeleteHash
  <2> QED
    BY <1>3, <2>1, <2>2, <2>3 DEF Handle
<1>4. ASSUME NEW c \in Conns, Keep(c) PROVE GapInv'
  <2>1. CASE KeepChecks(c)
    BY <2>1, <1>n DEF TypeOK, GapInv, Beating, KeepChecks, handlerVars
  <2>2. CASE KeepWrites(c)
    <3>1. /\ hub' = hub
          /\ keep' = [keep EXCEPT ![c] = "idle"]
      BY <2>2 DEF KeepWrites, handlerVars
    <3>2. CASE MarkOnline(DeviceOf[c]) /\ UNCHANGED faults
      BY <1>d, <1>n, <3>1, <3>2, MarkOnlineType DEF TypeOK, GapInv, Beating
    <3>3. CASE Failing /\ UNCHANGED <<redisVars, gap>>
      BY <1>n, <3>1, <3>3, FailingType DEF TypeOK, GapInv, Beating
    <3> QED
      BY <2>2, <3>2, <3>3 DEF KeepWrites
  <2> QED
    BY <1>4, <2>1, <2>2 DEF Keep
<1>5. CASE Tick
  BY <1>5, <1>n DEF TypeOK, GapInv, Tick, Resting, Beating, handlerVars
<1>6. CASE Crash
  BY <1>6, <1>n, FailingType DEF TypeOK, GapInv, Beating, Crash
<1>7. CASE LoseHash
  BY <1>7, <1>n, FailingType, QuietStep DEF LoseHash, handlerVars
<1>8. CASE UNCHANGED vars
  BY <1>8, <1>n, QuietStep DEF vars, handlerVars
<1> QED
  BY <1>1, <1>2, <1>3, <1>4, <1>5, <1>6, <1>7, <1>8 DEF Next

(* A live connection always has its keeper, and has waited for its entry   *)
(* no longer than the faults and the beat that is due account for          *)
(* (main.go:1313-1348).                                                    *)
THEOREM GapIsAccounted == Spec => []GapInv
BY InitSafe, StepType, StepGap, PTL DEF Spec

(* The entry of a working connection is back after one interval and one    *)
(* more for each fault, whatever reconnects, departures and deletions of   *)
(* the whole hash come in between (main.go:1321-1324, store_redis.go:157). *)
THEOREM MissingStaysShort == Spec => []MissingIsShort
<1>1. TypeOK /\ GapInv => MissingIsShort
  BY RegistryAssumption DEF TypeOK, GapInv, MissingIsShort
<1> QED
  BY <1>1, RegistryTypeCorrect, GapIsAccounted, PTL

-----------------------------------------------------------------------------
LEMMA InitLife == Init => LifeInv
BY DEF Init, LifeInv, Beating

(* A step without a fault that leaves keepers alone, brings no connection  *)
(* into service, and at most removes the hash, keeps LifeInv.              *)
LEMMA LifeQuiet ==
  ASSUME TypeOK, LifeInv, keep' = keep, faults' = faults,
         life' = life \/ life' = 0,
         \A c \in Conns : hub'[c] = "live" => hub[c] = "live",
         \A c \in Conns : pc'[c] = "registering" => pc[c] = "registering"
  PROVE  LifeInv'
BY DEF LifeInv, Fresh, Beating

(* So does a fault that leaves keepers alone.                              *)
LEMMA LifeFault ==
  ASSUME TypeOK, LifeInv, keep' = keep, faults' = faults + 1,
         life' = life \/ life' = 0,
         \A c \in Conns : hub'[c] = "live" => hub[c] = "live"
  PROVE  LifeInv'
<1>n. faults \in Nat /\ life \in Nat /\ TTL \in Nat
  BY RegistryAssumption DEF TypeOK
<1> SUFFICES ASSUME NEW c \in Conns, hub'[c] = "live", keep[c] = "idle", faults' <= 1
             PROVE  (Fresh(faults))'
  BY <1>n DEF LifeInv, Beating
<1>1. faults = 0 /\ faults' = 1 /\ hub[c] = "live"
  BY <1>n
<1>2. Fresh(0)
  BY <1>1 DEF LifeInv
<1> QED
  BY <1>n, <1>1, <1>2 DEF Fresh

LEMMA StepLife == TypeOK /\ LifeInv /\ [Next]_vars => LifeInv'
<1> SUFFICES ASSUME TypeOK, LifeInv, [Next]_vars PROVE LifeInv'
  OBVIOUS
<1>d. \A c \in Conns : DeviceOf[c] \in Devices
  BY RegistryAssumption
<1>n. faults \in Nat /\ life \in Nat /\ TTL \in Nat
  BY RegistryAssumption DEF TypeOK
<1>1. ASSUME NEW c \in Conns, ArriveOnline(c) PROVE LifeInv'
  <2>1. UNCHANGED <<hub, keep>>
    BY <1>1 DEF ArriveOnline
  <2>2. CASE MarkOnline(DeviceOf[c]) /\ UNCHANGED faults
    <3>1. (Fresh(0))' /\ (Fresh(1))' /\ (faults' <= 1 => (Fresh(faults))')
      BY <1>d, <1>n, <2>2, RegistryAssumption DEF MarkOnline, Fresh
    <3> QED
      BY <3>1 DEF LifeInv
  <2>3. CASE Failing /\ UNCHANGED <<redisVars, gap>>
    BY <2>1, <2>3, FailingType, LifeFault DEF redisVars
  <2> QED
    BY <1>1, <2>2, <2>3 DEF ArriveOnline
<1>2. ASSUME NEW c \in Conns, Unregister(c) \/ FinalizeGrace(c) PROVE LifeInv'
  BY <1>2, LifeQuiet DEF TypeOK, Unregister, FinalizeGrace, Goto, redisVars
<1>3. ASSUME NEW c \in Conns, Handle(c) PROVE LifeInv'
  <2>1. CASE Register(c)
    <3>1. faults = 0 => Fresh(0)
      BY <2>1 DEF LifeInv, Register
    <3>2. /\ life' = life /\ faults' = faults
          /\ keep' = [keep EXCEPT ![c] = "started"]
          /\ pc' = [pc EXCEPT ![c] = "reading"]
          /\ \A k \in Conns \ {c} : hub'[k] = "live" => hub[k] = "live"
      BY <2>1 DEF TypeOK, Register, Goto, redisVars
    <3> QED
      BY <3>1, <3>2 DEF TypeOK, LifeInv, Fresh, Beating
  <2>2. CASE Decide(c)
    BY <2>2, LifeQuiet DEF TypeOK, Decide, Goto, redisVars
  <2>3. CASE RemoveField(c) \/ CountFields(c) \/ DeleteHash(c)
    <3>1. UNCHANGED <<hub, keep>> /\ (life' = life \/ life' = 0)
      BY <2>3 DEF RemoveField, CountFields, DeleteHash, redisVars
    <3>2. \A k \in Conns : pc'[k] = "registering" => pc[k] = "registering"
      BY <2>3 DEF TypeOK, RemoveField, CountFields, DeleteHash, Goto
    <3>3. faults' = faults \/ Failing
      BY <2>3 DEF RemoveField, CountFields, DeleteHash
    <3> QED
      BY <3>1, <3>2, <3>3, FailingType, LifeQuiet, LifeFault
  <2> QED
    BY <1>3, <2>1, <2>2, <2>3 DEF Handle
<1>4. ASSUME NEW c \in Conns, Keep(c) PROVE LifeInv'
  <2>1. CASE KeepChecks(c)
    BY <2>1 DEF TypeOK, LifeInv, Fresh, Beating, KeepChecks, handlerVars, redisVars
  <2>2. CASE KeepWrites(c)
    <3>1. /\ UNCHANGED <<pc, hub>>
          /\ keep' = [keep EXCEPT ![c] = "idle"]
      BY <2>2 DEF KeepWrites, handlerVars
    <3>2. CASE MarkOnline(DeviceOf[c]) /\ UNCHANGED faults
      <4>1. (Fresh(0))' /\ (Fresh(1))' /\ (faults' <= 1 => (Fresh(faults))')
        BY <1>d, <1>n, <3>2, RegistryAssumption DEF MarkOnline, Fresh
      <4> QED
        BY <4>1 DEF LifeInv
    <3>3. CASE Failing /\ UNCHANGED <<redisVars, gap>>
      <4>1. faults' = faults + 1 /\ life' = life
        BY <3>3, FailingType DEF redisVars
      <4>2. keep[c] = "writing"
        BY <2>2 DEF KeepWrites
      <4> SUFFICES ASSUME NEW k \in Conns, hub[k] = "live", keep'[k] = "idle", faults = 0
                   PROVE  Fresh(1)
        BY <1>n, <3>1, <4>1 DEF LifeInv, Fresh, Beating
      <4>3. CASE k = c
        BY <4>2, <4>3 DEF LifeInv, Beating
      <4>4. CASE k # c
        BY <1>n, <3>1, <4>4 DEF LifeInv, Fresh, TypeOK
      <4> QED
        BY <4>3, <4>4
    <3> QED
      BY <2>2, <3>2, <3>3 DEF KeepWrites
  <2> QED
    BY <1>4, <2>1, <2>2 DEF Keep
<1>5. CASE Tick
  <2>1. /\ life' = IF life = 0 THEN 0 ELSE life - 1
        /\ UNCHANGED <<pc, hub, faults>>
        /\ \A c \in Conns : pc[c] # "registering" /\ ~Beating(c)
        /\ \A c \in Conns : keep'[c] = IF keep[c] = "off" THEN "off" ELSE "due"
    BY <1>5 DEF Tick, Resting, handlerVars
  <2> SUFFICES ASSUME NEW c \in Conns, hub[c] = "live", keep[c] # "off", faults = 0
               PROVE  (Fresh(1))'
    BY <2>1 DEF LifeInv, Beating
  <2>2. Fresh(0)
    BY <1>n, <2>1 DEF LifeInv, TypeOK, Beating
  <2> QED
    BY <1>n, <2>1, <2>2 DEF Fresh
<1>6. CASE Crash
  BY <1>6 DEF TypeOK, LifeInv, Crash
<1>7. CASE LoseHash
  BY <1>7, FailingType, LifeFault DEF LoseHash, handlerVars
<1>8. CASE UNCHANGED vars
  BY <1>8, LifeQuiet DEF vars, handlerVars, redisVars
<1> QED
  BY <1>1, <1>2, <1>3, <1>4, <1>5, <1>6, <1>7, <1>8 DEF Next

(* As long as there was no more than one fault, the hash has most of its   *)
(* time to live before it whenever a keeper has just beaten                *)
(* (main.go:1321-1348).                                                    *)
THEOREM HashStaysFresh == Spec => []LifeInv
BY InitLife, StepLife, RegistryTypeCorrect, PTL DEF Spec

(* With a TTL of three intervals or more, one failed beat, one crash or    *)
(* one loss of data is not enough for the hash to expire under a           *)
(* connection whose keeper beats (main.go:1321).                           *)
THEOREM OnlyDesertedExpires ==
  ASSUME TTL >= 3
  PROVE  Spec => ExpiresOnlyDeserted
<1> DEFINE Deserted == \A c \in Conns : ~(hub[c] = "live" /\ keep[c] = "idle")
<1>1. TypeOK /\ LifeInv /\ Tick /\ life = 1 /\ faults <= 1 => Deserted
  BY RegistryAssumption DEF TypeOK, LifeInv, Fresh
<1>2. TypeOK /\ LifeInv /\ [Next]_vars
        => [Tick /\ life = 1 /\ faults <= 1 => Deserted]_vars
  BY <1>1
<1> QED
  BY <1>2, RegistryTypeCorrect, HashStaysFresh, PTL DEF Spec, ExpiresOnlyDeserted
=============================================================================
