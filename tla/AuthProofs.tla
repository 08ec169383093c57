----------------------------- MODULE AuthProofs -----------------------------
(* What is proved of AuthSession for any number of requests and tokens,    *)
(* with failures and expiry or without.                                    *)
EXTENDS AuthSession, TLAPS

LEMMA InitInv == Init => AuthInv
<1> SUFFICES ASSUME Init PROVE AuthInv
  OBVIOUS
<1> DEFINE o == [kind |-> "kick", tok |-> NoToken, pc |-> "idle"]
<1>1. Sound(o, {})
  BY DEF Sound, OpStates, Labels, AllKinds, Ended, UsesToken
<1> QED
  BY <1>1 DEF Init, AuthInv, Sound

LEMMA InvType == AuthInv => TypeOK
BY DEF AuthInv, TypeOK, Sound

(* Where an error leads: never to a command that needs more than is known. *)
LEMMA ErrorIsSound ==
  ASSUME NEW o, NEW known, Sound(o, known), o.pc \notin Ended \cup {"idle"}
  PROVE  /\ Sound([o EXCEPT !.pc = AfterError(o.kind, o.pc)], known)
         /\ AfterError(o.kind, o.pc) \notin {"caching", "timing", "backfilling"}
<1>1. o \in OpStates
  BY DEF Sound
<1>2. o.pc \in Labels /\ o.kind \in AllKinds
  BY <1>1 DEF OpStates
<1> DEFINE label == AfterError(o.kind, o.pc)
<1>3. label \in {"finding", "done", "updating", "deleting", "unplain", "dropping",
                 "publishing", "issuing", "failed"}
  BY <1>2 DEF Sound, AfterError, Admitted, AfterDelete, AfterPlain, Labels, AllKinds, Ended
<1>4. /\ label = "finding" => o.kind \in {"auth", "logout", "change"} /\ o.tok # NoToken
      /\ label = "updating" => o.kind = "change"
      /\ label \in {"deleting", "dropping", "unplain"} => o.kind \in {"logout", "change", "kick"}
  BY <1>2 DEF Sound, AfterError, Admitted, AfterDelete, AfterPlain, AllKinds, UsesToken, Ended
<1> HIDE DEF label
<1>5. [o EXCEPT !.pc = label] \in OpStates
  BY <1>1, <1>3 DEF OpStates, Labels, Ended
<1>6. Sound([o EXCEPT !.pc = label], known)
  BY <1>1, <1>3, <1>4, <1>5 DEF Sound, UsesToken, OpStates
<1> QED
  BY <1>3, <1>6 DEF label

(* A step of one process that leaves the store well formed. *)
LEMMA OneMoves ==
  ASSUME AuthInv, NEW p \in Procs, NEW o, op' = [op EXCEPT ![p] = o],
         issued \subseteq issued', Sound(o, issued')
  PROVE  \A q \in Procs : Sound(op'[q], issued')
<1> TAKE q \in Procs
<1>1. Sound(op[q], issued) /\ op[p] \in OpStates
  BY DEF AuthInv, Sound
<1>2. op \in [Procs -> OpStates]
  BY DEF AuthInv
<1>3. CASE q = p
  BY <1>2, <1>3
<1>4. CASE q # p
  BY <1>1, <1>2, <1>4 DEF Sound
<1> QED
  BY <1>3, <1>4

(* Most steps of a process change its label only. *)
LEMMA GotoSound ==
  ASSUME AuthInv, NEW p \in Procs, NEW label \in Labels, Goto(p, label),
         issued \subseteq issued',
         Sound([op[p] EXCEPT !.pc = label], issued')
  PROVE  op' \in [Procs -> OpStates] /\ \A q \in Procs : Sound(op'[q], issued')
<1> DEFINE o == [op[p] EXCEPT !.pc = label]
<1>1. op \in [Procs -> OpStates] /\ op[p] \in OpStates
  BY DEF AuthInv
<1>2. o \in OpStates
  BY <1>1 DEF OpStates
<1>3. op' = [op EXCEPT ![p] = o]
  BY <1>1 DEF Goto, OpStates
<1> HIDE DEF o
<1>4. Sound(o, issued')
  BY DEF o
<1> QED
  BY <1>1, <1>2, <1>3, <1>4, OneMoves

(* The same, with what the new label asks for spelled out. *)
LEMMA GotoType ==
  ASSUME AuthInv, NEW p \in Procs, NEW label \in Labels, Goto(p, label),
         issued' = issued,
         label \in UsesToken => op[p].tok # NoToken,
         label \in {"looking", "finding", "timing", "backfilling"}
           => op[p].kind \in {"auth", "logout", "change"},
         label = "updating" => op[p].kind = "change",
         label = "indexing" => op[p].kind = "kick",
         label \in {"deleting", "dropping", "unplain"}
           => op[p].kind \in {"logout", "change", "kick"}
  PROVE  op' \in [Procs -> OpStates] /\ \A q \in Procs : Sound(op'[q], issued')
<1>1. op[p] \in OpStates /\ Sound(op[p], issued)
  BY DEF AuthInv
<1>2. [op[p] EXCEPT !.pc = label] \in OpStates
  BY <1>1 DEF OpStates
<1>3. Sound([op[p] EXCEPT !.pc = label], issued')
  BY <1>1, <1>2 DEF Sound, OpStates
<1> QED
  BY <1>3, GotoSound

LEMMA StepInv == AuthInv /\ [Next]_vars => AuthInv'
<1> SUFFICES ASSUME AuthInv, [Next]_vars PROVE AuthInv'
  OBVIOUS
<1>1. op \in [Procs -> OpStates] /\ \A p \in Procs : op[p] \in OpStates /\ Sound(op[p], issued)
  BY DEF AuthInv
<1>2. \A r \in Requests : r \in Procs
  BY DEF Procs
<1>3. Subscriber \in Procs
  BY DEF Procs
(* What is left to show of a step that starts, or restarts, a process. *)
<1>4. ASSUME NEW p \in Procs, NEW kind \in AllKinds, NEW t \in issued' \cup {NoToken},
             NEW label \in Labels, Start(p, kind, t, label),
             issued \subseteq issued', issued' \subseteq Tokens,
             Sound([kind |-> kind, tok |-> t, pc |-> label], issued')
      PROVE  op' \in [Procs -> OpStates] /\ \A q \in Procs : Sound(op'[q], issued')
  <2> DEFINE o == [kind |-> kind, tok |-> t, pc |-> label]
  <2>1. o \in OpStates
    BY <1>4 DEF OpStates
  <2>2. op' = [op EXCEPT ![p] = o]
    BY <1>4 DEF Start
  <2>3. Sound(o, issued')
    BY <1>4
  <2> HIDE DEF o
  <2> QED
    BY <1>1, <1>4, <2>1, <2>2, <2>3, OneMoves
<1>a. ASSUME NEW r \in Requests, Arrive(r) PROVE AuthInv'
  <2> DEFINE typed == op' \in [Procs -> OpStates] /\ \A q \in Procs : Sound(op'[q], issued')
  <2>1. CASE StartLogin(r)
    <3>1. Sound([kind |-> "login", tok |-> NoToken, pc |-> "counting"], issued)
      BY DEF Sound, OpStates, Labels, AllKinds, Ended, UsesToken
    <3>2. "login" \in AllKinds /\ "counting" \in Labels
      BY DEF AllKinds, Labels
    <3>3. issued' = issued /\ issued \subseteq Tokens
      BY <2>1 DEF StartLogin, AuthInv
    <3>4. typed
      BY <1>2, <1>4, <2>1, <3>1, <3>2, <3>3 DEF StartLogin
    <3> QED
      BY <2>1, <3>4 DEF StartLogin, AuthInv, store
  <2>2. CASE StartKick(r)
    <3>1. Sound([kind |-> "kick", tok |-> NoToken, pc |-> "indexing"], issued)
      BY DEF Sound, OpStates, Labels, AllKinds, Ended, UsesToken
    <3>2. "kick" \in AllKinds /\ "indexing" \in Labels
      BY DEF AllKinds, Labels
    <3>3. issued' = issued /\ issued \subseteq Tokens
      BY <2>2 DEF StartKick, AuthInv
    <3>4. typed
      BY <1>2, <1>4, <2>2, <3>1, <3>2, <3>3 DEF StartKick
    <3> QED
      BY <2>2, <3>4 DEF StartKick, AuthInv, store
  <2>3. ASSUME NEW t \in Tokens, NEW kind \in {"auth", "logout", "change"},
               StartWithToken(r, kind, t)
        PROVE  AuthInv'
    <3>1. t \in issued
      BY <2>3 DEF StartWithToken, AuthInv
    <3>2. Sound([kind |-> kind, tok |-> t, pc |-> "looking"], issued)
      BY <3>1, AuthAssumption DEF Sound, OpStates, Labels, AllKinds, Ended, UsesToken
    <3>3. kind \in AllKinds /\ "looking" \in Labels
      BY DEF AllKinds, Labels
    <3>4. issued' = issued /\ issued \subseteq Tokens
      BY <2>3 DEF StartWithToken, AuthInv
    <3>5. typed
      BY <1>2, <1>4, <2>3, <3>1, <3>2, <3>3, <3>4 DEF StartWithToken
    <3> QED
      BY <2>3, <3>5 DEF StartWithToken, AuthInv, store
  <2> QED
    BY <1>a, <2>1, <2>2, <2>3 DEF Arrive
<1>w. ASSUME NEW p \in Procs, Work(p) PROVE AuthInv'
  <2>0. op[p] \in OpStates /\ Sound(op[p], issued) /\ op[p].kind \in AllKinds
    BY <1>1 DEF OpStates
  <2> USE DEF At, Labels, Ended, UsesToken
  <2>1. CASE CountOnline(p)
    <3>1. PICK label \in {"reading", "issuing"} : Goto(p, label)
      BY <2>1 DEF CountOnline
    <3> QED
      BY <2>1, <3>1, GotoType DEF CountOnline, AuthInv, store
  <2>2. CASE ReadSession(p)
    <3>1. CASE session = NoToken
      BY <2>2, <3>1, GotoType DEF ReadSession, AuthInv, store
    <3>2. CASE session # NoToken
      <4>1. Sound([kind |-> op[p].kind, tok |-> session, pc |-> "comparing"], issued)
        BY <2>0, <3>2 DEF AuthInv, Sound, OpStates
      <4> QED
        BY <1>4, <2>0, <2>2, <3>2, <4>1 DEF ReadSession, AuthInv, store
    <3> QED
      BY <3>1, <3>2
  <2>3. CASE ComparePlain(p)
    <3>1. op[p].tok \in issued
      BY <2>0, <2>3 DEF ComparePlain, Sound
    <3>2. PICK label \in {"done", "issuing"} : Goto(p, label)
      BY <2>3 DEF ComparePlain
    <3>3. handed' \subseteq issued
      BY <2>3, <3>1 DEF ComparePlain, AuthInv
    <3> QED
      BY <2>3, <3>2, <3>3, GotoType DEF ComparePlain, AuthInv, store
  <2>4. CASE Issue(p)
    <3>1. PICK t \in Tokens \ issued :
            /\ session' = t
            /\ issued' = issued \cup {t}
            /\ Start(p, op[p].kind, t, "caching")
            /\ UNCHANGED <<cached, index, plain, handed, channel>>
      BY <2>4 DEF Issue
    <3>2. Sound([kind |-> op[p].kind, tok |-> t, pc |-> "caching"], issued')
      BY <2>0, <3>1, AuthAssumption DEF Sound, OpStates
    <3>3. issued' \subseteq Tokens
      BY <3>1 DEF AuthInv
    <3>4. op' \in [Procs -> OpStates] /\ \A q \in Procs : Sound(op'[q], issued')
      BY <1>4, <2>0, <3>1, <3>2, <3>3
    <3> QED
      BY <3>1, <3>3, <3>4 DEF AuthInv
  <2>5. CASE CacheNew(p)
    <3>1. op[p].tok \in issued /\ op[p].tok # NoToken
      BY <2>0, <2>5 DEF CacheNew, Sound
    <3>2. op' \in [Procs -> OpStates] /\ \A q \in Procs : Sound(op'[q], issued')
      BY <2>5, <3>1, GotoType DEF CacheNew
    <3>3. /\ UNCHANGED <<session, plain, issued, handed, channel>>
          /\ cached' = cached \cup {op[p].tok} /\ index' = op[p].tok
      BY <2>5 DEF CacheNew, CacheToken
    <3> QED
      BY <3>1, <3>2, <3>3 DEF AuthInv
  <2>6. CASE StorePlain(p)
    <3>1. op[p].tok \in issued
      BY <2>0, <2>6 DEF StorePlain, Sound
    <3>2. op' \in [Procs -> OpStates] /\ \A q \in Procs : Sound(op'[q], issued')
      BY <2>6, <3>1, GotoType DEF StorePlain
    <3> QED
      BY <2>6, <3>1, <3>2 DEF StorePlain, AuthInv
  <2>7. CASE LookupToken(p)
    <3>1. PICK label \in {"done", "updating", "deleting", "finding"} :
            /\ Goto(p, label)
            /\ label = "updating" => op[p].kind = "change"
            /\ label = "deleting" => op[p].kind = "logout"
      BY <2>0, <2>7 DEF LookupToken, Admitted, Sound
    <3> QED
      BY <2>0, <2>7, <3>1, GotoType DEF LookupToken, AuthInv, Sound, store
  <2>8. CASE FindUser(p)
    <3>1. PICK label \in {"failed", "deleting", "timing"} :
            /\ Goto(p, label)
            /\ label = "deleting" => op[p].kind = "logout"
      BY <2>0, <2>8 DEF FindUser
    <3> QED
      BY <2>0, <2>8, <3>1, GotoType DEF FindUser, AuthInv, Sound, store
  <2>9. CASE TimeLeft(p)
    <3>1. PICK label \in {"done", "updating", "deleting", "backfilling"} :
            /\ Goto(p, label)
            /\ label = "updating" => op[p].kind = "change"
            /\ label = "deleting" => op[p].kind = "logout"
      BY <2>0, <2>9 DEF TimeLeft, Admitted, Sound
    <3> QED
      BY <2>0, <2>9, <3>1, GotoType DEF TimeLeft, AuthInv, Sound, store
  <2>10. CASE Backfill(p)
    <3>1. op[p].tok \in issued
      BY <2>0, <2>10 DEF Backfill, Sound
    <3>2. PICK label \in {"done", "updating", "deleting"} :
            /\ Goto(p, label)
            /\ label = "updating" => op[p].kind = "change"
            /\ label = "deleting" => op[p].kind = "logout"
      BY <2>0, <2>10 DEF Backfill, Admitted, Sound
    <3>3. op' \in [Procs -> OpStates] /\ \A q \in Procs : Sound(op'[q], issued')
      BY <2>10, <3>1, <3>2, GotoType DEF Backfill
    <3>4. /\ UNCHANGED <<session, plain, issued, handed, channel>>
          /\ cached' = cached \cup {op[p].tok} /\ index' = op[p].tok
      BY <2>10 DEF Backfill, CacheToken
    <3> QED
      BY <3>1, <3>3, <3>4 DEF AuthInv
  <2>11. CASE UpdatePassword(p)
    <3>1. PICK label \in {"deleting", "failed"} : Goto(p, label)
      BY <2>11 DEF UpdatePassword
    <3> QED
      BY <2>0, <2>11, <3>1, GotoType DEF UpdatePassword, AuthInv, Sound, store
  <2>12. CASE ReadIndex(p)
    <3>1. CASE index = NoToken
      BY <2>0, <2>12, <3>1, GotoType DEF ReadIndex, AuthInv, Sound, store
    <3>2. CASE index # NoToken
      <4>1. Sound([kind |-> op[p].kind, tok |-> index, pc |-> "dropping"], issued)
        BY <2>0, <2>12, <3>2 DEF ReadIndex, AuthInv, Sound, OpStates
      <4> QED
        BY <1>4, <2>0, <2>12, <3>2, <4>1 DEF ReadIndex, AuthInv, store
    <3> QED
      BY <3>1, <3>2
  <2>13. CASE DeleteSession(p)
    <3>1. PICK label \in {"done", "dropping"} : Goto(p, label)
      BY <2>13 DEF DeleteSession, AfterDelete
    <3> QED
      BY <2>0, <2>13, <3>1, GotoType DEF DeleteSession, AuthInv, Sound
  <2>14. CASE DropToken(p)
    BY <2>0, <2>14, GotoType DEF DropToken, AuthInv, Sound
  <2>15. CASE DropPlain(p)
    <3>1. PICK label \in {"done", "publishing", "deleting"} : Goto(p, label)
      BY <2>0, <2>15 DEF DropPlain, AfterPlain, Sound
    <3> QED
      BY <2>0, <2>15, <3>1, GotoType DEF DropPlain, AuthInv, Sound
  <2>16. CASE PublishKickUser(p)
    BY <2>16, GotoType DEF PublishKickUser, AuthInv, store
  <2> QED
    BY <1>w, <2>1, <2>2, <2>3, <2>4, <2>5, <2>6, <2>7, <2>8, <2>9, <2>10, <2>11, <2>12,
       <2>13, <2>14, <2>15, <2>16 DEF Work
<1>f. ASSUME NEW p \in Procs, Fail(p) PROVE AuthInv'
  <2>1. Sound([op[p] EXCEPT !.pc = AfterError(op[p].kind, op[p].pc)], issued')
    BY <1>1, <1>f, ErrorIsSound DEF Fail, Idle, store
  <2>2. AfterError(op[p].kind, op[p].pc) \in Labels
    BY <1>1, <1>f, <2>1 DEF Sound, OpStates
  <2> QED
    BY <1>f, <2>1, <2>2, GotoSound DEF Fail, AuthInv, store
<1>r. ASSUME Receive PROVE AuthInv'
  <2>1. Sound([kind |-> "kick", tok |-> NoToken, pc |-> "indexing"], issued')
    BY <1>r DEF Receive, Sound, OpStates, Labels, AllKinds, UsesToken
  <2> QED
    BY <1>3, <1>4, <1>r, <2>1 DEF Receive, AuthInv, AllKinds, Labels, store
<1>l. ASSUME Lose \/ SessionExpires \/ KeyGoes PROVE AuthInv'
  BY <1>l DEF Lose, SessionExpires, KeyGoes, AuthInv, store
<1>u. ASSUME UNCHANGED vars PROVE AuthInv'
  BY <1>u DEF vars, store, AuthInv
<1> QED
  BY <1>a, <1>w, <1>f, <1>r, <1>l, <1>u DEF Next

(* Every reachable state is well typed: no empty token is handed out.      *)
THEOREM AuthTypeCorrect == Spec => []TypeOK
BY InitInv, StepInv, InvType, PTL DEF Spec

THEOREM AuthIsSound == Spec => []AuthInv
BY InitInv, StepInv, PTL DEF Spec

-----------------------------------------------------------------------------
(* The token authority. *)

Dead(t) == ~Accepted(t) /\ \A p \in Procs : ~Holds(p, t)

(* A process that does not come to hold the token leaves it as it is. *)
LEMMA DeadIfNotHeld ==
  ASSUME AuthInv, NEW t, Dead(t), NEW p \in Procs, NEW o,
         op' = [op EXCEPT ![p] = o],
         o.tok # t \/ o.pc \notin {"caching", "timing", "backfilling"},
         ~Accepted(t)'
  PROVE  Dead(t)'
<1>1. ASSUME NEW q \in Procs PROVE ~Holds(q, t)'
  <2>1. CASE q = p
    BY <2>1 DEF AuthInv, Holds
  <2>2. CASE q # p
    BY <2>2 DEF AuthInv, Dead, Holds
  <2> QED
    BY <2>1, <2>2
<1> QED
  BY <1>1 DEF Dead

LEMMA DeadIfGoto ==
  ASSUME AuthInv, NEW t, Dead(t), NEW p \in Procs, NEW label, Goto(p, label),
         op[p].tok # t \/ label \notin {"caching", "timing", "backfilling"},
         ~Accepted(t)'
  PROVE  Dead(t)'
<1>1. op \in [Procs -> OpStates] /\ op[p] \in OpStates
  BY DEF AuthInv
<1> DEFINE o == [op[p] EXCEPT !.pc = label]
<1>2. op' = [op EXCEPT ![p] = o] /\ o.tok = op[p].tok /\ o.pc = label
  BY <1>1 DEF Goto, OpStates
<1> HIDE DEF o
<1> QED
  BY <1>2, DeadIfNotHeld

LEMMA IssuedGrows ==
  ASSUME AuthInv, [Next]_vars, NEW t \in Tokens
  PROVE  /\ t \in issued => t \in issued'
         /\ t \in issued' \ issued => Accepted(t)'
<1>1. ASSUME NEW p \in Procs, Issue(p)
      PROVE  \E u \in Tokens : issued' = issued \cup {u} /\ session' = u
  BY <1>1 DEF Issue
<1>2. CASE \E p \in Procs : Issue(p)
  BY <1>1, <1>2 DEF Accepted
<1>3. CASE issued' = issued
  BY <1>3
<1>4. ASSUME NEW p \in Procs, Work(p)
      PROVE  Issue(p) \/ issued' = issued
  BY <1>4 DEF Work, CountOnline, ReadSession, ComparePlain, CacheNew, StorePlain, LookupToken,
     FindUser, TimeLeft, Backfill, UpdatePassword, ReadIndex, DeleteSession, DropToken,
     DropPlain, PublishKickUser
<1>5. ASSUME NEW r \in Requests, Arrive(r)
      PROVE  issued' = issued
  BY <1>5 DEF Arrive, StartLogin, StartKick, StartWithToken
<1>6. ASSUME NEW p \in Procs, Fail(p)
      PROVE  issued' = issued
  BY <1>6 DEF Fail
<1>7. ASSUME Receive \/ Lose \/ SessionExpires \/ KeyGoes
      PROVE  issued' = issued
  BY <1>7 DEF Receive, Lose, SessionExpires, KeyGoes
<1>8. (\E p \in Procs : Issue(p)) \/ issued' = issued
  BY <1>4, <1>5, <1>6, <1>7 DEF Next, vars
<1> QED
  BY <1>2, <1>3, <1>8

LEMMA DeadStaysDead ==
  ASSUME AuthInv, [Next]_vars, NEW t \in issued, Dead(t)
  PROVE  Dead(t)'
<1>1. /\ t # session /\ t \notin cached
      /\ \A p \in Procs : ~Holds(p, t)
      /\ t # NoToken
  BY AuthAssumption DEF AuthInv, Dead, Accepted
<1>2. \A p \in Procs : op[p] \in OpStates /\ Sound(op[p], issued)
  BY DEF AuthInv
<1>3. \A r \in Requests \cup {Subscriber} : r \in Procs
  BY DEF Procs
<1>4. ASSUME UNCHANGED <<session, cached>> PROVE ~Accepted(t)'
  BY <1>1, <1>4 DEF Accepted
<1>a. ASSUME NEW r \in Requests, Arrive(r) PROVE Dead(t)'
  <2>1. PICK kind \in AllKinds, u \in Tokens \cup {NoToken}, label \in {"counting", "looking", "indexing"} :
          Start(r, kind, u, label) /\ UNCHANGED <<session, cached>>
    BY <1>a DEF Arrive, StartLogin, StartKick, StartWithToken, AllKinds, store
  <2> DEFINE o == [kind |-> kind, tok |-> u, pc |-> label]
  <2>2. op' = [op EXCEPT ![r] = o] /\ o.pc = label
    BY <2>1 DEF Start
  <2> HIDE DEF o
  <2> QED
    BY <1>3, <1>4, <2>1, <2>2, DeadIfNotHeld
<1>w. ASSUME NEW p \in Procs, Work(p) PROVE Dead(t)'
  <2> USE DEF At
  <2>1. CASE CountOnline(p)
    BY <1>4, <2>1, DeadIfGoto DEF CountOnline, store
  <2>2. CASE ReadSession(p)
    <3>1. CASE session = NoToken
      BY <1>4, <2>2, <3>1, DeadIfGoto DEF ReadSession, store
    <3>2. CASE session # NoToken
      <4> DEFINE o == [kind |-> op[p].kind, tok |-> session, pc |-> "comparing"]
      <4>1. op' = [op EXCEPT ![p] = o] /\ o.pc = "comparing"
        BY <2>2, <3>2 DEF ReadSession, Start
      <4> HIDE DEF o
      <4> QED
        BY <1>4, <2>2, <4>1, DeadIfNotHeld DEF ReadSession, store
    <3> QED
      BY <3>1, <3>2
  <2>3. CASE ComparePlain(p)
    <3>1. PICK label \in {"done", "issuing"} : Goto(p, label)
      BY <2>3 DEF ComparePlain
    <3> QED
      BY <1>4, <2>3, <3>1, DeadIfGoto DEF ComparePlain, store
  <2>4. CASE Issue(p)
    <3>1. PICK u \in Tokens \ issued :
            session' = u /\ cached' = cached /\ Start(p, op[p].kind, u, "caching")
      BY <2>4 DEF Issue
    <3> DEFINE o == [kind |-> op[p].kind, tok |-> u, pc |-> "caching"]
    <3>2. op' = [op EXCEPT ![p] = o] /\ o.tok = u
      BY <3>1 DEF Start
    <3>3. ~Accepted(t)'
      BY <1>1, <3>1 DEF Accepted
    <3> HIDE DEF o
    <3> QED
      BY <3>1, <3>2, <3>3, DeadIfNotHeld
  <2>5. CASE CacheNew(p)
    <3>1. op[p].tok # t
      BY <1>1, <2>5 DEF CacheNew, Holds
    <3>2. ~Accepted(t)'
      BY <1>1, <2>5, <3>1 DEF CacheNew, CacheToken, Accepted
    <3> QED
      BY <2>5, <3>2, DeadIfGoto DEF CacheNew
  <2>6. CASE StorePlain(p)
    BY <1>4, <2>6, DeadIfGoto DEF StorePlain
  <2>7. CASE LookupToken(p)
    <3>1. PICK label \in {"done", "updating", "deleting", "finding"} : Goto(p, label)
      BY <1>2, <2>7 DEF LookupToken, Admitted, Sound
    <3> QED
      BY <1>4, <2>7, <3>1, DeadIfGoto DEF LookupToken, store
  <2>8. CASE FindUser(p)
    <3>1. PICK label \in {"failed", "deleting", "timing"} :
            Goto(p, label) /\ (label = "timing" => session = op[p].tok)
      BY <2>8 DEF FindUser
    <3> QED
      BY <1>1, <1>4, <2>8, <3>1, DeadIfGoto DEF FindUser, store
  <2>9. CASE TimeLeft(p)
    <3>1. op[p].tok # t
      BY <1>1, <2>9 DEF TimeLeft, Holds
    <3> QED
      BY <1>4, <2>9, <3>1, DeadIfGoto DEF TimeLeft, store
  <2>10. CASE Backfill(p)
    <3>1. op[p].tok # t
      BY <1>1, <2>10 DEF Backfill, Holds
    <3>2. ~Accepted(t)'
      BY <1>1, <2>10, <3>1 DEF Backfill, CacheToken, Accepted
    <3> QED
      BY <2>10, <3>1, <3>2, DeadIfGoto DEF Backfill
  <2>11. CASE UpdatePassword(p)
    BY <1>4, <2>11, DeadIfGoto DEF UpdatePassword, store
  <2>12. CASE ReadIndex(p)
    <3>1. CASE index = NoToken
      BY <1>4, <2>12, <3>1, DeadIfGoto DEF ReadIndex, store
    <3>2. CASE index # NoToken
      <4> DEFINE o == [kind |-> op[p].kind, tok |-> index, pc |-> "dropping"]
      <4>1. op' = [op EXCEPT ![p] = o] /\ o.pc = "dropping"
        BY <2>12, <3>2 DEF ReadIndex, Start
      <4> HIDE DEF o
      <4> QED
        BY <1>4, <2>12, <4>1, DeadIfNotHeld DEF ReadIndex, store
    <3> QED
      BY <3>1, <3>2
  <2>13. CASE DeleteSession(p)
    <3>1. ~Accepted(t)'
      BY <1>1, <2>13 DEF DeleteSession, Accepted
    <3> QED
      BY <2>13, <3>1, DeadIfGoto DEF DeleteSession, AfterDelete
  <2>14. CASE DropToken(p)
    <3>1. ~Accepted(t)'
      BY <1>1, <2>14 DEF DropToken, Accepted
    <3> QED
      BY <2>14, <3>1, DeadIfGoto DEF DropToken
  <2>15. CASE DropPlain(p)
    <3>1. PICK label \in {"done", "publishing", "deleting"} : Goto(p, label)
      BY <1>2, <2>15 DEF DropPlain, AfterPlain, Sound
    <3> QED
      BY <1>4, <2>15, <3>1, DeadIfGoto DEF DropPlain
  <2>16. CASE PublishKickUser(p)
    BY <1>4, <2>16, DeadIfGoto DEF PublishKickUser, store
  <2> QED
    BY <1>w, <2>1, <2>2, <2>3, <2>4, <2>5, <2>6, <2>7, <2>8, <2>9, <2>10, <2>11, <2>12,
       <2>13, <2>14, <2>15, <2>16 DEF Work
<1>f. ASSUME NEW p \in Procs, Fail(p) PROVE Dead(t)'
  <2>1. AfterError(op[p].kind, op[p].pc) \notin {"caching", "timing", "backfilling"}
    BY <1>2, <1>f, ErrorIsSound DEF Fail, Idle
  <2> QED
    BY <1>4, <1>f, <2>1, DeadIfGoto DEF Fail, store
<1>r. ASSUME Receive PROVE Dead(t)'
  <2> DEFINE o == [kind |-> "kick", tok |-> NoToken, pc |-> "indexing"]
  <2>1. op' = [op EXCEPT ![Subscriber] = o] /\ o.pc = "indexing"
    BY <1>r DEF Receive, Start
  <2> HIDE DEF o
  <2> QED
    BY <1>3, <1>4, <1>r, <2>1, DeadIfNotHeld DEF Receive, store
<1>l. ASSUME Lose \/ SessionExpires \/ KeyGoes \/ UNCHANGED vars PROVE Dead(t)'
  <2>1. op' = op
    BY <1>l DEF Lose, SessionExpires, KeyGoes, vars
  <2>2. ~Accepted(t)'
    BY <1>1, <1>l DEF Lose, SessionExpires, KeyGoes, vars, store, Accepted
  <2> QED
    BY <1>1, <2>1, <2>2 DEF Dead, Holds
<1> QED
  BY <1>a, <1>w, <1>f, <1>r, <1>l DEF Next

LEMMA StepStatus ==
  ASSUME AuthInv, AuthInv', [Next]_vars
  PROVE  Authority!Next
<1>1. \A t \in Tokens : Status'[t] \in {"fresh", "live", "limbo", "dead"}
  BY DEF Status
<1>2. ASSUME NEW t \in Tokens PROVE Status'[t] \in Authority!Moves(Status[t])
  <2>1. CASE t \notin issued
    <3>1. Status[t] = "fresh"
      BY <2>1 DEF Status
    <3>2. Status'[t] \in {"fresh", "live"}
      BY <2>1, IssuedGrows DEF Status
    <3> QED
      BY <3>1, <3>2 DEF Authority!Moves
  <2>2. CASE t \in issued
    <3>1. Status'[t] # "fresh"
      BY <2>2, IssuedGrows DEF Status
    <3>2. CASE Dead(t)
      <4>1. Dead(t)'
        BY <2>2, <3>2, DeadStaysDead
      <4>2. Status[t] = "dead" /\ Status'[t] = "dead"
        BY <2>2, <3>1, <3>2, <4>1 DEF Status, Dead
      <4> QED
        BY <4>2 DEF Authority!Moves
    <3>3. CASE ~Dead(t)
      <4>1. Status[t] \in {"live", "limbo"}
        BY <2>2, <3>3 DEF Status, Dead
      <4> QED
        BY <1>1, <3>1, <4>1 DEF Authority!Moves
    <3> QED
      BY <3>2, <3>3
  <2> QED
    BY <2>1, <2>2
<1>3. Status' \in [Tokens -> Authority!States]
  BY <1>1 DEF Status, Authority!States
<1> QED
  BY <1>2, <1>3 DEF Authority!Next

(* A token given up is given up for good: whatever requests, kicks,        *)
(* expiries and failures do, it is not let in again once no request under  *)
(* way holds it.                                                           *)
THEOREM AuthImplementsAuthority == Spec => ImplementsAuthority
<1>1. Init => Authority!Init
  BY DEF Init, Status, Authority!Init
<1>2. AuthInv /\ AuthInv' /\ [Next]_vars => [Authority!Next]_Status
  BY StepStatus
<1> QED
  BY <1>1, <1>2, AuthIsSound, PTL DEF Spec, ImplementsAuthority, Authority!Spec

-----------------------------------------------------------------------------
(* An answered logout.                                                     *)

(* The labels a request of each kind goes through.                         *)
Program(kind) ==
  Ended \cup CASE kind = "login"  -> {"counting", "reading", "comparing", "issuing",
                                      "caching", "storing"}
               [] kind = "auth"   -> {"looking", "finding", "timing", "backfilling"}
               [] kind = "logout" -> {"looking", "finding", "deleting", "dropping", "unplain"}
               [] kind = "change" -> {"looking", "finding", "timing", "backfilling", "updating",
                                      "deleting", "dropping", "unplain", "publishing",
                                      "issuing", "caching", "storing"}
               [] kind = "kick"   -> {"idle", "indexing", "dropping", "unplain", "deleting"}

InProgram ==
  /\ \A p \in Procs : op[p].pc \in Program(op[p].kind)
  /\ op[Subscriber].kind = "kick"

PlainIsHanded == plain \in handed \cup {NoToken}

NewIsUnknown ==
  \A p \in Procs : op[p].pc \in {"caching", "storing"} =>
    /\ op[p].tok \notin handed
    /\ \A q \in Procs \ {p} : op[q].pc \in {"caching", "storing"} => op[q].tok # op[p].tok

PutBack(t) == \E q \in Procs : \/ op[q].kind = "auth" /\ op[q].tok = t
                               \/ op[q].kind = "change"

Heeds(p, t) ==
  op[p].kind = "logout" /\ op[p].tok = t =>
    /\ t \in handed
    /\ op[p].pc \in {"dropping", "unplain", "done"} => session # t
    /\ op[p].pc \in {"unplain", "done"} => t \notin cached \/ PutBack(t)

LogoutTakes == \A p \in Procs, t \in Tokens \cup {NoToken} : Heeds(p, t)

LogoutInv == InProgram /\ PlainIsHanded /\ NewIsUnknown /\ LogoutTakes

LEMMA InitLogout == Init => LogoutInv
BY DEF Init, LogoutInv, InProgram, Program, PlainIsHanded, NewIsUnknown, LogoutTakes, Heeds, Procs

LEMMA GotoIs ==
  ASSUME AuthInv, NEW p \in Procs, NEW label, Goto(p, label)
  PROVE  /\ op'[p].kind = op[p].kind /\ op'[p].tok = op[p].tok /\ op'[p].pc = label
         /\ \A q \in Procs \ {p} : op'[q] = op[q]
BY DEF AuthInv, OpStates, Goto

LEMMA StartIs ==
  ASSUME AuthInv, NEW p \in Procs, NEW kind, NEW t, NEW label, Start(p, kind, t, label)
  PROVE  /\ op'[p].kind = kind /\ op'[p].tok = t /\ op'[p].pc = label
         /\ \A q \in Procs \ {p} : op'[q] = op[q]
BY DEF AuthInv, Start

(* What has been put back stays so: no process changes its kind, or, if it *)
(* is a handshake, its token.                                              *)
LEMMA PutBackStays ==
  ASSUME NEW t, PutBack(t), NEW p \in Procs,
         \A q \in Procs \ {p} : op'[q] = op[q],
         op[p].kind \in {"auth", "change"} => op'[p].kind = op[p].kind,
         op[p].kind = "auth" => op'[p].tok = op[p].tok
  PROVE  PutBack(t)'
BY DEF PutBack

(* An ended logout is undone neither by a new token nor by a new entry of  *)
(* the cache, if that is for a token no client has, or is put back.        *)
LEMMA HeedsStays ==
  ASSUME LogoutInv, NEW q \in Procs, NEW t \in Tokens \cup {NoToken}, op'[q] = op[q],
         handed \subseteq handed',
         t \in handed /\ session' = t => session = t,
         t \in handed /\ t \in cached' => t \in cached \/ PutBack(t)',
         PutBack(t) => PutBack(t)'
  PROVE  Heeds(q, t)'
<1>1. Heeds(q, t)
  BY DEF LogoutInv, LogoutTakes
<1> QED
  BY <1>1 DEF Heeds

LEMMA LogoutToken ==
  ASSUME AuthInv, LogoutInv, NEW p \in Procs, op[p].kind = "logout"
  PROVE  op[p].tok \in handed /\ op[p].tok # NoToken
<1>1. op[p].tok \in Tokens \cup {NoToken}
  BY DEF AuthInv, OpStates
<1>2. Heeds(p, op[p].tok)
  BY <1>1 DEF LogoutInv, LogoutTakes
<1> QED
  BY <1>2, AuthAssumption DEF Heeds, AuthInv

(* A step of a process towards the next label of its program, which puts   *)
(* nothing in the store and gives nothing to a client.                     *)
LEMMA MoveKeeps ==
  ASSUME AuthInv, LogoutInv, NEW p \in Procs,
         \A q \in Procs \ {p} : op'[q] = op[q],
         op'[p].kind = op[p].kind, op'[p].tok = op[p].tok,
         op'[p].pc \in Program(op[p].kind),
         op'[p].pc \in {"caching", "storing"} => op[p].pc \in {"caching", "storing"},
         session' \in {session, NoToken}, cached' \subseteq cached,
         plain' \in {plain, NoToken}, handed' = handed,
         op[p].kind = "logout" =>
           /\ op'[p].pc \in {"dropping", "unplain", "done"} => session' # op[p].tok
           /\ op'[p].pc \in {"unplain", "done"}
                => op[p].tok \notin cached' \/ PutBack(op[p].tok)
  PROVE  LogoutInv'
<1>1. InProgram' /\ PlainIsHanded'
  BY DEF LogoutInv, InProgram, PlainIsHanded, Program, Procs
<1>2. NewIsUnknown'
  BY DEF LogoutInv, NewIsUnknown
<1>3. LogoutTakes'
  <2> SUFFICES ASSUME NEW q \in Procs, NEW t \in Tokens \cup {NoToken} PROVE Heeds(q, t)'
    BY DEF LogoutTakes
  <2>1. PutBack(t) => PutBack(t)'
    BY PutBackStays
  <2>2. \A s \in handed : s # NoToken
    BY AuthAssumption DEF AuthInv
  <2>3. CASE q # p
    BY <2>1, <2>2, <2>3, HeedsStays
  <2>4. CASE q = p
    <3>1. Heeds(p, t)
      BY DEF LogoutInv, LogoutTakes
    <3> QED
      BY <2>1, <2>4, <3>1 DEF Heeds
  <2> QED
    BY <2>3, <2>4
<1> QED
  BY <1>1, <1>2, <1>3 DEF LogoutInv

(* A process that starts with a kind other than its idle one. *)
LEMMA StartKeeps ==
  ASSUME AuthInv, LogoutInv, NEW p \in Procs, NEW kind, NEW t, NEW label,
         Start(p, kind, t, label), op[p].kind \in {"kick", kind},
         p = Subscriber => kind = "kick",
         label \in Program(kind) \ {"caching", "storing", "done"},
         kind = "logout" => t \in handed /\ label = "looking",
         kind \in {"auth", "change"} => op[p].kind = "kick",
         UNCHANGED <<session, cached, plain, handed>>
  PROVE  LogoutInv'
<1>0. /\ op'[p].kind = kind /\ op'[p].tok = t /\ op'[p].pc = label
      /\ \A q \in Procs \ {p} : op'[q] = op[q]
  BY StartIs
<1>1. InProgram'
  BY <1>0 DEF LogoutInv, InProgram, Procs
<1>h. PlainIsHanded'
  BY <1>0 DEF LogoutInv, PlainIsHanded
<1>2. NewIsUnknown'
  BY <1>0 DEF LogoutInv, NewIsUnknown
<1>3. \A s : PutBack(s) => PutBack(s)'
  BY <1>0, PutBackStays
<1>4. LogoutTakes'
  <2> SUFFICES ASSUME NEW q \in Procs, NEW s \in Tokens \cup {NoToken} PROVE Heeds(q, s)'
    BY DEF LogoutTakes
  <2>1. PutBack(s) => PutBack(s)'
    BY <1>0, PutBackStays
  <2>2. CASE q # p
    BY <1>0, <2>1, <2>2, HeedsStays
  <2>3. CASE q = p
    BY <1>0, <2>3 DEF Heeds
  <2> QED
    BY <2>2, <2>3
<1> QED
  BY <1>1, <1>h, <1>2, <1>4 DEF LogoutInv

LEMMA ArriveKeeps ==
  ASSUME AuthInv, LogoutInv, NEW r \in Requests, Arrive(r) PROVE LogoutInv'
<1>1. r \in Procs /\ r # Subscriber
  BY AuthAssumption DEF Procs
<1>2. op[r].pc = "idle" /\ op[r].kind \in AllKinds
  BY <1>1 DEF Arrive, StartLogin, StartKick, StartWithToken, At, AuthInv, OpStates
<1>3. op[r].kind = "kick"
  BY <1>1, <1>2 DEF LogoutInv, InProgram, Program, Ended, AllKinds
<1>4. CASE StartLogin(r)
  BY <1>1, <1>3, <1>4, StartKeeps DEF StartLogin, store, Program, Ended
<1>5. CASE StartKick(r)
  BY <1>1, <1>3, <1>5, StartKeeps DEF StartKick, store, Program, Ended
<1>6. ASSUME NEW t \in Tokens, NEW kind \in {"auth", "logout", "change"},
             StartWithToken(r, kind, t)
      PROVE  LogoutInv'
  <2>1. "looking" \in Program(kind) \ {"caching", "storing", "done"}
    BY DEF Program, Ended
  <2>2. Start(r, kind, t, "looking") /\ t \in handed /\ UNCHANGED <<session, cached, plain, handed>>
    BY <1>6 DEF StartWithToken, store
  <2> QED
    BY <1>1, <1>3, <2>1, <2>2, StartKeeps
<1> QED
  BY <1>4, <1>5, <1>6 DEF Arrive

(* The steps that give a token out, or put one in the store. *)
LEMMA CompareKeeps ==
  ASSUME AuthInv, LogoutInv, NEW p \in Procs, ComparePlain(p) PROVE LogoutInv'
<1>1. PICK label \in {"done", "issuing"} : Goto(p, label)
  BY DEF ComparePlain
<1>2. /\ op'[p].kind = op[p].kind /\ op'[p].tok = op[p].tok /\ op'[p].pc = label
      /\ \A q \in Procs \ {p} : op'[q] = op[q]
  BY <1>1, GotoIs
<1>3. op[p].kind = "login"
  <2>1. op[p].pc = "comparing" /\ op[p].kind \in AllKinds
    BY DEF ComparePlain, At, AuthInv, OpStates
  <2> QED
    BY <2>1 DEF LogoutInv, InProgram, Program, Ended, AllKinds
<1>4. UNCHANGED <<session, cached, plain>>
  BY DEF ComparePlain, store
<1>5. handed' = handed
  <2>1. plain = op[p].tok => plain \in handed
    BY DEF ComparePlain, At, LogoutInv, PlainIsHanded, AuthInv, Sound, UsesToken
  <2> QED
    BY <2>1 DEF ComparePlain
<1> QED
  BY <1>2, <1>3, <1>4, <1>5, MoveKeeps DEF Program, Ended

LEMMA NewKinds ==
  ASSUME AuthInv, LogoutInv, NEW p \in Procs, op[p].pc \in {"issuing", "caching", "storing"}
  PROVE  op[p].kind \in {"login", "change"} /\ p # Subscriber
<1>1. op[p].kind \in AllKinds
  BY DEF AuthInv, OpStates
<1> QED
  BY <1>1 DEF LogoutInv, InProgram, Program, Ended, AllKinds

LEMMA IssueKeeps ==
  ASSUME AuthInv, LogoutInv, NEW p \in Procs, Issue(p) PROVE LogoutInv'
<1>0. op[p].kind \in {"login", "change"} /\ p # Subscriber
  BY NewKinds DEF Issue, At
<1>1. PICK t \in Tokens \ issued : session' = t /\ Start(p, op[p].kind, t, "caching")
  BY DEF Issue
<1>2. UNCHANGED <<cached, plain, handed>>
  BY DEF Issue
<1>3. /\ op'[p].kind = op[p].kind /\ op'[p].tok = t /\ op'[p].pc = "caching"
      /\ \A q \in Procs \ {p} : op'[q] = op[q]
  BY <1>1, StartIs
<1>4. /\ t \notin handed /\ t # NoToken
      /\ \A q \in Procs : op[q].pc \in {"caching", "storing"} => op[q].tok \in issued
  BY AuthAssumption DEF AuthInv, Sound, UsesToken
<1>5. InProgram'
  BY <1>0, <1>2, <1>3 DEF LogoutInv, InProgram, Program, Procs
<1>h. PlainIsHanded'
  BY <1>0, <1>2, <1>3 DEF LogoutInv, PlainIsHanded
<1>6. NewIsUnknown'
  BY <1>1, <1>2, <1>3, <1>4 DEF LogoutInv, NewIsUnknown, AuthInv
<1>7. LogoutTakes'
  <2> SUFFICES ASSUME NEW q \in Procs, NEW s \in Tokens \cup {NoToken} PROVE Heeds(q, s)'
    BY DEF LogoutTakes
  <2>1. PutBack(s) => PutBack(s)'
    BY <1>0, <1>3, PutBackStays
  <2>2. CASE q # p
    BY <1>1, <1>2, <1>3, <1>4, <2>1, <2>2, HeedsStays
  <2>3. CASE q = p
    BY <1>0, <1>3, <2>3 DEF Heeds
  <2> QED
    BY <2>2, <2>3
<1> QED
  BY <1>5, <1>h, <1>6, <1>7 DEF LogoutInv

LEMMA CacheNewKeeps ==
  ASSUME AuthInv, LogoutInv, NEW p \in Procs, CacheNew(p) PROVE LogoutInv'
<1>0. op[p].kind \in {"login", "change"} /\ op[p].pc = "caching"
  BY NewKinds DEF CacheNew, At
<1>1. /\ cached' = cached \cup {op[p].tok}
      /\ UNCHANGED <<session, plain, handed>>
      /\ Goto(p, "storing")
  BY DEF CacheNew, CacheToken
<1>2. /\ op'[p].kind = op[p].kind /\ op'[p].tok = op[p].tok /\ op'[p].pc = "storing"
      /\ \A q \in Procs \ {p} : op'[q] = op[q]
  BY <1>1, GotoIs
<1>3. InProgram'
  <2>1. \A q \in Procs : op[q].pc \in Program(op[q].kind)
    BY DEF LogoutInv, InProgram
  <2>2. op'[p].pc \in Program(op'[p].kind)
    BY <1>0, <1>2 DEF Program
  <2>3. op'[Subscriber].kind = "kick"
    BY <1>2 DEF LogoutInv, InProgram, Procs
  <2> QED
    BY <1>2, <2>1, <2>2, <2>3 DEF InProgram
<1>h. PlainIsHanded'
  BY <1>0, <1>1, <1>2 DEF LogoutInv, PlainIsHanded
<1>4. NewIsUnknown'
  BY <1>0, <1>1, <1>2 DEF LogoutInv, NewIsUnknown
<1>5. LogoutTakes'
  <2> SUFFICES ASSUME NEW q \in Procs, NEW s \in Tokens \cup {NoToken} PROVE Heeds(q, s)'
    BY DEF LogoutTakes
  <2>1. PutBack(s) => PutBack(s)'
    BY <1>0, <1>2, PutBackStays
  <2>a. op[p].tok \notin handed
    BY <1>0 DEF LogoutInv, NewIsUnknown
  <2>2. CASE q # p
    BY <1>1, <1>2, <2>a, <2>1, <2>2, HeedsStays
  <2>3. CASE q = p
    BY <1>0, <1>2, <2>3 DEF Heeds
  <2> QED
    BY <2>2, <2>3
<1> QED
  BY <1>3, <1>h, <1>4, <1>5 DEF LogoutInv

LEMMA StoreKeeps ==
  ASSUME AuthInv, LogoutInv, NEW p \in Procs, StorePlain(p) PROVE LogoutInv'
<1>0. op[p].kind \in {"login", "change"} /\ op[p].pc = "storing"
  BY NewKinds DEF StorePlain, At
<1>1. /\ plain' = op[p].tok /\ handed' = handed \cup {op[p].tok}
      /\ UNCHANGED <<session, cached>>
      /\ Goto(p, "done")
  BY DEF StorePlain
<1>2. /\ op'[p].kind = op[p].kind /\ op'[p].tok = op[p].tok /\ op'[p].pc = "done"
      /\ \A q \in Procs \ {p} : op'[q] = op[q]
  BY <1>1, GotoIs
<1>3. InProgram'
  <2>1. \A q \in Procs : op[q].pc \in Program(op[q].kind)
    BY DEF LogoutInv, InProgram
  <2>2. op'[p].pc \in Program(op'[p].kind)
    BY <1>2 DEF Program, Ended
  <2>3. op'[Subscriber].kind = "kick"
    BY <1>2 DEF LogoutInv, InProgram, Procs
  <2> QED
    BY <1>2, <2>1, <2>2, <2>3 DEF InProgram
<1>h. PlainIsHanded'
  BY <1>0, <1>1, <1>2 DEF LogoutInv, PlainIsHanded
<1>4. NewIsUnknown'
  BY <1>0, <1>1, <1>2 DEF LogoutInv, NewIsUnknown
<1>5. LogoutTakes'
  <2> SUFFICES ASSUME NEW q \in Procs, NEW s \in Tokens \cup {NoToken} PROVE Heeds(q, s)'
    BY DEF LogoutTakes
  <2>1. PutBack(s) => PutBack(s)'
    BY <1>0, <1>2, PutBackStays
  <2>2. CASE q # p
    BY <1>1, <1>2, <2>1, <2>2, HeedsStays
  <2>3. CASE q = p
    BY <1>0, <1>2, <2>3 DEF Heeds
  <2> QED
    BY <2>2, <2>3
<1> QED
  BY <1>3, <1>h, <1>4, <1>5 DEF LogoutInv

LEMMA BackfillKeeps ==
  ASSUME AuthInv, LogoutInv, NEW p \in Procs, Backfill(p) PROVE LogoutInv'
<1>0. op[p].kind \in {"auth", "change"} /\ op[p].pc = "backfilling"
  <2>1. op[p].pc = "backfilling" /\ op[p].kind \in AllKinds
    BY DEF Backfill, At, AuthInv, OpStates
  <2> QED
    BY <2>1 DEF LogoutInv, InProgram, Program, Ended, AllKinds
<1>1. /\ cached' = cached \cup {op[p].tok}
      /\ UNCHANGED <<session, plain, handed>>
      /\ Goto(p, Admitted(op[p].kind))
  BY DEF Backfill, CacheToken
<1>2. /\ op'[p].kind = op[p].kind /\ op'[p].tok = op[p].tok
      /\ op'[p].pc = Admitted(op[p].kind)
      /\ \A q \in Procs \ {p} : op'[q] = op[q]
  BY <1>1, GotoIs
<1>3. InProgram'
  <2>1. \A q \in Procs : op[q].pc \in Program(op[q].kind)
    BY DEF LogoutInv, InProgram
  <2>2. op'[p].pc \in Program(op'[p].kind)
    <3>1. CASE op[p].kind = "auth"
      BY <1>2, <3>1 DEF Program, Ended, Admitted
    <3>2. CASE op[p].kind = "change"
      BY <1>2, <3>2 DEF Program, Ended, Admitted
    <3> QED
      BY <1>0, <3>1, <3>2
  <2>3. op'[Subscriber].kind = "kick"
    BY <1>2 DEF LogoutInv, InProgram, Procs
  <2> QED
    BY <1>2, <2>1, <2>2, <2>3 DEF InProgram
<1>h. PlainIsHanded'
  BY <1>0, <1>1, <1>2 DEF LogoutInv, PlainIsHanded
<1>4. NewIsUnknown'
  BY <1>0, <1>1, <1>2 DEF LogoutInv, NewIsUnknown, Admitted
<1>5. LogoutTakes'
  <2> SUFFICES ASSUME NEW q \in Procs, NEW s \in Tokens \cup {NoToken} PROVE Heeds(q, s)'
    BY DEF LogoutTakes
  <2>1. PutBack(s) => PutBack(s)'
    BY <1>0, <1>2, PutBackStays
  <2>a. PutBack(op[p].tok)'
    BY <1>0, <1>2 DEF PutBack
  <2>2. CASE q # p
    BY <1>1, <1>2, <2>a, <2>1, <2>2, HeedsStays
  <2>3. CASE q = p
    BY <1>0, <1>2, <2>3 DEF Heeds
  <2> QED
    BY <2>2, <2>3
<1> QED
  BY <1>3, <1>h, <1>4, <1>5 DEF LogoutInv

(* A command that fails: a logout's ends the request, and every other      *)
(* request stays within its program.                                       *)
LEMMA FailKeeps ==
  ASSUME AuthInv, LogoutInv, NEW p \in Procs, Fail(p) PROVE LogoutInv'
<1> DEFINE label == AfterError(op[p].kind, op[p].pc)
<1>1. /\ op[p].kind \in AllKinds /\ op[p].pc \in Program(op[p].kind)
      /\ op[p].pc \notin Ended \cup {"idle"}
  BY DEF Fail, Idle, AuthInv, OpStates, LogoutInv, InProgram
<1>2. label \in Program(op[p].kind) /\ label \notin {"caching", "storing"}
  BY <1>1 DEF AfterError, Admitted, AfterDelete, AfterPlain, Program, Ended, AllKinds
<1>3. op[p].kind = "logout" => label \in {"finding", "failed"}
  BY <1>1 DEF AfterError, Program, Ended
<1>4. /\ op'[p].kind = op[p].kind /\ op'[p].tok = op[p].tok /\ op'[p].pc = label
      /\ \A q \in Procs \ {p} : op'[q] = op[q]
  BY GotoIs DEF Fail
<1>5. UNCHANGED <<session, cached, plain, handed>>
  BY DEF Fail, store
<1> QED
  BY <1>2, <1>3, <1>4, <1>5, MoveKeeps

LEMMA WorkKeeps ==
  ASSUME AuthInv, LogoutInv, NEW p \in Procs, Work(p) PROVE LogoutInv'
<1>0. /\ op[p].kind \in AllKinds /\ op[p].pc \in Program(op[p].kind)
      /\ p = Subscriber => op[p].kind = "kick"
  BY DEF AuthInv, OpStates, LogoutInv, InProgram
<1>t. op[p].kind = "logout" => op[p].tok \in handed /\ op[p].tok # NoToken
  BY LogoutToken
<1> USE DEF At, Program, Ended, AllKinds
(* A step towards a label that asks for nothing of a logout. *)
<1>m. ASSUME NEW label, Goto(p, label), label \in Program(op[p].kind) \ {"caching", "storing"},
             op[p].kind = "logout" => label \notin {"dropping", "unplain", "done"},
             UNCHANGED <<session, cached, plain, handed>>
      PROVE  LogoutInv'
  <2>1. /\ op'[p].kind = op[p].kind /\ op'[p].tok = op[p].tok /\ op'[p].pc = label
        /\ \A q \in Procs \ {p} : op'[q] = op[q]
    BY <1>m, GotoIs
  <2> QED
    BY <1>m, <2>1, MoveKeeps
<1>1. CASE CountOnline(p)
  BY <1>0, <1>1, <1>m DEF CountOnline, store
<1>2. CASE ReadSession(p)
  <2>1. op[p].kind = "login" /\ UNCHANGED <<session, cached, plain, handed>>
    BY <1>0, <1>2 DEF ReadSession, store
  <2>2. CASE Goto(p, "issuing")
    BY <2>1, <2>2, <1>m
  <2>3. CASE Start(p, op[p].kind, session, "comparing")
    BY <2>1, <2>3, <1>0, StartKeeps
  <2> QED
    BY <1>2, <2>2, <2>3 DEF ReadSession
<1>3. CASE ComparePlain(p) \/ Issue(p) \/ CacheNew(p) \/ StorePlain(p) \/ Backfill(p)
  BY <1>3, CompareKeeps, IssueKeeps, CacheNewKeeps, StoreKeeps, BackfillKeeps
<1>4. CASE LookupToken(p) \/ FindUser(p) \/ TimeLeft(p) \/ UpdatePassword(p)
  <2>1. UNCHANGED <<session, cached, plain, handed>>
    BY <1>4 DEF LookupToken, FindUser, TimeLeft, UpdatePassword, store
  <2>2. CASE LookupToken(p)
    BY <1>0, <2>1, <2>2, <1>m DEF LookupToken, Admitted
  <2>3. CASE FindUser(p)
    BY <1>0, <2>1, <2>3, <1>m DEF FindUser
  <2>4. CASE TimeLeft(p)
    BY <1>0, <2>1, <2>4, <1>m DEF TimeLeft, Admitted
  <2>5. CASE UpdatePassword(p)
    BY <1>0, <2>1, <2>5, <1>m DEF UpdatePassword
  <2> QED
    BY <1>4, <2>2, <2>3, <2>4, <2>5
<1>5. CASE ReadIndex(p)
  <2>1. op[p].kind = "kick" /\ UNCHANGED <<session, cached, plain, handed>>
    BY <1>0, <1>5 DEF ReadIndex, store
  <2>2. CASE Goto(p, "unplain")
    BY <2>1, <2>2, <1>m
  <2>3. CASE Start(p, op[p].kind, index, "dropping")
    BY <2>1, <2>3, <1>0, StartKeeps
  <2> QED
    BY <1>5, <2>2, <2>3 DEF ReadIndex
<1>6. CASE DeleteSession(p) \/ DropToken(p) \/ DropPlain(p)
  <2>1. PICK label \in Program(op[p].kind) \ {"caching", "storing"} :
           /\ Goto(p, label)
           /\ DeleteSession(p) => label = AfterDelete(op[p].kind)
           /\ DropToken(p) => label = "unplain"
           /\ DropPlain(p) => label = AfterPlain(op[p].kind)
    <3>1. CASE DeleteSession(p)
      BY <1>0, <3>1 DEF DeleteSession, DropToken, DropPlain, AfterDelete
    <3>2. CASE DropToken(p)
      BY <1>0, <3>2 DEF DeleteSession, DropToken, DropPlain
    <3>3. CASE DropPlain(p)
      BY <1>0, <3>3 DEF DeleteSession, DropToken, DropPlain, AfterPlain
    <3> QED
      BY <1>6, <3>1, <3>2, <3>3
  <2>2. /\ op'[p].kind = op[p].kind /\ op'[p].tok = op[p].tok /\ op'[p].pc = label
        /\ \A q \in Procs \ {p} : op'[q] = op[q]
    BY <2>1, GotoIs
  <2>3. /\ session' \in {session, NoToken} /\ cached' \subseteq cached
        /\ plain' \in {plain, NoToken} /\ handed' = handed
    BY <1>6 DEF DeleteSession, DropToken, DropPlain
  <2>h. Heeds(p, op[p].tok)
    BY DEF AuthInv, OpStates, LogoutInv, LogoutTakes
  <2>4. op[p].kind = "logout" =>
          /\ label \in {"dropping", "unplain", "done"} => session' # op[p].tok
          /\ label \in {"unplain", "done"} => op[p].tok \notin cached' \/ PutBack(op[p].tok)
    <3>1. CASE DeleteSession(p)
      BY <1>t, <2>1, <3>1 DEF DeleteSession, AfterDelete
    <3>2. CASE DropToken(p)
      BY <2>1, <3>2, <2>h DEF DropToken, Heeds
    <3>3. CASE DropPlain(p)
      BY <2>1, <3>3, <2>h DEF DropPlain, Heeds
    <3> QED
      BY <1>6, <3>1, <3>2, <3>3
  <2> QED
    BY <2>1, <2>2, <2>3, <2>4, MoveKeeps
<1>7. CASE PublishKickUser(p)
  BY <1>0, <1>7, <1>m DEF PublishKickUser, store
<1> QED
  BY <1>1, <1>2, <1>3, <1>4, <1>5, <1>6, <1>7 DEF Work

LEMMA StepLogout == AuthInv /\ LogoutInv /\ [Next]_vars => LogoutInv'
<1> SUFFICES ASSUME AuthInv, LogoutInv, [Next]_vars PROVE LogoutInv'
  OBVIOUS
<1>1. CASE Receive
  <2>1. op[Subscriber].kind = "kick" /\ Subscriber \in Procs
    BY DEF LogoutInv, InProgram, Procs
  <2> QED
    BY <1>1, <2>1, StartKeeps DEF Receive, store, Program, Ended
<1>2. CASE Lose \/ SessionExpires \/ KeyGoes \/ UNCHANGED vars
  <2>1. /\ UNCHANGED <<handed, op>> /\ session' \in {session, NoToken}
        /\ cached' \subseteq cached /\ plain' \in {plain, NoToken}
    BY <1>2 DEF Lose, SessionExpires, KeyGoes, vars, store
  <2>2. \A t \in handed : t # NoToken
    BY AuthAssumption DEF AuthInv
  <2>3. InProgram' /\ PlainIsHanded' /\ NewIsUnknown'
    BY <2>1 DEF LogoutInv, InProgram, PlainIsHanded, NewIsUnknown
  <2>4. LogoutTakes'
    <3> SUFFICES ASSUME NEW q \in Procs, NEW t \in Tokens \cup {NoToken} PROVE Heeds(q, t)'
      BY DEF LogoutTakes
    <3>1. PutBack(t) => PutBack(t)'
      BY <2>1 DEF PutBack
    <3> QED
      BY <2>1, <2>2, <3>1, HeedsStays
  <2> QED
    BY <2>3, <2>4 DEF LogoutInv
<1> QED
  BY <1>1, <1>2, ArriveKeeps, WorkKeeps, FailKeeps DEF Next

(* When a logout has answered, its token is refused by cache and database  *)
(* alike, unless a handshake with that token or a change of password was   *)
(* made: for any number of requests, failures and evictions                *)
(* (auth_service.go:334-353).                                              *)
THEOREM LogoutIsHeeded == Spec => []LogoutEndsToken
<1>1. AuthInv /\ LogoutInv => LogoutEndsToken
  <2> SUFFICES ASSUME AuthInv, LogoutInv, NEW p \in Procs, op[p].kind = "logout", At(p, "done"),
                      Accepted(op[p].tok)
               PROVE  PutBack(op[p].tok)
    BY DEF LogoutEndsToken, PutBack
  <2>1. Heeds(p, op[p].tok)
    BY DEF AuthInv, OpStates, LogoutInv, LogoutTakes
  <2> QED
    BY <2>1 DEF Heeds, At, Accepted
<1> QED
  BY <1>1, InitLogout, StepLogout, AuthIsSound, PTL DEF Spec
=============================================================================
