---------------------------- MODULE ListingProofs ----------------------------
(* What is proved of DeviceListing for any set of devices, page size and   *)
(* number of changes.                                                      *)
EXTENDS DeviceListing, FiniteSetTheorems, TLAPS

Stages == {"asking", "counting", "selecting", "marking", "done", "failed"}

-----------------------------------------------------------------------------
(* One answer.                                                             *)

ListingTyped ==
  /\ second \in Nat \ {0} /\ number \in Nat \ {0} /\ size \in Nat /\ total \in Nat
  /\ lastSeen \in [Pairs -> Nat]
  /\ \A d \in Pairs : lastSeen[d] <= second
  /\ filter.disabled \in Choices /\ filter.online \in Choices
  /\ stage \in Stages
  /\ page \subseteq Pairs /\ listed \subseteq Pairs
  /\ lost \in BOOLEAN

(* The hub as it was read is right about what has not changed since, ...   *)
PairsAreRight ==
  (stage # "asking" \/ number > 1) /\ filter.online # "any" =>
    \A d \in Pairs \ touched : d \in pairs <=> d \in inHub

(* ... and so is the page, ... *)
PageIsRight ==
  \A d \in page \ touched : d \in HasRow /\ DisabledClause(d) /\ OnlineClause(d)

(* ... and its marks. *)
MarksAreRight == Answered => \A d \in page \ touched : d \in marked <=> d \in inHub

AnswerInv == ListingTyped /\ PairsAreRight /\ PageIsRight /\ MarksAreRight

LEMMA PageSizeIs == ListingTyped => PageSize \in Nat \ {0}
BY DEF ListingTyped, PageSize

LEMMA MatchingIs ==
  ASSUME ListingTyped
  PROVE  /\ Matching \subseteq Pairs /\ IsFiniteSet(Matching) /\ Cardinality(Matching) \in Nat
         /\ \A d \in Matching : lastSeen[d] > 0 /\ DisabledClause(d) /\ OnlineClause(d)
<1>1. Matching \subseteq Pairs
  BY DEF Matching, HasRow
<1>2. IsFiniteSet(Matching)
  BY <1>1, ListingAssumption, FS_Subset
<1> QED
  BY <1>1, <1>2, FS_CardinalityType DEF Matching, HasRow

LEMMA InitAnswer == ListingInit => AnswerInv
<1> SUFFICES ASSUME ListingInit PROVE AnswerInv
  OBVIOUS
<1>1. ListingTyped
  <2>1. second \in Nat \ {0} /\ size \in Nat
    BY ListingAssumption DEF ListingInit
  <2>2. lastSeen \in [Pairs -> Nat] /\ \A d \in Pairs : lastSeen[d] <= second
    BY <2>1 DEF ListingInit
  <2>3. filter.disabled \in Choices /\ filter.online \in Choices
    BY DEF ListingInit
  <2>4. number \in Nat \ {0} /\ total \in Nat
    BY DEF ListingInit
  <2>5. stage \in Stages
    BY DEF ListingInit, Stages
  <2>6. page \subseteq Pairs /\ listed \subseteq Pairs
    BY DEF ListingInit
  <2>7. lost \in BOOLEAN
    BY DEF ListingInit
  <2> QED
    BY <2>1, <2>2, <2>3, <2>4, <2>5, <2>6, <2>7 DEF ListingTyped
<1> QED
  BY <1>1 DEF ListingInit, AnswerInv, PairsAreRight, PageIsRight, MarksAreRight, Answered

(* What changes meanwhile concerns nothing but the device that is touched. *)
LEMMA ChangeKeepsAnswer ==
  ASSUME AnswerInv, NEW d \in Pairs, Seen(d) \/ Switch(d) \/ Delete(d) \/ ComeOrGo(d)
  PROVE  AnswerInv'
<1> USE DEF AnswerInv
<1>0. /\ touched' = touched \cup {d}
      /\ UNCHANGED <<second, filter, size, number, stage, requestVars, shown, listed, lost>>
  BY DEF Seen, Switch, Delete, ComeOrGo, Change
<1>1. /\ lastSeen' \in [Pairs -> Nat]
      /\ \A e \in Pairs : lastSeen'[e] <= second
      /\ \A e \in Pairs \ {d} : lastSeen'[e] = lastSeen[e]
  BY DEF Seen, Switch, Delete, ComeOrGo, ListingTyped
<1>2. \A e \in Pairs \ {d} : (e \in banned' <=> e \in banned) /\ (e \in inHub' <=> e \in inHub)
  BY DEF Seen, Switch, Delete, ComeOrGo
<1>3. ListingTyped'
  BY <1>0, <1>1 DEF ListingTyped, requestVars
<1>4. PairsAreRight'
  <2> SUFFICES ASSUME stage # "asking" \/ number > 1, filter.online # "any",
                      NEW e \in Pairs, e \notin touched, e # d
               PROVE  e \in pairs <=> e \in inHub'
    BY <1>0 DEF PairsAreRight, requestVars
  <2>1. e \in pairs <=> e \in inHub
    BY DEF PairsAreRight
  <2> QED
    BY <1>2, <2>1
<1>5. PageIsRight'
  <2> SUFFICES ASSUME NEW e \in page, e \notin touched, e # d
               PROVE  e \in HasRow' /\ DisabledClause(e)' /\ OnlineClause(e)'
    BY <1>0 DEF PageIsRight, requestVars
  <2>1. e \in Pairs /\ e \in HasRow /\ DisabledClause(e) /\ OnlineClause(e)
    BY DEF ListingTyped, PageIsRight
  <2>2. e \in HasRow'
    BY <1>1, <2>1 DEF HasRow
  <2>3. DisabledClause(e)'
    <3>1. filter' = filter /\ (e \in banned' <=> e \in banned)
      BY <1>0, <1>2, <2>1
    <3> QED
      BY <2>1, <3>1 DEF DisabledClause
  <2>4. OnlineClause(e)'
    BY <1>0, <2>1 DEF OnlineClause, requestVars
  <2> QED
    BY <2>2, <2>3, <2>4
<1>6. MarksAreRight'
  <2> SUFFICES ASSUME Answered, NEW e \in page, e \notin touched, e # d
               PROVE  e \in marked <=> e \in inHub'
    BY <1>0 DEF MarksAreRight, Answered, requestVars
  <2>1. e \in Pairs /\ (e \in marked <=> e \in inHub)
    BY DEF ListingTyped, MarksAreRight
  <2> QED
    BY <1>2, <2>1
<1> QED
  BY <1>3, <1>4, <1>5, <1>6

(* A step that leaves the answer alone. *)
LEMMA SameAnswer ==
  ASSUME AnswerInv, ListingTyped', UNCHANGED <<lastSeen, banned, inHub, filter, pairs, page,
                                               marked, touched>>,
         number' = number, stage' = stage \/ (stage # "asking" /\ ~Answered')
  PROVE  AnswerInv'
<1>1. PairsAreRight'
  BY DEF AnswerInv, PairsAreRight
<1>2. PageIsRight'
  BY DEF AnswerInv, PageIsRight, HasRow, DisabledClause, OnlineClause
<1>3. MarksAreRight'
  BY DEF AnswerInv, MarksAreRight, Answered
<1> QED
  BY <1>1, <1>2, <1>3 DEF AnswerInv

LEMMA SelectKeepsAnswer == ASSUME AnswerInv, Select PROVE AnswerInv'
<1> USE DEF AnswerInv
<1>0. /\ stage = "selecting" /\ stage' = "marking" /\ listed' = Matching
      /\ UNCHANGED <<second, lastSeen, banned, inHub, filter, size, number, pairs, total,
                     marked, changes, touched>>
  BY DEF Select, worldVars
<1>1. page' \subseteq Matching
  BY DEF Select, PageOf, Orders
<1>2. Matching \subseteq Pairs /\ lost' \in BOOLEAN
  BY MatchingIs DEF Select, ListingTyped
<1>3. ListingTyped'
  BY <1>0, <1>1, <1>2 DEF ListingTyped, Stages
<1>4. PairsAreRight'
  BY <1>0 DEF PairsAreRight
<1>5. PageIsRight'
  BY <1>0, <1>1 DEF PageIsRight, Matching, HasRow, DisabledClause, OnlineClause
<1>6. MarksAreRight'
  BY <1>0 DEF MarksAreRight, Answered
<1> QED
  BY <1>3, <1>4, <1>5, <1>6

LEMMA StepAnswer == AnswerInv /\ [ListingNext]_listingVars => AnswerInv'
<1> SUFFICES ASSUME AnswerInv, [ListingNext]_listingVars PROVE AnswerInv'
  OBVIOUS
<1> USE DEF AnswerInv
<1>1. CASE TakePairs
  <2>1. ListingTyped'
    BY <1>1 DEF TakePairs, ListingTyped, Stages, worldVars, walkVars
  <2> QED
    BY <1>1, <2>1 DEF TakePairs, worldVars, PairsAreRight, PageIsRight, MarksAreRight, Answered
<1>2. CASE Count
  <2>1. ListingTyped'
    BY <1>2, MatchingIs DEF Count, ListingTyped, Stages, worldVars, walkVars
  <2> QED
    BY <1>2, <2>1, SameAnswer DEF Count, worldVars, Answered
<1>3. CASE Select
  BY <1>3, SelectKeepsAnswer
<1>4. CASE Mark
  <2>0. /\ stage = "marking" /\ marked' = page \cap inHub
        /\ stage' \in {"done", "asking"} /\ number' \in {number, number + 1}
        /\ UNCHANGED <<worldVars, filter, size, pairs, total, page, changes, touched, walkVars>>
    BY <1>4 DEF Mark
  <2>1. ListingTyped'
    BY <2>0 DEF ListingTyped, Stages, worldVars, walkVars
  <2>2. PairsAreRight'
    BY <2>0 DEF PairsAreRight, worldVars
  <2>3. PageIsRight'
    BY <2>0 DEF PageIsRight, HasRow, DisabledClause, OnlineClause, worldVars
  <2>4. MarksAreRight'
    BY <2>0 DEF MarksAreRight, worldVars
  <2> QED
    BY <2>1, <2>2, <2>3, <2>4
<1>5. CASE Fail
  <2>1. ListingTyped'
    BY <1>5 DEF Fail, ListingTyped, Stages, worldVars, walkVars, requestVars
  <2> QED
    BY <1>5, <2>1, SameAnswer DEF Fail, worldVars, requestVars, Answered
<1>6. CASE PassSecond
  <2>1. ListingTyped'
    BY <1>6 DEF PassSecond, ListingTyped, walkVars, requestVars
  <2> QED
    BY <1>6, <2>1, SameAnswer DEF PassSecond, requestVars
<1>7. ASSUME NEW d \in Pairs, Seen(d) \/ Switch(d) \/ Delete(d) \/ ComeOrGo(d) PROVE AnswerInv'
  BY <1>7, ChangeKeepsAnswer
<1>8. CASE UNCHANGED listingVars
  <2>1. ListingTyped'
    BY <1>8 DEF listingVars, ListingTyped, worldVars, walkVars, requestVars
  <2> QED
    BY <1>8, <2>1, SameAnswer DEF listingVars, worldVars, requestVars
<1> QED
  BY <1>1, <1>2, <1>3, <1>4, <1>5, <1>6, <1>7, <1>8 DEF ListingNext

(* What a page says of a device that did not change while it was made is   *)
(* true, however many others did, and although the hub is read twice and   *)
(* the table twice in between (admin_http.go:150-170,                      *)
(* store_device.go:160-191).                                               *)
THEOREM AnswersMatchFilter == ListingSpec => []AnswerMatchesFilter
<1>1. AnswerInv => AnswerMatchesFilter
  <2> SUFFICES ASSUME AnswerInv, Answered, NEW d \in page \ touched
               PROVE  /\ d \in HasRow
                      /\ filter.disabled # "any" => (d \in banned) = (filter.disabled = "yes")
                      /\ filter.online # "any" =>
                           \/ (d \in inHub) = (filter.online = "yes")
                           \/ filter.online = "yes" /\ pairs = {}
                      /\ (d \in marked) = (d \in inHub)
    BY DEF AnswerMatchesFilter
  <2>1. d \in Pairs /\ d \in HasRow /\ DisabledClause(d) /\ OnlineClause(d)
    BY DEF AnswerInv, ListingTyped, PageIsRight
  <2>2. filter.online # "any" => (d \in pairs <=> d \in inHub)
    BY <2>1 DEF AnswerInv, PairsAreRight, Answered
  <2>3. d \in marked <=> d \in inHub
    BY DEF AnswerInv, MarksAreRight
  <2>4. filter.online # "any" => \/ (d \in inHub) = (filter.online = "yes")
                                 \/ filter.online = "yes" /\ pairs = {}
    BY <2>1, <2>2 DEF OnlineClause, AnswerInv, ListingTyped, Choices
  <2> QED
    BY <2>1, <2>3, <2>4 DEF DisabledClause
<1> QED
  BY <1>1, InitAnswer, StepAnswer, PTL DEF ListingSpec

-----------------------------------------------------------------------------
(* The walk through the pages.                                             *)

(* How many pages have been selected. *)
Selected == IF stage \in {"marking", "done"} THEN number ELSE number - 1

(* What has come before d in the list comes before it in the next, too,    *)
(* wherever it goes: a device that is seen now was seen after d.           *)
Ahead(e, d) == lastSeen[d] < second /\ (lastSeen[e] = 0 \/ lastSeen[e] > lastSeen[d])

(* A device that was not shown yet has as many ahead of it as there was    *)
(* place on the pages so far.                                              *)
WalkInv ==
  /\ steady \subseteq listed
  /\ stage = "done" => number * PageSize >= total
  /\ ~lost => \A d \in steady \ shown :
                \E A \in SUBSET (listed \ {d}) :
                  Cardinality(A) >= Selected * PageSize /\ \A e \in A : Ahead(e, d)

LEMMA AheadStays ==
  ASSUME ListingTyped, ListingTyped', second' >= second, NEW d \in Pairs, NEW e \in Pairs,
         lastSeen'[d] \in {lastSeen[d], 0}, lastSeen'[e] \in {lastSeen[e], 0, second},
         Ahead(e, d)
  PROVE  Ahead(e, d)'
BY DEF Ahead, ListingTyped

(* A step that adds nothing to the pages, nor to what they must show. *)
LEMMA SameWalk ==
  ASSUME ListingTyped, ListingTyped', WalkInv, second' >= second,
         \A d \in Pairs : lastSeen'[d] \in {lastSeen[d], 0, second},
         steady' \subseteq steady, \A d \in steady' : lastSeen'[d] \in {lastSeen[d], 0},
         UNCHANGED <<size, shown, listed, lost>>, Selected' = Selected,
         stage' = "done" => number' * PageSize' >= total'
  PROVE  WalkInv'
<1>1. PageSize' = PageSize
  BY DEF PageSize
<1>2. steady' \subseteq listed /\ listed \subseteq Pairs
  BY DEF WalkInv, ListingTyped
<1>3. ASSUME ~lost, NEW d \in steady' \ shown
      PROVE  \E A \in SUBSET (listed \ {d}) :
               Cardinality(A) >= Selected * PageSize /\ \A e \in A : Ahead(e, d)'
  <2>1. PICK A \in SUBSET (listed \ {d}) :
               Cardinality(A) >= Selected * PageSize /\ \A e \in A : Ahead(e, d)
    BY <1>3 DEF WalkInv
  <2>2. d \in Pairs /\ A \subseteq Pairs
    BY <1>2, <1>3
  <2>3. \A e \in A : Ahead(e, d)'
    BY <1>3, <2>1, <2>2, AheadStays
  <2> QED
    BY <2>1, <2>3
<1> QED
  BY <1>1, <1>2, <1>3 DEF WalkInv

(* An order of a finite set has each of its members at one place.          *)
LEMMA OrderIsWhole ==
  ASSUME ListingTyped, NEW S, IsFiniteSet(S), S \subseteq Pairs, NEW list \in Orders(S),
         NEW d \in S
  PROVE  \E p \in 1..Cardinality(S) : list[p] = d
<1>1. /\ list \in [1..Cardinality(S) -> S] /\ Cardinality(S) \in Nat
      /\ \A i, j \in 1..Cardinality(S) : i < j => list[i] # list[j]
  BY FS_CardinalityType DEF Orders
<1>2. list \in Injection(1..Cardinality(S), S)
  BY <1>1 DEF Injection, IsInjective
<1>3. Cardinality(1..Cardinality(S)) = Cardinality(S)
  BY <1>1, FS_Interval
<1>4. list \in Surjection(1..Cardinality(S), S)
  BY <1>2, <1>3, FS_Injection
<1> QED
  BY <1>4 DEF Surjection

LEMMA HeadHasSize ==
  ASSUME NEW S, NEW n \in Nat, NEW m \in 0..n, NEW list \in [1..n -> S],
         \A i, j \in 1..n : i < j => list[i] # list[j]
  PROVE  Cardinality({list[i] : i \in 1..m}) = m
<1> DEFINE T == {list[i] : i \in 1..m}
           f == [i \in 1..m |-> list[i]]
<1>1. f \in [1..m -> T] /\ \A x \in T : \E i \in 1..m : f[i] = x
  OBVIOUS
<1>2. f \in Surjection(1..m, T) /\ f \in Injection(1..m, T)
  BY <1>1 DEF Surjection, Injection, IsInjective
<1>3. IsFiniteSet(1..m) /\ Cardinality(1..m) = m
  BY FS_Interval
<1> QED
  BY <1>2, <1>3, FS_Surjection
LEMMA SelectKeepsWalk ==
  ASSUME ListingTyped, ListingTyped', WalkInv, Select PROVE WalkInv'
<1> DEFINE n == Cardinality(Matching)
           w == PageSize
<1>0. /\ stage' = "marking" /\ listed' = Matching
      /\ shown' = shown \cup page'
      /\ steady' \subseteq Untied(Matching)
      /\ number > 1 => steady' \subseteq steady
      /\ UNCHANGED <<second, lastSeen, banned, inHub, filter, size, number, pairs, total>>
      /\ stage = "selecting"
  BY DEF Select, worldVars
<1>l. ~lost' => ~lost /\ listed \subseteq Matching
  BY DEF Select
<1>1. PICK list \in Orders(Matching) : page' = PageOf(list)
  BY DEF Select
<1>2. /\ Matching \subseteq Pairs /\ IsFiniteSet(Matching) /\ n \in Nat
      /\ \A d \in Matching : lastSeen[d] > 0
      /\ number \in Nat \ {0} /\ w \in Nat \ {0} /\ PageSize' = w
  BY <1>0, MatchingIs, PageSizeIs DEF ListingTyped, PageSize
<1>3. /\ list \in [1..n -> Matching]
      /\ \A i, j \in 1..n : i < j => list[i] # list[j] /\ lastSeen[list[i]] >= lastSeen[list[j]]
  BY <1>1, <1>2 DEF Orders
<1>4. Untied(Matching) \subseteq Matching
  BY DEF Untied
<1>5. (number - 1) * w \in Nat /\ number * w = (number - 1) * w + w /\ number * w \in Nat
  BY <1>2
<1>6. page' = {list[i] : i \in {j \in 1..n : (number - 1) * w < j /\ j <= number * w}}
  <2>1. Offset = (number - 1) * w /\ DOMAIN list = 1..n
    BY <1>3 DEF Offset
  <2> QED
    BY <1>1, <1>5, <2>1 DEF PageOf
<1> HIDE DEF n, w
<1>7. ASSUME ~lost', NEW d \in steady' \ shown'
      PROVE  \E A \in SUBSET (Matching \ {d}) :
               Cardinality(A) >= number * w /\ \A e \in A : Ahead(e, d)
  <2>1. d \in Untied(Matching) /\ d \in Matching /\ d \in Pairs
    BY <1>0, <1>2, <1>4, <1>7
  <2>2. PICK p \in 1..n : list[p] = d
    BY <1>1, <1>2, <2>1, OrderIsWhole DEF n
  <2>3. (number - 1) * w < p
    <3>1. CASE number = 1
      BY <1>2, <2>2, <3>1
    <3>2. CASE number # 1
      <4>1. /\ ~lost /\ listed \subseteq Matching /\ d \in steady \ shown
            /\ Selected = number - 1
        BY <1>0, <1>l, <1>2, <1>7, <3>2 DEF Selected
      <4>2. PICK A \in SUBSET (listed \ {d}) :
              Cardinality(A) >= (number - 1) * w /\ \A e \in A : Ahead(e, d)
        BY <4>1 DEF WalkInv, w
      <4>3. ASSUME NEW e \in A PROVE \E i \in 1..(p - 1) : list[i] = e
        <5>1. e \in Matching /\ e # d /\ lastSeen[e] > lastSeen[d]
          BY <1>2, <2>1, <4>1, <4>2 DEF Ahead, ListingTyped
        <5>2. PICK q \in 1..n : list[q] = e
          BY <1>1, <1>2, <5>1, OrderIsWhole DEF n
        <5>3. ~(p < q) /\ p # q
          BY <1>2, <1>3, <2>1, <2>2, <5>1, <5>2 DEF ListingTyped
        <5> QED
          BY <1>2, <2>2, <5>2, <5>3
      <4>4. /\ p - 1 \in 0..n
            /\ Cardinality({list[i] : i \in 1..(p - 1)}) = p - 1
            /\ IsFiniteSet({list[i] : i \in 1..(p - 1)})
        <5>1. p - 1 \in 0..n
          BY <1>2, <2>2
        <5>2. {list[i] : i \in 1..(p - 1)} \subseteq Matching
          BY <1>2, <1>3, <5>1
        <5>3. Cardinality({list[i] : i \in 1..(p - 1)}) = p - 1
          BY <1>2, <1>3, <5>1, HeadHasSize
        <5> QED
          BY <1>2, <5>1, <5>2, <5>3, FS_Subset
      <4>5. Cardinality(A) <= p - 1 /\ Cardinality(A) \in Nat
        BY <4>3, <4>4, FS_Subset, FS_CardinalityType
      <4> QED
        BY <1>2, <1>5, <2>2, <4>2, <4>5
    <3> QED
      BY <3>1, <3>2
  <2>4. number * w < p
    BY <1>0, <1>2, <1>5, <1>6, <1>7, <2>2, <2>3
  <2>m. PICK m \in 0..n : m = number * w /\ m < p
    BY <1>2, <1>5, <2>2, <2>4
  <2> DEFINE A == {list[i] : i \in 1..m}
  <2>5. Cardinality(A) = m
    <3>1. \A i, j \in 1..n : i < j => list[i] # list[j]
      BY <1>3
    <3>2. list \in [1..n -> Matching] /\ n \in Nat /\ m \in 0..n
      BY <1>2, <1>3
    <3> QED
      BY <3>1, <3>2, HeadHasSize
  <2>6. ASSUME NEW i \in 1..m
        PROVE  list[i] \in Matching \ {d} /\ Ahead(list[i], d)
    <3>1. i \in 1..n /\ i < p
      BY <1>2, <2>2, <2>m
    <3>2. list[i] \in Matching /\ list[i] # d /\ lastSeen[list[i]] >= lastSeen[d]
      BY <1>3, <2>2, <3>1
    <3>3. lastSeen[list[i]] # lastSeen[d]
      BY <2>1, <3>2 DEF Untied
    <3>4. /\ lastSeen[list[i]] \in Nat /\ lastSeen[d] \in Nat /\ second \in Nat
          /\ lastSeen[list[i]] <= second
      BY <1>2, <2>1, <3>2 DEF ListingTyped
    <3> QED
      BY <3>2, <3>3, <3>4 DEF Ahead
  <2>7. A \in SUBSET (Matching \ {d}) /\ \A e \in A : Ahead(e, d)
    BY <2>6
  <2>8. Cardinality(A) >= number * w
    BY <1>5, <2>5, <2>m
  <2> QED
    BY <2>7, <2>8
<1>8. steady' \subseteq listed'
  BY <1>0, <1>4
<1>9. Selected' = number
  BY <1>0 DEF Selected
<1>10. \A e, d : Ahead(e, d)' <=> Ahead(e, d)
  BY <1>0 DEF Ahead
<1> QED
  BY <1>0, <1>2, <1>7, <1>8, <1>9, <1>10 DEF WalkInv, w

LEMMA StepWalk ==
  ASSUME ListingTyped, ListingTyped', WalkInv, [ListingNext]_listingVars PROVE WalkInv'
<1>0. second \in Nat /\ \A d \in Pairs : lastSeen[d] \in Nat
  BY DEF ListingTyped
<1>1. CASE Select
  BY <1>1, SelectKeepsWalk
<1>2. CASE TakePairs \/ Count \/ Fail
  <2>1. /\ UNCHANGED <<worldVars, size, number, walkVars>>
        /\ stage \in {"asking", "counting", "selecting"}
        /\ stage' \in {"counting", "selecting", "failed"}
    BY <1>2 DEF TakePairs, Count, Fail
  <2>2. Selected' = Selected
    BY <2>1 DEF Selected
  <2> QED
    BY <1>0, <2>1, <2>2, SameWalk DEF worldVars, walkVars, WalkInv
<1>3. CASE Mark
  <2>1. /\ UNCHANGED <<worldVars, size, total, walkVars>> /\ stage = "marking"
        /\ \/ stage' = "done" /\ number' = number /\ number * PageSize >= total
           \/ stage' = "asking" /\ number' = number + 1
    BY <1>3 DEF Mark
  <2>2. Selected' = Selected
    <3>1. Selected = number /\ number \in Nat
      BY <2>1 DEF Selected, ListingTyped
    <3>2. CASE stage' = "done" /\ number' = number
      BY <3>1, <3>2 DEF Selected
    <3>3. CASE stage' = "asking" /\ number' = number + 1
      BY <3>1, <3>3 DEF Selected
    <3> QED
      BY <2>1, <3>2, <3>3
  <2>3. PageSize' = PageSize
    BY <2>1 DEF PageSize
  <2> QED
    BY <1>0, <2>1, <2>2, <2>3, SameWalk DEF worldVars, walkVars, WalkInv
<1>4. CASE PassSecond
  <2>1. /\ second' = second + 1
        /\ UNCHANGED <<lastSeen, size, number, stage, walkVars>> /\ stage # "done"
    BY <1>4 DEF PassSecond
  <2>2. Selected' = Selected /\ second' >= second
    BY <2>1 DEF Selected, ListingTyped
  <2> QED
    BY <1>0, <2>1, <2>2, SameWalk DEF walkVars, WalkInv
<1>5. ASSUME NEW d \in Pairs, Seen(d) \/ Switch(d) \/ Delete(d) \/ ComeOrGo(d) PROVE WalkInv'
  <2>1. /\ UNCHANGED <<second, size, number, stage, shown, listed, lost>> /\ stage # "done"
        /\ steady' \subseteq steady
    BY <1>5 DEF Seen, Switch, Delete, ComeOrGo, Change
  <2>2. \A e \in Pairs : \/ lastSeen'[e] \in {lastSeen[e], 0}
                         \/ lastSeen'[e] = second /\ e \notin steady'
    BY <1>0, <1>5 DEF Seen, Switch, Delete, ComeOrGo, ListingTyped
  <2>3. Selected' = Selected /\ steady' \subseteq Pairs
    BY <2>1 DEF Selected, WalkInv, ListingTyped
  <2> QED
    BY <1>0, <2>1, <2>2, <2>3, SameWalk DEF ListingTyped
<1>6. CASE UNCHANGED listingVars
  <2>1. UNCHANGED <<worldVars, size, number, stage, total, walkVars>>
    BY <1>6 DEF listingVars, requestVars
  <2>2. Selected' = Selected /\ PageSize' = PageSize
    BY <2>1 DEF Selected, PageSize
  <2> QED
    BY <1>0, <2>1, <2>2, SameWalk DEF worldVars, walkVars, WalkInv
<1> QED
  BY <1>1, <1>2, <1>3, <1>4, <1>5, <1>6 DEF ListingNext

(* Whoever turns the pages to the end sees every device that was listed    *)
(* all the time, whatever comes and goes before it and whatever order rows *)
(* of one second are in (admin_http.go:124-138, store_device.go:193-209).  *)
THEOREM WalksShowAll == ListingSpec => []WalkShowsAll
<1>1. ListingInit => WalkInv
  BY DEF ListingInit, WalkInv
<1>2. ListingTyped /\ WalkInv => WalkShowsAll
  <2> SUFFICES ASSUME ListingTyped, WalkInv, stage = "done", ~lost, Cardinality(listed) <= total,
                      NEW d \in steady, d \notin shown
               PROVE  FALSE
    BY DEF WalkShowsAll
  <2>1. number * PageSize >= total /\ Selected = number /\ d \in listed
    BY DEF WalkInv, Selected
  <2>2. PICK A \in SUBSET (listed \ {d}) : Cardinality(A) >= number * PageSize
    BY <2>1 DEF WalkInv
  <2>3. IsFiniteSet(listed) /\ Cardinality(listed) \in Nat
    BY ListingAssumption, FS_Subset, FS_CardinalityType DEF ListingTyped
  <2>4. /\ IsFiniteSet(listed \ {d})
        /\ Cardinality(listed \ {d}) = Cardinality(listed) - 1
    BY <2>1, <2>3, FS_RemoveElement
  <2>5. Cardinality(A) <= Cardinality(listed) - 1 /\ Cardinality(A) \in Nat
    BY <2>4, FS_Subset, FS_CardinalityType
  <2>6. number * PageSize \in Nat /\ total \in Nat
    BY PageSizeIs DEF ListingTyped
  <2> QED
    BY <2>1, <2>2, <2>3, <2>5, <2>6
<1>3. AnswerInv => ListingTyped
  BY DEF AnswerInv
<1>4. ListingSpec => []AnswerInv
  BY InitAnswer, StepAnswer, PTL DEF ListingSpec
<1> QED
  BY <1>1, <1>2, <1>3, <1>4, StepWalk, PTL DEF ListingSpec
=============================================================================
