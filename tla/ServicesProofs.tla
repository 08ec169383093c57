---------------------------- MODULE ServicesProofs ----------------------------
(* What is proved of the small services: of the limiter for any limit and  *)
(* window, of the gate for any message, and of the accounts for every set  *)
(* of names and requests and any number of starts.                         *)
EXTENDS LoginLimiter, MessageGate, Accounts, FiniteSetTheorems, SequenceTheorems,
        WellFoundedInduction, TLAPS

-----------------------------------------------------------------------------
(* The limiter.                                                            *)

LimiterTyped ==
  /\ rate \in Int /\ time \in Nat
  /\ tried \in Seq(Nat) /\ let \in Seq(BOOLEAN) /\ Len(let) = Len(tried)
  /\ IsFiniteSet(attempts) /\ attempts \subseteq DOMAIN tried

(* Only allowed attempts are remembered, and of those every one that is    *)
(* still within the window: time has not gone back.                        *)
Remembers ==
  /\ \A j \in DOMAIN tried : tried[j] <= time
  /\ rate > 0 => /\ \A j \in attempts : let[j]
                 /\ \A j \in DOMAIN tried : let[j] /\ tried[j] > time - Minute => j \in attempts

LimiterInv == LimiterTyped /\ Remembers /\ LimiterIsExact

LEMMA InitLimiter == ASSUME NEW r \in RateLimits, LimiterInitWith(r) PROVE LimiterInv
<1>1. LimiterTyped
  <2>1. IsFiniteSet({}) /\ <<>> \in Seq(Nat) /\ <<>> \in Seq(BOOLEAN)
    BY FS_EmptySet
  <2> QED
    BY <2>1, LimiterAssumption DEF LimiterInitWith, LimiterTyped
<1>2. Remembers /\ LimiterIsExact
  BY DEF LimiterInitWith, Remembers, LimiterIsExact
<1> QED
  BY <1>1, <1>2 DEF LimiterInv

LEMMA TickKeepsLimit == ASSUME LimiterInv, LimiterTick PROVE LimiterInv'
<1>0. time' = time + 1 /\ rate' = rate /\ attempts' = attempts /\ tried' = tried /\ let' = let
  BY DEF LimiterTick
<1>1. LimiterTyped' /\ LimiterIsExact'
  BY <1>0 DEF LimiterInv, LimiterTyped, LimiterIsExact, AllowedBefore
<1>2. Remembers'
  <2>1. Minute \in Nat /\ time \in Nat /\ \A j \in DOMAIN tried : tried[j] \in Nat
    BY LimiterAssumption DEF LimiterInv, LimiterTyped
  <2> QED
    BY <1>0, <2>1 DEF LimiterInv, Remembers
<1> QED
  BY <1>1, <1>2 DEF LimiterInv

(* What the limiter counts is what the definition counts. *)
LEMMA KeptIsAllowed ==
  ASSUME LimiterInv, rate > 0
  PROVE  /\ Kept = {j \in DOMAIN tried : let[j] /\ time - tried[j] < Minute}
         /\ IsFiniteSet(Kept) /\ Cardinality(Kept) \in Nat
<1>1. Minute \in Nat /\ time \in Nat /\ \A j \in DOMAIN tried : tried[j] \in Nat
  BY LimiterAssumption DEF LimiterInv, LimiterTyped
<1>2. \A j \in DOMAIN tried : tried[j] > time - Minute <=> time - tried[j] < Minute
  BY <1>1
<1>3. /\ attempts \subseteq DOMAIN tried /\ \A j \in attempts : let[j]
      /\ \A j \in DOMAIN tried : let[j] /\ tried[j] > time - Minute => j \in attempts
  BY DEF LimiterInv, LimiterTyped, Remembers
<1>4. IsFiniteSet(Kept) /\ Cardinality(Kept) \in Nat
  BY FS_Subset, FS_CardinalityType DEF Kept, LimiterInv, LimiterTyped
<1> QED
  BY <1>2, <1>3, <1>4 DEF Kept

LEMMA AllowKeeps == ASSUME LimiterInv, Allow PROVE LimiterInv'
<1> DEFINE n == Len(tried)
           good == rate <= 0 \/ Cardinality(Kept) < rate
<1>0. /\ rate' = rate /\ time' = time
      /\ tried' = Append(tried, time) /\ let' = Append(let, good)
      /\ attempts' = IF rate <= 0 THEN attempts
                     ELSE IF Cardinality(Kept) >= rate THEN Kept ELSE Kept \cup {This}
  BY DEF Allow, Remember
<1>1. /\ n \in Nat /\ rate \in Int /\ time \in Nat /\ good \in BOOLEAN
      /\ tried \in Seq(Nat) /\ let \in Seq(BOOLEAN) /\ Len(let) = n
      /\ DOMAIN tried = 1..n /\ DOMAIN let = 1..n
      /\ IsFiniteSet(attempts) /\ attempts \subseteq 1..n
  BY DEF LimiterInv, LimiterTyped
<1>2. Minute \in Nat
  BY LimiterAssumption
<1> HIDE DEF good
<1>3. /\ tried' \in Seq(Nat) /\ let' \in Seq(BOOLEAN) /\ Len(tried') = n + 1 /\ Len(let') = n + 1
      /\ DOMAIN tried' = 1..(n + 1)
      /\ \A j \in 1..n : tried'[j] = tried[j] /\ let'[j] = let[j]
      /\ tried'[n + 1] = time /\ let'[n + 1] = good
  BY <1>0, <1>1
<1>4. Kept \subseteq attempts /\ IsFiniteSet(Kept)
  BY <1>1, FS_Subset DEF Kept
<1>5. LimiterTyped'
  <2>1. IsFiniteSet(Kept \cup {This})
    BY <1>4, FS_AddElement
  <2>2. attempts' \in {attempts, Kept, Kept \cup {This}} /\ This = n + 1
    BY <1>0 DEF This
  <2>3. \A A \in {attempts, Kept, Kept \cup {n + 1}} : A \subseteq 1..(n + 1)
    BY <1>1, <1>4
  <2>4. attempts' \subseteq 1..(n + 1) /\ IsFiniteSet(attempts')
    BY <1>1, <1>4, <2>1, <2>2, <2>3
  <2> HIDE DEF n
  <2> QED
    BY <1>0, <1>1, <1>3, <2>4 DEF LimiterTyped
<1>6. rate > 0 => Cardinality(Kept) \in Nat
  BY KeptIsAllowed
<1>7. Remembers'
  <2>1. \A j \in DOMAIN tried' : tried'[j] <= time'
    BY <1>0, <1>1, <1>3 DEF LimiterInv, Remembers
  <2>2. ASSUME rate > 0
        PROVE  /\ \A j \in attempts' : let'[j]
               /\ \A j \in DOMAIN tried' :
                    let'[j] /\ tried'[j] > time' - Minute => j \in attempts'
    <3>1. attempts' = (IF good THEN Kept \cup {n + 1} ELSE Kept)
      BY <1>0, <1>1, <1>6, <2>2 DEF good, This
    <3>2. \A j \in attempts : let[j]
      BY <2>2 DEF LimiterInv, Remembers
    <3>3. \A j \in 1..n : let[j] /\ tried[j] > time - Minute => j \in Kept
      BY <1>1, <2>2 DEF LimiterInv, Remembers, Kept
    <3> HIDE DEF n
    <3>4. \A j \in attempts' : let'[j]
      BY <1>1, <1>3, <1>4, <3>1, <3>2
    <3>5. ASSUME NEW j \in 1..(n + 1), let'[j], tried'[j] > time' - Minute
          PROVE  j \in attempts'
      <4>1. CASE j = n + 1
        BY <1>3, <3>1, <3>5, <4>1
      <4>2. CASE j \in 1..n
        BY <1>0, <1>3, <3>1, <3>3, <3>5, <4>2
      <4> QED
        BY <1>1, <4>1, <4>2
    <3> QED
      BY <1>3, <3>4, <3>5
  <2> QED
    BY <1>0, <2>1, <2>2 DEF Remembers
<1>8. LimiterIsExact'
  <2> SUFFICES ASSUME NEW i \in 1..(n + 1), rate > 0
               PROVE  let'[i] <=> Cardinality(AllowedBefore(i))' < rate
    BY <1>0, <1>3 DEF LimiterIsExact
  <2>1. CASE i \in 1..n
    <3>1. AllowedBefore(i)' = AllowedBefore(i)
      BY <1>0, <1>1, <1>3, <2>1, SMTT(30) DEF AllowedBefore
    <3> QED
      BY <1>1, <1>3, <2>1, <3>1 DEF LimiterInv, LimiterIsExact
  <2>2. CASE i = n + 1
    <3>1. AllowedBefore(i)' = {j \in 1..n : let[j] /\ time - tried[j] < Minute}
      <4>1. 1..(i - 1) = 1..n
        BY <1>1, <2>2
      <4>2. \A j \in 1..n : /\ let'[j] <=> let[j]
                            /\ tried'[i] - tried'[j] = time - tried[j]
        BY <1>3, <2>2
      <4> HIDE DEF n
      <4> QED
        BY <4>1, <4>2 DEF AllowedBefore
    <3>2. AllowedBefore(i)' = Kept
      BY <1>1, <3>1, KeptIsAllowed
    <3> QED
      BY <1>1, <1>3, <1>6, <2>2, <3>2 DEF good
  <2> QED
    BY <1>1, <2>1, <2>2
<1> QED
  BY <1>5, <1>7, <1>8 DEF LimiterInv

(* The limiter allows exactly the attempts that keep any minute within the *)
(* limit (auth_http.go:27-47): forgetting old attempts, and not counting   *)
(* the refused ones, never changes an answer.                              *)
THEOREM LimitIsExact == LimiterSpec => []LimiterIsExact
<1>1. (\E r \in RateLimits : LimiterInitWith(r)) => LimiterInv
  BY InitLimiter
<1>2. LimiterInv /\ [LimiterNext]_limiterVars => LimiterInv'
  <2>1. ASSUME LimiterInv, UNCHANGED limiterVars PROVE LimiterInv'
    BY <2>1 DEF limiterVars, LimiterInv, LimiterTyped, Remembers, LimiterIsExact, AllowedBefore
  <2> QED
    BY <2>1, AllowKeeps, TickKeepsLimit DEF LimiterNext
<1>3. LimiterInv => LimiterIsExact
  BY DEF LimiterInv
<1> QED
  BY <1>1, <1>2, <1>3, PTL DEF LimiterSpec

-----------------------------------------------------------------------------
(* Filtering: what Only returns, for every sequence.  First induction,     *)
(* which rests here on the least of a set of numbers.                      *)

LEMMA LeastNumber ==
  ASSUME NEW T \in SUBSET Nat, T # {}
  PROVE  \E m \in T : \A k \in T : m <= k
<1>1. IsWellFoundedOn(OpToRel(<, Nat), Nat)
  BY NatLessThanWellFounded, Zenon
<1>2. PICK m \in T : \A k \in T : ~(<<k, m>> \in OpToRel(<, Nat))
  BY <1>1, WFMin, Zenon
<1>3. \A k \in T : ~(k < m)
  BY <1>2 DEF OpToRel
<1> QED
  BY <1>3

LEMMA AllNumbers ==
  ASSUME NEW T \in SUBSET Nat, 0 \in T, \A k \in T : k + 1 \in T
  PROVE  T = Nat
<1> SUFFICES ASSUME Nat \ T # {} PROVE FALSE
  OBVIOUS
<1>1. Nat \ T \in SUBSET Nat
  OBVIOUS
<1>2. PICK m \in Nat \ T : \A k \in Nat \ T : m <= k
  BY <1>1, LeastNumber
<1>3. m - 1 \in T
  BY <1>2
<1>4. (m - 1) + 1 = m
  BY <1>2
<1> QED
  BY <1>2, <1>3, <1>4

LEMMA AllSequences ==
  ASSUME NEW E, NEW T \in SUBSET Seq(E), <<>> \in T, \A s \in T, e \in E : Append(s, e) \in T
  PROVE  T = Seq(E)
<1> DEFINE N == {n \in Nat : \A s \in Seq(E) : Len(s) = n => s \in T}
<1>1. 0 \in N
  <2>1. \A s \in Seq(E) : Len(s) = 0 => s = <<>>
    BY EmptySeq
  <2> QED
    BY <2>1
<1>2. ASSUME NEW k \in N PROVE k + 1 \in N
  <2> SUFFICES ASSUME NEW s \in Seq(E), Len(s) = k + 1 PROVE s \in T
    OBVIOUS
  <2>1. s # <<>>
    BY <1>2
  <2>2. PICK t \in Seq(E), e \in E : s = Append(t, e)
    BY <2>1, SequenceEmptyOrAppend
  <2>3. Len(t) = k
    BY <1>2, <2>2
  <2>4. t \in T
    BY <1>2, <2>3
  <2> QED
    BY <2>2, <2>4
<1>3. N = Nat
  <2>1. N \in SUBSET Nat
    OBVIOUS
  <2> HIDE DEF N
  <2> QED
    BY <1>1, <1>2, <2>1, AllNumbers
<1>4. \A s \in Seq(E) : Len(s) \in N
  BY <1>3
<1>5. \A s \in Seq(E) : s \in T
  BY <1>4
<1> QED
  BY <1>5

-----------------------------------------------------------------------------
(* The recursion is well founded.                                          *)

OnlyStep(g, n, s, S) ==
  IF n = 0 THEN <<>>
  ELSE IF s[n] \in S THEN Append(g[n - 1], s[n]) ELSE g[n - 1]

(* g is the function that the recursion defines up to n. *)
OnlyUpTo(g, n, s, S) == g = [k \in 0..n |-> OnlyStep(g, k, s, S)]

LEMMA OnlyGoesOn ==
  ASSUME NEW s, NEW S, NEW n \in Nat, NEW g, OnlyUpTo(g, n, s, S)
  PROVE  \E h : OnlyUpTo(h, n + 1, s, S)
<1> DEFINE h == [k \in 0..(n + 1) |-> IF k = n + 1 THEN OnlyStep(g, n + 1, s, S) ELSE g[k]]
<1>1. \A k \in 0..(n + 1) : h[k] = OnlyStep(h, k, s, S)
  <2>1. ASSUME NEW k \in 0..(n + 1) PROVE OnlyStep(h, k, s, S) = OnlyStep(g, k, s, S)
    <3>1. k > 0 => h[k - 1] = g[k - 1]
      OBVIOUS
    <3> HIDE DEF h
    <3> QED
      BY <3>1 DEF OnlyStep
  <2>2. ASSUME NEW k \in 0..n PROVE g[k] = OnlyStep(g, k, s, S)
    BY DEF OnlyUpTo
  <2> QED
    BY <2>1, <2>2
<1>2. h = [k \in 0..(n + 1) |-> h[k]]
  OBVIOUS
<1> HIDE DEF h
<1>3. h = [k \in 0..(n + 1) |-> OnlyStep(h, k, s, S)]
  BY <1>1, <1>2
<1> QED
  BY <1>3 DEF OnlyUpTo

LEMMA OnlyExists ==
  ASSUME NEW s, NEW S
  PROVE  \A n \in Nat : \E g : OnlyUpTo(g, n, s, S)
<1> DEFINE T == {n \in Nat : \E g : OnlyUpTo(g, n, s, S)}
<1>1. 0 \in T
  <2> DEFINE g == [k \in 0..0 |-> <<>>]
  <2>1. OnlyUpTo(g, 0, s, S)
    BY DEF OnlyStep, OnlyUpTo
  <2> HIDE DEF g
  <2> QED
    BY <2>1
<1>2. \A n \in T : n + 1 \in T
  BY OnlyGoesOn
<1>3. T \in SUBSET Nat
  OBVIOUS
<1>4. T = Nat
  <2> HIDE DEF T
  <2> QED
    BY <1>1, <1>2, <1>3, AllNumbers
<1> QED
  BY <1>4

LEMMA OnlyIs ==
  ASSUME NEW s, NEW S, Len(s) \in Nat
  PROVE  \E g : OnlyUpTo(g, Len(s), s, S) /\ Only(s, S) = g[Len(s)]
<1> DEFINE up == CHOOSE g : g = [k \in 0..Len(s) |-> OnlyStep(g, k, s, S)]
<1>1. Only(s, S) = up[Len(s)]
  BY Zenon DEF Only, OnlyStep
<1>2. \E g : g = [k \in 0..Len(s) |-> OnlyStep(g, k, s, S)]
  BY OnlyExists DEF OnlyUpTo
<1>3. up = [k \in 0..Len(s) |-> OnlyStep(up, k, s, S)]
  BY <1>2, Zenon
<1> HIDE DEF up
<1> QED
  BY <1>1, <1>3 DEF OnlyUpTo

(* The recursion depends on no more of the sequence than it has passed.    *)
LEMMA OnlySame ==
  ASSUME NEW s, NEW t, NEW S, NEW n \in Nat, NEW m \in Nat, n <= m,
         NEW g, OnlyUpTo(g, n, s, S), NEW h, OnlyUpTo(h, m, t, S),
         \A k \in 1..n : s[k] = t[k]
  PROVE  g[n] = h[n]
<1> DEFINE T == {k \in Nat : k <= n => g[k] = h[k]}
<1>1. \A k \in 0..n : g[k] = OnlyStep(g, k, s, S) /\ h[k] = OnlyStep(h, k, t, S)
  <2>1. \A k \in 0..n : g[k] = OnlyStep(g, k, s, S)
    BY DEF OnlyUpTo
  <2>2. \A k \in 0..m : h[k] = OnlyStep(h, k, t, S)
    BY DEF OnlyUpTo
  <2> QED
    BY <2>1, <2>2
<1>2. 0 \in T
  BY <1>1 DEF OnlyStep
<1>3. ASSUME NEW k \in T PROVE k + 1 \in T
  <2> SUFFICES ASSUME k + 1 <= n PROVE g[k + 1] = h[k + 1]
    OBVIOUS
  <2>1. g[k] = h[k] /\ s[k + 1] = t[k + 1] /\ k + 1 \in 0..n /\ k + 1 # 0 /\ (k + 1) - 1 = k
    BY <1>3
  <2> QED
    BY <1>1, <2>1 DEF OnlyStep
<1>4. T = Nat
  <2>1. T \in SUBSET Nat
    OBVIOUS
  <2> HIDE DEF T
  <2> QED
    BY <1>2, <1>3, <2>1, AllNumbers
<1>5. n \in T
  BY <1>4
<1> QED
  BY <1>5

-----------------------------------------------------------------------------
(* What Only returns.                                                      *)

LEMMA OnlyEmpty == \A S : Only(<<>>, S) = <<>>
<1> SUFFICES ASSUME NEW S PROVE Only(<<>>, S) = <<>>
  OBVIOUS
<1>1. Len(<<>>) = 0
  OBVIOUS
<1>2. PICK g : OnlyUpTo(g, 0, <<>>, S) /\ Only(<<>>, S) = g[0]
  BY <1>1, OnlyIs
<1> QED
  BY <1>2 DEF OnlyUpTo, OnlyStep

LEMMA OnlyAppend ==
  ASSUME NEW E, NEW s \in Seq(E), NEW e \in E, NEW S
  PROVE  Only(Append(s, e), S) = IF e \in S THEN Append(Only(s, S), e) ELSE Only(s, S)
<1> DEFINE t == Append(s, e)
           n == Len(s)
<1>1. n \in Nat /\ Len(t) = n + 1 /\ t[n + 1] = e /\ \A k \in 1..n : s[k] = t[k]
  BY AppendProperties, LenProperties
<1> HIDE DEF t
<1>2. PICK g : OnlyUpTo(g, n, s, S) /\ Only(s, S) = g[n]
  BY <1>1, OnlyIs
<1>3. PICK h : OnlyUpTo(h, n + 1, t, S) /\ Only(t, S) = h[n + 1]
  BY <1>1, OnlyIs
<1>4. g[n] = h[n]
  BY <1>1, <1>2, <1>3, OnlySame
<1>5. h[n + 1] = OnlyStep(h, n + 1, t, S) /\ n + 1 # 0 /\ (n + 1) - 1 = n
  BY <1>1, <1>3 DEF OnlyUpTo
<1>6. Only(t, S) = IF e \in S THEN Append(Only(s, S), e) ELSE Only(s, S)
  BY <1>1, <1>2, <1>3, <1>4, <1>5 DEF OnlyStep
<1> QED
  BY <1>6 DEF t

LEMMA OnlyType ==
  ASSUME NEW E, NEW S
  PROVE  \A s \in Seq(E) : Only(s, S) \in Seq(E)
<1> DEFINE T == {s \in Seq(E) : Only(s, S) \in Seq(E)}
<1>1. <<>> \in T
  BY OnlyEmpty, EmptySeq
<1>2. ASSUME NEW s \in T, NEW e \in E PROVE Append(s, e) \in T
  <2>1. Append(s, e) \in Seq(E) /\ Append(Only(s, S), e) \in Seq(E)
    BY AppendProperties
  <2> QED
    BY <2>1, OnlyAppend
<1>3. T = Seq(E)
  <2>1. T \in SUBSET Seq(E)
    OBVIOUS
  <2> HIDE DEF T
  <2> QED
    BY <1>1, <1>2, <2>1, AllSequences
<1> QED
  BY <1>3

Members(s) == {s[i] : i \in DOMAIN s}

LEMMA MembersOfAppend ==
  ASSUME NEW E, NEW s \in Seq(E), NEW e \in E
  PROVE  Members(Append(s, e)) = Members(s) \cup {e}
<1> DEFINE t == Append(s, e)
           n == Len(s)
<1>1. /\ n \in Nat /\ DOMAIN t = 1..(n + 1) /\ DOMAIN s = 1..n
      /\ t[n + 1] = e /\ \A k \in 1..n : s[k] = t[k]
  BY AppendProperties, LenProperties
<1> HIDE DEF t, n
<1>2. \A x : x \in Members(t) <=> x \in Members(s) \cup {e}
  BY <1>1 DEF Members
<1> QED
  BY <1>2 DEF t

(* It holds what the sequence holds of the set ... *)
LEMMA OnlyMembers ==
  ASSUME NEW E, NEW S
  PROVE  \A s \in Seq(E) : Members(Only(s, S)) = Members(s) \cap S
<1> DEFINE T == {s \in Seq(E) : Members(Only(s, S)) = Members(s) \cap S}
<1>1. <<>> \in T
  BY OnlyEmpty, EmptySeq DEF Members
<1>2. ASSUME NEW s \in T, NEW e \in E PROVE Append(s, e) \in T
  <2>1. Append(s, e) \in Seq(E) /\ Members(Append(s, e)) = Members(s) \cup {e}
    BY AppendProperties, MembersOfAppend
  <2>2. Only(s, S) \in Seq(E)
    BY OnlyType
  <2>3. Members(Append(Only(s, S), e)) = Members(Only(s, S)) \cup {e}
    BY <2>2, MembersOfAppend
  <2>4. Only(Append(s, e), S) = IF e \in S THEN Append(Only(s, S), e) ELSE Only(s, S)
    BY OnlyAppend
  <2>5. Members(Only(s, S)) = Members(s) \cap S
    OBVIOUS
  <2>6. Members(Only(Append(s, e), S)) = Members(Append(s, e)) \cap S
    BY <2>1, <2>3, <2>4, <2>5
  <2> QED
    BY <2>1, <2>6
<1>3. T = Seq(E)
  <2>1. T \in SUBSET Seq(E)
    OBVIOUS
  <2> HIDE DEF T
  <2> QED
    BY <1>1, <1>2, <2>1, AllSequences
<1> QED
  BY <1>3

(* ... all of it when that is all there is, and nothing when it is none.   *)
LEMMA OnlyAll ==
  ASSUME NEW E, NEW S, E \subseteq S
  PROVE  \A s \in Seq(E) : Only(s, S) = s
<1> DEFINE T == {s \in Seq(E) : Only(s, S) = s}
<1>1. <<>> \in T
  BY OnlyEmpty, EmptySeq
<1>2. ASSUME NEW s \in T, NEW e \in E PROVE Append(s, e) \in T
  BY OnlyAppend, AppendProperties
<1>3. T = Seq(E)
  <2>1. T \in SUBSET Seq(E)
    OBVIOUS
  <2> HIDE DEF T
  <2> QED
    BY <1>1, <1>2, <2>1, AllSequences
<1> QED
  BY <1>3

LEMMA OnlyNone ==
  ASSUME NEW E, NEW S, E \cap S = {}
  PROVE  \A s \in Seq(E) : Only(s, S) = <<>>
<1> DEFINE T == {s \in Seq(E) : Only(s, S) = <<>>}
<1>1. <<>> \in T
  BY OnlyEmpty, EmptySeq
<1>2. ASSUME NEW s \in T, NEW e \in E PROVE Append(s, e) \in T
  <2>1. e \notin S
    OBVIOUS
  <2> QED
    BY <2>1, OnlyAppend, AppendProperties
<1>3. T = Seq(E)
  <2>1. T \in SUBSET Seq(E)
    OBVIOUS
  <2> HIDE DEF T
  <2> QED
    BY <1>1, <1>2, <2>1, AllSequences
<1> QED
  BY <1>3

(* It filters the parts of a sequence one by one, ...                      *)
LEMMA OnlyConcat ==
  ASSUME NEW E, NEW S, NEW s \in Seq(E)
  PROVE  \A t \in Seq(E) : Only(s \o t, S) = Only(s, S) \o Only(t, S)
<1> DEFINE T == {t \in Seq(E) : Only(s \o t, S) = Only(s, S) \o Only(t, S)}
<1>0. Only(s, S) \in Seq(E)
  BY OnlyType
<1>1. <<>> \in T
  BY <1>0, OnlyEmpty, ConcatEmptySeq, EmptySeq
<1>2. ASSUME NEW t \in T, NEW e \in E PROVE Append(t, e) \in T
  <2>1. Only(t, S) \in Seq(E) /\ s \o t \in Seq(E) /\ Append(t, e) \in Seq(E)
    BY OnlyType, ConcatProperties, AppendProperties
  <2>2. \A u, v \in Seq(E) : u \o Append(v, e) = Append(u \o v, e)
    OBVIOUS
  <2>3. s \o Append(t, e) = Append(s \o t, e)
    BY <2>2
  <2>4. Only(s, S) \o Append(Only(t, S), e) = Append(Only(s, S) \o Only(t, S), e)
    BY <1>0, <2>1, <2>2
  <2>5. Only(s \o t, S) = Only(s, S) \o Only(t, S)
    OBVIOUS
  <2> HIDE DEF T
  <2>6. Only(Append(s \o t, e), S)
        = IF e \in S THEN Append(Only(s \o t, S), e) ELSE Only(s \o t, S)
    BY <2>1, OnlyAppend
  <2>7. Only(Append(t, e), S) = IF e \in S THEN Append(Only(t, S), e) ELSE Only(t, S)
    BY <1>2, OnlyAppend DEF T
  <2>8. Only(s \o Append(t, e), S) = Only(s, S) \o Only(Append(t, e), S)
    BY <2>3, <2>4, <2>5, <2>6, <2>7
  <2> QED
    BY <2>1, <2>8 DEF T
<1>3. T = Seq(E)
  <2>1. T \in SUBSET Seq(E)
    OBVIOUS
  <2> HIDE DEF T
  <2> QED
    BY <1>1, <1>2, <2>1, AllSequences
<1> QED
  BY <1>3

(* ... and what was filtered can be filtered further.                      *)
LEMMA OnlyTwice ==
  ASSUME NEW E, NEW S, NEW R, R \subseteq S
  PROVE  \A s \in Seq(E) : Only(Only(s, S), R) = Only(s, R)
<1> DEFINE T == {s \in Seq(E) : Only(Only(s, S), R) = Only(s, R)}
<1>1. <<>> \in T
  BY OnlyEmpty, EmptySeq
<1>2. ASSUME NEW s \in T, NEW e \in E PROVE Append(s, e) \in T
  <2>1. Only(s, S) \in Seq(E) /\ Append(s, e) \in Seq(E)
    BY OnlyType, AppendProperties
  <2>2. Only(Append(s, e), S) = IF e \in S THEN Append(Only(s, S), e) ELSE Only(s, S)
    BY OnlyAppend
  <2>3. Only(Append(s, e), R) = IF e \in R THEN Append(Only(s, R), e) ELSE Only(s, R)
    BY OnlyAppend
  <2>4. Only(Append(Only(s, S), e), R)
        = IF e \in R THEN Append(Only(Only(s, S), R), e) ELSE Only(Only(s, S), R)
    BY <2>1, OnlyAppend
  <2> QED
    BY <2>1, <2>2, <2>3, <2>4
<1>3. T = Seq(E)
  <2>1. T \in SUBSET Seq(E)
    OBVIOUS
  <2> HIDE DEF T
  <2> QED
    BY <1>1, <1>2, <2>1, AllSequences
<1> QED
  BY <1>3

-----------------------------------------------------------------------------
(* The gate.                                                               *)

(* When encryption is required, whatever arrives, as a frame or as a push, *)
(* is relayed only if it is in an envelope (e2ee.go:99-114,                *)
(* main.go:1394-1398).                                                     *)
THEOREM NoPlaintextPasses == GateSpec => []RequireClosesEveryWay
<1>1. GateInit => RequireClosesEveryWay
  <2>1. ASSUME GateInit PROVE outcome.verdict = "pending"
    BY <2>1 DEF GateInit, Outcome
  <2> QED
    BY <2>1 DEF RequireClosesEveryWay, Relayed
<1>2. RequireClosesEveryWay /\ [GateNext]_gateVars => RequireClosesEveryWay'
  <2> SUFFICES ASSUME RequireClosesEveryWay, [GateNext]_gateVars, Relayed', arrival'.require
               PROVE  outcome'.payload.enc = "good"
    BY DEF RequireClosesEveryWay
  <2>1. CASE ReadFrame
    BY <2>1 DEF ReadFrame, CheckEncryption, Outcome, Relayed
  <2>2. CASE Push
    BY <2>2 DEF Push, Outcome, Relayed
  <2>3. CASE UNCHANGED gateVars
    BY <2>3 DEF gateVars, RequireClosesEveryWay, Relayed
  <2> QED
    BY <2>1, <2>2, <2>3 DEF GateNext
<1> QED
  BY <1>1, <1>2, PTL DEF GateSpec

(* What may come of a text on its way. *)
Texts == Seq(Pieces)

AnyPayload ==
  [enc : Envelopes, kind : {"", "sms", "image"}, text : Texts, preview : Texts, sender : {""}]

LEMMA TextsAreTexts == ASSUME NEW n \in Nat PROVE TextsUpTo(n) \subseteq Texts
<1> SUFFICES ASSUME NEW t \in TextsUpTo(n) PROVE t \in Texts
  OBVIOUS
<1>1. PICK k \in 0..n : t \in [1..k -> Pieces]
  BY DEF TextsUpTo
<1> QED
  BY <1>1, SeqDef DEF Texts

LEMMA ArrivalIs ==
  ASSUME arrival \in Arrivals
  PROVE  /\ arrival.payload \in AnyPayload
         /\ arrival.way = "push" => arrival.payload.enc = "none"
<1>1. /\ TextsUpTo(MaxText) \subseteq Texts /\ TextsUpTo(MaxPreview) \subseteq Texts
      /\ {<<>>} \subseteq Texts
  BY GateAssumption, TextsAreTexts, EmptySeq DEF Texts
<1>2. \A E \in SUBSET Envelopes, T, V \in SUBSET Texts : Payloads(E, T, V) \subseteq AnyPayload
  BY DEF Payloads, AnyPayload
<1>3. /\ {"none", "good"} \subseteq Envelopes /\ {"none"} \subseteq Envelopes
  BY DEF Envelopes
<1>4. CASE arrival \in [way : {"ws"}, type : {"notify_pc", "clipboard"}, require : BOOLEAN,
                        payload : Payloads({"none", "good"}, TextsUpTo(MaxText),
                                           TextsUpTo(MaxPreview))]
  BY <1>1, <1>2, <1>3, <1>4
<1>5. CASE arrival \in [way : {"ws"}, type : FrameTypes, require : BOOLEAN,
                        payload : Payloads(Envelopes, {<<>>}, {<<>>})]
  BY <1>1, <1>2, <1>5
<1>6. CASE arrival \in [way : {"push"}, type : {"", "notify_pc", "clipboard"}, require : BOOLEAN,
                        payload : Payloads({"none"}, TextsUpTo(MaxText), TextsUpTo(MaxPreview))]
  <2>1. arrival.payload \in Payloads({"none"}, TextsUpTo(MaxText), TextsUpTo(MaxPreview))
    BY <1>6
  <2>2. arrival.payload.enc = "none"
    BY <2>1 DEF Payloads
  <2> QED
    BY <1>1, <1>2, <1>3, <2>1, <2>2
<1> QED
  BY <1>4, <1>5, <1>6 DEF Arrivals

(* What is dropped is the head of the text, and of nothing but S.          *)
LEMMA DropLeadingIs ==
  ASSUME NEW E, NEW S, NEW s \in Seq(E)
  PROVE  /\ DropLeading(s, S) \in Seq(E)
         /\ \E d \in Seq(E \cap S) : s = d \o DropLeading(s, S)
<1> DEFINE rest == {i \in DOMAIN s : s[i] \notin S}
<1>0. /\ Len(s) \in Nat /\ DOMAIN s = 1..Len(s) /\ s \in [1..Len(s) -> E]
  BY LenProperties
<1>1. CASE rest = {}
  <2>1. DropLeading(s, S) = <<>>
    BY <1>1 DEF DropLeading
  <2>2. \A i \in 1..Len(s) : s[i] \in E \cap S
    BY <1>0, <1>1
  <2>3. s \in Seq(E \cap S)
    BY <1>0, <2>2, SeqDef
  <2>4. s = s \o <<>>
    BY ConcatEmptySeq
  <2> QED
    BY <2>1, <2>3, <2>4, EmptySeq
<1>2. CASE rest # {}
  <2> DEFINE f == CHOOSE i \in rest : \A j \in rest : i <= j
             n == Len(s)
  <2>1. DropLeading(s, S) = SubSeq(s, f, n)
    BY <1>2 DEF DropLeading
  <2>2. rest \in SUBSET Nat
    BY <1>0
  <2>3. f \in rest /\ \A j \in rest : f <= j
    <3> HIDE DEF rest
    <3> QED
      BY <1>2, <2>2, LeastNumber
  <2> HIDE DEF f
  <2>4. f \in 1..n /\ \A j \in 1..(f - 1) : s[j] \in E \cap S
    <3>1. f \in 1..n
      BY <1>0, <2>3
    <3>2. ASSUME NEW j \in 1..(f - 1) PROVE s[j] \in E \cap S
      <4>1. j \in 1..n /\ ~(f <= j)
        BY <1>0, <3>1
      <4> QED
        BY <1>0, <2>3, <4>1
    <3> QED
      BY <3>1, <3>2
  <2> HIDE DEF rest
  <2>5. SubSeq(s, f, n) \in Seq(E)
    <3>1. \A i \in f..n : s[i] \in E
      BY <1>0, <2>4
    <3> QED
      BY <1>0, <2>4, <3>1, SubSeqProperties
  <2>6. SubSeq(s, 1, f - 1) \in Seq(E \cap S)
    <3>1. 1 \in Int /\ f - 1 \in Int
      BY <1>0, <2>4
    <3> QED
      BY <2>4, <3>1, SubSeqProperties
  <2>7. s = SubSeq(s, 1, f - 1) \o SubSeq(s, f, n)
    <3>1. /\ 1 \in 1..(n + 1) /\ f - 1 \in (1 - 1)..n /\ n \in (f - 1)..n /\ (f - 1) + 1 = f
      BY <1>0, <2>4
    <3>2. SubSeq(s, 1, f - 1) \o SubSeq(s, (f - 1) + 1, n) = SubSeq(s, 1, n)
      BY <3>1, ConcatAdjacentSubSeq
    <3>3. SubSeq(s, 1, n) = s
      BY SubSeqFull
    <3> QED
      BY <3>1, <3>2, <3>3, Zenon
  <2> QED
    BY <2>1, <2>5, <2>6, <2>7
<1> QED
  BY <1>1, <1>2

LEMMA DropLeadingKeeps ==
  ASSUME NEW E, NEW S, NEW s \in Seq(E), NEW R, R \cap S = {}
  PROVE  Only(DropLeading(s, S), R) = Only(s, R)
<1> DEFINE t == DropLeading(s, S)
<1>1. PICK d \in Seq(E \cap S) : s = d \o t
  BY DropLeadingIs
<1>2. t \in Seq(E) /\ Only(t, R) \in Seq(E)
  BY DropLeadingIs, OnlyType
<1> HIDE DEF t
<1>3. Only(d, R) = <<>>
  <2>1. (E \cap S) \cap R = {}
    OBVIOUS
  <2> QED
    BY <2>1, OnlyNone
<1>4. d \in Seq(E)
  <2>1. E \cap S \subseteq E
    OBVIOUS
  <2> QED
    BY <2>1, SeqMonotonic
<1>5. Only(d \o t, R) = Only(d, R) \o Only(t, R)
  <2>1. t \in Seq(E)
    BY <1>2
  <2> QED
    BY <1>4, <2>1, OnlyConcat, SMTT(30)
<1> QED
  BY <1>1, <1>2, <1>3, <1>5, ConcatEmptySeq DEF t

LEMMA MembersOfConcat ==
  ASSUME NEW E, NEW s \in Seq(E), NEW t \in Seq(E)
  PROVE  Members(t) \subseteq Members(s \o t)
<1> SUFFICES ASSUME NEW i \in 1..Len(t) PROVE t[i] \in Members(s \o t)
  BY LenProperties DEF Members
<1>1. /\ Len(s) \in Nat /\ Len(t) \in Nat /\ s \o t \in Seq(E)
      /\ Len(s \o t) = Len(s) + Len(t)
  BY LenProperties, ConcatProperties
<1>2. Len(s) + i \in 1..(Len(s) + Len(t)) /\ ~(Len(s) + i <= Len(s)) /\ (Len(s) + i) - Len(s) = i
  BY <1>1
<1>3. (s \o t)[Len(s) + i] = t[i]
  BY <1>2, ConcatProperties
<1>4. Len(s) + i \in DOMAIN (s \o t)
  BY <1>1, <1>2, LenProperties
<1> QED
  BY <1>3, <1>4 DEF Members

(* Cleaning keeps what it is not meant to take, and adds nothing.          *)
LEMMA CleanIs ==
  ASSUME NEW s \in Texts
  PROVE  /\ Clean(s) \in Texts
         /\ Content(Clean(s)) = Content(s)
         /\ Held(Clean(s)) \subseteq Held(s)
         /\ s = <<>> => Clean(s) = <<>>
<1> DEFINE numbers == SenderNumbers \cup {"short86"}
           kept == {"sign", "word"}
           a == DropLeading(s, numbers)
           b == Only(a, Pieces \ {"merge"})
           c == DropLeading(b, {"dots"})
<1>0. Clean(s) = c
  BY DEF Clean
<1>1. s \in Seq(Pieces)
  BY DEF Texts
<1>2. kept \cap numbers = {} /\ kept \cap {"dots"} = {} /\ kept \subseteq Pieces \ {"merge"}
  BY GateAssumption DEF Pieces
<1>3. a \in Seq(Pieces) /\ Members(a) \subseteq Members(s)
  <2>1. PICK d \in Seq(Pieces \cap numbers) : s = d \o a
    BY <1>1, DropLeadingIs
  <2>2. a \in Seq(Pieces)
    BY <1>1, DropLeadingIs
  <2> HIDE DEF a, numbers
  <2>3. d \in Seq(Pieces)
    <3>1. Pieces \cap numbers \subseteq Pieces
      OBVIOUS
    <3> QED
      BY <2>1, <3>1, SeqMonotonic
  <2> QED
    BY <2>1, <2>2, <2>3, MembersOfConcat
<1>4. Only(a, kept) = Only(s, kept)
  BY <1>1, <1>2, DropLeadingKeeps
<1> HIDE DEF a
<1>5. b \in Seq(Pieces) /\ Members(b) \subseteq Members(a)
  BY <1>3, OnlyType, OnlyMembers
<1>6. Only(b, kept) = Only(a, kept)
  BY <1>2, <1>3, OnlyTwice
<1> HIDE DEF b
<1>7. c \in Seq(Pieces) /\ Members(c) \subseteq Members(b)
  <2>1. PICK d \in Seq(Pieces \cap {"dots"}) : b = d \o c
    BY <1>5, DropLeadingIs
  <2>2. c \in Seq(Pieces)
    BY <1>5, DropLeadingIs
  <2> HIDE DEF c
  <2>3. d \in Seq(Pieces)
    <3>1. Pieces \cap {"dots"} \subseteq Pieces
      OBVIOUS
    <3> QED
      BY <2>1, <3>1, SeqMonotonic
  <2> QED
    BY <2>1, <2>2, <2>3, MembersOfConcat
<1>8. Only(c, kept) = Only(b, kept)
  BY <1>2, <1>5, DropLeadingKeeps
<1> HIDE DEF c
<1>9. \A t \in Seq(Pieces) : Held(t) = Members(t) \cap SenderNumbers
  BY DEF Held, Members
<1>10. ASSUME s = <<>> PROVE c = <<>>
  <2>1. \A S : DropLeading(<<>>, S) = <<>>
    BY DEF DropLeading
  <2>2. a = <<>>
    BY <1>10, <2>1 DEF a
  <2>3. b = <<>>
    BY <2>2, OnlyEmpty DEF b
  <2> QED
    BY <2>1, <2>3 DEF c
<1>11. Content(c) = Content(s)
  BY <1>4, <1>6, <1>8 DEF Content
<1>12. Held(c) \subseteq Held(s)
  BY <1>1, <1>3, <1>5, <1>7, <1>9
<1> QED
  BY <1>0, <1>7, <1>10, <1>11, <1>12 DEF Texts

(* A number in the text is found before any in the preview.                *)
LEMMA FoundSenderIs ==
  ASSUME NEW p, p.text \in Texts, p.preview \in Texts, Held(p.text) # {}
  PROVE  FoundSender(p) \in Held(p.text)
<1> DEFINE u == Only(p.text, SenderNumbers)
           v == Only(p.preview, SenderNumbers)
<1>1. u \in Seq(Pieces) /\ v \in Seq(Pieces) /\ p.text \in Seq(Pieces) /\ p.preview \in Seq(Pieces)
  BY OnlyType DEF Texts
<1>2. Only(p.text \o p.preview, SenderNumbers) = u \o v
  BY <1>1, OnlyConcat, Zenon
<1>3. Members(u) = Held(p.text)
  <2>1. Members(u) = Members(p.text) \cap SenderNumbers
    BY <1>1, OnlyMembers, Zenon
  <2> QED
    BY <2>1 DEF Held, Members
<1> HIDE DEF u, v
<1>4. u # <<>> /\ Len(u) \in Nat \ {0} /\ u[1] \in Held(p.text)
  <2>1. u # <<>>
    BY <1>3, EmptySeq DEF Members
  <2>2. Len(u) \in Nat \ {0}
    BY <1>1, <2>1, EmptySeq
  <2>3. 1 \in DOMAIN u
    BY <1>1, <2>2, LenProperties
  <2> QED
    BY <1>3, <2>1, <2>2, <2>3 DEF Members
<1>5. u \o v # <<>> /\ Head(u \o v) = u[1]
  BY <1>1, <1>4
<1> QED
  BY <1>2, <1>4, <1>5 DEF FoundSender

(* What the cleaning of a payload does to it. *)
Cleaned(q, p) ==
  /\ q.text \in Texts /\ q.preview \in Texts /\ q.enc = p.enc
  /\ Content(q.text) = Content(p.text)
  /\ Held(p.text) # Held(q.text) => q.sender \in Held(p.text)
  /\ p.preview = <<>> => q.preview = <<>>

LEMMA SanitizeIs ==
  ASSUME NEW p \in AnyPayload, NEW type
  PROVE  Cleaned(SanitizeSmsPayload(type, p), p)
<1> DEFINE q == [p EXCEPT !.text = Clean(p.text), !.preview = Clean(p.preview),
                          !.sender = FoundSender(p)]
<1>1. p.text \in Texts /\ p.preview \in Texts
  BY DEF AnyPayload
<1>2. CASE ~IsSms(type, p.kind)
  BY <1>1, <1>2 DEF SanitizeSmsPayload, Cleaned
<1>3. CASE IsSms(type, p.kind)
  <2>1. SanitizeSmsPayload(type, p) = q
    BY <1>3 DEF SanitizeSmsPayload
  <2>2. /\ q.text = Clean(p.text) /\ q.preview = Clean(p.preview)
        /\ q.sender = FoundSender(p) /\ q.enc = p.enc
    BY DEF AnyPayload
  <2> HIDE DEF q
  <2>3. /\ Clean(p.text) \in Texts /\ Clean(p.preview) \in Texts
        /\ Content(Clean(p.text)) = Content(p.text)
        /\ Held(Clean(p.text)) \subseteq Held(p.text)
        /\ p.preview = <<>> => Clean(p.preview) = <<>>
    BY <1>1, CleanIs
  <2>4. Held(p.text) # {} => FoundSender(p) \in Held(p.text)
    BY <1>1, FoundSenderIs
  <2> QED
    BY <2>1, <2>2, <2>3, <2>4 DEF Cleaned
<1> QED
  BY <1>2, <1>3

(* What is shown of a text that is cut is its head.                        *)
LEMMA TruncateIs ==
  ASSUME NEW t \in Texts
  PROVE  LET shown == Only(Truncate(t), Pieces)
         IN  /\ Len(shown) <= Len(t)
             /\ shown = SubSeq(t, 1, Len(shown))
             /\ t # <<>> => shown # <<>>
<1> DEFINE n == EffectiveLimit
           u == SubSeq(t, 1, n)
<1>0. t \in Seq(Pieces) /\ Len(t) \in Nat
  BY LenProperties DEF Texts
<1>1. n \in Nat \ {0}
  BY GateAssumption DEF EffectiveLimit
<1>2. CASE Len(t) <= n
  <2>1. Truncate(t) = t
    BY <1>2 DEF Truncate
  <2>2. Only(t, Pieces) = t
    BY <1>0, OnlyAll
  <2> QED
    BY <1>0, <2>1, <2>2, SubSeqFull
<1>3. CASE ~(Len(t) <= n)
  <2>1. Truncate(t) = Append(u, "more")
    BY <1>3 DEF Truncate
  <2>2. \A i \in 1..n : t[i] \in Pieces
    BY <1>0, <1>1, <1>3
  <2>3. u \in Seq(Pieces) /\ Len(u) = n
    <3>1. 1 \in Int /\ n \in Int /\ 1 <= n /\ n - 1 + 1 = n
      BY <1>1
    <3> HIDE DEF n
    <3> QED
      BY <2>2, <3>1, SubSeqProperties
  <2>4. "more" \notin Pieces
    BY GateAssumption DEF Pieces
  <2> HIDE DEF u, n
  <2>5. Only(Append(u, "more"), Pieces) = Only(u, Pieces)
    <3> DEFINE E == Pieces \cup {"more"}
    <3>1. u \in Seq(E) /\ "more" \in E
      BY <2>3, SeqMonotonic
    <3> HIDE DEF E
    <3> QED
      BY <2>4, <3>1, OnlyAppend
  <2>6. Only(u, Pieces) = u
    BY <2>3, OnlyAll
  <2>7. u # <<>>
    BY <1>1, <2>3, EmptySeq
  <2> QED
    BY <1>0, <1>1, <1>3, <2>1, <2>3, <2>5, <2>6, <2>7 DEF u
<1> QED
  BY <1>0, <1>1, <1>2, <1>3

GateInv == arrival \in Arrivals /\ SanitizeKeepsContent /\ PreviewShowsCleanText

LEMMA ReadFrameIsClean == ASSUME GateInv, ReadFrame PROVE GateInv'
<1> DEFINE p == arrival.payload
           q == SanitizeSmsPayload(arrival.type, p)
<1>1. /\ arrival' = arrival /\ arrival \in Arrivals /\ p \in AnyPayload /\ arrival.way # "push"
  BY ArrivalIs DEF ReadFrame, GateInv
<1>2. Cleaned(q, p)
  BY <1>1, SanitizeIs
<1> HIDE DEF q
<1>3. Relayed' =>
        \/ outcome'.payload = p
        \/ outcome'.payload = q /\ p.enc # "good"
  <2> DEFINE gate == CheckEncryption(p.enc, arrival.require)
  <2>1. gate \in {"encrypted", "plain", "refused"} /\ (gate = "plain" => p.enc # "good")
    BY DEF CheckEncryption
  <2> HIDE DEF gate
  <2>2. outcome'.payload = (IF gate = "plain" /\ Relayed' THEN q ELSE p)
    BY <2>1 DEF ReadFrame, gate, q, Outcome, Relayed
  <2> QED
    BY <2>1, <2>2
<1>4. SanitizeKeepsContent'
  BY <1>1, <1>2, <1>3 DEF SanitizeKeepsContent, Cleaned
<1>5. PreviewShowsCleanText'
  BY <1>1 DEF PreviewShowsCleanText
<1> QED
  BY <1>1, <1>4, <1>5 DEF GateInv

LEMMA PushIsClean == ASSUME GateInv, Push PROVE GateInv'
<1> DEFINE p == arrival.payload
           q == SanitizeSmsPayload(PushType, PushPayload)
           r == EnsurePreview(q)
<1>1. /\ arrival' = arrival /\ arrival \in Arrivals /\ p \in AnyPayload /\ p.enc = "none"
  BY ArrivalIs DEF Push, GateInv
<1>2. /\ PushPayload \in AnyPayload /\ PushPayload.text = p.text
      /\ PushPayload.preview = p.preview /\ PushPayload.enc = p.enc
  BY <1>1 DEF PushPayload, AnyPayload
<1>3. Cleaned(q, PushPayload)
  BY <1>2, SanitizeIs
<1>4. Relayed' => outcome'.payload = r
  BY DEF Push, Outcome, Relayed
<1>5. /\ r.text = q.text /\ r.sender = q.sender /\ r.enc = q.enc
      /\ q.preview = <<>> => r.preview = Truncate(q.text)
  <2>1. /\ DOMAIN q = {"enc", "kind", "text", "preview", "sender"}
        /\ q = [x \in DOMAIN q |-> q[x]]
    BY <1>2 DEF SanitizeSmsPayload, AnyPayload
  <2> HIDE DEF q
  <2> QED
    BY <2>1 DEF EnsurePreview
<1> HIDE DEF q, r
<1>6. SanitizeKeepsContent'
  BY <1>1, <1>2, <1>3, <1>4, <1>5 DEF SanitizeKeepsContent, Cleaned
<1>7. PreviewShowsCleanText'
  <2> SUFFICES ASSUME Relayed', p.preview = <<>>
               PROVE  LET s == outcome'.payload
                          shown == Only(s.preview, Pieces)
                      IN /\ Len(shown) <= Len(s.text)
                         /\ shown = SubSeq(s.text, 1, Len(shown))
                         /\ s.text # <<>> => shown # <<>>
    BY <1>1 DEF PreviewShowsCleanText
  <2>1. q.text \in Texts /\ r.preview = Truncate(q.text) /\ r.text = q.text
    BY <1>2, <1>3, <1>5 DEF Cleaned
  <2> QED
    BY <1>4, <2>1, TruncateIs
<1> QED
  BY <1>1, <1>6, <1>7 DEF GateInv

LEMMA GateIsClean == GateSpec => []GateInv
<1>1. GateInit => GateInv
  <2>1. ASSUME GateInit PROVE ~Relayed /\ arrival \in Arrivals
    BY <2>1 DEF GateInit, Outcome, Relayed
  <2> QED
    BY <2>1 DEF GateInv, SanitizeKeepsContent, PreviewShowsCleanText
<1>2. GateInv /\ [GateNext]_gateVars => GateInv'
  <2>1. ASSUME GateInv, UNCHANGED gateVars PROVE GateInv'
    BY <2>1 DEF gateVars, GateInv, SanitizeKeepsContent, PreviewShowsCleanText, Relayed
  <2> QED
    BY <2>1, ReadFrameIsClean, PushIsClean DEF GateNext
<1> QED
  BY <1>1, <1>2, PTL DEF GateSpec

(* What is relayed of a text of any length still says what it said, and a  *)
(* number that was taken from it, or another of the same text, is named as *)
(* the sender (main.go:976-983, 1050).                                     *)
THEOREM ContentIsKept == GateSpec => []SanitizeKeepsContent
<1>1. GateInv => SanitizeKeepsContent
  BY DEF GateInv
<1> QED
  BY <1>1, GateIsClean, PTL

(* A preview made by the server is the head of the text as it is sent,     *)
(* whatever the limit is set to (main.go:1421-1422, 1433-1437).            *)
THEOREM PreviewIsOfTheText == GateSpec => []PreviewShowsCleanText
<1>1. GateInv => PreviewShowsCleanText
  BY DEF GateInv
<1> QED
  BY <1>1, GateIsClean, PTL

-----------------------------------------------------------------------------
(* The accounts.                                                           *)

Owners == Creations \cup {NoAccount} \cup 0..MaxBoots

CreationStates ==
  [pc : {"idle", "inserting", "refused", "created", "exists", "failed"}, name : Names]

BootStates == [pc : {"up", "looking", "inserting"}, name : Names]

AccountsType ==
  /\ accounts \in [Names -> Owners]
  /\ creation \in [Creations -> CreationStates]
  /\ boot \in BootStates
  /\ boots \in 0..MaxBoots

LEMMA InitAccounts == AccountsInit => AccountsType /\ CreatedIsKept
<1> SUFFICES ASSUME AccountsInit PROVE AccountsType /\ CreatedIsKept
  OBVIOUS
<1>1. (CHOOSE n \in Names : TRUE) \in Names
  BY AccountsAssumption
<1>2. /\ creation \in [Creations -> CreationStates]
      /\ boot \in BootStates
  BY <1>1 DEF AccountsInit, CreationStates, BootStates
<1>3. accounts \in [Names -> Owners] /\ boots \in 0..MaxBoots
  BY AccountsAssumption DEF AccountsInit, Owners
<1> QED
  BY <1>2, <1>3 DEF AccountsInit, AccountsType, CreatedIsKept

(* An insertion takes a name that is free, and no other.                   *)
LEMMA InsertedKeeps ==
  ASSUME AccountsType, NEW n \in Names, NEW by \in Owners, Inserted(n, by)
  PROVE  /\ accounts' \in [Names -> Owners]
         /\ accounts'[n] = by
         /\ \A m \in Names : accounts[m] # NoAccount => accounts'[m] = accounts[m]
BY DEF AccountsType, Inserted

(* A step of a request that is not answered yet, while the table keeps the *)
(* names that are taken: no answer that was given loses its account.       *)
LEMMA AnswerKeeps ==
  ASSUME AccountsType, CreatedIsKept,
         \A m \in Names : accounts[m] # NoAccount => accounts'[m] = accounts[m],
         NEW r \in Creations,
         \A q \in Creations \ {r} : creation'[q] = creation[q],
         creation'[r].pc = "created" => accounts'[creation'[r].name] = r
  PROVE  CreatedIsKept'
<1> SUFFICES ASSUME NEW q \in Creations, q # r, creation'[q].pc = "created"
             PROVE  accounts'[creation'[q].name] = q
  BY DEF CreatedIsKept
<1>1. creation[q].name \in Names
  BY DEF AccountsType, CreationStates
<1>2. accounts[creation[q].name] = q /\ q # NoAccount
  BY AccountsAssumption DEF CreatedIsKept
<1> QED
  BY <1>1, <1>2

(* No request is answered.                                                 *)
LEMMA TableKeeps ==
  ASSUME AccountsType, CreatedIsKept, creation' = creation,
         \A m \in Names : accounts[m] # NoAccount => accounts'[m] = accounts[m]
  PROVE  CreatedIsKept'
BY AccountsAssumption DEF AccountsType, CreationStates, CreatedIsKept

LEMMA StepAccounts ==
  AccountsType /\ CreatedIsKept /\ [AccountsNext]_accountVars
    => AccountsType' /\ CreatedIsKept'
<1> SUFFICES ASSUME AccountsType, CreatedIsKept, [AccountsNext]_accountVars
             PROVE  AccountsType' /\ CreatedIsKept'
  OBVIOUS
<1>1. ASSUME NEW r \in Creations, NEW n \in Names, NEW valid \in BOOLEAN,
             RegisterAccount(r, n, valid) \/ AdminCreateUser(r, n, valid)
      PROVE  AccountsType' /\ CreatedIsKept'
  <2>1. PICK label \in {"inserting", "refused"} :
          creation' = [creation EXCEPT ![r] = [pc |-> label, name |-> n]]
    BY <1>1 DEF RegisterAccount, AdminCreateUser, Checked
  <2>2. [pc |-> label, name |-> n] \in CreationStates
    BY DEF CreationStates
  <2>3. UNCHANGED <<accounts, boot, boots>>
    BY <1>1 DEF RegisterAccount, AdminCreateUser
  <2>4. /\ creation' \in [Creations -> CreationStates]
        /\ creation'[r].pc = label
        /\ \A q \in Creations \ {r} : creation'[q] = creation[q]
    BY <2>1, <2>2 DEF AccountsType
  <2> QED
    BY <2>3, <2>4, AnswerKeeps DEF AccountsType
<1>2. ASSUME NEW r \in Creations, CreateUser(r) PROVE AccountsType' /\ CreatedIsKept'
  <2> DEFINE n == creation[r].name
  <2>1. n \in Names /\ r \in Owners
    BY DEF AccountsType, CreationStates, Owners
  <2>2. UNCHANGED <<boot, boots>>
    BY <1>2 DEF CreateUser
  <2>3. CASE Inserted(n, r) /\ Answered(r, "created")
    <3>1. /\ creation' \in [Creations -> CreationStates]
          /\ creation'[r].name = n
          /\ \A q \in Creations \ {r} : creation'[q] = creation[q]
      BY <2>3 DEF AccountsType, Answered, CreationStates
    <3> QED
      BY <2>1, <2>2, <2>3, <3>1, InsertedKeeps, AnswerKeeps DEF AccountsType
  <2>4. ASSUME NEW label \in {"exists", "failed"}, Answered(r, label),
               Inserted(n, r) \/ UNCHANGED accounts
        PROVE  AccountsType' /\ CreatedIsKept'
    <3>1. /\ creation' \in [Creations -> CreationStates]
          /\ creation'[r].pc # "created"
          /\ \A q \in Creations \ {r} : creation'[q] = creation[q]
      BY <2>4 DEF AccountsType, Answered, CreationStates
    <3>2. /\ accounts' \in [Names -> Owners]
          /\ \A m \in Names : accounts[m] # NoAccount => accounts'[m] = accounts[m]
      BY <2>1, <2>4, InsertedKeeps DEF AccountsType
    <3> QED
      BY <2>2, <3>1, <3>2, AnswerKeeps DEF AccountsType
  <2> QED
    BY <1>2, <2>3, <2>4 DEF CreateUser
<1>3. ASSUME NEW n \in Names, NEW allow \in BOOLEAN, StartServer(n, allow)
      PROVE  AccountsType' /\ CreatedIsKept'
  <2>1. boots' \in 0..MaxBoots
    BY <1>3, AccountsAssumption DEF AccountsType, StartServer
  <2>2. boot' \in BootStates
    BY <1>3 DEF StartServer, BootStates
  <2> QED
    BY <1>3, <2>1, <2>2, TableKeeps DEF AccountsType, StartServer
<1>4. CASE BootFind
  <2>1. PICK label \in {"inserting", "up"} : boot' = [boot EXCEPT !.pc = label]
    BY <1>4 DEF BootFind
  <2>2. boot' \in BootStates
    BY <2>1 DEF AccountsType, BootStates
  <2> QED
    BY <1>4, <2>2, TableKeeps DEF AccountsType, BootFind
<1>5. CASE BootCreate
  <2>1. boot.name \in Names /\ boots \in Owners
    BY DEF AccountsType, BootStates, Owners
  <2>2. /\ accounts' \in [Names -> Owners]
        /\ \A m \in Names : accounts[m] # NoAccount => accounts'[m] = accounts[m]
    BY <1>5, <2>1, InsertedKeeps DEF AccountsType, BootCreate
  <2>3. boot' \in BootStates
    BY <1>5 DEF AccountsType, BootCreate, BootStates
  <2> QED
    BY <1>5, <2>2, <2>3, TableKeeps DEF AccountsType, BootCreate
<1>6. CASE UNCHANGED accountVars
  BY <1>6, TableKeeps DEF AccountsType, accountVars
<1> QED
  BY <1>1, <1>2, <1>3, <1>4, <1>5, <1>6 DEF AccountsNext

(* Who is told that an account was created for them has it: no other       *)
(* request, and no start of a server with another bootstrap password,      *)
(* takes it over (auth_service.go:188-213, 410-436).                       *)
THEOREM AnswersHold == AccountsSpec => []CreatedIsKept
<1>1. AccountsSpec => [](AccountsType /\ CreatedIsKept)
  BY InitAccounts, StepAccounts, PTL DEF AccountsSpec
<1> QED
  BY <1>1, PTL
=============================================================================
