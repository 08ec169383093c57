---------------------------- MODULE OpenAPIProofs ----------------------------
(* What is proved of OpenAPI for any accounts, keys and messages, and any  *)
(* configured sizes and times.                                             *)
EXTENDS OpenAPI, FiniteSetTheorems, TLAPS

-----------------------------------------------------------------------------
(* Sorted sets.                                                            *)

(* A finite set of messages that have each an id of their own. *)
Ordered(S) ==
  /\ IsFiniteSet(S)
  /\ \A m \in S : m.id \in Int /\ m.at \in Int
  /\ \A m, k \in S : m.id = k.id => m = k

After(S, m) == {k \in S : Later(k, m)}

LEMMA LaterOrders ==
  ASSUME NEW S, Ordered(S)
  PROVE  /\ \A m \in S : ~Later(m, m)
         /\ \A m, k, l \in S : Later(m, k) /\ Later(k, l) => Later(m, l)
         /\ \A m, k \in S : m # k => Later(m, k) \/ Later(k, m)
BY DEF Ordered, Later

LEMMA OrderedSubset ==
  ASSUME NEW S, Ordered(S), NEW T, T \subseteq S
  PROVE  Ordered(T)
BY FS_Subset DEF Ordered

(* A strict order on a finite set has a first element in every part of it: *)
(* one whose predecessors are a smallest set of predecessors.              *)
LEMMA FirstElement ==
  ASSUME NEW S, IsFiniteSet(S), NEW R,
         \A m \in S : <<m, m>> \notin R,
         \A m, k, l \in S : <<m, k>> \in R /\ <<k, l>> \in R => <<m, l>> \in R,
         NEW T, T \subseteq S, T # {}
  PROVE  \E m \in T : \A k \in T : <<k, m>> \notin R
<1> DEFINE Before(m) == {k \in S : <<k, m>> \in R}
           W == {Before(m) : m \in T}
<1>1. W \subseteq FiniteSubsetsOf(S) /\ W # {}
  <2>1. \A m \in T : Before(m) \in SUBSET S
    OBVIOUS
  <2>2. FiniteSubsetsOf(S) = SUBSET S
    BY FS_FiniteSubsetsOfFinite
  <2>3. W # {}
    <3>1. PICK m \in T : TRUE
      OBVIOUS
    <3>2. Before(m) \in W
      BY Zenon
    <3> QED
      BY <3>2, Zenon
  <2>4. ASSUME NEW A \in W PROVE A \in SUBSET S
    <3>1. PICK m \in T : A = Before(m)
      OBVIOUS
    <3> QED
      BY <2>1, <3>1
  <2> HIDE DEF W
  <2> QED
    BY <2>2, <2>3, <2>4
<1>2. PICK B \in W : \A A \in W : ~(<<A, B>> \in StrictSubsetOrdering(S))
  BY <1>1, FS_StrictSubsetOrderingWellFounded, WFMin
<1>3. PICK m \in T : B = Before(m)
  OBVIOUS
<1>4. ASSUME NEW k \in T, <<k, m>> \in R PROVE FALSE
  <2>1. Before(k) \subseteq Before(m) /\ k \in Before(m) /\ k \notin Before(k)
    BY <1>4
  <2>2. <<Before(k), B>> \in StrictSubsetOrdering(S)
    BY <1>3, <2>1 DEF StrictSubsetOrdering
  <2> QED
    BY <1>2, <2>2
<1> QED
  BY <1>4

LEMMA Extremes ==
  ASSUME NEW S, Ordered(S), NEW T, T \subseteq S, T # {}
  PROVE  /\ \E m \in T : \A k \in T : k = m \/ Later(k, m)
         /\ \E m \in T : \A k \in T : k = m \/ Later(m, k)
<1>0. IsFiniteSet(S)
  BY DEF Ordered
<1>1. \E m \in T : \A k \in T : k = m \/ Later(k, m)
  <2> DEFINE R == {e \in S \X S : Later(e[2], e[1])}
  <2>1. \A m, k \in S : <<m, k>> \in R <=> Later(k, m)
    OBVIOUS
  <2> HIDE DEF R
  <2>2. /\ \A m \in S : <<m, m>> \notin R
        /\ \A m, k, l \in S : <<m, k>> \in R /\ <<k, l>> \in R => <<m, l>> \in R
    BY <2>1, LaterOrders
  <2>3. PICK m \in T : \A k \in T : <<k, m>> \notin R
    BY <1>0, <2>2, FirstElement
  <2> QED
    BY <2>1, <2>3, LaterOrders
<1>2. \E m \in T : \A k \in T : k = m \/ Later(m, k)
  <2> DEFINE R == {e \in S \X S : Later(e[1], e[2])}
  <2>1. \A m, k \in S : <<m, k>> \in R <=> Later(m, k)
    OBVIOUS
  <2> HIDE DEF R
  <2>2. /\ \A m \in S : <<m, m>> \notin R
        /\ \A m, k, l \in S : <<m, k>> \in R /\ <<k, l>> \in R => <<m, l>> \in R
    BY <2>1, LaterOrders
  <2>3. PICK m \in T : \A k \in T : <<k, m>> \notin R
    BY <1>0, <2>2, FirstElement
  <2> QED
    BY <2>1, <2>3, LaterOrders
<1> QED
  BY <1>1, <1>2

LEMMA AfterIsFinite ==
  ASSUME NEW S, Ordered(S), NEW m
  PROVE  IsFiniteSet(After(S, m)) /\ Cardinality(After(S, m)) \in Nat
BY FS_Subset, FS_CardinalityType DEF After, Ordered

(* A message that fewer come after in a larger set is among the newest of  *)
(* a smaller one.                                                          *)
LEMMA NewestOfFewer ==
  ASSUME NEW S, Ordered(S), NEW T, T \subseteq S, NEW n \in Int,
         NEW m \in T, m \in Newest(S, n)
  PROVE  m \in Newest(T, n)
<1>1. After(T, m) \subseteq After(S, m)
  BY DEF After
<1>2. Cardinality(After(S, m)) < n
  BY DEF Newest, After
<1>3. IsFiniteSet(After(S, m)) /\ Cardinality(After(S, m)) \in Nat
  BY AfterIsFinite
<1>4. IsFiniteSet(After(T, m)) /\ Cardinality(After(T, m)) \in Nat
  BY OrderedSubset, AfterIsFinite
<1>5. Cardinality(After(T, m)) <= Cardinality(After(S, m))
  BY <1>1, <1>3, FS_Subset
<1>6. Cardinality(After(T, m)) < n
  BY <1>2, <1>3, <1>4, <1>5
<1> QED
  BY <1>6 DEF Newest, After

(* The newest n are at most n. *)
LEMMA NewestBound ==
  ASSUME NEW S, Ordered(S), NEW n \in Nat
  PROVE  IsFiniteSet(Newest(S, n)) /\ Cardinality(Newest(S, n)) <= n
<1> DEFINE N == Newest(S, n)
<1>1. N \subseteq S /\ \A m \in N : Cardinality(After(S, m)) < n
  BY DEF Newest, After
<1> HIDE DEF N
<1>2. IsFiniteSet(N) /\ Cardinality(N) \in Nat
  BY <1>1, FS_Subset, FS_CardinalityType DEF Ordered
<1>3. CASE N = {}
  BY <1>3, FS_EmptySet DEF N
<1>4. CASE N # {}
  <2>1. PICK m \in N : \A k \in N : k = m \/ Later(k, m)
    BY <1>1, <1>4, Extremes
  <2>2. N \ {m} \subseteq After(S, m)
    BY <1>1, <2>1 DEF After
  <2>3. Cardinality(N \ {m}) <= Cardinality(After(S, m))
    BY <2>2, AfterIsFinite, FS_Subset
  <2>4. Cardinality(N \ {m}) = Cardinality(N) - 1
    BY <1>2, FS_RemoveElement
  <2>5. Cardinality(After(S, m)) \in Nat /\ Cardinality(After(S, m)) < n
    BY <1>1, AfterIsFinite
  <2>6. Cardinality(N) <= n
    BY <1>2, <2>3, <2>4, <2>5
  <2> QED
    BY <1>2, <2>6 DEF N
<1> QED
  BY <1>3, <1>4

(* If the newest n are not all, they are n. *)
LEMMA NewestFills ==
  ASSUME NEW S, Ordered(S), NEW n \in Nat, NEW x \in S, x \notin Newest(S, n)
  PROVE  Cardinality(Newest(S, n)) >= n
<1> DEFINE N == Newest(S, n)
<1>1. N \subseteq S /\ \A m \in S : m \in N <=> Cardinality(After(S, m)) < n
  BY DEF Newest, After
<1>2. IsFiniteSet(N) /\ Cardinality(N) \in Nat
  BY NewestBound, FS_CardinalityType
<1> HIDE DEF N
<1>3. S \ N # {}
  BY DEF N
<1>4. PICK m \in S \ N : \A k \in S \ N : k = m \/ Later(m, k)
  BY <1>3, Extremes
<1>5. After(S, m) \subseteq N
  <2>1. ASSUME NEW k \in S, Later(k, m), k \notin N PROVE FALSE
    <3>1. k # m
      BY <2>1, LaterOrders
    <3>2. Later(m, k)
      BY <1>4, <2>1, <3>1
    <3>3. Later(m, m)
      BY <1>4, <2>1, <3>2, LaterOrders
    <3> QED
      BY <1>4, <3>3, LaterOrders
  <2> QED
    BY <2>1 DEF After
<1>6. Cardinality(After(S, m)) <= Cardinality(N)
  BY <1>2, <1>5, FS_Subset
<1>7. ~(Cardinality(After(S, m)) < n) /\ Cardinality(After(S, m)) \in Nat
  BY <1>1, <1>4, AfterIsFinite
<1>8. Cardinality(N) >= n
  BY <1>2, <1>6, <1>7
<1> QED
  BY <1>8 DEF N

(* A set that holds the newest n and is no larger holds nothing else.      *)
LEMMA NewestIsAll ==
  ASSUME NEW S, Ordered(S), NEW n \in Nat, NEW Z, Z \subseteq S,
         Newest(S, n) \subseteq Z, Cardinality(Z) <= n
  PROVE  Z = Newest(S, n)
<1> DEFINE N == Newest(S, n)
<1> SUFFICES ASSUME NEW x \in Z, x \notin N PROVE FALSE
  OBVIOUS
<1>1. IsFiniteSet(Z) /\ Cardinality(Z) \in Nat
  BY FS_Subset, FS_CardinalityType DEF Ordered
<1>2. IsFiniteSet(N) /\ Cardinality(N) \in Nat /\ Cardinality(N) >= n
  BY NewestFills, NewestBound, FS_CardinalityType
<1> HIDE DEF N
<1>3. Cardinality(N \cup {x}) = Cardinality(N) + 1
  BY <1>2, FS_AddElement
<1>4. Cardinality(N \cup {x}) <= Cardinality(Z)
  BY <1>1, FS_Subset DEF N
<1> QED
  BY <1>1, <1>2, <1>3, <1>4

(* All of a small set are among its newest.                                *)
LEMMA NewestOfSmall ==
  ASSUME NEW S, Ordered(S), NEW n \in Nat, Cardinality(S) <= n
  PROVE  Newest(S, n) = S
<1> SUFFICES ASSUME NEW m \in S PROVE m \in Newest(S, n)
  BY DEF Newest
<1>1. IsFiniteSet(S) /\ Cardinality(S) \in Nat
  BY FS_CardinalityType DEF Ordered
<1>2. After(S, m) \subseteq S \ {m}
  BY LaterOrders DEF After
<1>3. IsFiniteSet(S \ {m}) /\ Cardinality(S \ {m}) = Cardinality(S) - 1
  BY <1>1, FS_RemoveElement
<1>4. Cardinality(After(S, m)) <= Cardinality(S) - 1
  BY <1>2, <1>3, FS_Subset
<1>5. Cardinality(After(S, m)) < n
  BY <1>1, <1>4, AfterIsFinite
<1> QED
  BY <1>5 DEF Newest, After

-----------------------------------------------------------------------------
(* The cache.                                                              *)

GoodSms(m) ==
  /\ m.id \in Int /\ m.at \in Nat /\ m.from \in Phones
  /\ m.type = "notify_pc" /\ m.enc = "good" /\ IsNumber(m.number)

Queries == [pc : {"idle", "fetching"}, key : ApiKeys, limit : Nat,
            number : PhoneNumbers \cup {NoNumber}]

ApiTyped ==
  /\ maxItems \in Int /\ limit \in Int
  /\ now \in Nat
  /\ DOMAIN zset = ApiUsers
  /\ dies \in [ApiUsers -> Nat]
  /\ IsFiniteSet(stored)
  /\ \A m \in stored : GoodSms(m)
  /\ \A m, k \in stored : m.id = k.id => m = k
  /\ query \in Queries

(* A set outlives the messages in it, for none is from the future.         *)
SetOutlives ==
  \A m \in stored : m.at <= now /\ m.at + Window <= dies[OwnerOf[m.from]]

CacheInv == ApiTyped /\ SetOutlives /\ CacheKeepsNewest

LEMMA StoredOrdered ==
  ASSUME ApiTyped
  PROVE  Ordered(stored) /\ \A u : Ordered(StoredOf(u)) /\ Ordered(Recent(StoredOf(u)))
<1>1. Ordered(stored)
  BY DEF ApiTyped, GoodSms, Ordered
<1>2. \A u : StoredOf(u) \subseteq stored /\ Recent(StoredOf(u)) \subseteq stored
  BY DEF StoredOf, Recent
<1> QED
  BY <1>1, <1>2, OrderedSubset

LEMMA KeptType == ASSUME ApiTyped PROVE KeptItems \in Nat \ {0}
BY ApiAssumption DEF ApiTyped, KeptItems

LEMMA NoQueryType == NoQuery \in Queries /\ NoQuery.pc = "idle"
BY ApiAssumption DEF NoQuery, Queries

LEMMA InitCache ==
  ASSUME NEW c \in ApiConfigs, ApiInitWith(c) PROVE CacheInv
<1>1. maxItems \in Int /\ limit \in Int
  BY ApiAssumption DEF ApiInitWith
<1>2. ApiTyped /\ SetOutlives
  BY <1>1, NoQueryType, FS_EmptySet DEF ApiInitWith, ApiTyped, SetOutlives
<1>3. \A u \in ApiUsers : /\ Newest(Recent(StoredOf(u)), KeptItems) = {}
                          /\ zset[u] = {} /\ Cardinality(zset[u]) = 0
  BY FS_EmptySet DEF ApiInitWith, StoredOf, Recent, Newest
<1>4. CacheKeepsNewest
  BY <1>2, <1>3, KeptType DEF CacheKeepsNewest
<1> QED
  BY <1>2, <1>4 DEF CacheInv

(* A message comes into the cache.                                         *)
LEMMA CacheKeeps ==
  ASSUME CacheInv, NEW m, GoodSms(m), m.at = now, \A k \in stored : k.id # m.id,
         LET u == OwnerOf[m.from]
         IN /\ zset' = [zset EXCEPT ![u] = Trim(Recent(zset[u] \cup {m}))]
            /\ dies' = [dies EXCEPT ![u] = now + Lifetime]
            /\ stored' = stored \cup {m},
         UNCHANGED <<maxItems, limit, now, query>>
  PROVE  CacheInv'
<1> DEFINE v == OwnerOf[m.from]
<1>0. v \in ApiUsers /\ Window \in Nat \ {0} /\ Spare \in Nat
  BY ApiAssumption DEF GoodSms
<1>1. ApiTyped'
  <2>1. IsFiniteSet(stored')
    BY FS_AddElement DEF CacheInv, ApiTyped
  <2>2. dies' \in [ApiUsers -> Nat]
    BY <1>0 DEF CacheInv, ApiTyped, Lifetime
  <2>3. \A k \in stored' : GoodSms(k)
    BY DEF CacheInv, ApiTyped
  <2> QED
    BY <2>1, <2>2, <2>3 DEF CacheInv, ApiTyped
<1>2. SetOutlives'
  BY <1>0 DEF CacheInv, ApiTyped, SetOutlives, Lifetime, GoodSms
<1>3. CacheKeepsNewest'
  <2> SUFFICES ASSUME NEW u \in ApiUsers
               PROVE  /\ Newest(Recent(StoredOf(u)), KeptItems)' \subseteq zset'[u]
                      /\ zset'[u] \subseteq StoredOf(u)'
                      /\ Cardinality(zset'[u]) <= KeptItems'
    BY DEF CacheKeepsNewest
  <2>0. KeptItems' = KeptItems /\ KeptItems \in Nat
    BY KeptType DEF KeptItems, CacheInv
  <2>i. /\ Newest(Recent(StoredOf(u)), KeptItems) \subseteq zset[u]
        /\ zset[u] \subseteq StoredOf(u)
        /\ Cardinality(zset[u]) <= KeptItems
    BY DEF CacheInv, CacheKeepsNewest
  <2>1. CASE u # v
    <3>1. zset'[u] = zset[u] /\ StoredOf(u)' = StoredOf(u)
      BY <2>1 DEF StoredOf, CacheInv, ApiTyped
    <3> QED
      BY <2>0, <2>i, <3>1 DEF Recent, Newest, Later
  <2>2. CASE u = v
    <3> DEFINE S == Recent(StoredOf(u))
               A == S \cup {m}
               B == Recent(zset[u] \cup {m})
               K == KeptItems
    <3>1. StoredOf(u)' = StoredOf(u) \cup {m}
      BY <2>2 DEF StoredOf
    <3>2. Recent(StoredOf(u))' = A
      BY <1>0, <3>1 DEF Recent, CacheInv, ApiTyped
    <3>3. zset'[u] = Newest(B, K)
      BY <2>2 DEF CacheInv, ApiTyped, Trim
    <3>4. B \subseteq A /\ m \in B
      BY <1>0, <2>i DEF Recent, CacheInv, ApiTyped
    <3>5. Ordered(A) /\ Ordered(B)
      <4>1. Ordered(stored')
        BY <1>1, StoredOrdered DEF ApiTyped, Ordered, GoodSms
      <4>2. A \subseteq stored'
        BY DEF Recent, StoredOf
      <4> QED
        BY <3>4, <4>1, <4>2, OrderedSubset
    <3>6. ASSUME NEW x \in Newest(A, K) PROVE x \in Newest(B, K)
      <4>1. x \in A
        BY DEF Newest
      <4>2. x \in B
        <5>1. CASE x = m
          BY <3>4, <5>1
        <5>2. CASE x # m
          <6>1. x \in S
            BY <4>1, <5>2
          <6>2. x \in Newest(S, K)
            <7> HIDE DEF S
            <7> QED
              BY <2>0, <3>5, <3>6, <6>1, NewestOfFewer
          <6> QED
            BY <2>i, <6>1, <6>2 DEF Recent
        <5> QED
          BY <5>1, <5>2
      <4> HIDE DEF A, B
      <4> QED
        BY <2>0, <3>4, <3>5, <3>6, <4>2, NewestOfFewer
    <3>7. Newest(Recent(StoredOf(u)), KeptItems)' = Newest(A, K)
      BY <2>0, <3>2 DEF Newest, Later
    <3>8. zset'[u] \subseteq StoredOf(u)'
      BY <2>i, <3>1, <3>3 DEF Newest, Recent
    <3>9. Cardinality(zset'[u]) <= KeptItems'
      <4> HIDE DEF B
      <4> QED
        BY <2>0, <3>3, <3>5, NewestBound
    <3> QED
      BY <3>3, <3>6, <3>7, <3>8, <3>9
  <2> QED
    BY <2>1, <2>2
<1> QED
  BY <1>1, <1>2, <1>3 DEF CacheInv

LEMMA TickKeeps == ASSUME CacheInv, ApiTick PROVE CacheInv'
<1>0. now' = now + 1 /\ now \in Nat /\ Window \in Nat /\ UNCHANGED <<maxItems, stored, dies>>
  BY ApiAssumption DEF ApiTick, CacheInv, ApiTyped, apiConfig
<1>1. ApiTyped' /\ SetOutlives'
  BY <1>0 DEF ApiTick, apiConfig, CacheInv, ApiTyped, SetOutlives, GoodSms
<1>2. CacheKeepsNewest'
  <2> SUFFICES ASSUME NEW u \in ApiUsers
               PROVE  /\ Newest(Recent(StoredOf(u)), KeptItems)' \subseteq zset'[u]
                      /\ zset'[u] \subseteq StoredOf(u)'
                      /\ Cardinality(zset'[u]) <= KeptItems'
    BY DEF CacheKeepsNewest
  <2> DEFINE S == Recent(StoredOf(u))
  <2>0. KeptItems' = KeptItems /\ KeptItems \in Nat /\ StoredOf(u)' = StoredOf(u)
    BY <1>0, KeptType DEF KeptItems, CacheInv, StoredOf
  <2>i. /\ Newest(S, KeptItems) \subseteq zset[u]
        /\ zset[u] \subseteq StoredOf(u)
        /\ Cardinality(zset[u]) <= KeptItems
    BY DEF CacheInv, CacheKeepsNewest
  <2>1. PICK T \in SUBSET S : T = Recent(StoredOf(u))' /\ \A k \in S : (\E m \in T : Later(k, m)) => k \in T
    <3>1. \A m \in StoredOf(u) : m.at \in Nat
      BY DEF StoredOf, CacheInv, ApiTyped, GoodSms
    <3>2. Recent(StoredOf(u))' = {m \in StoredOf(u) : m.at > now + 1 - Window}
      BY <1>0, <2>0 DEF Recent
    <3>3. Recent(StoredOf(u))' \in SUBSET S
      BY <1>0, <3>1, <3>2 DEF Recent
    <3>4. ASSUME NEW k \in S, NEW m \in Recent(StoredOf(u))', Later(k, m)
          PROVE  k \in Recent(StoredOf(u))'
      <4>1. k \in StoredOf(u) /\ m \in StoredOf(u)
        BY <3>2 DEF Recent
      <4> QED
        BY <1>0, <3>1, <3>2, <3>4, <4>1 DEF Later
    <3> QED
      BY <3>3, <3>4
  <2>2. Newest(T, KeptItems) \subseteq Newest(S, KeptItems)
    <3>1. \A m \in T : {k \in T : Later(k, m)} = {k \in S : Later(k, m)}
      BY <2>1
    <3> QED
      BY <2>1, <3>1 DEF Newest
  <2>3. Newest(Recent(StoredOf(u)), KeptItems)' = Newest(T, KeptItems)
    BY <2>0, <2>1 DEF Newest, Later
  <2>4. CASE zset'[u] = zset[u]
    BY <2>0, <2>i, <2>2, <2>3, <2>4
  <2>5. CASE zset'[u] = {} /\ now' >= dies[u]
    <3>1. \A m \in StoredOf(u) : m.at \in Nat /\ m.at + Window <= dies[u]
      BY DEF StoredOf, CacheInv, SetOutlives, ApiTyped, GoodSms
    <3>2. dies[u] \in Nat
      BY DEF CacheInv, ApiTyped
    <3>3. T = {}
      BY <1>0, <2>0, <2>1, <2>5, <3>1, <3>2 DEF Recent
    <3> QED
      BY <2>0, <2>3, <2>5, <3>3, FS_EmptySet DEF Newest
  <2> QED
    BY <2>4, <2>5 DEF ApiTick
<1> QED
  BY <1>1, <1>2 DEF CacheInv

LEMMA FetchKeeps == ASSUME CacheInv, Fetch PROVE CacheInv'
<1>0. UNCHANGED <<maxItems, limit, now, dies, stored>> /\ query' = NoQuery
  BY DEF Fetch, apiConfig
<1>1. PICK v \in ApiUsers : zset' = zset \/ zset' = [zset EXCEPT ![v] = Recent(zset[v])]
  <2>1. OwnerOf[query.key] \in ApiUsers
    BY ApiAssumption DEF CacheInv, ApiTyped, Queries
  <2> QED
    BY <2>1 DEF Fetch
<1>2. ApiTyped' /\ SetOutlives'
  BY <1>0, <1>1, NoQueryType DEF CacheInv, ApiTyped, SetOutlives
<1>3. CacheKeepsNewest'
  <2> SUFFICES ASSUME NEW u \in ApiUsers
               PROVE  /\ Newest(Recent(StoredOf(u)), KeptItems)' \subseteq zset'[u]
                      /\ zset'[u] \subseteq StoredOf(u)'
                      /\ Cardinality(zset'[u]) <= KeptItems'
    BY DEF CacheKeepsNewest
  <2>0. /\ KeptItems' = KeptItems /\ KeptItems \in Nat
        /\ StoredOf(u)' = StoredOf(u)
        /\ Newest(Recent(StoredOf(u)), KeptItems)' = Newest(Recent(StoredOf(u)), KeptItems)
    BY <1>0, KeptType DEF KeptItems, CacheInv, StoredOf, Recent, Newest, Later
  <2>i. /\ Newest(Recent(StoredOf(u)), KeptItems) \subseteq zset[u]
        /\ zset[u] \subseteq StoredOf(u)
        /\ Cardinality(zset[u]) <= KeptItems
    BY DEF CacheInv, CacheKeepsNewest
  <2>1. zset'[u] = zset[u] \/ zset'[u] = Recent(zset[u])
    BY <1>1 DEF CacheInv, ApiTyped
  <2>2. CASE zset'[u] = zset[u]
    BY <2>0, <2>i, <2>2
  <2>3. CASE zset'[u] = Recent(zset[u])
    <3>1. Newest(Recent(StoredOf(u)), KeptItems) \subseteq Recent(zset[u])
      BY <2>i DEF Newest, Recent
    <3>2. Recent(zset[u]) \subseteq zset[u]
      BY DEF Recent
    <3>3. IsFiniteSet(zset[u])
      BY <2>i, StoredOrdered, FS_Subset DEF Ordered, CacheInv
    <3>4. Cardinality(Recent(zset[u])) <= Cardinality(zset[u])
      BY <3>2, <3>3, FS_Subset
    <3>5. Cardinality(zset[u]) \in Nat /\ Cardinality(Recent(zset[u])) \in Nat
      BY <3>2, <3>3, FS_Subset, FS_CardinalityType
    <3>6. Cardinality(Recent(zset[u])) <= KeptItems
      BY <2>0, <2>i, <3>4, <3>5
    <3> QED
      BY <2>0, <2>3, <2>i, <3>1, <3>2, <3>6
  <2> QED
    BY <2>1, <2>2, <2>3
<1> QED
  BY <1>2, <1>3 DEF CacheInv

(* A step that does not touch the cache. *)
LEMMA RestKeeps ==
  ASSUME CacheInv, UNCHANGED <<maxItems, limit, now, zset, dies, stored>>, query' \in Queries
  PROVE  CacheInv'
<1>1. ApiTyped' /\ SetOutlives'
  BY DEF CacheInv, ApiTyped, SetOutlives
<1>2. CacheKeepsNewest'
  BY DEF CacheInv, CacheKeepsNewest, KeptItems, StoredOf, Recent, Newest, Later
<1> QED
  BY <1>1, <1>2 DEF CacheInv

LEMMA AskedLimit == ASSUME ApiTyped, NEW asked \in Nat PROVE Limit(asked) \in Nat
BY ApiAssumption DEF ApiTyped, Limit

LEMMA StepCache == CacheInv /\ [ApiNext]_apiVars => CacheInv'
<1> SUFFICES ASSUME CacheInv, [ApiNext]_apiVars PROVE CacheInv'
  OBVIOUS
<1>0. query \in Queries
  BY DEF CacheInv, ApiTyped
<1>1. ASSUME NEW i \in SmsInputs, NEW id \in 1..MaxSms, RelaySMS(i[1], i[2], i[3], i[4], id)
      PROVE  CacheInv'
  <2> DEFINE m == [id |-> id, at |-> now, from |-> i[1], number |-> i[4],
                   type |-> i[2], enc |-> i[3]]
  <2>1. i[2] = "notify_pc" /\ i[3] = "good"
    BY <1>1 DEF RelaySMS, IsCached, CheckEncryption
  <2>2. GoodSms(m) /\ m.at = now /\ \A k \in stored : k.id # m.id
    BY <1>1, <2>1, ApiAssumption DEF RelaySMS, GoodSms, CacheInv, ApiTyped
  <2>3. CacheSMS(m) /\ UNCHANGED <<maxItems, limit, now, query>>
    BY <1>1 DEF RelaySMS, apiConfig
  <2> HIDE DEF m
  <2>4. CASE UNCHANGED <<zset, dies, stored>>
    BY <1>0, <2>3, <2>4, RestKeeps
  <2> QED
    BY <2>2, <2>3, <2>4, CacheKeeps DEF CacheSMS
<1>2. CASE ApiTick \/ Fetch
  BY <1>2, TickKeeps, FetchKeeps
<1>3. ASSUME NEW k \in ApiKeys, AdminCreateAPIKey(k) \/ AdminRevokeAPIKey(k) PROVE CacheInv'
  BY <1>0, <1>3, RestKeeps DEF AdminCreateAPIKey, AdminRevokeAPIKey, apiConfig
<1>4. ASSUME NEW k \in ApiKeys, NEW asked \in 0..MaxAsked,
             NEW n \in PhoneNumbers \cup {NoNumber}, Ask(k, asked, n)
      PROVE  CacheInv'
  <2>1. asked \in Nat
    BY ApiAssumption
  <2>2. query' \in Queries
    BY <1>4, <2>1, AskedLimit DEF Ask, Queries, CacheInv
  <2> QED
    BY <1>4, <2>2, RestKeeps DEF Ask, apiConfig
<1>5. CASE UNCHANGED apiVars
  BY <1>0, <1>5, RestKeeps DEF apiVars, apiConfig
<1> QED
  BY <1>1, <1>2, <1>3, <1>4, <1>5 DEF ApiNext

THEOREM CacheIsSound == ApiSpec => []CacheInv
<1>1. (\E c \in ApiConfigs : ApiInitWith(c)) => CacheInv
  BY InitCache
<1> QED
  BY <1>1, StepCache, PTL DEF ApiSpec

(* The cache of an account always holds the newest of its messages within  *)
(* the window, and no more than it may, whatever ids the clients choose    *)
(* and however queries, trimming and the end of sets are interleaved       *)
(* (store_sms_cache.go:47-52).                                             *)
THEOREM NewestAreKept == ApiSpec => []CacheKeepsNewest
<1>1. CacheInv => CacheKeepsNewest
  BY DEF CacheInv
<1> QED
  BY <1>1, CacheIsSound, PTL

-----------------------------------------------------------------------------
(* Queries.                                                                *)

(* Stripping the country code makes equal what reaches the same phone.     *)
LEMMA SameNumber ==
  ASSUME NEW a, IsNumber(a), NEW q, IsNumber(q), q # NoNumber
  PROVE  PhoneEqual(a, q) <=> Same(a, q)
<1> SUFFICES ASSUME a # <<>> PROVE StripCN(a) = StripCN(q) <=> Same(a, q)
  BY DEF PhoneEqual, NoNumber, Same
<1>0. /\ \A x : StripCN(<<x>>) = <<x>>
      /\ \A x \in Mobiles : StripCN(<<"86", x>>) = <<x>>
      /\ \A x : x \notin Mobiles => StripCN(<<"86", x>>) = <<"86", x>>
  BY DEF StripCN
<1>1. /\ \A x, y : <<x>> # <<"86", y>>
      /\ \A x, y : <<x>> = <<y>> <=> x = y
      /\ \A x, y : <<"86", x>> = <<"86", y>> <=> x = y
  OBVIOUS
<1>2. (\E x : a = <<x>>) \/ \E x : a = <<"86", x>>
  BY DEF IsNumber
<1>3. (\E x : q = <<x>>) \/ \E x : q = <<"86", x>>
  BY DEF IsNumber, NoNumber
<1>4. Same(a, q) <=> a = q \/ \E n \in Mobiles : /\ a = <<n>> \/ a = <<"86", n>>
                                                 /\ q = <<n>> \/ q = <<"86", n>>
  BY DEF Same, NoNumber
<1> QED
  BY <1>0, <1>1, <1>2, <1>3, <1>4

(* What is in the cache has come from a phone of the account, encrypted,   *)
(* and is no more than a query fetches when max_items is configured.       *)
LEMMA InCache ==
  ASSUME CacheInv, NEW u \in ApiUsers
  PROVE  /\ Ordered(zset[u]) /\ Ordered(Recent(zset[u]))
         /\ Recent(zset[u]) \subseteq zset[u]
         /\ \A m \in zset[u] : GoodSms(m) /\ OwnerOf[m.from] = u
         /\ Cardinality(Recent(zset[u])) <= KeptItems
<1>1. zset[u] \subseteq StoredOf(u) /\ Cardinality(zset[u]) <= KeptItems
  BY DEF CacheInv, CacheKeepsNewest
<1>2. Recent(zset[u]) \subseteq zset[u]
  BY DEF Recent
<1>3. Ordered(zset[u]) /\ Ordered(Recent(zset[u]))
  BY <1>1, <1>2, StoredOrdered, OrderedSubset DEF CacheInv
<1>4. \A m \in zset[u] : GoodSms(m) /\ OwnerOf[m.from] = u
  BY <1>1 DEF StoredOf, CacheInv, ApiTyped
<1>5. Cardinality(Recent(zset[u])) <= KeptItems
  <2>1. Cardinality(Recent(zset[u])) <= Cardinality(zset[u])
    BY <1>2, <1>3, FS_Subset DEF Ordered
  <2>2. Cardinality(zset[u]) \in Nat /\ Cardinality(Recent(zset[u])) \in Nat
    BY <1>3, FS_CardinalityType DEF Ordered
  <2>3. KeptItems \in Nat
    BY KeptType DEF CacheInv
  <2> QED
    BY <1>1, <2>1, <2>2, <2>3
<1> QED
  BY <1>2, <1>3, <1>4, <1>5

LEMMA AskedQuery ==
  ASSUME CacheInv
  PROVE  /\ query.key \in ApiKeys /\ query.limit \in Nat
         /\ OwnerOf[query.key] \in ApiUsers
         /\ query.number = NoNumber \/ IsNumber(query.number)
         /\ FetchLimit(query.limit) \in Int
         /\ maxItems > 0 => FetchLimit(query.limit) \in Nat /\ KeptItems <= FetchLimit(query.limit)
<1>1. query \in Queries /\ maxItems \in Int
  BY DEF CacheInv, ApiTyped
<1>2. query.key \in ApiKeys /\ query.limit \in Nat /\ query.number \in PhoneNumbers \cup {NoNumber}
  BY <1>1 DEF Queries
<1> QED
  BY <1>1, <1>2, ApiAssumption DEF FetchLimit, KeptItems

LEMMA FetchesAll ==
  ASSUME CacheInv, maxItems > 0
  PROVE  Fetched = Newest(Recent(StoredOf(OwnerOf[query.key])), KeptItems)
<1> DEFINE u == OwnerOf[query.key]
           S == Recent(StoredOf(u))
           Z == Recent(zset[u])
           F == FetchLimit(query.limit)
<1>0. u \in ApiUsers /\ F \in Nat /\ KeptItems \in Nat /\ KeptItems <= F
  BY AskedQuery, KeptType DEF CacheInv
<1>1. Ordered(Z) /\ Cardinality(Z) \in Nat /\ Cardinality(Z) <= KeptItems
  BY <1>0, InCache, FS_CardinalityType DEF Ordered
<1>2. Newest(Z, F) = Z
  <2>1. Cardinality(Z) <= F
    BY <1>0, <1>1
  <2> HIDE DEF Z, F
  <2> QED
    BY <1>0, <1>1, <2>1, NewestOfSmall
<1>3. Z \subseteq S
  BY <1>0 DEF CacheInv, CacheKeepsNewest, Recent
<1>4. Newest(S, KeptItems) \subseteq Z
  <2>1. Newest(S, KeptItems) \subseteq zset[u]
    BY <1>0 DEF CacheInv, CacheKeepsNewest
  <2> QED
    BY <2>1 DEF Newest, Recent
<1>5. Ordered(S)
  BY StoredOrdered DEF CacheInv
<1>6. Z = Newest(S, KeptItems)
  <2> HIDE DEF Z, S
  <2> QED
    BY <1>0, <1>1, <1>3, <1>4, <1>5, NewestIsAll
<1> QED
  BY <1>2, <1>6 DEF Fetched

(* A query misses no message that matches it because newer ones do not:    *)
(* what is fetched before the filter is all that the cache may hold        *)
(* (openapi_http.go:183-191), as long as max_items is configured.          *)
THEOREM QueriesFindAll == ApiSpec => []QueryFindsAll
<1>1. CacheInv => QueryFindsAll
  <2> SUFFICES ASSUME CacheInv, maxItems > 0 PROVE Answer = Wanted
    BY DEF QueryFindsAll
  <2> DEFINE N == Newest(Recent(StoredOf(OwnerOf[query.key])), KeptItems)
             Asked(m) == /\ KeyPhone[query.key] \in {AnyPhone, m.from}
                         /\ query.number = NoNumber \/ Same(m.number, query.number)
  <2>1. Fetched = N
    BY FetchesAll
  <2>2. \A m \in N : IsNumber(m.number) /\ m.from \in Phones
    BY DEF Newest, Recent, StoredOf, CacheInv, ApiTyped, GoodSms
  <2>3. \A m \in N : Matches(m) <=> Asked(m)
    <3> TAKE m \in N
    <3>1. query.number # NoNumber =>
            (PhoneEqual(m.number, query.number) <=> Same(m.number, query.number))
      BY <2>2, AskedQuery, SameNumber
    <3> HIDE DEF N
    <3>2. (KeyPhone[query.key] # AnyPhone => m.from = KeyPhone[query.key])
            <=> KeyPhone[query.key] \in {AnyPhone, m.from}
      OBVIOUS
    <3> QED
      BY <3>1, <3>2 DEF Matches
  <2>4. {m \in Fetched : Matches(m)} = {m \in N : Asked(m)}
    <3> HIDE DEF N, Asked
    <3> QED
      BY <2>1, <2>3
  <2> QED
    BY <2>4 DEF Answer, Wanted
<1> QED
  BY <1>1, CacheIsSound, PTL

(* The open API gives away ciphertext only, of the account of the key and  *)
(* of the phone it is limited to, and at most limit messages               *)
(* (openapi_http.go:206, main.go:930-934).                                 *)
THEOREM AnswersKeepToTheKey == ApiSpec => []AnswersAreEntitled
<1>1. CacheInv => AnswersAreEntitled
  <2> SUFFICES ASSUME CacheInv
               PROVE  /\ \A m \in Answer : /\ m.enc = "good" /\ m.type = "notify_pc"
                                           /\ OwnerOf[m.from] = OwnerOf[query.key]
                                           /\ KeyPhone[query.key] \in {AnyPhone, m.from}
                      /\ Cardinality(Answer) <= query.limit
    BY DEF AnswersAreEntitled
  <2> DEFINE u == OwnerOf[query.key]
             M == {m \in Fetched : Matches(m)}
  <2>0. u \in ApiUsers /\ query.limit \in Nat
    BY AskedQuery
  <2>1. M \subseteq zset[u] /\ Answer \subseteq M
    BY DEF Fetched, Newest, Recent, Answer
  <2>2. Ordered(M) /\ \A m \in M : GoodSms(m) /\ OwnerOf[m.from] = u
    BY <2>0, <2>1, InCache, OrderedSubset
  <2>3. \A m \in M : KeyPhone[query.key] \in {AnyPhone, m.from}
    BY DEF Matches
  <2>4. Cardinality(Answer) <= query.limit
    <3> HIDE DEF M
    <3> QED
      BY <2>0, <2>2, NewestBound DEF Answer, M
  <2> QED
    BY <2>1, <2>2, <2>3, <2>4 DEF GoodSms
<1> QED
  BY <1>1, CacheIsSound, PTL
=============================================================================
