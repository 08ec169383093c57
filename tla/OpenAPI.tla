------------------------------- MODULE OpenAPI -------------------------------
(***************************************************************************)
(* The cache of encrypted text messages and the open API that answers from *)
(* it: cacheSMSCipherForUser (main.go 938-975), the sorted set in Redis    *)
(* (store_sms_cache.go), keys (store_apikey.go) and openAPIQuerySMS with   *)
(* its administration (openapi_http.go).                                   *)
(*                                                                         *)
(* A phone number is <<n>> or <<"86", n>>, and <<>> when there is none.    *)
(* Sender and receiver are filtered alike: there is one number here.  A    *)
(* query that the limiter refuses changes nothing here (see LoginLimiter). *)
(***************************************************************************)
EXTENDS E2EE, Integers, Sequences, FiniteSets

CONSTANTS
  ApiUsers,      \* accounts
  Phones,        \* devices that relay text messages
  ApiKeys,       \* keys that administrators may create
  OwnerOf,       \* the account of a phone or of a key
  KeyPhone,      \* the phone a key is limited to, or AnyPhone
  AnyPhone,
  KeyUntil,      \* when a key expires
  Mobiles,       \* numbers of eleven digits
  PhoneNumbers,  \* numbers that queries ask for
  SmsInputs,     \* messages that may arrive: <<phone, type, envelope, number>>
  ApiConfigs,    \* configurations: <<enabled, max_items, limit>>
  Window,        \* public_api.cache_ttl
  Spare,         \* what the set itself lives longer: one minute
  DefaultItems,  \* 20 ...
  DefaultLimit,  \* ... and 20
  MaxSms,        \* bound: messages
  MaxNow,        \* bound: clock
  MaxAsked       \* bound: ?limit=

IsNumber(n) == n = <<>> \/ n = <<n[1]>> \/ n = <<"86", n[2]>>

ASSUME ApiAssumption ==
  /\ ApiKeys # {}
  /\ \A x \in Phones \cup ApiKeys : OwnerOf[x] \in ApiUsers
  /\ \A k \in ApiKeys : KeyPhone[k] \in Phones \cup {AnyPhone}
  /\ AnyPhone \notin Phones
  /\ \A n \in PhoneNumbers : IsNumber(n)
  /\ \A i \in SmsInputs : i[1] \in Phones /\ IsNumber(i[4])
  /\ \A c \in ApiConfigs : c[1] \in BOOLEAN /\ {c[2], c[3]} \subseteq Int
  /\ {Window, DefaultItems, DefaultLimit} \subseteq Nat \ {0}
  /\ {Spare, MaxSms, MaxNow, MaxAsked} \subseteq Nat

VARIABLES
  enabled, maxItems, limit,  \* public_api, as configured
  now,        \* the clock
  zset,       \* the cached messages of an account
  dies,       \* when Redis drops the whole set of an account
  stored,     \* history: every message that the cache has accepted
  keys,       \* the rows of api_keys: "none", "live" or "revoked"
  query       \* the query in progress

apiConfig == <<enabled, maxItems, limit>>
apiVars == <<apiConfig, now, zset, dies, stored, keys, query>>

-----------------------------------------------------------------------------
(* Sorted sets: by second of arrival, then by member, which starts with    *)
(* the message's id.                                                       *)
Later(k, m) == k.at > m.at \/ (k.at = m.at /\ k.id > m.id)

Newest(S, n) == {m \in S : Cardinality({k \in S : Later(k, m)}) < n}

Recent(S) == {m \in S : m.at > now - Window}

KeptItems == IF maxItems <= 0 THEN DefaultItems ELSE maxItems

Trim_OffByOne(S) == Newest(S, KeptItems - 1)

(* ZREMRANGEBYRANK 0 -(maxItems+1) *)
Trim(S) == Newest(S, KeptItems)

(* EXPIRE *)
Lifetime == Window + Spare

IsCached_AnyType(type, enc) == enc = "good"

(* What is kept for the open API, of all that is relayed. *)
IsCached(type, enc) == CheckEncryption(enc, FALSE) = "encrypted" /\ type = "notify_pc"

(* CacheSMSCipher, one transaction; a failure is logged and the message is *)
(* not in the cache.                                                       *)
CacheSMS(m) ==
  LET u == OwnerOf[m.from]
  IN \/ /\ zset' = [zset EXCEPT ![u] = Trim(Recent(@ \cup {m}))]
        /\ dies' = [dies EXCEPT ![u] = now + Lifetime]
        /\ stored' = stored \cup {m}
     \/ UNCHANGED <<zset, dies, stored>>

(* readPump relays a message and keeps a copy.  Ids are the clients'; they *)
(* come in any order.                                                      *)
RelaySMS(phone, type, enc, number, id) ==
  /\ \A m \in stored : m.id # id
  /\ enabled
  /\ IsCached(type, enc)
  /\ CacheSMS([id |-> id, at |-> now, from |-> phone, number |-> number,
               type |-> type, enc |-> enc])
  /\ UNCHANGED <<apiConfig, now, keys, query>>

(* A second passes.  Redis drops a set that has come to its end. *)
ApiTick ==
  /\ now < MaxNow
  /\ now' = now + 1
  /\ zset' = [u \in ApiUsers |-> IF now' >= dies[u] THEN {} ELSE zset[u]]
  /\ UNCHANGED <<apiConfig, dies, stored, keys, query>>

-----------------------------------------------------------------------------
(* Keys. *)

AdminCreateAPIKey(k) ==
  /\ keys[k] = "none"
  /\ keys' = [keys EXCEPT ![k] = "live"]
  /\ UNCHANGED <<apiConfig, now, zset, dies, stored, query>>

(* The row is deleted.  (Nothing sets the disabled column.) *)
AdminRevokeAPIKey(k) ==
  /\ keys[k] = "live"
  /\ keys' = [keys EXCEPT ![k] = "revoked"]
  /\ UNCHANGED <<apiConfig, now, zset, dies, stored, query>>

-----------------------------------------------------------------------------
(* A query. *)

NoNumber == <<>>

StripCN(n) == IF Len(n) = 2 /\ n[2] \in Mobiles THEN Tail(n) ELSE n

(* Both present, and equal but for the country code of a mobile number.    *)
PhoneEqual(a, q) == a # NoNumber /\ q # NoNumber /\ StripCN(a) = StripCN(q)

(* ?limit= only narrows. *)
Limit(asked) ==
  LET most == IF limit <= 0 THEN DefaultLimit ELSE limit
  IN IF asked > 0 /\ asked < most THEN asked ELSE most

FetchLimit_Limit(n) == n

FetchLimit(n) == IF maxItems < n THEN n ELSE maxItems

Usable(k) == keys[k] = "live" /\ now <= KeyUntil[k]

NoQuery == [pc |-> "idle", key |-> CHOOSE k \in ApiKeys : TRUE, limit |-> 1,
            number |-> NoNumber]

(* A query comes, and its key is looked up.  (When it is not usable, or    *)
(* the interface is off, the query is refused.)                            *)
Ask(k, asked, number) ==
  /\ query.pc = "idle"
  /\ enabled
  /\ Usable(k)
  /\ query' = [pc |-> "fetching", key |-> k, limit |-> Limit(asked), number |-> number]
  /\ UNCHANGED <<apiConfig, now, zset, dies, stored, keys>>

Matches(m) ==
  /\ KeyPhone[query.key] # AnyPhone => m.from = KeyPhone[query.key]
  /\ query.number # NoNumber => PhoneEqual(m.number, query.number)

Fetched == Newest(Recent(zset[OwnerOf[query.key]]), FetchLimit(query.limit))

(* The answer to the query, if the cache is read now. *)
Answer == Newest({m \in Fetched : Matches(m)}, query.limit)

(* RecentSMSCipher, and the query is answered; or the cache cannot be read. *)
Fetch ==
  /\ query.pc = "fetching"
  /\ query' = NoQuery
  /\ \/ zset' = [zset EXCEPT ![OwnerOf[query.key]] = Recent(@)]
     \/ UNCHANGED zset
  /\ UNCHANGED <<apiConfig, now, dies, stored, keys>>

-----------------------------------------------------------------------------
ApiInitWith(config) ==
  /\ enabled = config[1] /\ maxItems = config[2] /\ limit = config[3]
  /\ now = 0
  /\ zset = [u \in ApiUsers |-> {}]
  /\ dies = [u \in ApiUsers |-> 0]
  /\ stored = {}
  /\ keys = [k \in ApiKeys |-> "none"]
  /\ query = NoQuery

ApiNext ==
  \/ \E i \in SmsInputs, id \in 1..MaxSms : RelaySMS(i[1], i[2], i[3], i[4], id)
  \/ ApiTick
  \/ \E k \in ApiKeys : \/ AdminCreateAPIKey(k) \/ AdminRevokeAPIKey(k)
                        \/ \E asked \in 0..MaxAsked, n \in PhoneNumbers \cup {NoNumber} :
                             Ask(k, asked, n)
  \/ Fetch

ApiSpec == (\E c \in ApiConfigs : ApiInitWith(c)) /\ [][ApiNext]_apiVars

-----------------------------------------------------------------------------
(* Correctness. *)

StoredOf(u) == {m \in stored : OwnerOf[m.from] = u}

(* The cache of an account is always at least the newest of its messages   *)
(* within the window, as many as it may hold, and at most that many: no    *)
(* trimming and no end of the set ever takes a message too early, also     *)
(* among messages of one second (store_sms_cache.go:47-52).                *)
CacheKeepsNewest ==
  \A u \in ApiUsers :
    /\ Newest(Recent(StoredOf(u)), KeptItems) \subseteq zset[u]
    /\ zset[u] \subseteq StoredOf(u)
    /\ Cardinality(zset[u]) <= KeptItems

(* Whoever dials either number reaches the same phone. *)
Same(a, q) ==
  a # NoNumber /\ (a = q \/ \E n \in Mobiles : {a, q} \subseteq {<<n>>, <<"86", n>>})

(* The messages a query should be answered with, from all that was ever    *)
(* accepted.                                                               *)
Wanted ==
  Newest({m \in Newest(Recent(StoredOf(OwnerOf[query.key])), KeptItems) :
            /\ KeyPhone[query.key] \in {AnyPhone, m.from}
            /\ query.number = NoNumber \/ Same(m.number, query.number)},
         query.limit)

(* Whenever the cache is read, a query misses no message that matches it   *)
(* because newer ones do not, and gets the newest (openapi_http.go:        *)
(* 183-191), as long as max_items is configured.                           *)
QueryFindsAll ==
  query.pc = "fetching" /\ maxItems > 0 => Answer = Wanted

(* Not so: openapi_http.go:184 says that taking only limit messages before *)
(* filtering would miss some.  With max_items at zero the cache keeps its  *)
(* default number, and the query takes only limit.                         *)
QueryAlwaysFindsAll == query.pc = "fetching" => Answer = Wanted

(* What the open API gives away is ciphertext, of the account of the key   *)
(* and of the phone it is limited to, and at most limit messages           *)
(* (openapi_http.go:206, main.go:930-934).                                 *)
AnswersAreEntitled ==
  query.pc = "fetching" =>
    /\ \A m \in Answer : /\ m.enc = "good" /\ m.type = "notify_pc"
                         /\ OwnerOf[m.from] = OwnerOf[query.key]
                         /\ KeyPhone[query.key] \in {AnyPhone, m.from}
    /\ Cardinality(Answer) <= query.limit
=============================================================================
