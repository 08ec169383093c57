# ClipSync server: TLA+ models, checks and proofs

ClipSync-Server relays clipboard text, SMS and notifications between the devices of one
account over WebSocket. This directory holds TLA+ models of its source, TLC configurations
that check them on small instances, and proofs checked by TLAPS. The models are translated
from the Go code; `PROJECT.json` maps every definition to the lines it stands for. Line
numbers below are those of `src/`.

    tlc -workers 2 -config HubLifecycle.cfg MCHub.tla      # one run
    for m in *Proofs.tla ; do tlapm $m ; done              # the proofs

## 1. Inventory

| component | state | operations | source |
|---|---|---|---|
| Connection hub | `Hub.clients`; per connection `replaced`, `grace`, `name`, `send`, the socket, the grace timer | register, unregister, finalizeGrace, broadcastPresence, sendPresenceTo, route, push, rename, kick, readPump, writePump | main.go |
| Online registry | one Redis hash per account: device -> role, with one TTL | MarkOnline, MarkOffline, keepOnline, OnlineCount | store_redis.go, main.go 1284-1348 |
| Sessions and tokens | one MySQL session row per account; in Redis token -> account, account -> token, the plain token | Login, AuthenticateToken, Logout, ChangePassword, InvalidateSessions, purge | auth_service.go, store_mysql.go, store_redis.go |
| Accounts | the users table | register, create by an administrator, bootstrapUser | auth_service.go, auth_http.go, admin_http.go |
| Device admission | the devices table: name, disabled | EnsureDeviceAllowed, disable, enable, delete, rename, kick | auth_service.go, store_device.go, admin_http.go |
| Admin channel | a Redis Pub/Sub subscription | publish, subscribe, reconnect with back-off | store_redis.go 195-300, main.go 1585-1646 |
| Device listing | none of its own; an answer is made of several readings of the table and the hub | adminListAllDevices, ListAllDevices, allOnlinePairs, allOnlineDeviceIDs | admin_http.go 121-190, store_device.go 152-225, main.go 314-340 |
| SMS cache, open API | a sorted set per account; API keys | CacheSMSCipher, RecentSMSCipher, query, create, revoke | store_sms_cache.go, openapi_http.go, store_apikey.go |
| Rate limiter | times of the attempts per IP or key | allow | auth_http.go 13-47 |
| Message gate | none | parseEnvelope, checkEncryption, sanitizeSmsPayload, previews | e2ee.go, main.go 697-1153 |
| Log rotation | the current file, its day, the archives | Write, openToday, archiveFile, cleanupExpired | logger.go |
| Configuration | none after start | LoadConfig, applyEnvOverrides | config.go |
| Hashes, schema, entry point, deployment | none | - | auth_crypto.go, deploy/, main.go 1488-1718 |

How they interact. An HTTP login checks the password, asks the online registry whether the
account has a client (then the same token is handed out again) and writes the session. A
WebSocket handshake (`wsHandler`) authenticates the token, admits the device, reads its name
from MySQL (and takes the client's if it finds none), marks it online in Redis, registers in the hub, and starts `writePump` and
`keepOnline` beside its own `readPump`. When `readPump` ends the connection is unregistered and
marked offline unless it was replaced. Administrators act by HTTP and by the admin channel: both
end in the hub (kick), in MySQL (disable, delete) and in the session store (invalidate).
`ChangePassword` publishes on the same admin channel that the server itself reads.

What is hard. The hub is one map under a `sync.RWMutex`, but almost nothing is done in one
critical section: sockets are closed, lists are broadcast and names are applied after the lock is
released, and every connection has up to four goroutines (reader, writer, keepOnline, timer).
The registry and the session store are several Redis and MySQL commands per operation with no
transaction around them. The admin channel loses what is published while nobody listens.
Each place where this bites is listed under `hazards` in `PROJECT.json`, with the property that
would catch it, or the reason why none does.

What makes each component correct:

- hub: never a send on a closed channel; one connection per device; a working connection is
  listed and never removed by a late timer; nothing is kept in grace for ever; the clients end up
  with the current list; nothing crosses accounts; dead and replaced connections end.
- registry: the entry of a working device is missing for a beat of its keeper at most, and the hash
  does not expire under it; an account without clients stops counting as online.
- sessions: a token that was given up is never accepted again; a logout is final; only issued
  tokens are handed out; the documentation adds that an invalidation ends all tokens of an account
  and that a change of password answers with a good one (section 4 says what the code does).
- accounts: who is told that an account was created has it, with that password.
- admission: a disabled device has no working connection, and only a command ends a ban.
- listing: an answer is what the filters mean, although it is put together from the table and the hub
  at different moments; turning its pages shows all of it.
- SMS cache and open API: the newest messages of the window are kept and found; only ciphertext of
  the key's account and phone is given away.
- limiter: exactly the attempts that keep every minute within the limit are allowed.
- gate: sanitising takes nothing but what it announces; no plaintext passes when encryption is
  required.
- rotation: no accepted line is lost or filed under another day, whatever fails.

## 2. Modules

| module | what it is |
|---|---|
| `DeviceDirectory` | abstract: a device is absent, online or leaving; what the hub promises about its list |
| `Hub` | the hub: the goroutines of every connection, the grace timer, the send queues, rename, push and kick requests, and the properties |
| `MCHub` | the instances: `c1` and `c2` are two connections of the phone `dA`, `c3` one of the computer `dB`, `c4` one of a third device `dC` |
| `HubProofs` | the theorems about `Hub` and their proofs |
| `TokenAuthority` | abstract: a token is fresh, live, in limbo or dead, and death is final |
| `AuthSession` | the session of one account: five kinds of request and the subscriber of the admin channel over a MySQL row and Redis keys |
| `AuthProofs` | the theorems about `AuthSession` and their proofs |
| `OnlineRegistry` | the hash of online devices of one account in Redis: handlers, keepers, the TTL, crashes and failing commands |
| `MCRegistry`, `RegistryProofs` | its instances; the theorems about it and their proofs |
| `DeviceAdmission` | the devices table against handshakes, administrators' commands by HTTP and by channel, and the life of connections |
| `AdmissionProofs` | the theorems about it and their proofs |
| `DeviceListing` | an administrator who turns the pages of the device list, step by step, while table and hub change |
| `ListingProofs` | the theorems about it and their proofs |
| `MCDevices` | instances of `DeviceAdmission` and `DeviceListing`, one of which runs in a behaviour |
| `E2EE`, `MessageGate` | the encryption gate; what becomes of one message on the two ways in |
| `OpenAPI` | the cache of encrypted text messages, API keys and queries |
| `LoginLimiter`, `LogRotation`, `Accounts` | the sliding window; the rotating log writer; how accounts come to be |
| `MCServices` | the last five together, with their instances |
| `OpenAPIProofs`, `LogRotationProofs` | the theorems about these two and their proofs |
| `ServicesProofs` | the theorems about `LoginLimiter`, `MessageGate` and `Accounts` |
| `Filtering` | what is left of a sequence when only the members of a set stay, used by `MessageGate` |

How they compose. The program's parts meet in the hub, and each of the other modules keeps of the
hub what it depends on:

- `OnlineRegistry` keeps per connection whether the hub serves it, holds it in grace or has
  replaced it (`hub`, `replaced`); its `Register`, `Unregister` and `FinalizeGrace` are what those
  of `Hub` do to these.
- `DeviceAdmission` keeps where a connection is between its handshake and its end (`pc`), with
  `Register`, the kick and the grace period.
- `DeviceListing` keeps of the hub which devices have a connection in it (`inHub`) and of the table
  what the query reads. Both change at any time, by steps that are those of `Hub` and
  `DeviceAdmission` with most of their guards left out: more behaviours, and no property needs them.
- `AuthSession` shares no state with the hub: whether a client is online, which a login asks, is a
  free choice there, and the `kickUser` that follows an invalidation is a request of `Hub` and a
  command of `DeviceAdmission` that may come at any time.
- `MessageGate` filters sequences with `Only` of `Filtering`. It is SelectSeq for a
  test of membership, written as a recursive function because the provers know nothing of SelectSeq.
- `MessageGate` decides before `Hub!ReadFrame` and `Hub!Push` whether there is anything to route;
  `OpenAPI` uses the same gate (`E2EE`) for what it keeps.

### Hub and the code

One action is one critical section of `Hub.mu` or one step taken outside it, so that every
interleaving the lock allows is an interleaving of actions.

The handler goroutine of a connection (`pc`):

| `pc` | action leaving it | code |
|---|---|---|
| new | `Handshake` | wsHandler up to the new `Client`; its name is read from MySQL here, or is the one the client reports if the lookup fails or finds none |
| registering | `Register` | the locked part of `register`: take out and mark every connection of the device, stop its timer, put in the new one |
| closing | `CloseStale` | `register` outside the lock: close the old sockets, one step each |
| announcing | `Announce` | `broadcastPresence` after an arrival that replaced no grace connection |
| snapshot, sending | `Snapshot`, `SendSnapshot` | `sendPresenceTo` after a silent return: the list is built under the read lock, sent after it |
| reading | `ReadPing`, `ReadFrame`, `ReadError` | `readPump` |
| routing | `Route` | `route` |
| unregistering | `Unregister` | `unregister`: close the channel; unless replaced, enter grace and arm the timer |
| leaving | `Leave` | the deferred close of the socket |

The timer (`timer`): `TimerFires`, `FinalizeGrace` (locked), `AnnounceDeparture` (the broadcast
after it). A timer that has fired cannot be stopped: `TimersStopped` changes armed timers only.
The writer (`wp`): `WriteMessage`, `StopWriting`. The socket (`sock`) is up, dead (the peer is
gone and nobody noticed: `PeerDies`) or closed. Requests (`req`): `Push`, `SaveName` - `ApplyName`
- `AnnounceName` (the rename handler), `KickUser`/`KickDevice` - `SendKick`.

What is abstracted, and why nothing is lost:

- A device is a (user_id, device_id) pair, and a connection identifier is used once; a
  reconnect is another connection of the same device. `OnlineAt` is a constant because creation
  times are only compared, by `Dedup`.
- A list entry is a connection and its name: platform, ip, online_at and caps belong to the
  connection and never change. The `self` flag of an entry is a function of entry and receiver.
- A message is its type and origin. The `send` queue keeps the place of a presence list, and
  `told` the list put in last: the queue is FIFO, so that is what the client ends with. `lost`
  says that the last one met a full queue (the log line "presence dropped"), `overtaken` that a
  broadcast came between the building and the sending of the list of a silent return (it is taken
  back by the next broadcast). `told`, `lost` and `overtaken` (`toldVars`) are history: no action
  reads them. `silent` is register's local variable `replacedGrace`, reset when the connection ends.
- Frames refused by the message gate change no state of the hub and are left out; so is the kick
  frame written before the close, which goes to the socket and not through the queue.
- `writeMu` serialises writes to one socket and guards no state that a property mentions.
- Handshakes that are refused never reach the hub; MarkOnline and MarkOffline belong to the
  online registry and change nothing here.

### AuthSession and the code

One action is one command sent to Redis or MySQL; CacheToken and DropToken, which are one
transaction and one `DEL` of two keys, are one command each. A request is at the label (`pc`) of
the command to come:

| label | action | code (auth_service.go) |
|---|---|---|
| counting, reading, comparing | `CountOnline`, `ReadSession`, `ComparePlain` | Login: OnlineCount, GetSession, LoadPlainToken, and the same token handed out again |
| issuing, caching, storing | `Issue`, `CacheNew`, `StorePlain` | Login and ChangePassword: UpsertSession, CacheToken, StorePlainToken |
| looking, finding | `LookupToken`, `FindUser` | AuthenticateToken and Logout |
| timing, backfilling | `TimeLeft`, `Backfill` | AuthenticateToken: GetSession and CacheToken after a miss |
| updating | `UpdatePassword` | ChangePassword: FindUserByID, the old password, UpdatePassword |
| indexing | `ReadIndex` | InvalidateSessions: which token the reverse index names |
| deleting, dropping, unplain | `DeleteSession`, `DropToken`, `DropPlain` | Logout, ChangePassword, InvalidateSessions, in the order of each |
| publishing | `PublishKickUser` | ChangePassword |

`Arrive` starts a request, `Receive` lets the subscriber (main.go:1585-1646) take the next kick_user
message and run InvalidateSessions; it handles one message at a time. `AfterError` is the error
handling of the code: some errors end the request, some are ignored (`_ =`), a failed cache lookup
falls back to the database. `SessionExpires` and `KeyGoes` are the TTLs, the hourly purge, an
eviction and a restart of Redis. A crash of the server, or a client that goes away, is a request
that takes no further step; no fairness is assumed, so every prefix of a request is covered.

What is abstracted, and why nothing is lost:

- One account: rows and keys carry the user id or a token hash, and tokens are random.
- A token stands for its hash (injective); an expired session row is an absent one, since every
  query compares `expires_at`.
- Passwords: verification is a free choice. A user's `disabled` flag is not modelled; it makes
  requests end before they have an effect.
- `channel` counts kick_user messages: they carry nothing else that matters here. Other messages
  concern devices.
- A command that fails has no effect, or has had it: the comment at `Fail` says why the second
  needs no action. One that takes effect only after the server has gone on is not modelled.
- `issued` and `handed` are history: which tokens `NewToken` returned, and which ones clients may
  bring.

### OnlineRegistry and the code

One action is one Redis command or one critical section of the hub. The handler (`pc`):
`ArriveOnline` (MarkOnline in the handshake: HSET and EXPIRE in one transaction), `Register`,
`Unregister`, `Decide` (the deferred function leaves the entry of a replaced connection alone),
then the three commands of MarkOffline, `RemoveField` (HDEL), `CountFields` (HLEN), `DeleteHash`
(DEL). The keeper (`keep`): `KeepChecks` under the read lock, `KeepWrites` after it. Time is
counted in intervals of keepOnline, a third of `online_ttl_sec`: `Tick` ends one, takes one from
the hash's life and makes every keeper due; `gap` is history, the number of intervals for which a
live connection's device was missing. Faults: any command may fail (`Failing`), `LoseHash` is Redis
without its data, `Crash` the server killed with no deferred function run; connections that come
after a crash are the clients' reconnects.

A tick waits for the beats that are due and for a register that follows MarkOnline: a beat has a
timeout of 3 s and an interval is 30 s unless configured otherwise, and register waits for the lock
only. If a beat took longer than an interval, the properties would count it as missed. Handlers,
on the other hand, may stay between any two commands for as long as they like.

### DeviceAdmission and the code

`UpsertDevice`, `CheckDisabled`, `Register` are the statements of EnsureDeviceAllowed and the hub's
register; `Disconnect` ends the service and the grace. A command (`cmd`) is run by an administrator's
request (`ByHTTP`) or, received one by one, by the subscriber (`ByChannel`, `Receive`); its steps
are `SetStatus` and `ConfirmExists` (UpdateDeviceStatus), `LookDisabled`, `KickConns`, `DeleteRow`
(deleteDeviceSafely). Both ways run the same code from there on, as the program does.
Statements fail in `FailCommand` and inside the handshake's actions; the subscription breaks in
`LoseLink`, with what it had received or without. KickConns closes all targets in one step: that kicks
come one after the other is in `Hub`, and a connection registered in between is not a target either way.
`overtaken` and `unchecked` are history: how a connection of a disabled device can have come into
service.

### DeviceListing and the code

A page is `TakePairs` (allOnlinePairs, if there is an online filter), `Count` and `Select` (the two
queries of ListAllDevices, with the same WHERE clauses and the same `pairs`) and `Mark`
(allOnlineDeviceIDs and the answer); `Fail` is an error of either query. Before, between and after them a
device connects (`Seen`, the upsert of its handshake), is banned or enabled (`Switch`), deleted (`Delete`),
or enters or leaves the hub (`ComeOrGo`). The pages belong to one administrator, whose page-turning
is not in this repository: after page 1 comes page 2, and so on until the total that was answered
says that there are no more.

Rows are ordered by `last_seen_at` alone, a DATETIME of one second (store_device.go:42, 206). `second` is
MySQL's clock and `Orders` the set of all orders that this leaves: `Select` takes any of them, another one
for every page. That clock does not go back here; a NOW() that does would only put devices where no
property looks for them, since one that connects is not `steady`. Keyword and user are filters on data
that the row keeps, as `disabled` is, and are not modelled beside it.

History: `touched` are the devices that changed since the page was asked for, `shown` those on the pages so
far, `listed` the rows that matched at the last SELECT, `steady` those of them that matched at each,
never connected in between and shared their second with no other, `lost` says that a row that had matched
for one page did not for the next: each of the following ones then moves up by one place, and one of
them is skipped.

### The services and the code

- `MessageGate`: a text is a sequence of pieces - a block in brackets with a number, a signature in
  brackets, a merge hint, an ellipsis, a word - because these are what the regular expressions of
  sanitizeSmsPayload tell apart; the block `short86` has three digits only with its country code,
  which the rule that finds the sender does not take and the rule that cleans does. Arrivals are all
  texts up to `MaxText` pieces with all flags. One action handles one message as a whole: the code
  between arrival and routing touches nothing shared.
- `OpenAPI`: `CacheSMS` is the one transaction ZADD, ZREMRANGEBYSCORE, ZREMRANGEBYRANK, EXPIRE; a
  query is `Ask` (the key is looked up) and `Fetch` (the cache is read and answered), with the clock,
  new messages and revocations in between. Members of one second are ordered by id, as Redis orders
  them by member. Sender and receiver filters are alike; one stands for both.
- `LoginLimiter`: `Allow` is the whole critical section. The slice of times is a set of attempts with
  their times: the code never uses its order.
- `LogRotation`: a file is the sequence of its lines. Write is `BeginWrite`, `ArchiveOld`,
  `ArchiveFound`/`OpenFile` (openToday), `CleanupExpired`, `WriteLine`; newDailyRotatingWriter runs
  the same from `StartWriter`. openToday has one time for its comparison and for currentDay
  (`openDay`), the others ask the clock. Between any two the clock may move (`ClockTick`, also back) and the
  process be killed. An archive that fails is left as it was or half copied; a removal that fails
  leaves the archive to the next cleanup. `open` says that the writer has a file: a Write that could
  not open one leaves it with nil, and if the clock then goes back to the day before, the next Write
  finds nothing to rotate and fails (`WriteFails`). Days are local days, but the day in the name of an
  archive is parsed as midnight UTC and the cutoff is local time (logger.go:192, 222): `Borders` says by
  how much that can be off at some hour, in a `zone` east of UTC or at it, and in one west of it. The
  Dockerfile sets UTC and docker-compose.yml Asia/Shanghai, but TZ is the user's to set. The zone
  does not change while the archives are there. `late` says that midnight passed between the check of
  the day and the writing of some line; the file that this line is in may go under either day, so from
  then on nothing is said of days.
- `Accounts`: a request is checked and inserts; a start of a server looks and then inserts
  (`BootFind`, `BootCreate`), while another server may serve requests on the same table.

## 3. Runs

Bounds of `Hub`: `Conns`, `Devices`, `Users`, `Names`, `Requests` are the sets below; `QueueCap` is
the capacity of `send`; `MaxFrames` bounds the frames and pings that are read in all. Bounds of
`AuthSession`: the set `Requests`, each made once, and the set `Tokens`, each issued once; `Kinds`
selects the kinds of request. `MaxFaults` (`OnlineRegistry`, `DeviceAdmission`) and `MaxBreaks`
(`LogRotation`) bound failures; `MaxSms`, `MaxNow`, `MaxAsked`, `MaxAttempts`, `MaxTime`, `MaxDay`,
`MaxBack`, `MaxLines`, `MaxBoots`, `MaxText`, `MaxPreview`, `MaxSecond`, `MaxChanges` bound what their
names say. No other bound.

| run | instance | shows |
|---|---|---|
| hub_lifecycle | 3 connections (2 of dA), 1 account, `QueueCap` 1 | `TypeOK`, `HubInv` and its parts, `ViewConverges`, refinement of the directory |
| hub_traffic | 3 devices, 2 of them of one account, 2 frames or pings | `UserIsolation`; no route or pong on a closed channel |
| hub_names | 2 devices, 2 names, 2 concurrent requests | `ToldNamesAreCurrent`; no push on a closed channel |
| hub_liveness | 2 connections of dA, 1 request, 1 frame, fair | `ImplementsDirectory`, `BrokenConnEnds`, `EchoOnlyIfReplaced` |
| hub_stale_list | 3 connections (2 of dA), the smallest that shows it | the first finding below |
| auth_tokens | 3 requests of any kind and the subscriber, 2 tokens, failures, expiry | `TypeOK`, `LogoutEndsToken`, refinement of `TokenAuthority` |
| auth_logout_race | the smallest that shows it | the second finding |
| registry | 3 connections (2 of dA), TTL of 3 intervals, 1 fault, fair | `TypeOK`, `GapInv`, `MissingIsShort`, `LifeInv`, `ExpiresOnlyDeserted`, `AccountGoesOffline` |
| registry_ghost | a connection each of 2 devices, 1 fault, fair | the third finding |
| devices | 3 connections (2 of dA), 2 commands, 1 fault; a list of 3 devices, pages of 1 and 20 rows, 2 changes, 3 seconds | `TypeOK`, `DisabledIsOffline`, `BanEndsByCommand`; `AnswerMatchesFilter`, `WalkShowsAll` |
| services | see below | the eleven invariants of the services |
| log_west | archives kept for 2 days, 3 days, west of UTC | the fourth finding |

Why the bounds are enough for the question each run asks. Interference between connections of one
device needs two of them: the one replaced and the one replacing it. A third connection, of
another device, is the observer whose view may go wrong and whose broadcasts race theirs. The grace
period, the replacement of a connection in grace and of a live one, and a timer that fired just
before the replacement all occur with two connections. A queue of one place makes every second
presence list overflow. Two frames meet in one queue or cross each other. Two requests give
concurrent renames and a push racing a kick. The safety
theorems of section 5 hold for every size and need none of this.

For sessions, three requests give a login whose token another request uses while a third takes it
back, and the subscriber is a fourth process beside them. Two tokens are the old one and the new
one. The refinement is also proved for every size.

For the registry, two connections of one device overlap at a reconnect, and the third, of the other
device, is the one whose entry the DEL of the last leaver takes. One fault is what the third of the
TTL is meant to survive: with TTLs of one or two intervals - `online_ttl_sec` of one or two seconds,
since keepOnline never beats faster than every second - `ExpiresOnlyDeserted` fails. The theorems
have every number of faults.

For admission, two commands give disable against enable, delete against enable, and each against
itself, by either way; the third process is the handshake.

For the listing, three devices fill one page or three, and the pages of an answer that gets longer or
shorter; the three seconds give every order of them, with and without ties, and a connection that comes
to the top. Two changes meet in one page or in two, and undo each other. A page size of 0 is not accepted
and becomes 20. `AnswersMatchFilter` and `WalksShowAll` are proved for every size. The two parts of
`MCDevices` share no state: what the listing reads may change in every way that admission and hub change
it, and in more, so that one of the two runs in each behaviour (`running`) and the other rests.

In hub_names the saved names are the same at first (`NamesInit`); renames and the names that clients
report bring the other one.

The services share no state, so `MCServices` lets one of them run in each behaviour (`running`, chosen
in the initial state) and keeps the others in their first state: what they do side by side is what
each does alone. Texts of up to 3 pieces with previews of 1 have each kind of piece before and after
each other; 3 messages with room for 2 overflow the cache, with a window of 2 seconds in 3; the limiter
is tried 6 times in more than two windows with limits 0, 1 and 2; the log has 3 lines, 4 days, one day
back, and 2 failures or kills, with archives kept for ever, for a day and for two, in either zone; 2 requests and 2 starts
contend for 2 names.

`CHECK_DEADLOCK FALSE` is in every configuration but those of the registry, whose clock never stops:
a server whose connections or requests are used up, or idle, takes no step, and that is no error.

`ViewConverges` and `ToldNamesAreCurrent` speak of a settled account - no registration, departure
or rename of it under way - and of a client whose last list was not dropped: the queue drops what
does not fit, by design, and a later change repairs it. The list of a silent return is as good as a
broadcast one, but for the race of the first finding: a broadcast that reaches the connection after
its list was built and before it is sent. `overtaken` marks exactly that, until the next broadcast,
so that the two properties say that nothing else goes wrong there and that it does not last. In
hub_lifecycle silent returns race with everything but renames; of these `NamesAreTold` is the proof.

hub_names is checked up to a permutation of the requests (`MCSymmetry`), which differ in nothing and
among which no definition chooses; devices up to one of the two connections of dA, where creation
times do not occur, and one of the devices of the list. Neither checks liveness.

Fairness. `FairSpec` assumes weak fairness of each connection's own steps once enabled
(`Serve`, `Expire`, `Write`) and of started requests. The Go scheduler is fair to runnable
goroutines; `sync.RWMutex` does not let readers starve a writer; `time.AfterFunc` fires; and the
read deadline, renewed only by a pong, makes `ReadMessage` fail on a dead socket. Nothing is
assumed of clients: they need not arrive, send, return or ask for anything, and `PeerDies` is not
fair. In `OnlineRegistry`, handlers that can run and keepers do run, and time passes (`Handle`,
`Keep`, `Tick`); arrivals, departures, the end of grace and faults are not fair. `AccountGoesOffline`
holds even so: a connection that is never ended keeps its account online, and the premise is then
false. Every property with a run has a mutant (`X_Fault` beside `X` in its module): a plausible bug in
the code that makes the property fail.

## 4. Findings

- **A silently returning client may keep an old list** (hub_stale_list). `sendPresenceTo` sends the
  list after releasing the lock (main.go:450); a newer broadcast can overtake it. The comment
  main.go:227-228 promises the current list. `ViewConverges` shows that nothing else keeps it from
  that list, and that the next broadcast to the account mends it.
- **A logout can be undone by a handshake** (auth_logout_race). AuthenticateToken asks the database
  and fills the cache in separate commands (auth_service.go:312-327). A logout in between deletes
  the session and the cache entry, and the late write restores the entry: the token is accepted
  until the TTL of the entry ends. auth_service.go:334 says that every handshake with it fails.
  `LogoutEndsToken` (auth_tokens) says that nothing but such a handshake, or a change of password,
  which looks the token up in the same way, can do it.
- **A ghost may stay in the registry** (registry_ghost). MarkOnline renews the TTL of the account's
  whole hash (store_redis.go:139). After a crash, or a failed MarkOffline, the entry of a device that
  does not come back lives as long as any other device of the account is online; store_redis.go:19,
  config.default.yaml:69 and README.en.md:27 promise that no ghost is left. OnlineCount, which a login
  asks, counts it, though only as long as some device of the account is online or the TTL runs:
  `AccountGoesOffline` holds. OnlineDevices, which sessionHandler (auth_http.go:212) and adminListDevices
  (admin_http.go:96) read, shows the ghost as a device that is online.
- **West of UTC an archive goes a day early** (log_west). The day of an archive is read as midnight UTC and
  the cutoff is a local time (logger.go:192, 222). At UTC-5, on 2026-07-30 at 20:00 with `max_age_days` 2,
  the cutoff is 01:00 UTC of 2026-07-29, and the archive of that day, yesterday's, is removed; logger.go:191
  says that as many days are kept as configured. `ArchivesKeptForMaxAge` (services) says that it is never
  more than the one day, and not in zones east of UTC.

Eight definitions state what a comment or document says and the code does not keep; they have no run
of their own, and a configuration that lists one shows its counterexample:

- `NoEchoToOwnDevice` (`Hub`): `route` leaves out the sending connection, not the sending device
  (main.go:808); README.md:26 and 235 and main.go:807 say that the sender's device gets nothing. If
  the connection is replaced between reading and routing, the new one gets the frame.
  `EchoOnlyIfReplaced` (hub_liveness) says that this is the only way.
- `NameIsTheSavedOne` (`Hub`): the name is read before `renameDevice` can find the connection
  (main.go:1252-1255); a rename in between leaves the old name in the hub until the next connection, and
  a failing lookup the one the client reports (main.go:1256-1259).
- `KickFindsAllTokens` (`AuthSession`): a login that issues a token leaves the old one in the cache;
  InvalidateSessions drops the one cached last (auth_service.go:144), the comment 141-142 says all.
- `ChangedTokenIsGood` (`AuthSession`): ChangePassword publishes kick_user before it issues the new
  token (auth_service.go:384); the server receives the message too and may end the new session, with
  which the client goes on according to auth_service.go:355.
- `DeletesOnlyDisabled` (`DeviceAdmission`): the device may be enabled between the check and the
  deletion (admin_http.go:369, 317).
- `EmptyHubListing` (`DeviceListing`): when nobody is online, the online filter is the wrong way round:
  store_device.go:187 adds `AND 1=0` when offline devices are asked for, and the comment in line 188
  wants it when online ones are. With anybody online the list is right (`AnswerMatchesFilter`).
- `PagesShowAll` (`DeviceListing`): devices that connected in the same second, as many do after a restart
  of the server, have no order (store_device.go:206), and MySQL may give them another one for the next
  LIMIT and OFFSET: one is shown twice and another one not at all, though the comment in line 152
  promises pages in descending order. `WalkShowsAll` says that without such ties no device is missed that
  stays in the list and does not connect anew, as long as no other drops out of it.
- `QueryAlwaysFindsAll` (`OpenAPI`): with `max_items` zero the cache keeps 20 messages and a query
  takes only `limit` of them before it filters (openapi_http.go:184).

Not a definition: after a silent return the other clients keep the ip, online_at and capabilities of the
connection that was replaced, since main.go:219-222 takes the list as unchanged.

## 5. Proofs

### The hub

`HubProofs` proves, for every set of connections, devices, accounts, names and requests, every
queue capacity of at least one and every number of frames - from `ConstantsAssumption` alone:

| theorem | states |
|---|---|
| `TypeCorrect` | `Spec => []TypeOK` |
| `HubIsSafe` | `Spec => []HubInv` |
| `NeverPanics`, `DeviceIsListedOnce`, `GraceIsTimed`, `ServedIsListed` | its parts: `[]NoSendOnClosedChannel`, `[]OneConnPerDevice`, `[]GraceEntryHasTimer`, `[]LiveConnIsListed` |
| `AccountsAreApart` | `Spec => []UserIsolation` |
| `HubImplementsDirectory` | `Spec => ImplementsDirectorySafe` |

The argument. That no send panics depends on where every goroutine may be: a broadcast goes to the
connections in the hub outside grace, so these must have an open channel; `unregister` closes the
channel and sets grace in one critical section, but only if the connection was not replaced, and a
replaced one must therefore be out of the hub; a connection is taken out by `register` or by its
timer, and the timer's decision is made long before it gets the lock. `HubInv` says all of this:
what each `pc` implies about membership, grace, timer and channel (`NotYetListed`, `OpenInService`,
`GraceOnlyAfterService`, `ListedAfterServiceIsInGrace`, `ListedIsNotReplaced`), and the properties
wanted for their own sake (`OneConnPerDevice`, `GraceEntryHasTimer`, `LiveConnIsListed`,
`NoSendOnClosedChannel`). It is inductive relative to `TypeOK`; the run hub_lifecycle checked it
before it was proved. The proof has a lemma for what a send, a list and a broadcast change
(`SendType`, `TellType`, `BroadcastType`), one for why they are safe (`LiveIsOpen`, `SendIsSafe`,
`BroadcastIsSafe`), and one step per action.

For the directory, `Status` is a function of `clients`, `grace` and `DeviceOf`. Steps that leave
these alone stutter (`SameStatus`); for the three that do not, `StatusOfOne` gives the status of
the one device concerned: `Register` is Arrive or a stutter, `Unregister` is Break or a stutter,
`FinalizeGrace` is Depart or a stutter - this needs `OneConnPerDevice`, for otherwise a second
connection would keep the device listed or online.

`UserIsolation` is inductive relative to `TypeOK`: a message goes to members of the sender's group
(`SendIsolates`), a list to members of the group it was built from (`TellIsolates`), and the list a
silent return holds between two steps is of its own group. It needs that no connection is called
"server" or "http-push", which `ConstantsAssumption` says.

For the views, `ViewInv` says what is wrong and what will mend it: a listening client knows the
devices in the hub, or a broadcast to its account is still to come (`Pending`: a connection that
announces its arrival or closes the sockets it replaced before it does, or a timer that has taken a
connection out and not yet told it). Every step that changes the set of listed devices makes
something pending, and every broadcast settles all who listen; what a queue dropped is `lost`, as in
the property. While a silent return has its list and has not sent it, that list is what it knows
(`View`): `Snapshot` makes it the current one (`IsFresh`), changes and broadcasts in between make it
pending or `overtaken`, and `SendSnapshot` changes nothing of it. `Unregister` is no change, since a
connection in grace stays listed; that none is in grace at `Register` without having served
(`TimerAfterService`) is what makes a silent return no change either. Names are the same with
`NamePending`; that needs every entry to be of a registered connection, for a name read in the
handshake is not announced (`EntriesAreRegistered`).

`EchoOnlyIfReplaced` follows from `QueueStep`: the only step that adds a frame to a queue is `Route`
of its sender, to connections in the hub other than that one; `DeviceIsListedOnce` then leaves only
one way to be of the sender's device, and a replaced connection stays replaced (`ReplacedStays`).

Model-checked only: `ImplementsDirectory` and `BrokenConnEnds`: liveness under fairness is out of
TLAPS's reach.

### The sessions

`AuthProofs` proves, for every number of requests and tokens, with and without failures and
expiry, from `AuthAssumption` alone (`NoToken` is no token, the subscriber is no request):

| theorem | states |
|---|---|
| `AuthTypeCorrect` | `Spec => []TypeOK`; in particular no client is handed an empty token |
| `AuthIsSound` | `Spec => []AuthInv` |
| `AuthImplementsAuthority` | `Spec => ImplementsAuthority` |
| `LogoutIsHeeded` | `Spec => []LogoutEndsToken` |

The argument. `ComparePlain` hands out what it finds under `plain_token:<id>` if it equals the
session read one command earlier; that this is a token, and one that was issued, rests on what the
request knew when it got there. `AuthInv` says it: only issued tokens are in the row, in a key or
in a request (`Sound`), a request at a label of `UsesToken` has one, and a label belongs to its
kinds of request. `ErrorIsSound` shows that the error handling keeps to this, and `OneMoves`,
`GotoSound` and `GotoType` that one request's step leaves the others sound.

For the refinement, a token is "dead" when it was issued, is not accepted, and no request holds it
(`Holds`: between the session row and the cache entry of a login, or between the query and the
backfill of a handshake). Fresh tokens become live when they are issued; live ones and those in
limbo may become anything but fresh; what has to be shown is that the dead stay dead
(`DeadStaysDead`). The only steps that make a token accepted are `Issue`, of a token never issued
before, and `CacheNew` and `Backfill`, of a token the request holds; and a request comes to hold a
token only by issuing it or by finding it in the session row, where it is accepted. "Limbo" cannot
be left out: without it the logout of the finding above is a step from dead to live.

`LogoutEndsToken` needs more than the state of one logout: after its commands have deleted the
session, the cache entry and the plain token, no other request may write them back. `LogoutInv` follows the
logout command by command (`Heeds`): from each on, the place it has deleted no longer holds the
token, unless a request that had read the token before is still on its way to the cache (`PutBack`).
That no login hands the token out again rests on `PlainIsHanded` and on `NewIsUnknown` - a token that
is being issued is one that no client knows, so none can be logging out of it.

### The registry

`RegistryProofs` proves, for every set of connections and devices, every TTL and every number of
faults, from `RegistryAssumption` alone:

| theorem | states |
|---|---|
| `RegistryTypeCorrect` | `Spec => []TypeOK`; the hash has a time to live exactly when it has fields |
| `GapIsAccounted`, `MissingStaysShort` | `Spec => []GapInv`, `Spec => []MissingIsShort` |
| `HashStaysFresh` | `Spec => []LifeInv` |
| `OnlyDesertedExpires` | `Spec => ExpiresOnlyDeserted`, if the TTL is at least three intervals |

The argument. How long an entry can be missing seems to depend on who may take it away: the old
connection of a reconnect, the last leaver's DEL, an expiry, a loss of data. `GapInv` does not ask. It
says that a live connection has a keeper that has not stopped, and that its gap is at most the number
of faults, plus one while a beat is due: a beat either writes the entry, and the gap is over, or
failed, and one more fault is on record; a tick, the only step that lengthens gaps, makes the beat due
that pays for it. For the expiry, `LifeInv` says how much of the TTL is left at each stage of a keeper
while there was no more than one fault; a hash that is removed altogether is a case of its own at every
stage, since it may come back only with its full time. `AccountGoesOffline` is liveness and
model-checked only.

### Device admission

`AdmissionProofs` proves, for every set of devices, connections and processes and every number of
faults, from `AdmissionAssumption` alone:

| theorem | states |
|---|---|
| `TypeCorrect` | `Spec => []TypeOK`; a device has one connection in the hub at most |
| `BansTakeEffect` | `Spec => []DisabledIsOffline` |
| `BansEndByCommand` | `Spec => BanEndsByCommand` |

The argument. A handshake writes its row, checks it and registers, in three steps; a ban writes the
row and then kicks what is in the hub. `BanReaches` states `DisabledIsOffline` also for connections
that are past their check and not yet registered, which no kick can reach: for them a ban is
either still at its kick, or has passed and marked them `overtaken`. A ban that is under way stays so
until it kicks (`BanGoesOn`), and a row becomes disabled only by a command that kicks next; a
connection passes its check only if the row is enabled or cannot be read (`unchecked`).

### The device list

`ListingProofs` proves, for every finite set of devices, all page sizes, and every number of seconds and
changes, from `ListingAssumption`:

| theorem | states |
|---|---|
| `AnswersMatchFilter` | `ListingSpec => []AnswerMatchesFilter` |
| `WalksShowAll` | `ListingSpec => []WalkShowsAll` |

The argument. What a step reads is true when it is read, and stays true of a device until that device
changes: `PairsAreRight`, `PageIsRight` and `MarksAreRight` say so of the two readings of the hub and of
the SELECT, each but for the devices `touched` since, and together they are inductive
(`ChangeKeepsAnswer`, `SelectKeepsAnswer`). The answer is compared with the meaning of the filters, where
the online filter needs a nonempty hub: without, they differ, as `EmptyHubListing` in section 4 says.

For the pages, OFFSET counts from the top of another list each time. `WalkInv` says of a steady device
that was not shown yet that as many rows are `Ahead` of it as there was place on the pages so far: rows
with a later `last_seen_at` than its own. They stay ahead whatever happens - one that connects again goes
further up (`AheadStays`) - unless they leave the list, which is `lost`. So in the next order, whichever
that is, the device has that many before it and is not on a page already turned (`OrderIsWhole`,
`HeadHasSize`); if it is not on this page either, all of this page is ahead of it, too
(`SelectKeepsWalk`). At the end the pages have place for `total` rows, so that a device not shown would be
one row too many. Without ties excluded the argument fails where the code does: a row of the same
second is not ahead for good.

### The cache and the open API

`OpenAPIProofs` proves, for every set of accounts, phones, keys and messages, every configuration, window and
number of messages, from `ApiAssumption` alone:

| theorem | states |
|---|---|
| `CacheIsSound` | `ApiSpec => []CacheInv` |
| `NewestAreKept` | `ApiSpec => []CacheKeepsNewest` |
| `QueriesFindAll` | `ApiSpec => []QueryFindsAll` |
| `AnswersKeepToTheKey` | `ApiSpec => []AnswersAreEntitled` |

The argument. The invariant adds to `CacheKeepsNewest` that no message is from the future and that the
set of an account outlives all of its messages (`SetOutlives`): when Redis drops it, the window is past
them. The rest is about `Newest`, the first n of a set in a strict order, where n is any number: what is
among the newest of a set is among those of every part that has it (`NewestOfFewer`), so that trimming
after each message loses nothing that trimming at the end would keep; the newest n are n at most, and n
exactly if they are not all (`NewestBound`, `NewestFills`), which needs a last element of a finite set
(`Extremes`, by well-foundedness of strict inclusion). A query then fetches the whole cache
(`FetchesAll`), since `FetchLimit` is at least what the cache may hold, and its filter is the reference
filter (`SameNumber`).

### The log writer

`LogRotationProofs` proves, for every number of lines, failures, kills and days, and every
`max_age_days`, in every zone, from `RotationAssumption` alone:

| theorem | states |
|---|---|
| `LogIsSound` | `RotationSpec => []LogInv` |
| `LinesAreKept` | `RotationSpec => []EveryLineKept` |
| `LinesAreFiled` | `RotationSpec => []FiledUnderItsDay` |
| `ArchivesComeOfAge` | `RotationSpec => []ArchivesKeptForMaxAge`, in either kind of zone |

The argument. `Write` archives the file under `currentDay`, `openToday` under the day the file was last
changed; `DaysAgree` says that the two are the same for a writer at work, unless the file was created after
midnight and is still empty, and that neither `currentDay` nor the day openToday works with is ahead of the
clock unless that was set back. File 0 holds the lines of one day only (`Filed`), so an archive
gets lines of its own day whichever way it is made. `Once` needs to know where every line of a new
archive was before (`Moved`, `Copied`, `Written`: lemmas about concatenation). `Young` is the part that does not hold
between the opening of a file and the cleanup that follows, and has to exclude it; both it and `Expiry`, which says when archives went, are off by `Early`, the one
day that zones west of UTC lose. The invariant was
checked on the instance of the services before it was proved.

### The limiter and the gate

`ServicesProofs` proves, for every limit, window and number of attempts, and for texts of any length
with any numbers in them:

| theorem | states | from |
|---|---|---|
| `LimitIsExact` | `LimiterSpec => []LimiterIsExact` | `LimiterAssumption` |
| `NoPlaintextPasses` | `GateSpec => []RequireClosesEveryWay` | - |
| `ContentIsKept` | `GateSpec => []SanitizeKeepsContent` | `GateAssumption` |
| `PreviewIsOfTheText` | `GateSpec => []PreviewShowsCleanText` | `GateAssumption` |

For the limiter, time does not go back, so what has left the window never returns to it: the attempts
remembered include every allowed one that still counts (`Remembers`), and what `Allow` counts is what
the definition counts (`KeptIsAllowed`).

For the gate, `DropLeading` takes a head of the text that is all of the kind to drop (`DropLeadingIs`), so
filtering for anything else gives the same before and after (`DropLeadingKeeps`); with `OnlyTwice` for the
merge hints, `CleanIs` follows: cleaning keeps words and signatures and adds nothing. If a number is
missing afterwards, the text had one, and the first number of text and preview together is then one of
the text (`FoundSenderIs`). A cut text, with its mark filtered out, is the head it was cut from (`TruncateIs`).

What `Only` returns for every sequence is proved first:
its type and members, that it is the sequence itself or empty when all or none of it stays, and how it
goes through concatenation and a second filter. The library's induction theorems take an operator as
parameter and cannot be used; its theorem that a well-founded relation has a least element in every set
(`WFMin`) takes sets. From it come `LeastNumber`, `AllNumbers` and `AllSequences`, induction over a set
of numbers or sequences, and from these that the recursion of `Only` defines a function (`OnlyExists`)
and what that is (`OnlyEmpty`, `OnlyAppend`).

### The accounts

`ServicesProofs` proves `AnswersHold`, `AccountsSpec => []CreatedIsKept`, from `AccountsAssumption`: the
only step that writes the table writes a free name (`InsertedKeeps`), and an answered request does not
move again (`AnswerKeeps`).

### What stays with TLC

Liveness: `ImplementsDirectory`, `BrokenConnEnds`, `AccountGoesOffline`. Every invariant and every action
property that a passing run checks is also proved.

## 6. Not modelled, and the plan

What is left:

- The order of start-up: what the admin subscription misses before it is first up is a message lost
  while nobody listens, which `DeviceAdmission` and `AuthSession` have.

Configuration is merged once, before anything runs, field by field from defaults, file and
environment; a model would be the list of the fields. Its results are CONSTANTS and configured
variables here, and where a value at the border matters (`max_items` 0, a limit of 0, `max_age_days`
0, a TTL below 3 s) a run or a finding has it.

Of the open API, `last_used_at` of a key and the list of keys are left out: nothing reads the first but
the second. The `disabled` columns of users and keys are read and never set by this program. The list of one
account's devices (adminListDevices, admin_http.go:82-119) is not modelled: one SELECT whose rows count
as online if the hub or the hash in Redis has them, so that it shows the ghosts of section 4. The other
lists are plain SELECTs.

Left out for good: scrypt and SHA-256 (library calls, taken as injective), SQL text and schema
creation, start-up and graceful shutdown of the process, container files.
