---------------------------- MODULE DeviceListing ----------------------------
(***************************************************************************)
(* What an administrator is shown who turns the pages of the device list   *)
(* (adminListAllDevices, admin_http.go:121-190; ListAllDevices,            *)
(* store_device.go:152-225), while devices connect and leave and are       *)
(* banned, enabled and deleted.                                            *)
(*                                                                         *)
(* A page is four steps: the hub is read for the filter, the rows are      *)
(* counted, one page of them is selected, and the hub is read again for    *)
(* what each row says of being online.  Rows are ordered by last_seen_at,  *)
(* a DATETIME in seconds, and by nothing else: rows of one second come in  *)
(* any order, which may be another one for the next page.                  *)
(*                                                                         *)
(* Keyword and user are filters on the data of a row, like disabled: one   *)
(* such filter stands for them all.                                        *)
(***************************************************************************)
EXTENDS Integers, FiniteSets

CONSTANTS
  Pairs,       \* devices of all accounts, as (user_id, device_id)
  Sizes,       \* page_size, as it may be asked for
  MaxSecond,   \* bound: the clock of the database
  MaxChanges   \* bound: changes while the pages are turned

(* A filter: an absent one (a nil pointer) restricts nothing. *)
Choices == {"any", "yes", "no"}

ASSUME ListingAssumption ==
  /\ IsFiniteSet(Pairs)
  /\ Sizes \subseteq Nat
  /\ MaxSecond \in Nat /\ MaxChanges \in Nat

VARIABLES
  second,    \* the clock of the database
  lastSeen,  \* last_seen_at of a device's row; 0 when it has none
  banned,    \* rows with disabled = 1
  inHub,     \* devices with a connection in the hub, also one in grace
  filter,    \* what the administrator asks for: disabled, online
  size,      \* ... and how many rows a page
  number,    \* the page asked for
  stage,     \* how far the answer is
  pairs,     \* OnlinePairs: the hub as read for the filter
  total,     \* COUNT(*)
  page,      \* the devices on the page
  marked,    \* those that it says are online
  changes,   \* changes so far
  touched,   \* history: devices that have changed since the page was asked for
  shown,     \* history: the devices on the pages so far
  listed,    \* history: the rows that matched when a page was last selected
  steady,    \* history: those that matched each time, none other in the
             \* same second, and have not connected in between
  lost       \* history: a row that matched for a page did not for the next

worldVars   == <<second, lastSeen, banned, inHub>>
walkVars    == <<shown, listed, steady, lost>>
requestVars == <<pairs, total, page, marked>>
listingVars == <<worldVars, filter, size, number, stage, requestVars, changes, touched,
                 walkVars>>

HasRow == {d \in Pairs : lastSeen[d] > 0}

-----------------------------------------------------------------------------
(* What changes meanwhile: a statement on the table, or the hub.           *)

Change(d) ==
  /\ changes < MaxChanges
  /\ stage \notin {"done", "failed"}
  /\ changes' = changes + 1
  /\ touched' = touched \cup {d}
  /\ UNCHANGED <<second, filter, size, number, stage, requestVars, shown, listed, lost>>

(* UpsertDevice of a handshake: last_seen_at = NOW(), and disabled stays.  *)
Seen(d) ==
  /\ Change(d)
  /\ lastSeen' = [lastSeen EXCEPT ![d] = second]
  /\ steady' = steady \ {d}
  /\ UNCHANGED <<banned, inHub>>

(* UpdateDeviceStatus *)
Switch(d) ==
  /\ Change(d)
  /\ d \in HasRow
  /\ banned' = IF d \in banned THEN banned \ {d} ELSE banned \cup {d}
  /\ UNCHANGED <<lastSeen, inHub, steady>>

(* DeleteDevice: module DeviceAdmission says when. *)
Delete(d) ==
  /\ Change(d)
  /\ d \in HasRow
  /\ lastSeen' = [lastSeen EXCEPT ![d] = 0]
  /\ banned' = banned \ {d}
  /\ UNCHANGED <<inHub, steady>>

(* The device's connection is registered in the hub, or leaves it. *)
ComeOrGo(d) ==
  /\ Change(d)
  /\ inHub' = IF d \in inHub THEN inHub \ {d} ELSE inHub \cup {d}
  /\ UNCHANGED <<lastSeen, banned, steady>>

PassSecond ==
  /\ second < MaxSecond
  /\ stage \notin {"done", "failed"}
  /\ second' = second + 1
  /\ UNCHANGED <<lastSeen, banned, inHub, filter, size, number, stage, requestVars, changes,
                 touched, walkVars>>

-----------------------------------------------------------------------------
(* One page. *)

DisabledClause(d) ==
  filter.disabled = "any" \/ (d \in banned) = (filter.disabled = "yes")

OnlineClause_Inverted(d) ==
  IF filter.online = "any" \/ pairs = {} THEN filter.online # "no"
  ELSE (d \in pairs) = (filter.online = "no")

(* IN or NOT IN the list of online pairs.  SQL has no empty list: 1=0.     *)
OnlineClause(d) ==
  IF filter.online = "any" \/ pairs = {} THEN filter.online # "no"
  ELSE (d \in pairs) = (filter.online = "yes")

(* WHERE ... *)
Matching == {d \in HasRow : DisabledClause(d) /\ OnlineClause(d)}

(* ORDER BY last_seen_at DESC: what orders of the rows there are. *)
Orders(rows) ==
  {list \in [1..Cardinality(rows) -> rows] :
     \A i, j \in DOMAIN list :
       i < j => list[i] # list[j] /\ lastSeen[list[i]] >= lastSeen[list[j]]}

PageSize == IF size < 1 \/ size > 200 THEN 20 ELSE size

Offset_ZeroBased == number * PageSize

Offset == (number - 1) * PageSize

(* LIMIT ? OFFSET ? *)
PageOf(list) ==
  {list[i] : i \in {j \in DOMAIN list : Offset < j /\ j <= Offset + PageSize}}

(* hub.allOnlinePairs, when there is a filter that needs it. *)
TakePairs ==
  /\ stage = "asking"
  /\ stage' = "counting"
  /\ pairs' = IF filter.online = "any" THEN {} ELSE inHub
  /\ page' = {} /\ marked' = {} /\ touched' = {}
  /\ UNCHANGED <<worldVars, filter, size, number, total, changes, walkVars>>

Count ==
  /\ stage = "counting"
  /\ stage' = "selecting"
  /\ total' = Cardinality(Matching)
  /\ UNCHANGED <<worldVars, filter, size, number, pairs, page, marked, changes, touched,
                 walkVars>>

Untied(rows) == {d \in rows : \A e \in rows \ {d} : lastSeen[e] # lastSeen[d]}

Select ==
  /\ stage = "selecting"
  /\ stage' = "marking"
  /\ \E list \in Orders(Matching) : page' = PageOf(list)
  /\ shown' = shown \cup page'
  /\ listed' = Matching
  /\ steady' = Untied(Matching) \cap (IF number = 1 THEN Matching ELSE steady)
  /\ lost' = (lost \/ ~(listed \subseteq Matching))
  /\ UNCHANGED <<worldVars, filter, size, number, pairs, total, marked, changes, touched>>

(* hub.allOnlineDeviceIDs, and the answer.  Whoever turns the pages stops  *)
(* when the total says that there are no more.                             *)
Mark ==
  /\ stage = "marking"
  /\ marked' = page \cap inHub
  /\ IF number * PageSize >= total
     THEN stage' = "done" /\ UNCHANGED number
     ELSE stage' = "asking" /\ number' = number + 1
  /\ UNCHANGED <<worldVars, filter, size, pairs, total, page, changes, touched, walkVars>>

(* COUNT or SELECT fails, and so does the request. *)
Fail ==
  /\ stage \in {"counting", "selecting"}
  /\ stage' = "failed"
  /\ UNCHANGED <<worldVars, filter, size, number, requestVars, changes, touched, walkVars>>

-----------------------------------------------------------------------------
(* Pages are asked for in any state of table and hub. *)
ListingInit ==
  /\ second \in 1..MaxSecond
  /\ lastSeen \in [Pairs -> 0..second]
  /\ banned \in SUBSET HasRow
  /\ inHub \in SUBSET Pairs
  /\ filter \in [disabled : Choices, online : Choices]
  /\ size \in Sizes
  /\ number = 1
  /\ stage = "asking"
  /\ pairs = {} /\ total = 0 /\ page = {} /\ marked = {}
  /\ changes = 0 /\ touched = {}
  /\ shown = {} /\ listed = {} /\ steady = {} /\ lost = FALSE

ListingNext ==
  \/ TakePairs \/ Count \/ Select \/ Mark \/ Fail
  \/ PassSecond
  \/ \E d \in Pairs : Seen(d) \/ Switch(d) \/ Delete(d) \/ ComeOrGo(d)

ListingSpec == ListingInit /\ [][ListingNext]_listingVars

-----------------------------------------------------------------------------
(* Correctness. *)

(* A page has been answered. *)
Answered == stage = "done" \/ (stage = "asking" /\ number > 1)

(* What a page says of a device that did not change while it was made is   *)
(* true: the device is what the filters ask for, although they are tested  *)
(* at different moments, and is online if and only if it is marked as      *)
(* online; but for a filter for online devices when nobody is              *)
(* (admin_http.go:150-170, store_device.go:160-191).                       *)
AnswerMatchesFilter ==
  Answered =>
    \A d \in page \ touched :
      /\ d \in HasRow
      /\ filter.disabled # "any" => (d \in banned) = (filter.disabled = "yes")
      /\ filter.online # "any" =>
           \/ (d \in inHub) = (filter.online = "yes")
           \/ filter.online = "yes" /\ pairs = {}
      /\ (d \in marked) = (d \in inHub)

(* Whoever turns the pages to the end has seen every device that was in    *)
(* the list all the time, but for one that connected meanwhile, or shares  *)
(* its second with another - or when a row dropped out of the list between *)
(* two pages, or came into it after it was counted for the last one        *)
(* (admin_http.go:124-138, store_device.go:193-209).                       *)
WalkShowsAll ==
  stage = "done" /\ ~lost /\ Cardinality(listed) <= total => steady \subseteq shown

(* Not so: store_device.go:152 calls it a query by pages in the order of   *)
(* last_seen_at; rows of one second may change places between two pages,   *)
(* so that one is shown twice and another one never, while nothing         *)
(* happens.                                                                *)
PagesShowAll == stage = "done" /\ changes = 0 => listed \subseteq shown

(* Not so: store_device.go:188 says that, when nobody is online, asking    *)
(* for the offline devices restricts nothing and asking for the online     *)
(* ones gives none; it is the other way round.                             *)
EmptyHubListing ==
  stage \in {"counting", "selecting"} /\ pairs = {} =>
    /\ filter.online = "yes" => Matching = {}
    /\ filter.online = "no" => Matching = {d \in HasRow : DisabledClause(d)}
=============================================================================
