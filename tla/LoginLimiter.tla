----------------------------- MODULE LoginLimiter -----------------------------
(***************************************************************************)
(* The sliding window that limits logins, and queries of the open API, per *)
(* IP and minute (auth_http.go 13-47).  IPs do not touch each other: here  *)
(* is one.                                                                 *)
(*                                                                         *)
(* An attempt is its number, and tried holds its time.  What the limiter   *)
(* remembers are times of attempts, in any order: here, a set of attempts. *)
(***************************************************************************)
EXTENDS Integers, Sequences, FiniteSets

CONSTANTS
  Minute,       \* the window, in ticks of the clock
  RateLimits,   \* limits to configure; none when it is not positive
  MaxAttempts,  \* bound: attempts
  MaxTime       \* bound: clock

ASSUME LimiterAssumption ==
  Minute \in Nat /\ RateLimits \subseteq Int /\ {MaxAttempts, MaxTime} \subseteq Nat

VARIABLES
  rate,       \* login_rate_limit_per_min
  time,       \* the clock
  attempts,   \* the attempts that the limiter remembers
  tried,      \* the time of each attempt, ...
  let         \* ... and, as history, whether it was allowed

limiterVars == <<rate, time, attempts, tried, let>>

This == Len(tried) + 1

Kept == {j \in attempts : tried[j] > time - Minute}

Remember(allowed) ==
  /\ tried' = Append(tried, time)
  /\ let' = Append(let, allowed)
  /\ UNCHANGED <<rate, time>>

Allow_CountsRefused ==
  /\ Len(tried) < MaxAttempts
  /\ attempts' = IF rate <= 0 THEN attempts ELSE Kept \cup {This}
  /\ Remember(rate <= 0 \/ Cardinality(Kept) < rate)

(* One attempt: a refused one does not count. *)
Allow ==
  /\ Len(tried) < MaxAttempts
  /\ attempts' = IF rate <= 0 THEN attempts
                 ELSE IF Cardinality(Kept) >= rate THEN Kept ELSE Kept \cup {This}
  /\ Remember(rate <= 0 \/ Cardinality(Kept) < rate)

LimiterTick ==
  /\ time < MaxTime
  /\ time' = time + 1
  /\ UNCHANGED <<rate, attempts, tried, let>>

LimiterInitWith(r) ==
  /\ rate = r
  /\ time = 0
  /\ attempts = {}
  /\ tried = <<>>
  /\ let = <<>>

LimiterNext == Allow \/ LimiterTick

LimiterSpec == (\E r \in RateLimits : LimiterInitWith(r)) /\ [][LimiterNext]_limiterVars

-----------------------------------------------------------------------------
(* Correctness. *)

(* The attempts allowed before the i-th and less than a minute earlier. *)
AllowedBefore(i) ==
  {j \in 1..i - 1 : let[j] /\ tried[i] - tried[j] < Minute}

(* Whatever the pace of attempts, the limiter allows exactly those that    *)
(* keep any minute within the limit: none too many at the border of the    *)
(* window, and none too few after a burst of refusals (auth_http.go:27-47, *)
(* auth_test.go:78-96).                                                    *)
LimiterIsExact ==
  \A i \in DOMAIN tried :
    rate > 0 => (let[i] <=> Cardinality(AllowedBefore(i)) < rate)
=============================================================================
