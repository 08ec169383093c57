------------------------------ MODULE MCServices ------------------------------
(***************************************************************************)
(* The services around the hub that share no state: the gate that messages *)
(* pass, the open API, the limiter, the log writer and the creation of     *)
(* accounts.  In a behaviour one of them runs and the others rest: what    *)
(* they do together is what each does alone, and the state spaces add up   *)
(* where they would multiply.                                              *)
(***************************************************************************)
EXTENDS MessageGate, OpenAPI, LoginLimiter, LogRotation, Accounts

CONSTANTS u1, u2, p1, p2, p3, kAll, kOne

VARIABLE running  \* the service that runs

MCOwnerOf == [x \in Phones \cup ApiKeys |-> IF x = p3 THEN u2 ELSE u1]
MCKeyPhone == [k \in ApiKeys |-> IF k = kOne THEN p1 ELSE AnyPhone]
MCKeyUntil == [k \in ApiKeys |-> IF k = kOne THEN 1 ELSE MaxNow]

(* A mobile number with and without its country code, and a short one. *)
MCPhoneNumbers == {<<"mobile">>, <<"86", "mobile">>, <<"short">>}

MCSmsInputs ==
  {<<p1, "notify_pc", "good", <<"mobile">>>>,
   <<p2, "notify_pc", "good", <<"86", "mobile">>>>,
   <<p2, "notify_pc", "good", <<"short">>>>,
   <<p3, "notify_pc", "good", <<"mobile">>>>,
   <<p1, "notify_pc", "none", <<>>>>,
   <<p1, "clipboard", "good", <<>>>>}

MCApiConfigs == {<<TRUE, 2, 1>>, <<TRUE, 0, 0>>, <<FALSE, 2, 1>>}

Services == {"gate", "api", "limiter", "log", "accounts"}

servicesVars == <<running, gateVars, apiVars, limiterVars, rotationVars, accountVars>>

(* A service at rest is in the first of its initial states. *)
Resting(s) == running # s

Init ==
  /\ running \in Services
  /\ IF running = "gate" THEN GateInit
     ELSE /\ arrival = [way |-> "rest"]
          /\ outcome = [verdict |-> "rest"]
  /\ \E c \in MCApiConfigs :
       /\ Resting("api") => c = <<FALSE, 2, 1>>
       /\ ApiInitWith(c)
  /\ \E r \in RateLimits : (Resting("limiter") => r = 0) /\ LimiterInitWith(r)
  /\ \E a \in MaxAges, z \in Zones :
       (Resting("log") => a = 0 /\ z = "east") /\ RotationInitWith(a, z)
  /\ AccountsInit

RunGate ==
  running = "gate" /\ GateNext
  /\ UNCHANGED <<running, apiVars, limiterVars, rotationVars, accountVars>>

RunApi ==
  running = "api" /\ ApiNext
  /\ UNCHANGED <<running, gateVars, limiterVars, rotationVars, accountVars>>

RunLimiter ==
  running = "limiter" /\ LimiterNext
  /\ UNCHANGED <<running, gateVars, apiVars, rotationVars, accountVars>>

RunLog ==
  running = "log" /\ RotationNext
  /\ UNCHANGED <<running, gateVars, apiVars, limiterVars, accountVars>>

RunAccounts ==
  running = "accounts" /\ AccountsNext
  /\ UNCHANGED <<running, gateVars, apiVars, limiterVars, rotationVars>>

Next == RunGate \/ RunApi \/ RunLimiter \/ RunLog \/ RunAccounts

Spec == Init /\ [][Next]_servicesVars
=============================================================================
