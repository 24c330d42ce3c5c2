----------------------------- MODULE RateLimit -----------------------------
(***************************************************************************)
(* The two rate limiters (src/src/rate_limit.rs) with the settings they    *)
(* take from the environment (src/src/config.rs): one for HTTP requests    *)
(* with a quota per client IP, and one per binary websocket connection,    *)
(* made anew with each connection.                                         *)
(*                                                                         *)
(* The limiter itself is the governor crate: a quota lets `burst` requests *)
(* through at once and gives one back per `period`.  What is a key's debt  *)
(* here is the time until its quota is whole again.  Times are in          *)
(* milliseconds.                                                           *)
(***************************************************************************)
EXTENDS Integers, Sequences, FiniteSets, FiniteSetsExt

CONSTANTS
  Ips, Connections,      \* keys of the HTTP limiter, and binary connections
  RATE_LIMIT_PER_MIN, RATE_LIMIT_BURST,
  BINARY_RATE_LIMIT_PER_MIN, BINARY_RATE_LIMIT_BURST,
  Unset,                 \* a variable that is missing or is no u32
  TimeSteps,             \* bound: by how much time may advance in one step
  MaxSteps,              \* bound: how often it does
  MaxAdmitted            \* bound: requests admitted per key

Keys == Ips \cup Connections

ASSUME LimitAssumption ==
  /\ Ips \cap Connections = {}
  /\ {RATE_LIMIT_PER_MIN, RATE_LIMIT_BURST, BINARY_RATE_LIMIT_PER_MIN,
      BINARY_RATE_LIMIT_BURST} \subseteq Nat \cup {Unset}
  /\ Unset \notin Nat
  /\ TimeSteps \subseteq Nat \ {0} /\ MaxSteps \in Nat /\ MaxAdmitted \in Nat

VARIABLES
  now,       \* the clock
  steps,     \* how often it advanced
  debt,      \* per key, the time until its quota is whole
  times,     \* per key, when requests were admitted
  verdict    \* per key, the answer at this instant, or "none"

vars == <<now, steps, debt, times, verdict>>

-----------------------------------------------------------------------------
Minute == 60000

(* env_u32 *)
EnvU32(value, default) == IF value = Unset THEN default ELSE value

(* AppConfig::from_env: the binary limits default to the HTTP ones. *)
HttpPerMinute   == EnvU32(RATE_LIMIT_PER_MIN, 60)
HttpBurst       == EnvU32(RATE_LIMIT_BURST, 20)
BinaryPerMinute == EnvU32(BINARY_RATE_LIMIT_PER_MIN, HttpPerMinute)
BinaryBurst     == EnvU32(BINARY_RATE_LIMIT_BURST, HttpBurst)

PerMinute(k) == IF k \in Ips THEN HttpPerMinute ELSE BinaryPerMinute

\* Seeded fault: the period is computed in seconds.
PerMinuteToPeriodSeconds(n) ==
  IF n = 0 THEN Minute ELSE 1000 * Max({60 \div n, 1})

(* per_minute_to_period *)
PerMinuteToPeriod(n) == IF n = 0 THEN Minute ELSE Max({Minute \div n, 1})

\* Seeded fault: the burst comes on top of the one request that is always allowed.
BurstOnTop(k) == 1 + (IF k \in Ips THEN HttpBurst ELSE BinaryBurst)

(* `burst_size.max(1)` *)
Burst(k) == Max({IF k \in Ips THEN HttpBurst ELSE BinaryBurst, 1})

Period(k) == PerMinuteToPeriod(PerMinute(k))

-----------------------------------------------------------------------------
Init ==
  /\ now = 0 /\ steps = 0
  /\ debt    = [k \in Keys |-> 0]
  /\ times   = [k \in Keys |-> << >>]
  /\ verdict = [k \in Keys |-> "none"]

(* A request, or a binary message, is shown to the limiter. *)
Admit(k) ==
  /\ Len(times[k]) < MaxAdmitted
  /\ debt[k] + Period(k) <= Burst(k) * Period(k)
  /\ debt' = [debt EXCEPT ![k] = @ + Period(k)]
  /\ times' = [times EXCEPT ![k] = Append(@, now)]
  /\ verdict' = [verdict EXCEPT ![k] = "admitted"]
  /\ UNCHANGED <<now, steps>>

Refuse(k) ==
  /\ debt[k] + Period(k) > Burst(k) * Period(k)
  /\ verdict' = [verdict EXCEPT ![k] = "refused"]
  /\ UNCHANGED <<now, steps, debt, times>>

(* A binary websocket is opened, with a limiter of its own. *)
Connect(k) ==
  /\ k \in Connections
  /\ debt' = [debt EXCEPT ![k] = 0]
  /\ times' = [times EXCEPT ![k] = << >>]
  /\ verdict' = [verdict EXCEPT ![k] = "none"]
  /\ UNCHANGED <<now, steps>>

Tick(d) ==
  /\ steps < MaxSteps
  /\ now' = now + d
  /\ steps' = steps + 1
  /\ debt' = [k \in Keys |-> Max({debt[k] - d, 0})]
  /\ verdict' = [k \in Keys |-> "none"]
  /\ UNCHANGED times

Next ==
  \/ \E k \in Keys : Admit(k) \/ Refuse(k) \/ Connect(k)
  \/ \E d \in TimeSteps : Tick(d)

Spec == Init /\ [][Next]_vars

-----------------------------------------------------------------------------
(* The configured burst of a key's limiter, 0 read as 1. *)
Allowance(k) ==
  LET burst == IF k \in Ips THEN HttpBurst ELSE BinaryBurst IN IF burst = 0 THEN 1 ELSE burst

(* The configured requests per minute as a period in whole milliseconds    *)
(* can keep them: 0 is read as 1, and 60000 is the most.  Where they do    *)
(* not divide the minute, the period is rounded down, which costs          *)
(* `Minute % Rate(k)` milliseconds in a minute's worth of periods.         *)
Rate(k) == Max({Min({PerMinute(k), Minute}), 1})

(* The burst aside, no key gets more than the configured requests per      *)
(* minute in any stretch of time from one admitted request to another, but *)
(* for what the rounding of the period gives away.                         *)
WithinConfiguredRate ==
  \A k \in Keys : \A j \in 1 .. Len(times[k]) : \A i \in 1 .. j :
    (j - i + 1 - Allowance(k)) * (Minute - (Minute % Rate(k))) <= (times[k][j] - times[k][i]) * Rate(k)

(* No key is refused what it is configured to have: a refused request is   *)
(* one too many for some stretch of time that ends with it, whatever the   *)
(* other keys did and whatever this one did on earlier connections.        *)
RefusedOnlyAboveRate ==
  \A k \in Keys : verdict[k] = "refused" =>
    \E i \in 1 .. Len(times[k]) :
      (Len(times[k]) - i + 2 - Allowance(k)) * Minute > (now - times[k][i]) * Rate(k)
=============================================================================
