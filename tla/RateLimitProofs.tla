-------------------------- MODULE RateLimitProofs --------------------------
(***************************************************************************)
(* The limiters keep to the configured rates, for every setting of the     *)
(* four variables, 0 and 2^32 - 1 included, any number of keys and any     *)
(* times of requests.                                                      *)
(*                                                                         *)
(* What a key owes is, for each admitted request, the periods of that one  *)
(* and all later ones less the time since.  Its debt is the largest of     *)
(* these, or 0: as none is larger, what was admitted keeps its distance;   *)
(* as one is as large, a refusal has a witness.                            *)
(***************************************************************************)
EXTENDS RateLimit, TLAPS

-----------------------------------------------------------------------------
(* Periods and bursts. *)

LEMMA MaxOfTwo ==
  ASSUME NEW a \in Int, NEW b \in Int
  PROVE  Max({a, b}) = IF a >= b THEN a ELSE b
  BY DEF Max

LEMMA MinOfTwo ==
  ASSUME NEW a \in Int, NEW b \in Int
  PROVE  Min({a, b}) = IF a <= b THEN a ELSE b
  BY DEF Min

LEMMA SettingTypes ==
  ASSUME NEW k
  PROVE  PerMinute(k) \in Nat /\ HttpBurst \in Nat /\ BinaryBurst \in Nat
<1>1. HttpPerMinute \in Nat /\ HttpBurst \in Nat
  BY LimitAssumption DEF HttpPerMinute, HttpBurst, EnvU32
<1>2. BinaryPerMinute \in Nat /\ BinaryBurst \in Nat
  BY <1>1, LimitAssumption DEF BinaryPerMinute, BinaryBurst, EnvU32
<1> QED
  BY <1>1, <1>2 DEF PerMinute

(* `burst_size.max(1)` is the burst that was configured, 0 read as 1. *)
LEMMA BurstIsAllowance ==
  ASSUME NEW k
  PROVE  Burst(k) = Allowance(k) /\ Burst(k) \in Nat /\ Burst(k) >= 1
<1> DEFINE b == IF k \in Ips THEN HttpBurst ELSE BinaryBurst
<1>1. b \in Nat
  BY SettingTypes
<1>2. Burst(k) = Max({b, 1}) /\ Allowance(k) = IF b = 0 THEN 1 ELSE b
  BY DEF Burst, Allowance
<1> HIDE DEF b
<1>3. Max({b, 1}) = IF b >= 1 THEN b ELSE 1
  BY <1>1, MaxOfTwo
<1> QED
  BY <1>1, <1>2, <1>3

LEMMA Division ==
  ASSUME NEW m \in Nat, NEW r \in Nat, r >= 1, r <= m
  PROVE  /\ m \div r \in Nat /\ m \div r >= 1 /\ m % r \in Nat
         /\ r * (m \div r) = m - (m % r)
  OBVIOUS

LEMMA DivisionByMore ==
  ASSUME NEW m \in Nat, NEW r \in Nat, r > m
  PROVE  m \div r = 0
  OBVIOUS

(* As many periods as the rate says fill a minute but for the rounding. *)
LEMMA PeriodFitsRate ==
  ASSUME NEW k
  PROVE  /\ Period(k) \in Nat /\ Period(k) >= 1
         /\ Rate(k) \in Nat /\ Rate(k) >= 1 /\ Minute % Rate(k) \in Nat
         /\ Rate(k) * Period(k) = Minute - (Minute % Rate(k))
<1> DEFINE n == PerMinute(k)
<1>a. n \in Nat
  BY SettingTypes
<1>b. Minute \in Nat /\ Minute = 60000
  BY DEF Minute
<1>c. Period(k) = IF n = 0 THEN Minute ELSE Max({Minute \div n, 1})
  BY DEF Period, PerMinuteToPeriod
<1>d. Rate(k) = Max({Min({n, Minute}), 1})
  BY DEF Rate
<1> HIDE DEF n
<1>1. CASE n = 0
  <2>1. Min({n, Minute}) = 0
    BY <1>1, <1>b, MinOfTwo
  <2>2. Rate(k) = 1
    BY <1>d, <2>1, MaxOfTwo
  <2> QED
    BY <1>1, <1>b, <1>c, <2>2
<1>2. CASE n >= 1 /\ n <= Minute
  <2>1. Min({n, Minute}) = n
    BY <1>2, <1>a, <1>b, MinOfTwo
  <2>2. Rate(k) = n
    BY <1>2, <1>a, <1>d, <2>1, MaxOfTwo
  <2>3. /\ Minute \div n \in Nat /\ Minute \div n >= 1 /\ Minute % n \in Nat
        /\ n * (Minute \div n) = Minute - (Minute % n)
    BY <1>2, <1>a, <1>b, Division
  <2>4. Period(k) = Minute \div n
    <3>1. Max({Minute \div n, 1}) = Minute \div n
      BY <2>3, MaxOfTwo
    <3> QED
      BY <1>2, <1>a, <1>c, <3>1
  <2> QED
    BY <1>2, <1>a, <2>2, <2>3, <2>4
<1>3. CASE n > Minute
  <2>1. Min({n, Minute}) = Minute
    BY <1>3, <1>a, <1>b, MinOfTwo
  <2>2. Rate(k) = Minute
    BY <1>b, <1>d, <2>1, MaxOfTwo
  <2>3. Minute \div n = 0
    BY <1>3, <1>a, <1>b, DivisionByMore
  <2>4. Period(k) = 1
    BY <1>3, <1>b, <1>c, <2>3, MaxOfTwo
  <2> QED
    BY <1>b, <2>2, <2>4
<1> QED
  BY <1>1, <1>2, <1>3, <1>a, <1>b

-----------------------------------------------------------------------------
(* One key: at time n its debt is d, its admissions were at t, its period  *)
(* is p and its burst b.                                                   *)

Owed(n, t, p, i) == (Len(t) - i + 1) * p - (n - t[i])

(* Requests beyond the burst are a period apart. *)
Spaced(t, p, b) ==
  \A j \in 1 .. Len(t) : \A i \in 1 .. j : (j - i + 1 - b) * p <= t[j] - t[i]

KeyInv(n, d, t, p, b) ==
  /\ d \in Nat /\ d <= b * p
  /\ t \in Seq(Nat)
  /\ \A i \in 1 .. Len(t) : t[i] <= n /\ Owed(n, t, p, i) <= d
  /\ d = 0 \/ \E i \in 1 .. Len(t) : Owed(n, t, p, i) = d
  /\ Spaced(t, p, b)

LEMMA Times ==
  ASSUME NEW a \in Int, NEW p \in Nat
  PROVE  a * p \in Int /\ (a + 1) * p = a * p + p /\ (1 * p = p)
  OBVIOUS

LEMMA TimesDifference ==
  ASSUME NEW a \in Int, NEW b \in Int, NEW p \in Nat, NEW c \in Int, a * p - c <= b * p
  PROVE  (a - b) * p <= c
<1>1. (a - b) * p = a * p - b * p /\ a * p \in Int /\ b * p \in Int
  OBVIOUS
<1> QED
  BY <1>1

LEMMA NewKey ==
  ASSUME NEW n \in Nat, NEW p \in Nat, NEW b \in Nat
  PROVE  KeyInv(n, 0, << >>, p, b)
  BY DEF KeyInv, Spaced

(* The next request: each earlier one owes a period more. *)
LEMMA OwedAfterAppend ==
  ASSUME NEW n \in Nat, NEW p \in Nat, NEW t \in Seq(Nat)
  PROVE  /\ Owed(n, Append(t, n), p, Len(t) + 1) = p
         /\ \A i \in 1 .. Len(t) : Owed(n, Append(t, n), p, i) = Owed(n, t, p, i) + p
<1> DEFINE u == Append(t, n)
<1>1. Len(u) = Len(t) + 1 /\ u[Len(t) + 1] = n /\ \A i \in 1 .. Len(t) : u[i] = t[i]
  OBVIOUS
<1> HIDE DEF u
<1>2. Owed(n, u, p, Len(t) + 1) = p
  <2>1. (Len(u) - (Len(t) + 1) + 1) = 1
    BY <1>1
  <2>2. Owed(n, u, p, Len(t) + 1) = 1 * p - (n - n)
    BY <1>1, <2>1 DEF Owed
  <2> QED
    BY <2>2
<1>3. ASSUME NEW i \in 1 .. Len(t) PROVE Owed(n, u, p, i) = Owed(n, t, p, i) + p
  <2> DEFINE a == Len(t) - i + 1
  <2>1. Len(u) - i + 1 = a + 1 /\ a \in Int /\ t[i] \in Nat /\ u[i] = t[i]
    BY <1>1
  <2>2. /\ Owed(n, u, p, i) = (Len(u) - i + 1) * p - (n - u[i])
        /\ Owed(n, t, p, i) = a * p - (n - t[i])
    BY DEF Owed
  <2> HIDE DEF a
  <2>3. (a + 1) * p = a * p + p /\ a * p \in Int
    BY <2>1, Times
  <2>4. Owed(n, u, p, i) = (a * p + p) - (n - t[i])
    BY <2>1, <2>2, <2>3, Zenon
  <2> QED
    BY <2>1, <2>2, <2>3, <2>4
<1> QED
  BY <1>2, <1>3 DEF u

LEMMA AdmitKeepsKey ==
  ASSUME NEW n \in Nat, NEW p \in Nat, NEW b \in Nat, NEW d, NEW t,
         KeyInv(n, d, t, p, b), d + p <= b * p
  PROVE  KeyInv(n, d + p, Append(t, n), p, b)
<1> DEFINE u == Append(t, n)
<1>1. d \in Nat /\ t \in Seq(Nat)
  BY DEF KeyInv
<1>2. /\ u \in Seq(Nat) /\ Len(u) = Len(t) + 1 /\ u[Len(t) + 1] = n /\ Len(t) \in Nat
      /\ \A i \in 1 .. Len(t) : u[i] = t[i] /\ t[i] \in Nat
  BY <1>1
<1>3. /\ Owed(n, u, p, Len(t) + 1) = p
      /\ \A i \in 1 .. Len(t) : Owed(n, u, p, i) = Owed(n, t, p, i) + p
  BY <1>1, OwedAfterAppend
<1> HIDE DEF u
<1>4. \A i \in 1 .. Len(u) : i = Len(t) + 1 \/ i \in 1 .. Len(t)
  BY <1>2
<1>5. ASSUME NEW i \in 1 .. Len(t) PROVE Owed(n, t, p, i) \in Int
  <2>1. Len(t) - i + 1 \in Int /\ t[i] \in Nat
    BY <1>2
  <2> QED
    BY <2>1, Times DEF Owed
<1>6. ASSUME NEW i \in 1 .. Len(u) PROVE u[i] <= n /\ Owed(n, u, p, i) <= d + p
  <2>1. CASE i = Len(t) + 1
    BY <1>1, <1>2, <1>3, <2>1
  <2>2. CASE i \in 1 .. Len(t)
    <3>1. t[i] <= n /\ Owed(n, t, p, i) <= d
      BY <2>2 DEF KeyInv
    <3>2. u[i] = t[i] /\ Owed(n, u, p, i) = Owed(n, t, p, i) + p /\ Owed(n, t, p, i) \in Int
      BY <1>2, <1>3, <1>5, <2>2, Zenon
    <3>3. ASSUME NEW x \in Int, x <= d PROVE x + p <= d + p
      BY <1>1, <3>3
    <3> QED
      BY <3>1, <3>2, <3>3, Zenon
  <2> QED
    BY <1>4, <2>1, <2>2
<1>7. \E i \in 1 .. Len(u) : Owed(n, u, p, i) = d + p
  <2>1. CASE d = 0
    <3>1. Len(t) + 1 \in 1 .. Len(u)
      BY <1>2
    <3> QED
      BY <1>3, <2>1, <3>1
  <2>2. CASE d # 0
    <3>1. PICK i \in 1 .. Len(t) : Owed(n, t, p, i) = d
      BY <2>2 DEF KeyInv
    <3>2. i \in 1 .. Len(u)
      BY <1>2
    <3> QED
      BY <1>3, <3>1, <3>2
  <2> QED
    BY <2>1, <2>2
<1>8. Spaced(u, p, b)
  <2> SUFFICES ASSUME NEW j \in 1 .. Len(u), NEW i \in 1 .. j
               PROVE  (j - i + 1 - b) * p <= u[j] - u[i]
    BY DEF Spaced
  <2>1. CASE j \in 1 .. Len(t)
    <3>1. i \in 1 .. Len(t)
      BY <1>2, <2>1
    <3>2. (j - i + 1 - b) * p <= t[j] - t[i]
      BY <2>1 DEF KeyInv, Spaced
    <3> QED
      BY <1>2, <2>1, <3>1, <3>2
  <2>2. CASE j = Len(t) + 1
    <3>1. i \in 1 .. Len(u) /\ i \in Int /\ u[i] \in Nat
      BY <1>2, <2>2
    <3>2. (Len(u) - i + 1) * p - (n - u[i]) <= d + p
      BY <1>6, <3>1 DEF Owed
    <3> DEFINE m == Len(u) - i + 1
    <3>3. m \in Int /\ m = Len(u) - i + 1
      BY <1>2, <3>1
    <3> HIDE DEF m
    <3>4. m * p - (n - u[i]) <= b * p
      <4>1. m * p - (n - u[i]) <= d + p
        BY <3>2, <3>3, Zenon
      <4>2. m * p \in Int /\ b * p \in Int
        BY <3>3, Times
      <4>3. m * p - (n - u[i]) \in Int /\ d + p \in Int
        BY <1>1, <3>1, <4>2
      <4>4. ASSUME NEW x \in Int, NEW y \in Int, NEW z \in Int, x <= y, y <= z PROVE x <= z
        BY <4>4
      <4> QED
        BY <4>1, <4>2, <4>3, <4>4, Zenon
    <3>5. n - u[i] \in Int /\ b \in Int
      BY <3>1
    <3>6. (m - b) * p <= n - u[i]
      BY <3>3, <3>4, <3>5, TimesDifference
    <3>7. j - i + 1 - b = m - b
      BY <1>2, <2>2, <3>3
    <3> QED
      BY <1>2, <2>2, <3>6, <3>7
  <2> QED
    BY <1>4, <2>1, <2>2
<1>9. d + p \in Nat
  BY <1>1
<1> QED
  BY <1>2, <1>6, <1>7, <1>8, <1>9 DEF KeyInv, u

(* Time passes: everything owed becomes less by as much. *)
LEMMA TickKeepsKey ==
  ASSUME NEW n \in Nat, NEW p \in Nat, NEW b \in Nat, NEW d, NEW t, NEW e \in Nat,
         KeyInv(n, d, t, p, b)
  PROVE  KeyInv(n + e, Max({d - e, 0}), t, p, b)
<1>1. d \in Nat /\ t \in Seq(Nat)
  BY DEF KeyInv
<1>2. PICK f \in Nat : f = Max({d - e, 0}) /\ f = IF d - e >= 0 THEN d - e ELSE 0
  BY <1>1, MaxOfTwo
<1>3. ASSUME NEW i \in 1 .. Len(t)
      PROVE  /\ Owed(n, t, p, i) \in Int /\ t[i] \in Nat
             /\ Owed(n + e, t, p, i) = Owed(n, t, p, i) - e
  <2>1. Len(t) - i + 1 \in Int /\ t[i] \in Nat
    BY <1>1
  <2>2. PICK m \in Int : m = (Len(t) - i + 1) * p
    BY <2>1, Times
  <2>3. Owed(n, t, p, i) = m - (n - t[i]) /\ Owed(n + e, t, p, i) = m - ((n + e) - t[i])
    BY <2>2, Zenon DEF Owed
  <2> QED
    BY <2>1, <2>3
<1>4. ASSUME NEW i \in 1 .. Len(t) PROVE t[i] <= n + e /\ Owed(n + e, t, p, i) <= f
  <2>1. t[i] <= n /\ Owed(n, t, p, i) <= d
    BY DEF KeyInv
  <2>2. ASSUME NEW x \in Int, NEW y \in Nat, x <= d, y <= n PROVE x - e <= f /\ y <= n + e
    BY <1>1, <1>2, <2>2
  <2>3. /\ Owed(n, t, p, i) \in Int /\ t[i] \in Nat
        /\ Owed(n + e, t, p, i) = Owed(n, t, p, i) - e
    BY <1>3
  <2>4. Owed(n, t, p, i) - e <= f /\ t[i] <= n + e
    BY <2>1, <2>2, <2>3, Zenon
  <2> QED
    BY <2>3, <2>4, Zenon
<1>5. f = 0 \/ \E i \in 1 .. Len(t) : Owed(n + e, t, p, i) = f
  <2> SUFFICES ASSUME f # 0 PROVE \E i \in 1 .. Len(t) : Owed(n + e, t, p, i) = f
    OBVIOUS
  <2>1. f = d - e /\ d # 0
    BY <1>1, <1>2
  <2>2. PICK i \in 1 .. Len(t) : Owed(n, t, p, i) = d
    BY <2>1 DEF KeyInv
  <2>3. Owed(n + e, t, p, i) = Owed(n, t, p, i) - e
    BY <1>3
  <2> QED
    BY <2>1, <2>2, <2>3, Zenon
<1>6. f <= b * p
  <2>1. d <= b * p /\ f <= d
    BY <1>1, <1>2 DEF KeyInv
  <2> QED
    BY <1>1, <2>1
<1> QED
  BY <1>1, <1>2, <1>4, <1>5, <1>6 DEF KeyInv

-----------------------------------------------------------------------------
(* All keys. *)

LimiterInv ==
  /\ now \in Nat
  /\ DOMAIN debt = Keys /\ DOMAIN times = Keys /\ DOMAIN verdict = Keys
  /\ \A k \in Keys :
       /\ KeyInv(now, debt[k], times[k], Period(k), Burst(k))
       /\ verdict[k] = "refused" => debt[k] + Period(k) > Burst(k) * Period(k)

LEMMA LimiterInvStep ==
  ASSUME LimiterInv, [Next]_vars
  PROVE  LimiterInv'
<1>a. /\ now \in Nat
      /\ DOMAIN debt = Keys /\ DOMAIN times = Keys /\ DOMAIN verdict = Keys
      /\ \A d \in Keys : KeyInv(now, debt[d], times[d], Period(d), Burst(d))
      /\ \A d \in Keys : verdict[d] = "refused" => debt[d] + Period(d) > Burst(d) * Period(d)
  BY DEF LimiterInv
<1>b. \A d \in Keys : Period(d) \in Nat /\ Burst(d) \in Nat
  BY PeriodFitsRate, BurstIsAllowance
<1>1. ASSUME NEW k \in Keys, Admit(k) PROVE LimiterInv'
  <2>1. /\ debt[k] + Period(k) <= Burst(k) * Period(k) /\ now' = now
        /\ DOMAIN debt' = Keys /\ DOMAIN times' = Keys /\ DOMAIN verdict' = Keys
        /\ debt'[k] = debt[k] + Period(k) /\ times'[k] = Append(times[k], now)
        /\ verdict'[k] # "refused"
        /\ \A d \in Keys : d # k =>
             debt'[d] = debt[d] /\ times'[d] = times[d] /\ verdict'[d] = verdict[d]
    BY <1>1, <1>a DEF Admit
  <2>2. KeyInv(now, debt'[k], times'[k], Period(k), Burst(k))
    BY <1>a, <1>b, <2>1, AdmitKeepsKey
  <2> QED
    BY <1>a, <2>1, <2>2 DEF LimiterInv
<1>2. ASSUME NEW k \in Keys, Refuse(k) PROVE LimiterInv'
  BY <1>2, <1>a DEF Refuse, LimiterInv
<1>3. ASSUME NEW k \in Keys, Connect(k) PROVE LimiterInv'
  <2>1. /\ now' = now
        /\ DOMAIN debt' = Keys /\ DOMAIN times' = Keys /\ DOMAIN verdict' = Keys
        /\ debt'[k] = 0 /\ times'[k] = << >> /\ verdict'[k] # "refused"
        /\ \A d \in Keys : d # k =>
             debt'[d] = debt[d] /\ times'[d] = times[d] /\ verdict'[d] = verdict[d]
    BY <1>3, <1>a DEF Connect
  <2>2. KeyInv(now, debt'[k], times'[k], Period(k), Burst(k))
    BY <1>a, <1>b, <2>1, NewKey
  <2> QED
    BY <1>a, <2>1, <2>2 DEF LimiterInv
<1>4. ASSUME NEW e \in TimeSteps, Tick(e) PROVE LimiterInv'
  <2>1. e \in Nat
    BY LimitAssumption
  <2>2. /\ now' = now + e /\ times' = times
        /\ DOMAIN debt' = Keys /\ DOMAIN verdict' = Keys
        /\ \A d \in Keys : debt'[d] = Max({debt[d] - e, 0}) /\ verdict'[d] = "none"
    BY <1>4 DEF Tick
  <2>3. ASSUME NEW d \in Keys
        PROVE  KeyInv(now', debt'[d], times'[d], Period(d), Burst(d))
    <3>1. KeyInv(now + e, Max({debt[d] - e, 0}), times[d], Period(d), Burst(d))
      BY <1>a, <1>b, <2>1, TickKeepsKey
    <3>2. now' = now + e /\ debt'[d] = Max({debt[d] - e, 0}) /\ times'[d] = times[d]
      BY <2>2
    <3> QED
      BY <3>1, <3>2
  <2>4. now' \in Nat
    BY <1>a, <2>1, <2>2
  <2> QED
    BY <1>a, <2>2, <2>3, <2>4 DEF LimiterInv
<1>5. CASE UNCHANGED vars
  BY <1>5 DEF vars, LimiterInv
<1> QED
  BY <1>1, <1>2, <1>3, <1>4, <1>5 DEF Next

LEMMA LimiterInvariant == Spec => []LimiterInv
<1>1. Init => LimiterInv
  <2> SUFFICES ASSUME Init PROVE LimiterInv
    OBVIOUS
  <2>1. ASSUME NEW k \in Keys PROVE KeyInv(0, 0, << >>, Period(k), Burst(k))
    BY PeriodFitsRate, BurstIsAllowance, NewKey
  <2> QED
    BY <2>1 DEF Init, LimiterInv
<1> QED
  BY <1>1, LimiterInvStep, PTL DEF Spec

(* x periods in d milliseconds at most, as requests of a rate of r. *)
LEMMA PeriodsToRate ==
  ASSUME NEW x \in Int, NEW p \in Nat, NEW r \in Nat, NEW d \in Int, x * p <= d
  PROVE  x * (r * p) <= d * r
<1>1. x * (r * p) = (x * p) * r /\ x * p \in Int
  OBVIOUS
<1> QED
  BY <1>1

(* More than d milliseconds' worth of periods. *)
LEMMA PeriodsAboveRate ==
  ASSUME NEW x \in Int, NEW p \in Nat, NEW r \in Nat, NEW d \in Nat, NEW m \in Nat,
         x * p > d, r >= 1, r * p <= m
  PROVE  x * m > d * r
<1>1. x >= 1
  OBVIOUS
<1>2. (x * p) * r > d * r
  OBVIOUS
<1>3. x * (r * p) <= x * m
  BY <1>1
<1>4. (x * p) * r = x * (r * p)
  OBVIOUS
<1> QED
  BY <1>2, <1>3, <1>4

(* Neither limiter lets through more than its configured requests per      *)
(* minute and its burst, whatever the settings are: 0 counts as 1, and     *)
(* only the rounding of per_minute_to_period is on top.                    *)
THEOREM RateIsUpperBound == Spec => []WithinConfiguredRate
<1>1. ASSUME LimiterInv PROVE WithinConfiguredRate
  <2> SUFFICES ASSUME NEW k \in Keys, NEW j \in 1 .. Len(times[k]), NEW i \in 1 .. j
               PROVE  (j - i + 1 - Allowance(k)) * (Minute - (Minute % Rate(k)))
                        <= (times[k][j] - times[k][i]) * Rate(k)
    BY DEF WithinConfiguredRate
  <2>1. KeyInv(now, debt[k], times[k], Period(k), Burst(k))
    BY <1>1 DEF LimiterInv
  <2>2. (j - i + 1 - Burst(k)) * Period(k) <= times[k][j] - times[k][i]
    BY <2>1 DEF KeyInv, Spaced
  <2>3. times[k] \in Seq(Nat)
    BY <2>1 DEF KeyInv
  <2>4. times[k][j] - times[k][i] \in Int /\ j - i + 1 - Burst(k) \in Int
    <3>1. Len(times[k]) \in Nat /\ i \in 1 .. Len(times[k]) /\ i \in Int /\ j \in Int
      BY <2>3
    <3>2. times[k][j] \in Nat /\ times[k][i] \in Nat
      BY <2>3, <3>1
    <3>3. Burst(k) \in Nat
      BY BurstIsAllowance
    <3> QED
      BY <3>1, <3>2, <3>3
  <2>5. (j - i + 1 - Burst(k)) * (Rate(k) * Period(k))
          <= (times[k][j] - times[k][i]) * Rate(k)
    BY <2>2, <2>4, PeriodFitsRate, PeriodsToRate
  <2>6. Burst(k) = Allowance(k) /\ Rate(k) * Period(k) = Minute - (Minute % Rate(k))
    BY BurstIsAllowance, PeriodFitsRate
  <2> QED
    BY <2>5, <2>6
<1> QED
  BY <1>1, LimiterInvariant, PTL

(* What is owed and a period more exceed the burst. *)
LEMMA OwedAboveBurst ==
  ASSUME NEW x \in Int, NEW b \in Int, NEW p \in Nat, NEW c \in Int, NEW d \in Int,
         x * p - c = d, d + p > b * p
  PROVE  (x + 1 - b) * p > c
<1>1. (x + 1 - b) * p = x * p + p - b * p /\ x * p \in Int /\ b * p \in Int
  OBVIOUS
<1> QED
  BY <1>1

(* No request is refused that the configured rate and burst allow: with    *)
(* it, some stretch of time that ends now would have one too many.         *)
THEOREM RefusalsAreAboveRate == Spec => []RefusedOnlyAboveRate
<1>1. ASSUME LimiterInv PROVE RefusedOnlyAboveRate
  <2> SUFFICES ASSUME NEW k \in Keys, verdict[k] = "refused"
               PROVE  \E i \in 1 .. Len(times[k]) :
                        (Len(times[k]) - i + 2 - Allowance(k)) * Minute
                          > (now - times[k][i]) * Rate(k)
    BY DEF RefusedOnlyAboveRate
  <2>1. /\ KeyInv(now, debt[k], times[k], Period(k), Burst(k)) /\ now \in Nat
        /\ debt[k] + Period(k) > Burst(k) * Period(k)
    BY <1>1 DEF LimiterInv
  <2>2. /\ Period(k) \in Nat /\ Burst(k) \in Nat /\ Burst(k) >= 1
        /\ Rate(k) \in Nat /\ Rate(k) >= 1 /\ Minute \in Nat
    BY PeriodFitsRate, BurstIsAllowance DEF Minute
  <2>3. Rate(k) * Period(k) <= Minute
    <3>1. Rate(k) * Period(k) = Minute - (Minute % Rate(k)) /\ Minute % Rate(k) \in Nat
      BY PeriodFitsRate
    <3> QED
      BY <2>2, <3>1
  <2>4. debt[k] \in Nat /\ times[k] \in Seq(Nat)
    BY <2>1 DEF KeyInv
  <2>5. debt[k] # 0
    <3>1. Burst(k) * Period(k) >= Period(k)
      BY <2>2
    <3> QED
      BY <2>1, <2>2, <2>4, <3>1
  <2>6. PICK i \in 1 .. Len(times[k]) : Owed(now, times[k], Period(k), i) = debt[k]
    BY <2>1, <2>5 DEF KeyInv
  <2>7. times[k][i] \in Nat /\ times[k][i] <= now
    BY <2>1, <2>4 DEF KeyInv
  <2> DEFINE x == Len(times[k]) - i + 1
             c == now - times[k][i]
  <2>8. /\ x \in Int /\ c \in Nat
        /\ x + 1 - Burst(k) = Len(times[k]) - i + 2 - Burst(k) /\ x + 1 - Burst(k) \in Int
    <3>1. Len(times[k]) \in Nat /\ i \in Int
      BY <2>4
    <3>2. c \in Nat
      BY <2>1, <2>7
    <3> HIDE DEF c
    <3> QED
      BY <2>2, <3>1, <3>2
  <2>9. x * Period(k) - c = debt[k]
    BY <2>6 DEF Owed
  <2> HIDE DEF x
  <2>10. c = now - times[k][i]
    OBVIOUS
  <2> HIDE DEF c
  <2>11. (x + 1 - Burst(k)) * Period(k) > c
    <3>1. Burst(k) \in Int /\ c \in Int /\ debt[k] \in Int
      BY <2>2, <2>4, <2>8
    <3> QED
      BY <2>1, <2>2, <2>8, <2>9, <3>1, OwedAboveBurst, Zenon
  <2>12. (x + 1 - Burst(k)) * Minute > c * Rate(k)
    BY <2>2, <2>3, <2>8, <2>11, PeriodsAboveRate
  <2>13. Burst(k) = Allowance(k)
    BY BurstIsAllowance
  <2> QED
    BY <2>8, <2>10, <2>12, <2>13
<1> QED
  BY <1>1, LimiterInvariant, PTL
=============================================================================
