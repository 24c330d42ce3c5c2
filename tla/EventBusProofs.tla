--------------------------- MODULE EventBusProofs ---------------------------
(***************************************************************************)
(* What a client of /events is sent, for any number of clients and events  *)
(* and any sizes of backlog and channel.                                   *)
(*                                                                         *)
(* The backlog, a client's snapshot and, until it lags, what it was sent   *)
(* are runs of consecutive identifiers.  The proofs follow where each run  *)
(* ends: the snapshot begins where the sent events end, and once it is     *)
(* used up the sent events reach at least as far as the receiver does.     *)
(***************************************************************************)
EXTENDS EventBus, TLAPS

(* A run of consecutive identifiers, and the last of what was sent. *)
Run(q) == \A i \in 1 .. Len(q) : q[i] >= 1 /\ q[i] = q[1] + i - 1

LastOf(q) == IF q = << >> THEN 0 ELSE q[Len(q)]

Increasing(q) == \A i, j \in 1 .. Len(q) : i < j => q[i] < q[j]

(* The end of the snapshot is still to be sent. *)
TopKept(q, from) == q # << >> /\ q[Len(q)] >= from

BusTypeOK ==
  /\ pc \in {"ready", "store", "publish", "notify"}
  /\ nextId \in Nat
  /\ backlog \in Seq(Nat)
  /\ channel \in Seq(Nat)
  /\ phase \in [Clients -> Phases]
  /\ kind \in [Clients -> {"ws", "sse"}]
  /\ startFrom \in [Clients -> Nat \cup {None}]
  /\ joined \in [Clients -> Nat]
  /\ rx \in [Clients -> Nat]
  /\ lastSent \in [Clients -> Nat]
  /\ queue \in [Clients -> Seq(Nat)]
  /\ out \in [Clients -> Seq(Nat)]
  /\ lagged \in [Clients -> BOOLEAN]

(* The channel holds what was published, in order: one event behind the    *)
(* counter while a push is under way.                                      *)
ChannelInv ==
  /\ pc \in {"store", "publish"} => nextId >= 1
  /\ Len(channel) = IF pc \in {"store", "publish"} THEN nextId - 1 ELSE nextId
  /\ \A i \in 1 .. Len(channel) : channel[i] = i

Early   == {"listen", "check", "await", "greet"}
Started == {"replay", "live"}

(* What a handler has not done yet in each phase. *)
PhaseInv(c) ==
  /\ phase[c] \in {"off", "snapshot"} =>
       queue[c] = << >> /\ out[c] = << >> /\ lastSent[c] = 0
  /\ phase[c] \in Early => out[c] = << >>
  /\ phase[c] \in Early /\ kind[c] = "ws" => queue[c] = << >>
  /\ phase[c] = "snapshot" \/ queue[c] # << >> => startFrom[c] # None
  /\ phase[c] = "live" => queue[c] = << >>
  /\ phase[c] \notin {"off", "live"} => rx[c] = joined[c]
  /\ phase[c] # "live" => ~lagged[c]
  /\ phase[c] # "off" => joined[c] <= rx[c] /\ rx[c] <= Len(channel)

(* Where the runs of a client end. *)
RunsInv(c) ==
  /\ Run(queue[c])
  /\ Increasing(out[c])
  /\ out[c] # << >> => LastOf(out[c]) >= 1
  /\ ~lagged[c] => Run(out[c])
  /\ out[c] # << >> /\ queue[c] # << >> =>
       queue[c][1] = LastOf(out[c]) + 1 /\ queue[c][1] >= startFrom[c]
  /\ queue[c] # << >> => queue[c][Len(queue[c])] >= joined[c]
  /\ queue[c] = << >> /\ out[c] # << >> /\ ~lagged[c] => LastOf(out[c]) >= rx[c]
  /\ out[c] = << >> /\ ~lagged[c] /\ phase[c] = "live" => rx[c] = joined[c]
  /\ lastSent[c] = IF kind[c] = "sse" /\ TopKept(queue[c], startFrom[c])
                     THEN queue[c][Len(queue[c])] ELSE LastOf(out[c])

(* Where they begin.  The backlog may have lost what the client was due,   *)
(* but then the channel has overrun its receiver before it reads there.    *)
InTime(c, e) ==
  \/ e <= joined[c] + 1
  \/ startFrom[c] # None /\ e <= startFrom[c]
  \/ rx[c] = joined[c] /\ Len(channel) > joined[c] + RingSize

FirstInv(c) ==
  ~lagged[c] =>
    /\ out[c] # << >> => InTime(c, out[c][1])
    /\ out[c] = << >> /\ queue[c] # << >> => InTime(c, queue[c][1])

(* What the refinement needs besides: nothing comes from beyond the        *)
(* backlog, and a client is sent nothing from it only when it had asked    *)
(* for a later event.                                                      *)
NotOwed(c) ==
  \/ TopKept(queue[c], startFrom[c])
  \/ startFrom[c] > joined[c]
  \/ joined[c] = 0 /\ startFrom[c] = 0

FeedInv(c) ==
  /\ \A i \in 1 .. Len(queue[c]) : queue[c][i] <= Stored
  /\ out[c] = << >> /\ queue[c] # << >> =>
       queue[c][1] = 1 \/ queue[c][1] + Limit <= Stored + 1
  /\ phase[c] \in Started /\ startFrom[c] # None /\ out[c] = << >> => NotOwed(c)
  /\ kind[c] = "sse" /\ phase[c] \in Early /\ startFrom[c] # None => NotOwed(c)

ClientInv(c) == PhaseInv(c) /\ RunsInv(c) /\ FeedInv(c)

BusInv ==
  /\ BusTypeOK
  /\ ChannelInv
  /\ BacklogIsLatest
  /\ \A c \in Clients : ClientInv(c)

-----------------------------------------------------------------------------
(* Runs: what is appended, cut off at the front, or kept of them. *)

LEMMA EmptyLen ==
  ASSUME NEW q \in Seq(Nat)
  PROVE  (q = << >> <=> Len(q) = 0) /\ Len(q) \in Nat
  OBVIOUS

LEMMA Appended ==
  ASSUME NEW q \in Seq(Nat), NEW n \in Nat, NEW r, r = Append(q, n)
  PROVE  /\ r \in Seq(Nat) /\ Len(r) = Len(q) + 1 /\ r # << >> /\ Len(q) \in Nat
         /\ \A i \in 1 .. Len(q) : r[i] = q[i]
         /\ r[Len(q) + 1] = n
<1>1. r \in Seq(Nat) /\ Len(r) = Len(q) + 1 /\ Len(q) \in Nat
  OBVIOUS
<1>2. r # << >>
  BY <1>1
<1>3. \A i \in 1 .. Len(q) : r[i] = q[i]
  OBVIOUS
<1>4. r[Len(q) + 1] = n
  BY <1>1
<1> QED
  BY <1>1, <1>2, <1>3, <1>4

LEMMA RunIncreasing ==
  ASSUME NEW q \in Seq(Nat), Run(q)
  PROVE  \A i \in 1 .. Len(q) : /\ q[i] \in Nat /\ q[Len(q)] \in Nat /\ q[1] \in Nat
                                /\ q[1] >= 1 /\ q[i] <= q[Len(q)] /\ q[1] <= q[i]
                                /\ q[i] = q[1] + i - 1
                                /\ q[Len(q)] = q[1] + Len(q) - 1
<1> SUFFICES ASSUME NEW i \in 1 .. Len(q)
             PROVE  /\ q[i] \in Nat /\ q[Len(q)] \in Nat /\ q[1] \in Nat
                    /\ q[1] >= 1 /\ q[i] <= q[Len(q)] /\ q[1] <= q[i]
                    /\ q[i] = q[1] + i - 1
                    /\ q[Len(q)] = q[1] + Len(q) - 1
  OBVIOUS
<1>1. 1 \in 1 .. Len(q) /\ Len(q) \in 1 .. Len(q) /\ Len(q) \in Nat
  OBVIOUS
<1>2. q[i] \in Nat /\ q[Len(q)] \in Nat /\ q[1] \in Nat
  BY <1>1
<1>3. q[1] >= 1 /\ q[i] = q[1] + i - 1 /\ q[Len(q)] = q[1] + Len(q) - 1
  BY <1>1 DEF Run
<1> QED
  BY <1>1, <1>2, <1>3

LEMMA RunAppend ==
  ASSUME NEW q \in Seq(Nat), Run(q), NEW n \in Nat, n >= 1, q # << >> => n = LastOf(q) + 1
  PROVE  /\ Append(q, n) \in Seq(Nat) /\ Len(Append(q, n)) = Len(q) + 1
         /\ Run(Append(q, n)) /\ LastOf(Append(q, n)) = n
         /\ Append(q, n) # << >> /\ Append(q, n)[1] = IF q = << >> THEN n ELSE q[1]
<1> DEFINE r == Append(q, n)
<1>1. /\ r \in Seq(Nat) /\ Len(r) = Len(q) + 1 /\ r # << >> /\ Len(q) \in Nat
      /\ \A i \in 1 .. Len(q) : r[i] = q[i]
      /\ r[Len(q) + 1] = n
  BY Appended
<1> HIDE DEF r
<1>2. q = << >> <=> Len(q) = 0
  BY EmptyLen
<1>3. r[1] = IF q = << >> THEN n ELSE q[1]
  BY <1>1, <1>2
<1>4. ASSUME NEW i \in 1 .. Len(r) PROVE r[i] >= 1 /\ r[i] = r[1] + i - 1
  <2>1. CASE q = << >>
    <3>1. i = 1 /\ r[1] = n
      BY <1>1, <1>2, <1>3, <2>1
    <3> QED
      BY <3>1
  <2>2. CASE q # << >>
    <3>1. 1 \in 1 .. Len(q) /\ Len(q) \in 1 .. Len(q)
      BY <1>1, <1>2, <2>2
    <3>a. q[1] \in Nat /\ q[1] >= 1 /\ q[Len(q)] = q[1] + Len(q) - 1
      BY <3>1, RunIncreasing
    <3>b. n = q[Len(q)] + 1
      BY <2>2 DEF LastOf
    <3>2. q[1] \in Nat /\ q[1] >= 1 /\ n = q[1] + Len(q) /\ r[1] = q[1]
      BY <1>1, <1>3, <2>2, <3>a, <3>b
    <3>3. CASE i \in 1 .. Len(q)
      <4>1. r[i] = q[i] /\ q[i] >= 1 /\ q[i] = q[1] + i - 1
        BY <1>1, <3>3 DEF Run
      <4> QED
        BY <3>2, <4>1
    <3>4. CASE i = Len(q) + 1
      <4>1. r[i] = q[1] + Len(q) /\ r[1] = q[1]
        BY <1>1, <3>2, <3>4
      <4> QED
        BY <1>1, <3>2, <3>4, <4>1
    <3> QED
      BY <1>1, <3>3, <3>4
  <2> QED
    BY <2>1, <2>2
<1>5. Run(r) /\ LastOf(r) = n
  BY <1>1, <1>4 DEF Run, LastOf
<1> QED
  BY <1>1, <1>3, <1>5 DEF r

LEMMA IncreasingAppend ==
  ASSUME NEW q \in Seq(Nat), Increasing(q), NEW n \in Nat, q # << >> => n > LastOf(q)
  PROVE  /\ Append(q, n) \in Seq(Nat) /\ Increasing(Append(q, n))
         /\ Append(q, n) # << >> /\ LastOf(Append(q, n)) = n
<1> DEFINE r == Append(q, n)
<1>1. /\ r \in Seq(Nat) /\ Len(r) = Len(q) + 1 /\ r # << >> /\ Len(q) \in Nat
      /\ \A i \in 1 .. Len(q) : r[i] = q[i]
      /\ r[Len(q) + 1] = n
  BY Appended
<1> HIDE DEF r
<1>2. ASSUME NEW i \in 1 .. Len(r), NEW j \in 1 .. Len(r), i < j PROVE r[i] < r[j]
  <2>1. i \in 1 .. Len(q)
    BY <1>1, <1>2
  <2>2. CASE j \in 1 .. Len(q)
    BY <1>1, <1>2, <2>1, <2>2 DEF Increasing
  <2>3. CASE j = Len(q) + 1
    <3>1. q # << >> /\ Len(q) \in 1 .. Len(q) /\ (i < Len(q) \/ i = Len(q))
      BY <2>1
    <3>2. q[i] \in Nat /\ q[Len(q)] \in Nat /\ q[i] <= q[Len(q)]
      BY <2>1, <3>1 DEF Increasing
    <3>3. n > q[Len(q)]
      BY <3>1 DEF LastOf
    <3> QED
      BY <1>1, <2>1, <2>3, <3>2, <3>3
  <2> QED
    BY <1>1, <2>2, <2>3
<1>3. Increasing(r) /\ LastOf(r) = n
  BY <1>1, <1>2 DEF Increasing, LastOf
<1> QED
  BY <1>1, <1>3 DEF r

LEMMA Suffix ==
  ASSUME NEW q \in Seq(Nat), NEW m \in 1 .. Len(q), NEW r, r = SubSeq(q, m + 1, Len(q))
  PROVE  /\ r \in Seq(Nat) /\ Len(r) = Len(q) - m
         /\ \A i \in 1 .. Len(r) : r[i] = q[m + i]
  OBVIOUS

LEMMA RunSuffix ==
  ASSUME NEW q \in Seq(Nat), Run(q), NEW m \in 1 .. Len(q),
         NEW r \in Seq(Nat), Len(r) = Len(q) - m, \A i \in 1 .. Len(r) : r[i] = q[m + i]
  PROVE  /\ Run(r)
         /\ r # << >> <=> m # Len(q)
         /\ r # << >> => r[1] = q[m] + 1 /\ r[Len(r)] = q[Len(q)]
<1>1. Len(q) \in Nat /\ Len(r) \in Nat /\ m \in Nat
  BY EmptyLen
<1>2. r # << >> <=> m # Len(q)
  BY <1>1, EmptyLen
<1>3. ASSUME NEW i \in 1 .. Len(r)
      PROVE  r[i] = q[1] + (m + i) - 1 /\ q[1] \in Nat /\ q[1] >= 1
  <2>1. m + i \in 1 .. Len(q) /\ 1 \in 1 .. Len(q)
    BY <1>1
  <2>2. q[m + i] = q[1] + (m + i) - 1 /\ q[1] \in Nat /\ q[1] >= 1
    BY <2>1, RunIncreasing
  <2> QED
    BY <2>2
<1>4. ASSUME r # << >> PROVE r[1] = q[m] + 1 /\ r[Len(r)] = q[Len(q)]
  <2>1. Len(r) >= 1 /\ 1 \in 1 .. Len(r)
    BY <1>1, <1>4, EmptyLen
  <2>2. q[m] = q[1] + m - 1
    BY RunIncreasing
  <2>3. r[1] = q[1] + (m + 1) - 1 /\ q[1] \in Nat
    BY <1>3, <2>1
  <2>4. r[Len(r)] = q[m + Len(r)] /\ m + Len(r) = Len(q)
    BY <1>1, <2>1
  <2> QED
    BY <1>1, <2>2, <2>3, <2>4
<1>5. Run(r)
  <2> SUFFICES ASSUME NEW i \in 1 .. Len(r) PROVE r[i] >= 1 /\ r[i] = r[1] + i - 1
    BY DEF Run
  <2>1. 1 \in 1 .. Len(r)
    BY <1>1
  <2>2. r[i] = q[1] + (m + i) - 1 /\ q[1] \in Nat /\ q[1] >= 1
    BY <1>3
  <2>3. r[1] = q[1] + m
    BY <1>1, <1>3, <2>1
  <2> DEFINE a == r[i]
  <2> DEFINE b == r[1]
  <2> DEFINE x == q[1]
  <2>4. a = x + m + i - 1 /\ b = x + m /\ x \in Nat /\ x >= 1 /\ i \in Nat /\ i >= 1
    BY <1>1, <2>2, <2>3
  <2> HIDE DEF a, b, x
  <2>5. a >= 1 /\ a = b + i - 1
    BY <1>1, <2>4
  <2> QED
    BY <2>5 DEF a, b
<1> QED
  BY <1>2, <1>4, <1>5

(* What snapshot_from keeps of a run is its end, from start_from on. *)
LEMMA KeptEnd ==
  ASSUME NEW q \in Seq(Nat), Run(q), NEW from \in Nat
  PROVE  /\ Kept(q, from) # {} <=> TopKept(q, from)
         /\ Kept(q, from) # {} => Max(Kept(q, from)) = Len(q)
<1>1. \A i \in Kept(q, from) : i \in 1 .. Len(q) /\ q[i] >= from
  BY DEF Kept
<1>2. Kept(q, from) # {} => Len(q) \in Kept(q, from)
  BY <1>1, RunIncreasing DEF Kept
<1>3. TopKept(q, from) => Len(q) \in Kept(q, from)
  BY DEF TopKept, Kept
<1>4. Len(q) \in Kept(q, from) => TopKept(q, from)
  BY <1>1 DEF TopKept
<1>5. ASSUME Kept(q, from) # {} PROVE Max(Kept(q, from)) = Len(q)
  <2>1. Len(q) \in Kept(q, from) /\ \A y \in Kept(q, from) : Len(q) >= y
    BY <1>1, <1>2, <1>5
  <2>2. /\ Max(Kept(q, from)) \in Kept(q, from)
        /\ \A y \in Kept(q, from) : Max(Kept(q, from)) >= y
    BY <2>1 DEF Max
  <2> QED
    BY <1>1, <2>1, <2>2
<1> QED
  BY <1>2, <1>3, <1>4, <1>5

(* The first of n consecutive numbers from a on that is at least b. *)
LEMMA FirstReached ==
  ASSUME NEW a \in Nat, NEW b \in Nat, NEW n \in Nat, 1 <= n, b <= a + n - 1
  PROVE  \E w \in 1 .. n :
           /\ b <= a + w - 1
           /\ w = 1 \/ a + w - 1 = b
           /\ b <= a => w = 1
           /\ \A y \in 1 .. n : b <= a + y - 1 => w <= y
<1>1. CASE b <= a
  <2> WITNESS 1 \in 1 .. n
  <2> QED
    BY <1>1
<1>2. CASE a < b
  <2> DEFINE w == b + 1 - a
  <2>1. w \in 1 .. n
    BY <1>2
  <2> WITNESS w \in 1 .. n
  <2> QED
    BY <1>2
<1> QED
  BY <1>1, <1>2

LEMMA KeptFirst ==
  ASSUME NEW q \in Seq(Nat), Run(q), NEW from \in Nat, Kept(q, from) # {},
         NEW m, m = Min(Kept(q, from))
  PROVE  /\ m \in 1 .. Len(q) /\ q[m] \in Nat /\ q[m] >= 1 /\ q[m] >= from
         /\ m = 1 \/ q[m] = from
         /\ q[1] >= from => m = 1
<1>1. TopKept(q, from) /\ q # << >> /\ Len(q) \in 1 .. Len(q) /\ 1 \in 1 .. Len(q)
  BY KeptEnd DEF TopKept
<1>2. /\ q[1] \in Nat /\ q[Len(q)] \in Nat /\ q[Len(q)] = q[1] + Len(q) - 1
      /\ q[Len(q)] >= from
  BY <1>1, RunIncreasing DEF TopKept
<1>3. PICK w \in 1 .. Len(q) :
        /\ from <= q[1] + w - 1
        /\ w = 1 \/ q[1] + w - 1 = from
        /\ from <= q[1] => w = 1
        /\ \A y \in 1 .. Len(q) : from <= q[1] + y - 1 => w <= y
  <2>1. from <= q[1] + Len(q) - 1 /\ 1 <= Len(q) /\ Len(q) \in Nat
    BY <1>1, <1>2
  <2> QED
    BY <1>2, <2>1, FirstReached
<1>4. q[w] >= from /\ (w = 1 \/ q[w] = from)
  <2>1. q[w] = q[1] + w - 1
    BY <1>3, RunIncreasing
  <2> QED
    BY <1>2, <1>3, <2>1
<1>5. \A y \in Kept(q, from) : w <= y
  <2> SUFFICES ASSUME NEW y \in 1 .. Len(q), q[y] >= from PROVE w <= y
    BY DEF Kept
  <2>1. q[y] = q[1] + y - 1
    BY RunIncreasing
  <2> QED
    BY <1>2, <1>3, <2>1
<1>6. w \in Kept(q, from)
  BY <1>3, <1>4 DEF Kept
<1>7. m \in Kept(q, from) /\ \A y \in Kept(q, from) : m <= y
  BY <1>5, <1>6 DEF Min
<1>8. m \in Nat /\ w \in Nat
  BY <1>3, <1>7 DEF Kept
<1>9. m <= w /\ w <= m
  BY <1>5, <1>6, <1>7
<1>10. m = w
  BY <1>8, <1>9
<1>11. q[m] \in Nat /\ q[m] >= 1
  BY <1>3, <1>10 DEF Run
<1>12. q[1] >= from => w = 1
  BY <1>2, <1>3
<1> QED
  BY <1>3, <1>4, <1>10, <1>11, <1>12

-----------------------------------------------------------------------------
(* The bus: identifiers, backlog and channel. *)
LEMMA LimitType == Limit \in Nat /\ Limit >= 1
  BY BusAssumption DEF Limit

LEMMA BacklogRun ==
  ASSUME BusTypeOK, ChannelInv, BacklogIsLatest
  PROVE  /\ Stored \in Nat /\ Len(channel) <= Stored /\ Stored <= Len(channel) + 1
         /\ Run(backlog)
         /\ backlog # << >> =>
              /\ backlog[Len(backlog)] = Stored
              /\ backlog[1] = 1 \/ backlog[1] + Limit = Stored + 1
         /\ backlog = << >> => Stored = 0
<1>1. Stored \in Nat /\ Len(channel) <= Stored /\ Stored <= Len(channel) + 1
  BY DEF BusTypeOK, ChannelInv, Stored
<1>2. backlog \in Seq(Nat) /\ Len(backlog) \in Nat
  BY DEF BusTypeOK
<1>3. Len(backlog) = (IF Stored < Limit THEN Stored ELSE Limit)
      /\ \A i \in 1 .. Len(backlog) : backlog[i] = Stored - Len(backlog) + i
  BY DEF BacklogIsLatest
<1>4. Len(backlog) <= Stored
  BY <1>1, <1>2, <1>3, LimitType
<1>6. backlog # << >> => Len(backlog) \in 1 .. Len(backlog) /\ 1 \in 1 .. Len(backlog)
  BY <1>2
<1>5. Run(backlog)
  <2> SUFFICES ASSUME NEW i \in 1 .. Len(backlog)
               PROVE  backlog[i] >= 1 /\ backlog[i] = backlog[1] + i - 1
    BY DEF Run
  <2>1. 1 \in 1 .. Len(backlog)
    BY <1>2
  <2>2. /\ backlog[i] = Stored - Len(backlog) + i
        /\ backlog[1] = Stored - Len(backlog) + 1
    BY <1>3, <2>1
  <2> QED
    BY <1>1, <1>2, <1>4, <2>2
<1>7. ASSUME backlog # << >>
      PROVE  /\ backlog[Len(backlog)] = Stored
             /\ backlog[1] = 1 \/ backlog[1] + Limit = Stored + 1
  <2>1. /\ backlog[1] = Stored - Len(backlog) + 1
        /\ backlog[Len(backlog)] = Stored - Len(backlog) + Len(backlog)
    BY <1>3, <1>6, <1>7
  <2>2. Len(backlog) = Stored \/ Len(backlog) = Limit
    BY <1>3
  <2> QED
    BY <1>1, <1>2, <2>1, <2>2, LimitType
<1>8. backlog = << >> => Stored = 0
  BY <1>1, <1>3, LimitType
<1> QED
  BY <1>1, <1>5, <1>7, <1>8

LEMMA StampStep ==
  ASSUME BusTypeOK, ChannelInv, BacklogIsLatest, Stamp
  PROVE  ChannelInv' /\ BacklogIsLatest' /\ Stored' = Stored
<1>1. Stored' = Stored
  BY DEF Stamp, Stored, BusTypeOK
<1> QED
  BY <1>1 DEF Stamp, BusTypeOK, ChannelInv, BacklogIsLatest

LEMMA StoreStep ==
  ASSUME BusTypeOK, ChannelInv, BacklogIsLatest, Store
  PROVE  /\ ChannelInv' /\ BacklogIsLatest' /\ backlog' \in Seq(Nat)
         /\ Stored' = Stored + 1
<1> DEFINE grown == Append(backlog, nextId)
<1> DEFINE n == Len(backlog)
<1>1. /\ pc = "store" /\ pc' = "publish" /\ nextId' = nextId /\ channel' = channel
      /\ backlog' = IF Len(grown) > Limit THEN Tail(grown) ELSE grown
  BY DEF Store
<1>2. backlog \in Seq(Nat) /\ nextId \in Nat /\ nextId >= 1 /\ n \in Nat
  BY <1>1 DEF BusTypeOK, ChannelInv
<1>3. Stored = nextId - 1 /\ Stored' = nextId
  BY <1>1 DEF Stored
<1>4. /\ n = IF Stored < Limit THEN Stored ELSE Limit
      /\ \A i \in 1 .. n : backlog[i] = Stored - n + i
  BY DEF BacklogIsLatest
<1>5. /\ grown \in Seq(Nat) /\ Len(grown) = n + 1 /\ grown # << >>
      /\ \A i \in 1 .. n : grown[i] = backlog[i]
      /\ grown[n + 1] = nextId
  BY <1>2, Appended
<1> HIDE DEF grown, n
<1>6. \A i \in 1 .. n + 1 : grown[i] = nextId - (n + 1) + i
  <2> SUFFICES ASSUME NEW i \in 1 .. n + 1 PROVE grown[i] = nextId - (n + 1) + i
    OBVIOUS
  <2>1. CASE i = n + 1
    BY <1>2, <1>5, <2>1
  <2>2. CASE i \in 1 .. n
    <3>1. grown[i] = Stored - n + i
      BY <1>4, <1>5, <2>2
    <3>2. Stored - n + i = nextId - (n + 1) + i
      BY <1>2, <1>3
    <3> QED
      BY <3>1, <3>2
  <2> QED
    BY <1>2, <2>1, <2>2
<1>7. ASSUME n + 1 <= Limit PROVE BacklogIsLatest' /\ backlog' \in Seq(Nat)
  <2>1. backlog' = grown /\ Len(backlog') = n + 1
    BY <1>1, <1>2, <1>5, <1>7, LimitType
  <2>2. n + 1 = IF Stored' < Limit THEN Stored' ELSE Limit
    BY <1>2, <1>3, <1>4, <1>7, LimitType
  <2>3. \A i \in 1 .. n + 1 : backlog'[i] = Stored' - (n + 1) + i
    BY <1>3, <1>6, <2>1
  <2> QED
    BY <1>5, <2>1, <2>2, <2>3 DEF BacklogIsLatest
<1>8. ASSUME n + 1 > Limit PROVE BacklogIsLatest' /\ backlog' \in Seq(Nat)
  <2>1. backlog' = Tail(grown)
    BY <1>1, <1>5, <1>8
  <2>2. /\ Tail(grown) \in Seq(Nat) /\ Len(Tail(grown)) = n
        /\ \A i \in 1 .. n : Tail(grown)[i] = grown[i + 1]
    BY <1>2, <1>5
  <2>3. n = IF Stored' < Limit THEN Stored' ELSE Limit
    BY <1>2, <1>3, <1>4, <1>8, LimitType
  <2>4. \A i \in 1 .. n : backlog'[i] = Stored' - n + i
    <3> SUFFICES ASSUME NEW i \in 1 .. n PROVE backlog'[i] = Stored' - n + i
      OBVIOUS
    <3>1. i + 1 \in 1 .. n + 1 /\ backlog'[i] = grown[i + 1]
      BY <1>2, <2>1, <2>2
    <3>2. grown[i + 1] = nextId - (n + 1) + (i + 1)
      BY <1>6, <3>1
    <3>3. nextId - (n + 1) + (i + 1) = nextId - n + i
      BY <1>2
    <3> QED
      BY <1>3, <3>1, <3>2, <3>3
  <2>5. Len(backlog') = n
    BY <2>1, <2>2
  <2> QED
    BY <2>1, <2>2, <2>3, <2>4, <2>5 DEF BacklogIsLatest
<1>9. ChannelInv'
  BY <1>1, <1>2 DEF ChannelInv
<1>10. n + 1 <= Limit \/ n + 1 > Limit
  BY <1>2, LimitType
<1> QED
  BY <1>2, <1>3, <1>7, <1>8, <1>9, <1>10

LEMMA PublishStep ==
  ASSUME BusTypeOK, ChannelInv, BacklogIsLatest, Publish
  PROVE  /\ ChannelInv' /\ BacklogIsLatest' /\ channel' \in Seq(Nat)
         /\ Stored' = Stored /\ Len(channel') = Len(channel) + 1
<1>1. Stored' = Stored
  BY DEF Publish, Stored, BusTypeOK
<1>2. /\ channel \in Seq(Nat) /\ nextId \in Nat /\ channel' = Append(channel, nextId)
      /\ pc = "publish" /\ pc' = "ready" /\ nextId' = nextId /\ backlog' = backlog
  BY DEF Publish, BusTypeOK
<1>3. /\ channel' \in Seq(Nat) /\ Len(channel') = Len(channel) + 1 /\ Len(channel) \in Nat
      /\ \A i \in 1 .. Len(channel) : channel'[i] = channel[i]
      /\ channel'[Len(channel) + 1] = nextId
  BY <1>2, Appended
<1>4. Len(channel) = nextId - 1 /\ \A i \in 1 .. Len(channel) : channel[i] = i
  BY <1>2 DEF ChannelInv
<1>5. \A i \in 1 .. Len(channel') : channel'[i] = i
  <2> SUFFICES ASSUME NEW i \in 1 .. Len(channel') PROVE channel'[i] = i
    OBVIOUS
  <2>1. CASE i \in 1 .. Len(channel)
    BY <1>3, <1>4, <2>1
  <2>2. CASE i = Len(channel) + 1
    BY <1>2, <1>3, <1>4, <2>2
  <2> QED
    BY <1>3, <2>1, <2>2
<1>6. Len(channel') = nextId
  BY <1>2, <1>3, <1>4
<1>7. BacklogIsLatest'
  BY <1>1, <1>2 DEF BacklogIsLatest
<1>8. ChannelInv'
  BY <1>2, <1>5, <1>6 DEF ChannelInv
<1> QED
  BY <1>1, <1>3, <1>7, <1>8

(* The two steps of remember_api_version change none of this. *)
LEMMA VersionStep ==
  ASSUME BusTypeOK, ChannelInv, BacklogIsLatest,
         NotifyWaiters \/ \E v \in Versions : RememberApiVersion(v)
  PROVE  /\ ChannelInv' /\ BacklogIsLatest' /\ Stored' = Stored
         /\ channel' = channel /\ backlog' = backlog
<1>1. Stored' = Stored /\ channel' = channel /\ backlog' = backlog /\ nextId' = nextId
  BY DEF NotifyWaiters, RememberApiVersion, Stored, BusTypeOK
<1> QED
  BY <1>1 DEF NotifyWaiters, RememberApiVersion, BusTypeOK, ChannelInv, BacklogIsLatest

-----------------------------------------------------------------------------
(* Clients.  A step of the bus leaves a client's own variables alone, and  *)
(* so does a step of another client.                                       *)
Same(d) ==
  /\ phase'[d] = phase[d] /\ kind'[d] = kind[d] /\ startFrom'[d] = startFrom[d]
  /\ joined'[d] = joined[d] /\ rx'[d] = rx[d] /\ lastSent'[d] = lastSent[d]
  /\ queue'[d] = queue[d] /\ out'[d] = out[d] /\ lagged'[d] = lagged[d]

LEMMA UntouchedClient ==
  ASSUME BusTypeOK, NEW d \in Clients, ClientInv(d), Same(d),
         Len(channel) <= Len(channel'), Len(channel') \in Nat,
         Stored \in Nat, Stored' \in Nat, Stored <= Stored'
  PROVE  ClientInv(d)'
<1>a. /\ rx[d] \in Nat /\ Len(channel) \in Nat /\ queue[d] \in Seq(Nat)
      /\ \A i \in 1 .. Len(queue[d]) : queue[d][i] \in Nat
  BY DEF BusTypeOK
<1>1. PhaseInv(d)'
  BY <1>a DEF ClientInv, PhaseInv, Same
<1>2. RunsInv(d)'
  BY DEF ClientInv, RunsInv, Same
<1>3. FeedInv(d)'
  <2>1. NotOwed(d)' <=> NotOwed(d)
    BY DEF NotOwed, Same
  <2>2. \A i \in 1 .. Len(queue'[d]) : queue'[d][i] <= Stored'
    BY <1>a DEF ClientInv, FeedInv, Same
  <2>3. queue[d] # << >> => queue[d][1] \in Nat
    BY <1>a
  <2>4. out'[d] = << >> /\ queue'[d] # << >> =>
          queue'[d][1] = 1 \/ queue'[d][1] + Limit <= Stored' + 1
    BY <2>3, LimitType DEF ClientInv, FeedInv, Same
  <2> QED
    BY <2>1, <2>2, <2>4 DEF ClientInv, FeedInv, Same
<1> QED
  BY <1>1, <1>2, <1>3 DEF ClientInv

LEMMA OthersUntouched ==
  ASSUME BusTypeOK, NEW c \in Clients,
         \/ HandlerStep(c) \/ HangUp(c) \/ HandlerEnds(c)
         \/ \E k \in {"ws", "sse"}, from \in Starts : Connect(c, k, from)
  PROVE  UNCHANGED busVars /\ \A d \in Clients : d # c => Same(d)
<1> USE DEF BusTypeOK, Same, Goto
<1>1. CASE Listen(c) \/ Check(c) \/ Wake(c) \/ Greet(c)
  BY <1>1 DEF Listen, Check, Wake, Greet, sentVars
<1>2. CASE Snapshot(c)
  BY <1>2 DEF Snapshot
<1>3. CASE Replay(c)
  BY <1>3 DEF Replay
<1>4. CASE ReplayEnds(c)
  BY <1>4 DEF ReplayEnds
<1>5. CASE Recv(c)
  BY <1>5 DEF Recv
<1>6. CASE Lag(c)
  BY <1>6 DEF Lag
<1>7. CASE HangUp(c) \/ HandlerEnds(c)
  BY <1>7 DEF HangUp, HandlerEnds, sentVars
<1>8. CASE \E k \in {"ws", "sse"}, from \in Starts : Connect(c, k, from)
  BY <1>8 DEF Connect
<1> QED
  BY <1>1, <1>2, <1>3, <1>4, <1>5, <1>6, <1>7, <1>8 DEF HandlerStep

LEMMA ClientTypes ==
  ASSUME BusTypeOK, NEW c \in Clients
  PROVE  /\ phase[c] \in Phases /\ kind[c] \in {"ws", "sse"}
         /\ startFrom[c] \in Nat \cup {None}
         /\ joined[c] \in Nat /\ rx[c] \in Nat /\ lastSent[c] \in Nat
         /\ queue[c] \in Seq(Nat) /\ out[c] \in Seq(Nat)
  BY DEF BusTypeOK

(* The handler goes on, and nothing else of the client changes. *)
Moves(c) ==
  /\ kind'[c] = kind[c] /\ startFrom'[c] = startFrom[c] /\ joined'[c] = joined[c]
  /\ rx'[c] = rx[c] /\ lastSent'[c] = lastSent[c] /\ queue'[c] = queue[c]
  /\ out'[c] = out[c] /\ lagged'[c] = lagged[c]
  /\ channel' = channel /\ Stored' = Stored

LEMMA QuietStep ==
  ASSUME BusTypeOK, NEW c \in Clients, ClientInv(c),
         Listen(c) \/ Check(c) \/ Wake(c) \/ Greet(c) \/ HangUp(c)
  PROVE  BusTypeOK' /\ ClientInv(c)'
<1>1. /\ BusTypeOK' /\ Moves(c)
      /\ \/ phase[c] \in Early /\ phase'[c] \in Early
         \/ phase[c] = "greet" /\ kind[c] = "sse" /\ phase'[c] = "replay"
         \/ phase[c] = "greet" /\ kind[c] = "ws" /\ startFrom[c] # None /\ phase'[c] = "snapshot"
         \/ phase[c] = "greet" /\ kind[c] = "ws" /\ startFrom[c] = None /\ phase'[c] = "live"
         \/ phase'[c] = phase[c]
  <2> USE DEF BusTypeOK, Moves, Goto, Phases, Early, busVars, sentVars, Stored
  <2>1. CASE Listen(c)
    BY <2>1 DEF Listen
  <2>2. CASE Check(c)
    BY <2>2 DEF Check
  <2>3. CASE Wake(c)
    BY <2>3 DEF Wake
  <2>4. CASE Greet(c)
    BY <2>4 DEF Greet
  <2>5. CASE HangUp(c)
    BY <2>5 DEF HangUp
  <2> QED
    BY <2>1, <2>2, <2>3, <2>4, <2>5
<1>2. PhaseInv(c)'
  BY <1>1, ClientTypes DEF Moves, ClientInv, PhaseInv, RunsInv, LastOf, Early, Phases
<1>3. RunsInv(c)'
  BY <1>1, ClientTypes DEF Moves, ClientInv, PhaseInv, RunsInv, Early
<1>4. FeedInv(c)'
  <2>1. NotOwed(c)' <=> NotOwed(c)
    BY <1>1 DEF NotOwed, Moves
  <2> QED
    BY <1>1, <2>1 DEF Moves, ClientInv, PhaseInv, FeedInv, Early, Started
<1> QED
  BY <1>1, <1>2, <1>3, <1>4 DEF ClientInv

LEMMA ConnectStep ==
  ASSUME BusTypeOK, NEW c \in Clients, ClientInv(c),
         NEW k \in {"ws", "sse"}, NEW from \in Starts, Connect(c, k, from)
  PROVE  BusTypeOK' /\ ClientInv(c)'
<1>1. from \in Nat \cup {None} /\ Len(channel) \in Nat
  BY BusAssumption DEF Starts, BusTypeOK
<1>2. /\ phase[c] = "off" /\ kind'[c] = k /\ startFrom'[c] = from
      /\ joined'[c] = Len(channel) /\ rx'[c] = Len(channel)
      /\ phase'[c] \in {"snapshot", "listen"}
      /\ phase'[c] = "snapshot" <=> k = "sse" /\ from # None
      /\ lastSent' = lastSent /\ queue' = queue /\ out' = out /\ lagged' = lagged
      /\ channel' = channel
  BY DEF Connect, Goto, busVars, BusTypeOK
<1>3. BusTypeOK'
  BY <1>1 DEF BusTypeOK, Connect, Goto, busVars, Phases
<1>4. queue[c] = << >> /\ out[c] = << >> /\ lastSent[c] = 0 /\ lagged[c] = FALSE
  BY <1>2 DEF ClientInv, PhaseInv, BusTypeOK
<1>5. PhaseInv(c)'
  BY <1>1, <1>2, <1>4 DEF PhaseInv, Early
<1>6. RunsInv(c)'
  BY <1>1, <1>2, <1>4 DEF RunsInv, Run, Increasing, LastOf, TopKept
<1>7. FeedInv(c)'
  BY <1>1, <1>2, <1>4 DEF FeedInv, Early, Started
<1> QED
  BY <1>3, <1>5, <1>6, <1>7 DEF ClientInv

LEMMA SnapshotStep ==
  ASSUME BusTypeOK, ChannelInv, BacklogIsLatest, NEW c \in Clients, ClientInv(c), Snapshot(c)
  PROVE  BusTypeOK' /\ ClientInv(c)'
<1> DEFINE from == startFrom[c]
<1>1. /\ phase[c] = "snapshot" /\ queue[c] = << >> /\ out[c] = << >> /\ lastSent[c] = 0
      /\ from # None /\ rx[c] = joined[c] /\ ~lagged[c] /\ rx[c] <= Len(channel)
  BY DEF Snapshot, ClientInv, PhaseInv
<1>2. from \in Nat /\ backlog \in Seq(Nat) /\ Len(channel) \in Nat
      /\ joined[c] \in Nat /\ rx[c] \in Nat /\ kind[c] \in {"ws", "sse"}
  BY <1>1 DEF BusTypeOK
<1>3. /\ Stored \in Nat /\ Len(channel) <= Stored /\ Run(backlog)
      /\ backlog # << >> =>
           /\ backlog[Len(backlog)] = Stored
           /\ backlog[1] = 1 \/ backlog[1] + Limit = Stored + 1
      /\ backlog = << >> => Stored = 0
  BY BacklogRun
<1>4. /\ Kept(backlog, from) # {} <=> TopKept(backlog, from)
      /\ Kept(backlog, from) # {} => Max(Kept(backlog, from)) = Len(backlog)
  BY <1>2, <1>3, KeptEnd
<1>5. lastSent' = IF kind[c] = "sse" /\ TopKept(backlog, from)
                    THEN [lastSent EXCEPT ![c] = backlog[Len(backlog)]] ELSE lastSent
  BY <1>4 DEF Snapshot
<1>6. TopKept(backlog, from) => backlog[Len(backlog)] \in Nat
  BY <1>3 DEF TopKept
<1>7. BusTypeOK'
  BY <1>2, <1>5, <1>6 DEF BusTypeOK, Snapshot, Goto, busVars, Phases
<1>8. /\ phase'[c] \in {"listen", "replay"} /\ kind'[c] = kind[c] /\ startFrom'[c] = from
      /\ phase'[c] = "listen" <=> kind[c] = "sse"
      /\ joined'[c] = joined[c] /\ rx'[c] = rx[c] /\ queue'[c] = backlog
      /\ out'[c] = << >> /\ lagged'[c] = lagged[c] /\ channel' = channel
      /\ lastSent'[c] = IF kind[c] = "sse" /\ TopKept(backlog, from)
                          THEN backlog[Len(backlog)] ELSE 0
  BY <1>1, <1>2, <1>5 DEF Snapshot, Goto, busVars, BusTypeOK
<1>9. Stored' = Stored
  BY DEF Snapshot, busVars, Stored
<1>10. PhaseInv(c)'
  BY <1>1, <1>2, <1>8 DEF PhaseInv, Early
<1>11. RunsInv(c)'
  BY <1>1, <1>2, <1>3, <1>8 DEF RunsInv, Run, Increasing, LastOf
<1>12. FeedInv(c)'
  <2>1. NotOwed(c)'
    BY <1>1, <1>2, <1>3, <1>8 DEF NotOwed, TopKept
  <2>2. \A i \in 1 .. Len(backlog) : backlog[i] <= Stored
    <3> SUFFICES ASSUME NEW i \in 1 .. Len(backlog) PROVE backlog[i] <= Stored
      OBVIOUS
    <3>1. backlog # << >>
      BY <1>2
    <3>2. backlog[i] <= backlog[Len(backlog)]
      BY <1>2, <1>3, RunIncreasing
    <3> QED
      BY <1>3, <3>1, <3>2
  <2>3. backlog # << >> => backlog[1] = 1 \/ backlog[1] + Limit <= Stored + 1
    BY <1>3
  <2> QED
    BY <1>8, <1>9, <2>1, <2>2, <2>3 DEF FeedInv
<1> QED
  BY <1>7, <1>10, <1>11, <1>12 DEF ClientInv

(* One event of the snapshot is sent: the first one kept. *)
LEMMA ReplayStep ==
  ASSUME BusTypeOK, ChannelInv, NEW c \in Clients, ClientInv(c), Replay(c)
  PROVE  BusTypeOK' /\ ClientInv(c)'
<1> DEFINE q == queue[c]
<1> DEFINE from == startFrom[c]
<1> DEFINE m == Min(Kept(q, from))
<1> DEFINE e == q[m]
<1> DEFINE r == SubSeq(q, m + 1, Len(q))
<1> DEFINE o == Append(out[c], e)
<1>1. /\ phase[c] = "replay" /\ Kept(q, from) # {}
      /\ out' = [out EXCEPT ![c] = o] /\ queue' = [queue EXCEPT ![c] = r]
      /\ lastSent' = IF kind[c] = "ws" THEN [lastSent EXCEPT ![c] = e] ELSE lastSent
      /\ phase' = phase /\ kind' = kind /\ startFrom' = startFrom /\ joined' = joined
      /\ rx' = rx /\ lagged' = lagged /\ channel' = channel /\ Stored' = Stored
      /\ pc' = pc /\ nextId' = nextId /\ backlog' = backlog
  BY DEF Replay, busVars, Stored
<1>2. /\ q \in Seq(Nat) /\ out[c] \in Seq(Nat) /\ joined[c] \in Nat /\ rx[c] \in Nat
      /\ kind[c] \in {"ws", "sse"} /\ lastSent[c] \in Nat /\ Len(channel) \in Nat
  BY ClientTypes DEF BusTypeOK
<1>3. /\ Run(q) /\ Run(out[c]) /\ Increasing(out[c]) /\ ~lagged[c] /\ rx[c] = joined[c]
      /\ joined[c] <= Len(channel)
      /\ out[c] # << >> /\ q # << >> => q[1] = LastOf(out[c]) + 1 /\ q[1] >= from
      /\ q # << >> => q[Len(q)] >= joined[c] /\ from # None
      /\ lastSent[c] = IF kind[c] = "sse" /\ TopKept(q, from)
                          THEN q[Len(q)] ELSE LastOf(out[c])
  BY <1>1 DEF ClientInv, PhaseInv, RunsInv
<1>4. q # << >> /\ Len(q) \in Nat /\ Len(q) \in 1 .. Len(q) /\ 1 \in 1 .. Len(q)
  BY <1>1, <1>2 DEF Kept
<1>5. from \in Nat
  BY <1>3, <1>4, ClientTypes
<1>6. TopKept(q, from)
  BY <1>1, <1>2, <1>3, <1>5, KeptEnd
<1>a. m = Min(Kept(q, from))
  OBVIOUS
<1> HIDE DEF q, from, m
<1>7. /\ m \in 1 .. Len(q) /\ e \in Nat /\ e >= 1 /\ e >= from
      /\ m = 1 \/ e = from
      /\ q[1] >= from => m = 1
  <2>1. Kept(q, from) # {}
    BY <1>1
  <2> QED
    BY <1>2, <1>3, <1>5, <1>a, <2>1, KeptFirst
<1>8. r \in Seq(Nat) /\ Len(r) = Len(q) - m /\ \A i \in 1 .. Len(r) : r[i] = q[m + i]
  BY <1>2, <1>7, Suffix
<1> HIDE DEF r
<1>9. /\ Run(r) /\ (r # << >> <=> m # Len(q))
      /\ r # << >> => r[1] = e + 1 /\ r[Len(r)] = q[Len(q)]
  BY <1>2, <1>3, <1>7, <1>8, RunSuffix
<1>10. out[c] # << >> => e = LastOf(out[c]) + 1
  BY <1>3, <1>4, <1>7
<1>11. /\ o \in Seq(Nat) /\ Run(o) /\ LastOf(o) = e /\ o # << >>
  BY <1>2, <1>3, <1>7, <1>10, RunAppend
<1>12. Increasing(o)
  <2>1. out[c] # << >> => LastOf(out[c]) \in Nat
    BY <1>2 DEF LastOf
  <2>2. out[c] # << >> => e > LastOf(out[c])
    BY <1>10, <2>1
  <2> QED
    BY <1>2, <1>3, <1>7, <2>2, IncreasingAppend
<1> HIDE DEF o, e
<1>13. /\ out'[c] = o /\ queue'[c] = r
       /\ lastSent'[c] = IF kind[c] = "ws" THEN e ELSE lastSent[c]
  BY <1>1 DEF BusTypeOK
<1>14. BusTypeOK'
  BY <1>1, <1>2, <1>7, <1>8, <1>11 DEF BusTypeOK
<1>15. PhaseInv(c)'
  BY <1>1, <1>2, <1>3, <1>4, <1>13 DEF PhaseInv, Early, from
<1>16. r = << >> => e = q[Len(q)]
  BY <1>9 DEF e
<1>17. RunsInv(c)'
  <2>1. e + 1 >= from
    BY <1>5, <1>7
  <2>2. r # << >> => r[Len(r)] >= joined[c] /\ TopKept(r, from) /\ r[Len(r)] = q[Len(q)]
    BY <1>3, <1>4, <1>6, <1>9 DEF TopKept
  <2>3. r = << >> => e >= rx[c] /\ ~TopKept(r, from)
    BY <1>3, <1>4, <1>16 DEF TopKept
  <2>4. lastSent'[c] = IF kind[c] = "sse" /\ TopKept(r, from) THEN r[Len(r)] ELSE LastOf(o)
    <3>1. CASE kind[c] = "ws"
      BY <1>11, <1>13, <3>1
    <3>2. CASE kind[c] = "sse"
      <4>1. lastSent'[c] = q[Len(q)]
        BY <1>3, <1>6, <1>13, <3>2
      <4> QED
        BY <1>11, <1>16, <2>2, <2>3, <3>2, <4>1
    <3> QED
      BY <1>2, <3>1, <3>2
  <2> QED
    BY <1>1, <1>3, <1>7, <1>9, <1>11, <1>12, <1>13, <2>1, <2>2, <2>3, <2>4 DEF RunsInv, from
<1>18. FeedInv(c)'
  <2>1. \A i \in 1 .. Len(r) : r[i] <= Stored
    <3> SUFFICES ASSUME NEW i \in 1 .. Len(r) PROVE r[i] <= Stored
      OBVIOUS
    <3>1. m + i \in 1 .. Len(q) /\ r[i] = q[m + i]
      BY <1>4, <1>7, <1>8
    <3> QED
      BY <3>1 DEF ClientInv, FeedInv, q
  <2> QED
    BY <1>1, <1>11, <1>13, <2>1 DEF FeedInv, Early
<1> QED
  BY <1>14, <1>15, <1>17, <1>18 DEF ClientInv

LEMMA ReplayEndsStep ==
  ASSUME BusTypeOK, ChannelInv, NEW c \in Clients, ClientInv(c), ReplayEnds(c)
  PROVE  BusTypeOK' /\ ClientInv(c)'
<1> DEFINE q == queue[c]
<1> DEFINE from == startFrom[c]
<1>1. /\ phase[c] = "replay" /\ Kept(q, from) = {} /\ phase'[c] = "live" /\ queue'[c] = << >>
      /\ kind'[c] = kind[c] /\ startFrom'[c] = from /\ joined'[c] = joined[c] /\ rx'[c] = rx[c]
      /\ lastSent'[c] = lastSent[c] /\ out'[c] = out[c] /\ lagged'[c] = lagged[c]
      /\ channel' = channel /\ Stored' = Stored
  BY DEF ReplayEnds, Goto, busVars, Stored, BusTypeOK
<1>2. BusTypeOK'
  BY DEF BusTypeOK, ReplayEnds, Goto, busVars, Phases
<1>3. /\ q \in Seq(Nat) /\ out[c] \in Seq(Nat) /\ joined[c] \in Nat /\ rx[c] \in Nat
      /\ from \in Nat \cup {None}
  BY ClientTypes
<1>4. Run(q) /\ (q # << >> => from # None)
  BY DEF ClientInv, PhaseInv, RunsInv
<1>5. ~TopKept(q, from)
  <2>1. CASE q = << >>
    BY <2>1 DEF TopKept
  <2>2. CASE q # << >>
    BY <1>1, <1>3, <1>4, <2>2, KeptEnd
  <2> QED
    BY <2>1, <2>2
<1>6. out[c] # << >> => q = << >>
  <2> SUFFICES ASSUME out[c] # << >>, q # << >> PROVE FALSE
    OBVIOUS
  <2>1. q[1] >= from /\ Len(q) \in 1 .. Len(q) /\ from \in Nat
    BY <1>3, <1>4 DEF ClientInv, RunsInv
  <2>2. q[1] \in Nat /\ q[Len(q)] \in Nat /\ q[1] <= q[Len(q)]
    BY <1>3, <1>4, <2>1, RunIncreasing
  <2>3. q[Len(q)] >= from
    BY <2>1, <2>2
  <2> QED
    BY <1>5, <2>3 DEF TopKept
<1>7. PhaseInv(c)'
  BY <1>1 DEF ClientInv, PhaseInv, Early
<1>8. RunsInv(c)'
  <2>1. Run(<< >>) /\ ~TopKept(<< >>, from)
    BY DEF Run, TopKept
  <2> QED
    BY <1>1, <1>3, <1>5, <1>6, <2>1 DEF ClientInv, PhaseInv, RunsInv
<1>9. FeedInv(c)'
  <2>1. from # None /\ out[c] = << >> => from > joined[c] \/ (joined[c] = 0 /\ from = 0)
    BY <1>1, <1>5 DEF ClientInv, FeedInv, Started, NotOwed
  <2> QED
    BY <1>1, <2>1 DEF FeedInv, NotOwed, Early
<1> QED
  BY <1>2, <1>7, <1>8, <1>9 DEF ClientInv

(* The receiver moves on by one.  The event is the one after the last one  *)
(* sent, unless the snapshot held it or the client lagged.                 *)
LEMMA RecvStep ==
  ASSUME BusTypeOK, ChannelInv, NEW c \in Clients, ClientInv(c), Recv(c)
  PROVE  BusTypeOK' /\ ClientInv(c)'
<1> DEFINE e == rx[c] + 1
<1> DEFINE o == Append(out[c], e)
<1>1. /\ out[c] \in Seq(Nat) /\ joined[c] \in Nat /\ rx[c] \in Nat /\ lastSent[c] \in Nat
      /\ Len(channel) \in Nat
  BY ClientTypes DEF BusTypeOK
<1>2. phase[c] = "live" /\ e \in 1 .. Len(channel) /\ channel[e] = e
  BY <1>1 DEF Recv, ChannelInv
<1>3. /\ queue[c] = << >> /\ joined[c] <= rx[c] /\ Increasing(out[c])
      /\ lastSent[c] = LastOf(out[c])
      /\ ~lagged[c] => Run(out[c])
      /\ ~lagged[c] /\ out[c] # << >> => LastOf(out[c]) >= rx[c]
  BY <1>2 DEF ClientInv, PhaseInv, RunsInv, TopKept
<1>4. /\ phase' = phase /\ kind' = kind /\ startFrom' = startFrom /\ joined' = joined
      /\ queue' = queue /\ lagged' = lagged /\ channel' = channel /\ Stored' = Stored
      /\ pc' = pc /\ nextId' = nextId /\ backlog' = backlog
      /\ rx' = [rx EXCEPT ![c] = e]
      /\ \/ e > lastSent[c] /\ lastSent' = [lastSent EXCEPT ![c] = e] /\ out' = [out EXCEPT ![c] = o]
         \/ e <= lastSent[c] /\ lastSent' = lastSent /\ out' = out
  BY <1>2 DEF Recv, busVars, Stored
<1>5. rx'[c] = e
  BY <1>4 DEF BusTypeOK
<1>6. CASE e > lastSent[c] /\ lastSent' = [lastSent EXCEPT ![c] = e] /\ out' = [out EXCEPT ![c] = o]
  <2>1. /\ o \in Seq(Nat) /\ Increasing(o) /\ o # << >> /\ LastOf(o) = e
    BY <1>1, <1>2, <1>3, <1>6, IncreasingAppend
  <2>2. ~lagged[c] => Run(o)
    <3> SUFFICES ASSUME ~lagged[c] PROVE Run(o)
      OBVIOUS
    <3>1. out[c] # << >> => e = LastOf(out[c]) + 1
      BY <1>1, <1>3, <1>6
    <3> QED
      BY <1>1, <1>2, <1>3, <3>1, RunAppend
  <2> HIDE DEF o
  <2>3. out'[c] = o /\ lastSent'[c] = e
    BY <1>6 DEF BusTypeOK
  <2>4. BusTypeOK'
    <3>1. e \in Nat
      BY <1>2
    <3>2. rx' \in [Clients -> Nat]
      BY <1>4, <3>1 DEF BusTypeOK
    <3>3. lastSent' \in [Clients -> Nat] /\ out' \in [Clients -> Seq(Nat)]
      BY <1>6, <2>1, <3>1 DEF BusTypeOK
    <3> QED
      BY <1>4, <3>2, <3>3 DEF BusTypeOK
  <2>5. PhaseInv(c)'
    BY <1>1, <1>2, <1>3, <1>4, <1>5 DEF PhaseInv, Early
  <2>6. RunsInv(c)'
    BY <1>1, <1>2, <1>3, <1>4, <1>5, <2>1, <2>2, <2>3 DEF ClientInv, RunsInv, TopKept
  <2>7. FeedInv(c)'
    BY <1>2, <1>3, <1>4, <2>1, <2>3 DEF FeedInv, Early
  <2> QED
    BY <2>4, <2>5, <2>6, <2>7 DEF ClientInv
<1>7. CASE e <= lastSent[c] /\ lastSent' = lastSent /\ out' = out
  <2>1. out[c] # << >> /\ LastOf(out[c]) >= e
    BY <1>1, <1>3, <1>7 DEF LastOf
  <2>4. BusTypeOK'
    BY <1>1, <1>2, <1>4, <1>7 DEF BusTypeOK
  <2>5. PhaseInv(c)'
    BY <1>1, <1>2, <1>3, <1>4, <1>5 DEF PhaseInv, Early
  <2>6. RunsInv(c)'
    BY <1>2, <1>3, <1>4, <1>5, <1>7, <2>1 DEF ClientInv, RunsInv, TopKept
  <2>7. FeedInv(c)'
    BY <1>2, <1>3, <1>4, <1>7, <2>1 DEF FeedInv, Early
  <2> QED
    BY <2>4, <2>5, <2>6, <2>7 DEF ClientInv
<1> QED
  BY <1>4, <1>6, <1>7

LEMMA LagStep ==
  ASSUME BusTypeOK, ChannelInv, NEW c \in Clients, ClientInv(c), Lag(c)
  PROVE  BusTypeOK' /\ ClientInv(c)'
<1>1. joined[c] \in Nat /\ rx[c] \in Nat /\ Len(channel) \in Nat /\ RingSize \in Nat
  BY ClientTypes, BusAssumption DEF BusTypeOK
<1>2. /\ phase[c] = "live" /\ Len(channel) - rx[c] > RingSize
      /\ rx' = [rx EXCEPT ![c] = Len(channel) - RingSize]
      /\ lagged' = [lagged EXCEPT ![c] = TRUE]
      /\ phase' = phase /\ kind' = kind /\ startFrom' = startFrom /\ joined' = joined
      /\ queue' = queue /\ out' = out /\ lastSent' = lastSent
      /\ channel' = channel /\ Stored' = Stored
      /\ pc' = pc /\ nextId' = nextId /\ backlog' = backlog
  BY DEF Lag, busVars, Stored
<1>3. rx'[c] = Len(channel) - RingSize /\ lagged'[c] /\ lagged'[c] \in BOOLEAN
  BY <1>2 DEF BusTypeOK
<1>4. Len(channel) - RingSize \in Nat /\ rx[c] <= Len(channel) - RingSize
  BY <1>1, <1>2
<1>5. BusTypeOK'
  BY <1>2, <1>4 DEF BusTypeOK
<1>6. PhaseInv(c)'
  BY <1>1, <1>2, <1>3, <1>4 DEF ClientInv, PhaseInv, Early
<1>7. RunsInv(c)'
  BY <1>2, <1>3 DEF ClientInv, PhaseInv, RunsInv
<1>8. FeedInv(c)'
  BY <1>2, <1>3 DEF ClientInv, FeedInv, NotOwed
<1> QED
  BY <1>5, <1>6, <1>7, <1>8 DEF ClientInv

LEMMA HandlerEndsStep ==
  ASSUME BusTypeOK, NEW c \in Clients, HandlerEnds(c)
  PROVE  BusTypeOK' /\ ClientInv(c)'
<1>1. BusTypeOK'
  BY DEF BusTypeOK, HandlerEnds, Goto, busVars, Phases
<1>2. /\ phase'[c] = "off" /\ queue'[c] = << >> /\ out'[c] = << >> /\ lastSent'[c] = 0
      /\ lagged'[c] = FALSE
  BY DEF HandlerEnds, Goto, BusTypeOK
<1>3. PhaseInv(c)'
  BY <1>2 DEF PhaseInv, Early
<1>4. RunsInv(c)'
  BY <1>2 DEF RunsInv, Run, Increasing, LastOf, TopKept
<1>5. FeedInv(c)'
  BY <1>2 DEF FeedInv, Early, Started
<1> QED
  BY <1>1, <1>3, <1>4, <1>5 DEF ClientInv

-----------------------------------------------------------------------------
LEMMA BusInvStart == Init => BusInv
<1> SUFFICES ASSUME Init PROVE BusInv
  OBVIOUS
<1>1. BusTypeOK
  BY DEF Init, BusTypeOK, Phases
<1>2. ChannelInv /\ BacklogIsLatest
  BY LimitType DEF Init, ChannelInv, BacklogIsLatest, Stored
<1>3. ASSUME NEW c \in Clients PROVE ClientInv(c)
  <2>1. /\ phase[c] = "off" /\ queue[c] = << >> /\ out[c] = << >> /\ lastSent[c] = 0
        /\ lagged[c] = FALSE
    BY DEF Init
  <2>2. PhaseInv(c)
    BY <2>1 DEF PhaseInv, Early
  <2>3. RunsInv(c)
    BY <2>1 DEF RunsInv, Run, Increasing, LastOf, TopKept
  <2>4. FeedInv(c)
    BY <2>1 DEF FeedInv, Early, Started
  <2> QED
    BY <2>2, <2>3, <2>4 DEF ClientInv
<1> QED
  BY <1>1, <1>2, <1>3 DEF BusInv

(* A step of the bus. *)
LEMMA BusStepKeeps ==
  ASSUME BusInv, BusStep
  PROVE  /\ BusInv'
         /\ Stored \in Nat /\ Stored' \in Nat /\ Stored <= Stored'
         /\ Len(channel) \in Nat /\ Len(channel') \in Nat /\ Len(channel) <= Len(channel')
         /\ \A d \in Clients : Same(d)
<1>1. BusTypeOK /\ ChannelInv /\ BacklogIsLatest /\ Stored \in Nat /\ Len(channel) \in Nat
  BY BacklogRun DEF BusInv, BusTypeOK
<1>2. /\ ChannelInv' /\ BacklogIsLatest' /\ Stored' \in {Stored, Stored + 1}
      /\ Len(channel') \in {Len(channel), Len(channel) + 1}
      /\ BusTypeOK' /\ clientVars' = clientVars
  <2>1. CASE Stamp
    BY <1>1, <2>1, StampStep DEF Stamp, BusTypeOK, clientVars, sentVars
  <2>2. CASE Store
    BY <1>1, <2>2, StoreStep DEF Store, BusTypeOK, clientVars, sentVars
  <2>3. CASE Publish
    BY <1>1, <2>3, PublishStep DEF Publish, BusTypeOK, clientVars, sentVars
  <2>4. CASE NotifyWaiters \/ \E v \in Versions : RememberApiVersion(v)
    BY <1>1, <2>4, VersionStep DEF NotifyWaiters, RememberApiVersion, BusTypeOK, clientVars, sentVars
  <2> QED
    BY <2>1, <2>2, <2>3, <2>4 DEF BusStep
<1>3. /\ Stored' \in Nat /\ Stored <= Stored'
      /\ Len(channel') \in Nat /\ Len(channel) <= Len(channel')
  BY <1>1, <1>2
<1>4. \A d \in Clients : Same(d)
  BY <1>2 DEF Same, clientVars, sentVars
<1>5. \A d \in Clients : ClientInv(d)'
  BY <1>1, <1>3, <1>4, UntouchedClient DEF BusInv
<1>6. BusInv'
  BY <1>2, <1>5 DEF BusInv
<1> QED
  BY <1>1, <1>3, <1>4, <1>6

LEMMA ClientStepKeeps ==
  ASSUME BusInv, NEW c \in Clients,
         \/ HandlerStep(c) \/ HangUp(c) \/ HandlerEnds(c)
         \/ \E k \in {"ws", "sse"}, from \in Starts : Connect(c, k, from)
  PROVE  BusInv' /\ Stored' = Stored /\ Stored \in Nat
<1>a. BusTypeOK /\ ChannelInv /\ BacklogIsLatest /\ ClientInv(c)
  BY DEF BusInv
<1>b. Len(channel) \in Nat
  BY <1>a DEF BusTypeOK
<1>1. /\ BusTypeOK /\ ChannelInv /\ BacklogIsLatest /\ ClientInv(c)
      /\ Stored \in Nat /\ Len(channel) \in Nat
  BY <1>a, <1>b, BacklogRun
<1>2. UNCHANGED busVars /\ \A d \in Clients : d # c => Same(d)
  BY <1>1, OthersUntouched
<1>3. BusTypeOK' /\ ClientInv(c)'
  <2>1. CASE Listen(c) \/ Check(c) \/ Wake(c) \/ Greet(c) \/ HangUp(c)
    BY <1>1, <2>1, QuietStep
  <2>2. CASE Snapshot(c)
    BY <1>1, <2>2, SnapshotStep
  <2>3. CASE Replay(c)
    BY <1>1, <2>3, ReplayStep
  <2>4. CASE ReplayEnds(c)
    BY <1>1, <2>4, ReplayEndsStep
  <2>5. CASE Recv(c)
    BY <1>1, <2>5, RecvStep
  <2>6. CASE Lag(c)
    BY <1>1, <2>6, LagStep
  <2>7. CASE HandlerEnds(c)
    BY <1>1, <2>7, HandlerEndsStep
  <2>8. CASE \E k \in {"ws", "sse"}, from \in Starts : Connect(c, k, from)
    <3>1. PICK k \in {"ws", "sse"}, from \in Starts : Connect(c, k, from)
      BY <2>8
    <3> QED
      BY <1>1, <3>1, ConnectStep
  <2> QED
    BY <2>1, <2>2, <2>3, <2>4, <2>5, <2>6, <2>7, <2>8 DEF HandlerStep
<1>4. Stored' = Stored /\ channel' = channel
  BY <1>2 DEF busVars, Stored
<1>5. ChannelInv' /\ BacklogIsLatest'
  BY <1>1, <1>2, <1>4 DEF busVars, ChannelInv, BacklogIsLatest
<1>6. ASSUME NEW d \in Clients, d # c PROVE ClientInv(d)'
  <2>1. ClientInv(d) /\ Same(d)
    BY <1>2, <1>6 DEF BusInv
  <2> QED
    BY <1>1, <1>4, <2>1, UntouchedClient
<1>7. \A d \in Clients : ClientInv(d)'
  BY <1>3, <1>6
<1>8. BusInv'
  BY <1>3, <1>5, <1>7 DEF BusInv
<1> QED
  BY <1>1, <1>4, <1>8

LEMMA BusInvStep == BusInv /\ [Next]_vars => BusInv'
<1> SUFFICES ASSUME BusInv, [Next]_vars PROVE BusInv'
  OBVIOUS
<1>1. CASE BusStep
  BY <1>1, BusStepKeeps
<1>2. ASSUME NEW c \in Clients,
             \/ HandlerStep(c) \/ HangUp(c) \/ HandlerEnds(c)
             \/ \E k \in {"ws", "sse"}, from \in Starts : Connect(c, k, from)
      PROVE  BusInv'
  BY <1>2, ClientStepKeeps
<1>3. CASE UNCHANGED vars
  <2> USE <1>3 DEF vars, busVars, clientVars, sentVars
  <2>1. BusTypeOK'
    BY DEF BusInv, BusTypeOK
  <2>2. ChannelInv' /\ BacklogIsLatest' /\ Stored' = Stored
    BY DEF BusInv, ChannelInv, BacklogIsLatest, Stored
  <2>3. ASSUME NEW d \in Clients PROVE ClientInv(d)'
    <3>1. Same(d)
      BY DEF Same
    <3>2. Stored \in Nat /\ Len(channel) \in Nat /\ ClientInv(d)
      BY BacklogRun DEF BusInv, BusTypeOK
    <3> QED
      BY <2>2, <3>1, <3>2, UntouchedClient DEF BusInv
  <2> QED
    BY <2>1, <2>2, <2>3 DEF BusInv
<1> QED
  BY <1>1, <1>2, <1>3 DEF Next

(* The invariant holds in every behaviour of bus and handlers. *)
LEMMA BusInvariant == Spec => []BusInv
  BY BusInvStart, BusInvStep, PTL DEF Spec

(* EventBus::push keeps the backlog the latest Limit events, whatever the  *)
(* limit is.                                                               *)
THEOREM BacklogStaysLatest == Spec => []BacklogIsLatest
<1>1. BusInv => BacklogIsLatest
  BY DEF BusInv
<1> QED
  BY <1>1, BusInvariant, PTL

(* No client is sent an event twice or out of order, by either handler and *)
(* even after it lagged: `id > last_sent_id` sees to it.                   *)
THEOREM DeliveredInOrder == Spec => []DeliveredIncreasing
<1>1. BusInv => DeliveredIncreasing
  BY DEF BusInv, ClientInv, RunsInv, Increasing, DeliveredIncreasing
<1> QED
  BY <1>1, BusInvariant, PTL

(* No hole in what a client is sent, neither within its replay nor where   *)
(* the channel takes over, unless its receiver was overrun.                *)
THEOREM DeliveredHasNoHoles == Spec => []DeliveredWithoutHoles
<1>1. BusInv => DeliveredWithoutHoles
  <2> SUFFICES ASSUME BusInv, NEW c \in Clients, ~lagged[c], NEW i \in 1 .. Len(out[c]) - 1
               PROVE  out[c][i + 1] = out[c][i] + 1
    BY DEF DeliveredWithoutHoles
  <2>1. Run(out[c]) /\ out[c] \in Seq(Nat)
    BY ClientTypes DEF BusInv, ClientInv, RunsInv
  <2>2. i \in 1 .. Len(out[c]) /\ i + 1 \in 1 .. Len(out[c])
    BY <2>1
  <2>3. /\ out[c][1] \in Nat /\ out[c][i] = out[c][1] + i - 1
        /\ out[c][i + 1] = out[c][1] + (i + 1) - 1
    BY <2>1, <2>2, RunIncreasing
  <2> QED
    BY <2>2, <2>3
<1> QED
  BY <1>1, BusInvariant, PTL

-----------------------------------------------------------------------------
(* What a client is owed.  With a backlog longer than the channel, a       *)
(* snapshot that begins too late means that the channel has overrun the    *)
(* receiver by then, and the client will be told.                          *)
Firsts == \A c \in Clients : FirstInv(c)

LEMMA FirstUntouched ==
  ASSUME BusTypeOK, NEW d \in Clients, FirstInv(d), Same(d),
         Len(channel) <= Len(channel'), Len(channel') \in Nat
  PROVE  FirstInv(d)'
<1>1. joined[d] \in Nat /\ RingSize \in Nat /\ Len(channel) \in Nat
  BY BusAssumption DEF BusTypeOK
<1>2. ASSUME NEW e, InTime(d, e) PROVE InTime(d, e)'
  BY <1>1, <1>2 DEF InTime, Same
<1> QED
  BY <1>2 DEF FirstInv, Same

LEMMA FirstOfSnapshot ==
  ASSUME RingSize < Limit, BusInv, NEW c \in Clients, Snapshot(c)
  PROVE  FirstInv(c)'
<1>1. /\ phase[c] = "snapshot" /\ out[c] = << >> /\ rx[c] = joined[c]
  BY DEF Snapshot, BusInv, ClientInv, PhaseInv
<1>2. /\ queue'[c] = backlog /\ out'[c] = << >> /\ rx'[c] = joined[c] /\ joined'[c] = joined[c]
      /\ channel' = channel
  BY <1>1 DEF Snapshot, busVars, BusInv, BusTypeOK
<1>3. joined[c] \in Nat /\ RingSize \in Nat /\ Len(channel) \in Nat
  BY BusAssumption DEF BusInv, BusTypeOK
<1>4. BusTypeOK /\ ChannelInv /\ BacklogIsLatest
  BY DEF BusInv
<1>5. ASSUME backlog # << >>
      PROVE  backlog[1] <= joined[c] + 1 \/ Len(channel) > joined[c] + RingSize
  <2>1. /\ Stored \in Nat /\ Stored <= Len(channel) + 1
        /\ backlog[1] = 1 \/ backlog[1] + Limit = Stored + 1
    BY <1>4, <1>5, BacklogRun
  <2>2. backlog[1] \in Nat
    BY <1>4, <1>5 DEF BusTypeOK
  <2> QED
    BY <1>3, <2>1, <2>2, LimitType
<1> QED
  BY <1>2, <1>5 DEF FirstInv, InTime

LEMMA FirstOfReplay ==
  ASSUME BusInv, NEW c \in Clients, FirstInv(c), Replay(c)
  PROVE  FirstInv(c)'
<1> DEFINE q == queue[c]
<1> DEFINE from == startFrom[c]
<1> DEFINE m == Min(Kept(q, from))
<1> DEFINE e == q[m]
<1> DEFINE o == Append(out[c], e)
<1>1. /\ phase[c] = "replay" /\ Kept(q, from) # {} /\ out'[c] = o
      /\ startFrom' = startFrom /\ joined' = joined /\ rx' = rx /\ channel' = channel
      /\ lagged' = lagged
  BY DEF Replay, busVars, BusInv, BusTypeOK
<1>2. q \in Seq(Nat) /\ Run(q) /\ q # << >> /\ out[c] \in Seq(Nat) /\ ~lagged[c]
  BY <1>1 DEF BusInv, BusTypeOK, ClientInv, PhaseInv, RunsInv, Kept
<1>3. from \in Nat
  BY <1>2 DEF BusInv, BusTypeOK, ClientInv, PhaseInv
<1>a. m = Min(Kept(q, from))
  OBVIOUS
<1> HIDE DEF q, from, m
<1>4. m \in 1 .. Len(q) /\ e \in Nat /\ (m = 1 \/ e = from)
  <2>1. Kept(q, from) # {}
    BY <1>1
  <2> QED
    BY <1>2, <1>3, <1>a, <2>1, KeptFirst
<1>5. /\ o # << >> /\ (out[c] = << >> => o[1] = e) /\ (out[c] # << >> => o[1] = out[c][1])
  <2>1. /\ o # << >> /\ Len(out[c]) \in Nat
        /\ \A i \in 1 .. Len(out[c]) : o[i] = out[c][i]
        /\ o[Len(out[c]) + 1] = e
    <3>1. e \in Nat /\ out[c] \in Seq(Nat) /\ o = Append(out[c], e)
      BY <1>2, <1>4
    <3> HIDE DEF e, o
    <3> QED
      BY <3>1, Appended
  <2> HIDE DEF o
  <2> QED
    BY <1>2, <2>1, EmptyLen
<1>6. InTime(c, o[1])
  <2>1. CASE out[c] # << >>
    BY <1>2, <1>5, <2>1 DEF FirstInv
  <2>2. CASE out[c] = << >> /\ m = 1
    BY <1>2, <1>5, <2>2 DEF FirstInv, q
  <2>3. CASE out[c] = << >> /\ e = from
    <3>1. from # None /\ o[1] <= from
      BY <1>3, <1>5, <2>3, BusAssumption
    <3> QED
      BY <3>1 DEF InTime, from
  <2> QED
    BY <1>4, <2>1, <2>2, <2>3
<1>7. InTime(c, o[1])'
  <2>1. (o[1])' = o'[1]
    OBVIOUS
  <2> QED
    BY <1>1, <1>6 DEF InTime
<1> QED
  BY <1>1, <1>5, <1>7 DEF FirstInv

LEMMA FirstOfRecv ==
  ASSUME BusInv, NEW c \in Clients, FirstInv(c), Recv(c)
  PROVE  FirstInv(c)'
<1> DEFINE e == rx[c] + 1
<1>1. /\ rx[c] \in Nat /\ joined[c] \in Nat /\ Len(channel) \in Nat /\ RingSize \in Nat
      /\ out[c] \in Seq(Nat) /\ lastSent[c] \in Nat
  BY BusAssumption DEF BusInv, BusTypeOK
<1>2. phase[c] = "live" /\ Len(channel) - rx[c] <= RingSize /\ e \in 1 .. Len(channel)
  BY <1>1 DEF Recv
<1>3. channel[e] = e
  BY <1>2 DEF BusInv, ChannelInv
<1>4. /\ queue'[c] = << >> /\ startFrom' = startFrom /\ joined' = joined /\ lagged' = lagged
      /\ out'[c] \in {out[c], Append(out[c], e)}
      /\ out[c] = << >> => out'[c] = Append(out[c], e)
  <2>1. queue[c] = << >> /\ lastSent[c] = LastOf(out[c])
    BY <1>2 DEF BusInv, ClientInv, PhaseInv, RunsInv, TopKept
  <2>2. out[c] = << >> => ~(e <= lastSent[c])
    BY <1>1, <2>1 DEF LastOf
  <2> QED
    BY <1>2, <1>3, <2>1, <2>2 DEF Recv, BusInv, BusTypeOK
<1>5. CASE out[c] = << >>
  <2>1. ~lagged[c] => e = joined[c] + 1
    BY <1>2, <1>5 DEF BusInv, ClientInv, RunsInv
  <2>2. out'[c][1] = e
    BY <1>1, <1>4, <1>5
  <2>3. ~lagged[c] => out'[c][1] <= joined'[c] + 1
    BY <1>1, <1>4, <2>1, <2>2
  <2> QED
    BY <1>4, <2>3 DEF FirstInv, InTime
<1>6. CASE out[c] # << >>
  <2>1. out'[c][1] = out[c][1]
    <3>1. 1 \in 1 .. Len(out[c]) /\ e \in Nat
      BY <1>1, <1>6
    <3>2. CASE out'[c] = Append(out[c], e)
      BY <1>1, <3>1, <3>2, Appended
    <3> QED
      BY <1>4, <3>2
  <2>2. ~lagged[c] => InTime(c, out[c][1])
    BY <1>6 DEF FirstInv
  <2>3. ~(rx[c] = joined[c] /\ Len(channel) > joined[c] + RingSize)
    BY <1>1, <1>2
  <2> QED
    BY <1>4, <2>1, <2>2, <2>3 DEF FirstInv, InTime
<1> QED
  BY <1>5, <1>6

LEMMA FirstsStep ==
  ASSUME RingSize < Limit, BusInv, Firsts, [Next]_vars
  PROVE  Firsts'
<1>1. CASE BusStep
  BY <1>1, BusStepKeeps, FirstUntouched DEF Firsts, BusInv
<1>2. ASSUME NEW c \in Clients,
             \/ HandlerStep(c) \/ HangUp(c) \/ HandlerEnds(c)
             \/ \E k \in {"ws", "sse"}, from \in Starts : Connect(c, k, from)
      PROVE  Firsts'
  <2>1. BusTypeOK /\ ClientInv(c) /\ FirstInv(c) /\ Len(channel) \in Nat
    BY DEF BusInv, BusTypeOK, Firsts
  <2>2. UNCHANGED busVars /\ \A d \in Clients : d # c => Same(d)
    BY <1>2, <2>1, OthersUntouched
  <2>3. FirstInv(c)'
    <3>1. CASE Listen(c) \/ Check(c) \/ Wake(c) \/ Greet(c) \/ HangUp(c)
      BY <2>1, <2>2, <3>1 DEF Listen, Check, Wake, Greet, HangUp, busVars, sentVars, FirstInv, InTime
    <3>2. CASE Snapshot(c)
      BY <3>2, FirstOfSnapshot
    <3>3. CASE Replay(c)
      BY <2>1, <3>3, FirstOfReplay
    <3>4. CASE ReplayEnds(c)
      BY <2>1, <3>4 DEF ReplayEnds, busVars, BusTypeOK, FirstInv, InTime
    <3>5. CASE Recv(c)
      BY <2>1, <3>5, FirstOfRecv
    <3>6. CASE Lag(c)
      <4>1. lagged'[c] = TRUE
        BY <2>1, <3>6 DEF Lag, BusTypeOK
      <4> QED
        BY <4>1 DEF FirstInv
    <3>7. CASE HandlerEnds(c)
      BY <2>1, <3>7 DEF HandlerEnds, BusTypeOK, FirstInv
    <3>8. CASE \E k \in {"ws", "sse"}, from \in Starts : Connect(c, k, from)
      BY <2>1, <3>8 DEF Connect, FirstInv, ClientInv, PhaseInv
    <3> QED
      BY <1>2, <3>1, <3>2, <3>3, <3>4, <3>5, <3>6, <3>7, <3>8 DEF HandlerStep
  <2>4. ASSUME NEW d \in Clients, d # c PROVE FirstInv(d)'
    BY <2>1, <2>2, <2>4, FirstUntouched DEF Firsts, busVars
  <2> QED
    BY <2>3, <2>4 DEF Firsts
<1>3. CASE UNCHANGED vars
  <2>1. BusTypeOK /\ Len(channel) \in Nat /\ channel' = channel /\ \A d \in Clients : Same(d)
    BY <1>3 DEF BusInv, BusTypeOK, vars, busVars, clientVars, sentVars, Same
  <2> QED
    BY <2>1, FirstUntouched DEF Firsts
<1> QED
  BY <1>1, <1>2, <1>3 DEF Next

(* Why an event cannot be missing: what was sent is a run that begins in   *)
(* time and reaches as far as the receiver.                                *)
LEMMA FirstsSuffice ==
  ASSUME BusInv, Firsts
  PROVE  NothingMissed
<1> SUFFICES ASSUME NEW c \in Clients, phase[c] = "live", ~lagged[c],
                    NEW i \in joined[c] + 1 .. rx[c],
                    ~(startFrom[c] # None /\ channel[i] < startFrom[c])
             PROVE  \E n \in 1 .. Len(out[c]) : out[c][n] = channel[i]
  BY DEF NothingMissed
<1> DEFINE q == out[c]
<1>1. /\ q \in Seq(Nat) /\ rx[c] \in Nat /\ joined[c] \in Nat /\ Len(channel) \in Nat
      /\ startFrom[c] \in Nat \cup {None}
  BY ClientTypes DEF BusInv, BusTypeOK
<1>2. /\ Run(q) /\ queue[c] = << >> /\ rx[c] <= Len(channel)
      /\ q # << >> => LastOf(q) >= rx[c]
      /\ q = << >> => rx[c] = joined[c]
  BY DEF BusInv, ClientInv, PhaseInv, RunsInv
<1>3. i \in Nat /\ i >= joined[c] + 1 /\ i <= rx[c] /\ i \in 1 .. Len(channel)
  BY <1>1, <1>2
<1>4. channel[i] = i
  BY <1>3 DEF BusInv, ChannelInv
<1>5. q # << >> /\ rx[c] # joined[c]
  BY <1>1, <1>2, <1>3
<1>6. Len(q) \in Nat /\ Len(q) \in 1 .. Len(q)
  BY <1>1, <1>5
<1>7. q[1] \in Nat /\ q[Len(q)] = q[1] + Len(q) - 1 /\ q[Len(q)] >= i /\ q[Len(q)] \in Nat
  <2>1. q[1] \in Nat /\ q[Len(q)] = q[1] + Len(q) - 1 /\ q[Len(q)] \in Nat
    BY <1>1, <1>2, <1>6, RunIncreasing
  <2>2. q[Len(q)] >= rx[c]
    BY <1>2, <1>5 DEF LastOf
  <2> QED
    BY <1>1, <1>3, <2>1, <2>2
<1>8. q[1] <= i
  <2>1. InTime(c, q[1])
    BY <1>5 DEF Firsts, FirstInv
  <2>2. CASE q[1] <= joined[c] + 1
    BY <1>1, <1>3, <1>7, <2>2
  <2>3. CASE startFrom[c] # None /\ q[1] <= startFrom[c]
    <3>1. startFrom[c] \in Nat /\ startFrom[c] <= i
      BY <1>1, <1>3, <1>4, <2>3
    <3> QED
      BY <1>3, <1>7, <2>3, <3>1
  <2> QED
    BY <1>5, <2>1, <2>2, <2>3 DEF InTime
<1> DEFINE n == i - q[1] + 1
<1>9. n \in 1 .. Len(q) /\ q[1] + n - 1 = i
  BY <1>3, <1>6, <1>7, <1>8
<1> HIDE DEF n
<1>10. q[n] = q[1] + n - 1
  BY <1>1, <1>2, <1>9, RunIncreasing
<1> QED
  BY <1>4, <1>9, <1>10

(* With a backlog longer than the channel, a client that never lagged has  *)
(* been sent every event published since it subscribed that its receiver   *)
(* is past, from start_from on.                                            *)
THEOREM NothingIsMissed ==
  ASSUME RingSize < Limit
  PROVE  Spec => []NothingMissed
<1>1. Init => Firsts
  BY DEF Init, Firsts, FirstInv
<1>2. BusInv /\ Firsts /\ [Next]_vars => Firsts'
  BY FirstsStep
<1>3. BusInv /\ Firsts => NothingMissed
  BY FirstsSuffice
<1> QED
  BY <1>1, <1>2, <1>3, BusInvariant, PTL DEF Spec

-----------------------------------------------------------------------------
(* The refinement of EventFeed: each step of the bus and of the handlers   *)
(* is a step of the feed or changes nothing of it.                         *)
DueFor(from, j) ==
  CASE from = None -> {j + 1}
    [] from # None /\ from <= j + 1 -> {IF from = 0 THEN 1 ELSE from}
    [] from # None /\ from > j + 1 -> {j + 1, from}

DueOf(c) == IF phase[c] = "off" THEN {} ELSE DueFor(startFrom[c], joined[c])

LEMMA FeedStarts == Init => Feed!Init
<1> SUFFICES ASSUME Init PROVE Feed!Init
  OBVIOUS
<1>1. Stored = 0
  BY DEF Init, Stored
<1>2. FeedDue = [c \in Clients |-> {}]
  BY DEF Init, FeedDue
<1>3. FeedLast = [c \in Clients |-> 0]
  BY DEF Init, FeedLast
<1> QED
  BY <1>1, <1>2, <1>3 DEF Init, Feed!Init

(* A step of one client changes the feed for that client only. *)
LEMMA FeedOfOne ==
  ASSUME NEW c \in Clients, UNCHANGED busVars, \A d \in Clients : d # c => Same(d)
  PROVE  /\ Stored' = Stored
         /\ FeedDue \in [Clients -> {DueOf(d) : d \in Clients}] /\ FeedDue[c] = DueOf(c)
         /\ FeedDue' = [FeedDue EXCEPT ![c] = DueOf(c)']
         /\ FeedLast[c] = LastOf(out[c])
         /\ FeedLast' = [FeedLast EXCEPT ![c] = LastOf(out[c])']
<1>1. Stored' = Stored
  BY DEF busVars, Stored
<1>2. /\ FeedDue = [d \in Clients |-> DueOf(d)]
      /\ FeedLast = [d \in Clients |-> LastOf(out[d])]
  BY DEF FeedDue, FeedLast, DueFor, DueOf, LastOf
<1>3. /\ FeedDue' = [d \in Clients |-> DueOf(d)']
      /\ FeedLast' = [d \in Clients |-> LastOf(out[d])']
  BY DEF FeedDue, FeedLast, DueFor, DueOf, LastOf
<1>4. \A d \in Clients : d # c => DueOf(d)' = DueOf(d) /\ LastOf(out[d])' = LastOf(out[d])
  BY DEF Same, DueOf, LastOf
<1>5. FeedDue' = [FeedDue EXCEPT ![c] = DueOf(c)']
  BY <1>2, <1>3, <1>4
<1>6. FeedLast' = [FeedLast EXCEPT ![c] = LastOf(out[c])']
  BY <1>2, <1>3, <1>4
<1> QED
  BY <1>1, <1>2, <1>5, <1>6

(* The same when the step changes neither what the client is due nor what  *)
(* it was sent.                                                            *)
LEMMA FeedUnchanged ==
  ASSUME NEW c \in Clients, UNCHANGED busVars, \A d \in Clients : d # c => Same(d),
         DueOf(c)' = DueOf(c), LastOf(out[c])' = LastOf(out[c])
  PROVE  FeedDue' = FeedDue /\ FeedLast' = FeedLast /\ Stored' = Stored
<1>1. Stored' = Stored
  BY DEF busVars, Stored
<1>2. \A d \in Clients : DueOf(d)' = DueOf(d) /\ LastOf(out[d])' = LastOf(out[d])
  BY DEF Same, DueOf, LastOf
<1>3. FeedDue = [d \in Clients |-> DueOf(d)] /\ FeedLast = [d \in Clients |-> LastOf(out[d])]
  BY DEF FeedDue, FeedLast, DueFor, DueOf, LastOf
<1>4. /\ FeedDue' = [d \in Clients |-> DueOf(d)']
      /\ FeedLast' = [d \in Clients |-> LastOf(out[d])']
  BY DEF FeedDue, FeedLast, DueFor, DueOf, LastOf
<1> QED
  BY <1>1, <1>2, <1>3, <1>4

LEMMA StoreFeeds ==
  ASSUME BusInv, BusStep
  PROVE  Feed!Store \/ UNCHANGED <<Stored, FeedDue, FeedLast, lagged>>
<1>1. /\ phase' = phase /\ startFrom' = startFrom /\ joined' = joined /\ out' = out
      /\ lagged' = lagged
  BY DEF BusStep, Stamp, Store, Publish, NotifyWaiters, RememberApiVersion, clientVars, sentVars
<1>2. FeedDue' = FeedDue /\ FeedLast' = FeedLast
  BY <1>1 DEF FeedDue, FeedLast
<1>3. Stored' \in {Stored, Stored + 1}
  <2>1. BusTypeOK /\ ChannelInv /\ BacklogIsLatest
    BY DEF BusInv
  <2> QED
    BY <2>1, StampStep, StoreStep, PublishStep, VersionStep DEF BusStep
<1> QED
  BY <1>1, <1>2, <1>3 DEF Feed!Store

LEMMA ConnectFeeds ==
  ASSUME BusInv, NEW c \in Clients, UNCHANGED busVars,
         \A d \in Clients : d # c => Same(d),
         NEW k \in {"ws", "sse"}, NEW from \in Starts, Connect(c, k, from)
  PROVE  Feed!Join(c, from)
<1> DEFINE next == Len(channel) + 1
<1>1. /\ phase[c] = "off" /\ phase'[c] # "off" /\ startFrom'[c] = from
      /\ joined'[c] = Len(channel) /\ out' = out /\ lagged' = lagged
  BY DEF Connect, Goto, BusInv, BusTypeOK
<1>2. BusTypeOK /\ ChannelInv /\ BacklogIsLatest /\ Len(channel) \in Nat
  BY DEF BusInv, BusTypeOK
<1>3. Stored \in Nat /\ Len(channel) <= Stored /\ Stored <= Len(channel) + 1
  BY <1>2, BacklogRun
<1>4. next \in {Stored, Stored + 1} \ {0}
  BY <1>2, <1>3
<1>5. DueOf(c) = {} /\ DueOf(c)' = Feed!First(from, next)
  BY <1>1 DEF DueFor, DueOf, Feed!First
<1>6. /\ Stored' = Stored /\ FeedDue[c] = DueOf(c)
      /\ FeedDue' = [FeedDue EXCEPT ![c] = DueOf(c)']
  BY FeedOfOne
<1>7. FeedLast' = FeedLast
  BY <1>1 DEF FeedLast
<1> QED
  BY <1>1, <1>4, <1>5, <1>6, <1>7 DEF Feed!Join

(* An event is sent, by the replay or from the channel. *)
LEMMA SentFeeds ==
  ASSUME BusInv, NEW c \in Clients, UNCHANGED busVars,
         \A d \in Clients : d # c => Same(d),
         NEW e \in Nat, e <= Stored, DueOf(c) # {}, DueOf(c)' = DueOf(c), lagged' = lagged,
         LastOf(out[c])' = e,
         IF LastOf(out[c]) = 0
           THEN \/ e \in DueOf(c)
                \/ \E d \in DueOf(c) : e > d /\ (d + Limit <= Stored \/ lagged[c])
           ELSE e = LastOf(out[c]) + 1 \/ (lagged[c] /\ e > LastOf(out[c]))
  PROVE  Feed!Send(c, e)
<1>1. /\ Stored' = Stored /\ FeedDue[c] = DueOf(c) /\ FeedLast[c] = LastOf(out[c])
      /\ FeedDue' = [FeedDue EXCEPT ![c] = DueOf(c)']
      /\ FeedDue \in [Clients -> {DueOf(d) : d \in Clients}]
      /\ FeedLast' = [FeedLast EXCEPT ![c] = LastOf(out[c])']
  BY FeedOfOne
<1>2. FeedDue' = FeedDue
  BY <1>1
<1>3. Feed!InTurn(c, e)
  BY <1>1 DEF Feed!InTurn
<1> QED
  BY <1>1, <1>2, <1>3 DEF Feed!Send

(* What a connected client is due. *)
LEMMA DueIs ==
  ASSUME NEW c \in Clients, BusTypeOK, phase[c] # "off"
  PROVE  /\ DueOf(c) # {}
         /\ startFrom[c] = None => DueOf(c) = {joined[c] + 1}
         /\ startFrom[c] # None /\ startFrom[c] <= joined[c] + 1 =>
              DueOf(c) = {IF startFrom[c] = 0 THEN 1 ELSE startFrom[c]}
         /\ startFrom[c] # None /\ ~(startFrom[c] <= joined[c] + 1) =>
              DueOf(c) = {joined[c] + 1, startFrom[c]}
<1>1. joined[c] \in Nat /\ startFrom[c] \in Nat \cup {None}
  BY ClientTypes
<1>2. CASE startFrom[c] = None
  BY <1>2 DEF DueFor, DueOf
<1>3. CASE startFrom[c] # None /\ startFrom[c] <= joined[c] + 1
  <2>1. ~(startFrom[c] > joined[c] + 1)
    BY <1>1, <1>3
  <2> QED
    BY <1>3, <2>1 DEF DueFor, DueOf
<1>4. CASE startFrom[c] # None /\ ~(startFrom[c] <= joined[c] + 1)
  <2>1. startFrom[c] > joined[c] + 1
    BY <1>1, <1>4
  <2> QED
    BY <1>4, <2>1 DEF DueFor, DueOf
<1> QED
  BY <1>2, <1>3, <1>4

LEMMA ReplayFeeds ==
  ASSUME BusInv, NEW c \in Clients, UNCHANGED busVars,
         \A d \in Clients : d # c => Same(d), Replay(c)
  PROVE  \E e \in 1 .. Stored : Feed!Send(c, e)
<1> DEFINE q == queue[c]
<1> DEFINE from == startFrom[c]
<1> DEFINE m == Min(Kept(q, from))
<1> DEFINE e == q[m]
<1> DEFINE o == Append(out[c], e)
<1>1. /\ phase[c] = "replay" /\ Kept(q, from) # {} /\ out'[c] = o
      /\ phase' = phase /\ startFrom' = startFrom /\ joined' = joined /\ lagged' = lagged
  BY DEF Replay, BusInv, BusTypeOK
<1>2. /\ BusTypeOK /\ ChannelInv /\ BacklogIsLatest /\ ClientInv(c)
  BY DEF BusInv
<1>3. /\ q \in Seq(Nat) /\ Run(q) /\ q # << >> /\ out[c] \in Seq(Nat) /\ Run(out[c])
      /\ Increasing(out[c]) /\ Len(q) \in Nat
      /\ out[c] # << >> => q[1] = LastOf(out[c]) + 1 /\ q[1] >= from
  BY <1>1, <1>2 DEF BusTypeOK, ClientInv, PhaseInv, RunsInv, Kept
<1>4. from \in Nat /\ joined[c] \in Nat /\ from # None
  BY <1>2, <1>3 DEF BusTypeOK, ClientInv, PhaseInv
<1>5. Stored \in Nat /\ \A i \in 1 .. Len(q) : q[i] <= Stored
  BY <1>2, BacklogRun DEF ClientInv, FeedInv
<1>6. out[c] = << >> => q[1] = 1 \/ q[1] + Limit <= Stored + 1
  BY <1>2, <1>3 DEF ClientInv, FeedInv
<1>7. DueOf(c) # {} /\ DueOf(c)' = DueOf(c)
  BY <1>1, <1>2, DueIs DEF DueOf
<1>8. /\ from <= joined[c] + 1 => DueOf(c) = {IF from = 0 THEN 1 ELSE from}
      /\ ~(from <= joined[c] + 1) => from \in DueOf(c)
  BY <1>1, <1>2, <1>4, DueIs
<1>a. m = Min(Kept(q, from))
  OBVIOUS
<1> HIDE DEF q, from, m
<1>9. /\ m \in 1 .. Len(q) /\ e \in Nat /\ e >= 1 /\ e >= from
      /\ (m = 1 \/ e = from) /\ (q[1] >= from => m = 1)
  <2>1. Kept(q, from) # {}
    BY <1>1
  <2> QED
    BY <1>3, <1>4, <1>a, <2>1, KeptFirst
<1>10. e <= Stored
  BY <1>5, <1>9
<1>11. out[c] # << >> => e = LastOf(out[c]) + 1
  BY <1>3, <1>9
<1>12. LastOf(o) = e
  BY <1>3, <1>9, <1>11, RunAppend
<1>13. out[c] # << >> => LastOf(out[c]) # 0
  <2> SUFFICES ASSUME out[c] # << >> PROVE LastOf(out[c]) >= 1 /\ LastOf(out[c]) \in Nat
    OBVIOUS
  <2>1. Len(out[c]) \in 1 .. Len(out[c])
    BY <1>3
  <2> QED
    BY <1>3, <2>1 DEF Run, LastOf
<1> DEFINE d == IF from = 0 THEN 1 ELSE from
<1>14. ASSUME out[c] = << >>
       PROVE  d \in DueOf(c) /\ (e = d \/ (e > d /\ d + Limit <= Stored))
  <2>1. d \in DueOf(c)
    BY <1>4, <1>8
  <2>2. d \in Nat /\ d >= 1 /\ e >= d
    BY <1>4, <1>9
  <2>3. CASE e = from
    BY <1>9, <2>1, <2>3
  <2>4. CASE m = 1
    <3>1. e = 1 \/ e + Limit <= Stored + 1
      BY <1>6, <1>14, <2>4
    <3> HIDE DEF e, d
    <3> QED
      BY <1>5, <1>9, <2>1, <2>2, <3>1, LimitType
  <2> QED
    BY <1>9, <2>3, <2>4
<1> HIDE DEF d
<1>15. IF LastOf(out[c]) = 0
         THEN \/ e \in DueOf(c)
              \/ \E x \in DueOf(c) : e > x /\ (x + Limit <= Stored \/ lagged[c])
         ELSE e = LastOf(out[c]) + 1 \/ (lagged[c] /\ e > LastOf(out[c]))
  <2>1. CASE out[c] = << >>
    BY <1>14, <2>1 DEF LastOf
  <2>2. CASE out[c] # << >>
    BY <1>11, <1>13, <2>2
  <2> QED
    BY <2>1, <2>2
<1>16. LastOf(out[c])' = e
  BY <1>1, <1>12 DEF LastOf
<1> HIDE DEF e, o
<1>17. Feed!Send(c, e)
  BY <1>1, <1>7, <1>9, <1>10, <1>15, <1>16, SentFeeds
<1> QED
  BY <1>5, <1>9, <1>10, <1>17

LEMMA RecvFeeds ==
  ASSUME BusInv, NEW c \in Clients, UNCHANGED busVars,
         \A d \in Clients : d # c => Same(d), Recv(c)
  PROVE  \/ \E e \in 1 .. Stored : Feed!Send(c, e)
         \/ UNCHANGED <<Stored, FeedDue, FeedLast, lagged>>
<1> DEFINE e == rx[c] + 1
<1> DEFINE o == Append(out[c], e)
<1>1. BusTypeOK /\ ChannelInv /\ BacklogIsLatest /\ ClientInv(c)
  BY DEF BusInv
<1>2. /\ rx[c] \in Nat /\ joined[c] \in Nat /\ Len(channel) \in Nat /\ lastSent[c] \in Nat
      /\ out[c] \in Seq(Nat) /\ startFrom[c] \in Nat \cup {None}
  BY <1>1 DEF BusTypeOK
<1>3. phase[c] = "live" /\ e \in 1 .. Len(channel)
  BY <1>2 DEF Recv
<1>4. /\ channel[e] = e /\ queue[c] = << >> /\ lastSent[c] = LastOf(out[c]) /\ Increasing(out[c])
      /\ joined[c] <= rx[c]
      /\ out[c] = << >> /\ ~lagged[c] => rx[c] = joined[c]
      /\ out[c] # << >> /\ ~lagged[c] => LastOf(out[c]) >= rx[c]
      /\ startFrom[c] # None /\ out[c] = << >> =>
           startFrom[c] > joined[c] \/ (joined[c] = 0 /\ startFrom[c] = 0)
  BY <1>1, <1>3 DEF ChannelInv, ClientInv, PhaseInv, RunsInv, FeedInv, NotOwed, TopKept, Started
<1>5. /\ phase' = phase /\ startFrom' = startFrom /\ joined' = joined /\ lagged' = lagged
      /\ \/ e > lastSent[c] /\ out'[c] = o
         \/ out' = out
  BY <1>1, <1>4 DEF Recv, BusTypeOK
<1>6. DueOf(c) # {} /\ DueOf(c)' = DueOf(c)
  BY <1>1, <1>3, <1>5, DueIs DEF DueOf
<1>7. CASE out' = out
  <2>1. FeedDue' = FeedDue /\ FeedLast' = FeedLast
    BY <1>5, <1>7 DEF FeedDue, FeedLast
  <2> QED
    BY <1>5, <2>1 DEF busVars, Stored
<1>8. CASE e > lastSent[c] /\ out'[c] = o
  <2>1. Stored \in Nat /\ e <= Stored /\ e \in Nat /\ e \in 1 .. Stored
    BY <1>1, <1>2, <1>3, BacklogRun
  <2>2. LastOf(o) = e
    BY <1>2, <1>4, <1>8, <2>1, IncreasingAppend
  <2>3. LastOf(out[c])' = e
    BY <1>8, <2>2 DEF LastOf
  <2>4. ASSUME out[c] = << >>
        PROVE  joined[c] + 1 \in DueOf(c) /\ (e = joined[c] + 1 \/ (e > joined[c] + 1 /\ lagged[c]))
    <3>1. joined[c] + 1 \in DueOf(c)
      <4>1. CASE startFrom[c] = None
        BY <1>1, <1>3, <4>1, DueIs
      <4>2. CASE startFrom[c] # None /\ startFrom[c] <= joined[c] + 1
        <5>1. (IF startFrom[c] = 0 THEN 1 ELSE startFrom[c]) = joined[c] + 1
          BY <1>2, <1>4, <2>4, <4>2
        <5> QED
          BY <1>1, <1>3, <4>2, <5>1, DueIs
      <4>3. CASE startFrom[c] # None /\ ~(startFrom[c] <= joined[c] + 1)
        BY <1>1, <1>3, <4>3, DueIs
      <4> QED
        BY <4>1, <4>2, <4>3
    <3> QED
      BY <1>2, <1>4, <2>4, <3>1
  <2>5. out[c] # << >> => e = LastOf(out[c]) + 1 \/ (lagged[c] /\ e > LastOf(out[c]))
    BY <1>2, <1>4, <1>8
  <2>6. out[c] # << >> => LastOf(out[c]) # 0
    BY <1>1, <1>2, <1>4 DEF ClientInv, RunsInv
  <2>7. IF LastOf(out[c]) = 0
          THEN \/ e \in DueOf(c)
               \/ \E d \in DueOf(c) : e > d /\ (d + Limit <= Stored \/ lagged[c])
          ELSE e = LastOf(out[c]) + 1 \/ (lagged[c] /\ e > LastOf(out[c]))
    <3>1. CASE out[c] = << >>
      BY <2>4, <3>1 DEF LastOf
    <3>2. CASE out[c] # << >>
      BY <2>5, <2>6, <3>2
    <3> QED
      BY <3>1, <3>2
  <2> HIDE DEF e, o
  <2>8. Feed!Send(c, e)
    BY <1>5, <1>6, <2>1, <2>3, <2>7, SentFeeds
  <2> QED
    BY <2>1, <2>8
<1> QED
  BY <1>5, <1>7, <1>8

LEMMA StepImplementsFeed == BusInv /\ [Next]_vars => [Feed!Next]_(Feed!feedVars)
<1> SUFFICES ASSUME BusInv, [Next]_vars
             PROVE  Feed!Next \/ UNCHANGED <<Stored, FeedDue, FeedLast, lagged>>
  BY DEF Feed!feedVars
<1>1. CASE BusStep
  BY <1>1, StoreFeeds DEF Feed!Next
<1>2. ASSUME NEW c \in Clients,
             \/ HandlerStep(c) \/ HangUp(c) \/ HandlerEnds(c)
             \/ \E k \in {"ws", "sse"}, from \in Starts : Connect(c, k, from)
      PROVE  Feed!Next \/ UNCHANGED <<Stored, FeedDue, FeedLast, lagged>>
  <2>1. BusTypeOK
    BY DEF BusInv
  <2>2. UNCHANGED busVars /\ \A d \in Clients : d # c => Same(d)
    BY <1>2, <2>1, OthersUntouched
  <2>3. CASE Listen(c) \/ Check(c) \/ Wake(c) \/ Greet(c) \/ HangUp(c) \/ Snapshot(c) \/ ReplayEnds(c)
    <3>1. /\ startFrom' = startFrom /\ joined' = joined /\ out' = out /\ lagged' = lagged
          /\ phase[c] # "off" /\ phase'[c] # "off"
      <4> USE DEF sentVars, Goto, BusTypeOK
      <4>1. CASE Listen(c)
        BY <2>1, <4>1 DEF Listen
      <4>2. CASE Check(c)
        BY <2>1, <4>2 DEF Check
      <4>3. CASE Wake(c)
        BY <2>1, <4>3 DEF Wake
      <4>4. CASE Greet(c)
        BY <2>1, <4>4 DEF Greet
      <4>5. CASE HangUp(c)
        BY <2>1, <4>5 DEF HangUp
      <4>6. CASE Snapshot(c)
        BY <2>1, <4>6 DEF Snapshot
      <4>7. CASE ReplayEnds(c)
        BY <2>1, <4>7 DEF ReplayEnds
      <4> QED
        BY <2>3, <4>1, <4>2, <4>3, <4>4, <4>5, <4>6, <4>7
    <3>2. DueOf(c)' = DueOf(c) /\ LastOf(out[c])' = LastOf(out[c])
      BY <3>1 DEF DueOf, LastOf
    <3>3. FeedDue' = FeedDue /\ FeedLast' = FeedLast /\ Stored' = Stored
      BY <2>2, <3>2, FeedUnchanged
    <3> QED
      BY <3>1, <3>3
  <2>4. CASE Replay(c)
    BY <2>2, <2>4, ReplayFeeds DEF Feed!Next
  <2>5. CASE Recv(c)
    BY <2>2, <2>5, RecvFeeds DEF Feed!Next
  <2>6. CASE Lag(c)
    <3>1. /\ phase' = phase /\ startFrom' = startFrom /\ joined' = joined /\ out' = out
          /\ phase[c] # "off" /\ lagged' = [lagged EXCEPT ![c] = TRUE]
      BY <2>6 DEF Lag
    <3>2. DueOf(c)' = DueOf(c) /\ LastOf(out[c])' = LastOf(out[c]) /\ DueOf(c) # {}
      BY <2>1, <3>1, DueIs DEF DueOf, LastOf
    <3>3. FeedDue' = FeedDue /\ FeedLast' = FeedLast /\ Stored' = Stored
      BY <2>2, <3>2, FeedUnchanged
    <3>4. FeedDue[c] # {}
      BY <2>2, <3>2, FeedOfOne
    <3> QED
      BY <3>1, <3>3, <3>4 DEF Feed!Next, Feed!Overrun
  <2>7. CASE HandlerEnds(c)
    <3>1. phase'[c] = "off" /\ out'[c] = << >> /\ lagged' = [lagged EXCEPT ![c] = FALSE]
      BY <2>1, <2>7 DEF HandlerEnds, Goto, BusTypeOK
    <3>2. DueOf(c)' = {} /\ LastOf(out[c])' = 0
      BY <3>1 DEF DueOf, DueFor, LastOf
    <3>3. /\ Stored' = Stored
          /\ FeedDue' = [FeedDue EXCEPT ![c] = DueOf(c)']
          /\ FeedLast' = [FeedLast EXCEPT ![c] = LastOf(out[c])']
      BY <2>2, FeedOfOne
    <3> QED
      BY <3>1, <3>2, <3>3 DEF Feed!Next, Feed!Leave
  <2>8. CASE \E k \in {"ws", "sse"}, from \in Starts : Connect(c, k, from)
    <3>1. PICK k \in {"ws", "sse"}, from \in Starts : Connect(c, k, from)
      BY <2>8
    <3>2. Feed!Join(c, from)
      BY <2>2, <3>1, ConnectFeeds
    <3> QED
      BY <3>2 DEF Feed!Next
  <2> QED
    BY <1>2, <2>3, <2>4, <2>5, <2>6, <2>7, <2>8 DEF HandlerStep
<1>3. CASE UNCHANGED vars
  BY <1>3 DEF vars, busVars, clientVars, sentVars, Stored, FeedDue, FeedLast
<1> QED
  BY <1>1, <1>2, <1>3 DEF Next

(* Bus and handlers implement the numbered feed of EventFeed, whatever the *)
(* sizes of backlog and channel: a client is sent first one of the events  *)
(* it is due, or a later one only when that one has left the backlog or    *)
(* the client has lagged, and then one event after the other.              *)
THEOREM BusImplementsFeed == Spec => ImplementsFeed
<1>1. Init => Feed!Init
  BY FeedStarts
<1>2. BusInv /\ [Next]_vars => [Feed!Next]_(Feed!feedVars)
  BY StepImplementsFeed
<1> QED
  BY <1>1, <1>2, BusInvariant, PTL DEF Spec, ImplementsFeed, Feed!Spec

-----------------------------------------------------------------------------
(* What NoLostWakeup rests on.  A client that awaits its Notified future   *)
(* was not too late: the ticket it drew before its check is older than the *)
(* notification, so the one that comes, or came in between, wakes it.      *)
WakeUpPending ==
  \A c \in Clients :
    phase[c] = "await" /\ apiVersion # None => pc = "notify" \/ notices > ticket[c]

TicketInv ==
  /\ notices \in Nat
  /\ ticket \in [Clients -> Nat]
  /\ \A c \in Clients : ticket[c] <= notices

LEMMA WakeUpStart == Init => TicketInv /\ WakeUpPending
  BY DEF Init, TicketInv, WakeUpPending

(* The listener notifies after it has set the cell, and each notification  *)
(* is later than every ticket drawn so far.                                *)
LEMMA ListenerWakes ==
  ASSUME TicketInv, WakeUpPending, BusStep
  PROVE  TicketInv' /\ WakeUpPending'
<1>1. CASE Stamp
  BY <1>1 DEF Stamp, clientVars, sentVars, TicketInv, WakeUpPending
<1>2. CASE Store
  BY <1>2 DEF Store, clientVars, sentVars, TicketInv, WakeUpPending
<1>3. CASE Publish
  BY <1>3 DEF Publish, clientVars, sentVars, TicketInv, WakeUpPending
<1>4. CASE NotifyWaiters
  BY <1>4 DEF NotifyWaiters, clientVars, sentVars, TicketInv, WakeUpPending
<1>5. CASE \E v \in Versions : RememberApiVersion(v)
  BY <1>5 DEF RememberApiVersion, clientVars, sentVars, TicketInv, WakeUpPending
<1> QED
  BY <1>1, <1>2, <1>3, <1>4, <1>5 DEF BusStep

(* A handler begins to await only when its check found the cell empty, and *)
(* draws a new ticket only before the check.                               *)
Awaits(c, p, t) ==
  /\ phase' = [phase EXCEPT ![c] = p]
  /\ ticket' = [ticket EXCEPT ![c] = t]
  /\ UNCHANGED <<pc, apiVersion, notices>>

LEMMA ClientAwaits ==
  ASSUME BusTypeOK, TicketInv, WakeUpPending, NEW c \in Clients, NEW p \in Phases, NEW t \in Nat,
         t <= notices, p = "await" => apiVersion = None, Awaits(c, p, t)
  PROVE  TicketInv' /\ WakeUpPending'
  BY DEF BusTypeOK, TicketInv, WakeUpPending, Awaits

LEMMA ClientWakes ==
  ASSUME BusTypeOK, TicketInv, WakeUpPending, NEW c \in Clients,
         \/ HandlerStep(c) \/ HangUp(c) \/ HandlerEnds(c)
         \/ \E k \in {"ws", "sse"}, from \in Starts : Connect(c, k, from)
  PROVE  TicketInv' /\ WakeUpPending'
<1> USE DEF Goto, busVars, sentVars
<1>t. /\ notices \in Nat /\ ticket[c] \in Nat /\ ticket[c] <= notices
      /\ phase[c] \in Phases /\ kind[c] \in {"ws", "sse"}
      /\ ticket = [ticket EXCEPT ![c] = ticket[c]] /\ phase = [phase EXCEPT ![c] = phase[c]]
  BY DEF BusTypeOK, TicketInv
<1>1. CASE Listen(c)
  <2>1. Awaits(c, "check", notices)
    BY <1>1 DEF Listen, Awaits
  <2> QED
    BY <2>1, <1>t, ClientAwaits DEF Phases
<1>2. CASE Check(c)
  <2>1. \/ apiVersion = None /\ Awaits(c, "await", ticket[c])
        \/ Awaits(c, "greet", ticket[c])
    BY <1>2, <1>t DEF Check, Awaits
  <2> QED
    BY <2>1, <1>t, ClientAwaits DEF Phases
<1>3. CASE Wake(c)
  <2>1. Awaits(c, "listen", ticket[c])
    BY <1>3, <1>t DEF Wake, Awaits
  <2> QED
    BY <2>1, <1>t, ClientAwaits DEF Phases
<1>4. CASE Greet(c)
  <2>1. \E p \in {"replay", "snapshot", "live"} : Awaits(c, p, ticket[c])
    BY <1>4, <1>t DEF Greet, Awaits
  <2> QED
    BY <2>1, <1>t, ClientAwaits DEF Phases
<1>5. CASE Snapshot(c) \/ ReplayEnds(c) \/ \E k \in {"ws", "sse"}, from \in Starts : Connect(c, k, from)
  <2>1. \E p \in {"listen", "replay", "snapshot", "live"} : Awaits(c, p, ticket[c])
    BY <1>5, <1>t DEF Snapshot, ReplayEnds, Connect, Awaits
  <2> QED
    BY <2>1, <1>t, ClientAwaits DEF Phases
<1>6. CASE Replay(c) \/ Recv(c) \/ Lag(c) \/ HangUp(c)
  <2>1. UNCHANGED <<phase, ticket, pc, apiVersion, notices>>
    BY <1>6 DEF Replay, Recv, Lag, HangUp
  <2> QED
    BY <2>1 DEF TicketInv, WakeUpPending
<1>7. CASE HandlerEnds(c)
  <2>1. Awaits(c, "off", 0)
    BY <1>7 DEF HandlerEnds, Awaits
  <2> QED
    BY <2>1, <1>t, ClientAwaits DEF Phases
<1> QED
  BY <1>1, <1>2, <1>3, <1>4, <1>5, <1>6, <1>7 DEF HandlerStep

(* For every number of clients, events and versions, no client awaits a    *)
(* notification that has already been given: once the ApiVersion cell is   *)
(* set (remember_api_version) a client in wait_for_api_version is either   *)
(* about to be notified or already has been, and can run on.               *)
THEOREM WakeUpsArePending == Spec => []WakeUpPending
<1>1. BusInv /\ TicketInv /\ WakeUpPending /\ [Next]_vars => TicketInv' /\ WakeUpPending'
  <2> SUFFICES ASSUME BusInv, TicketInv, WakeUpPending, [Next]_vars
               PROVE  TicketInv' /\ WakeUpPending'
    OBVIOUS
  <2>0. BusTypeOK
    BY DEF BusInv
  <2>1. CASE BusStep
    BY <2>1, ListenerWakes
  <2>2. CASE \E c \in Clients :
               \/ HandlerStep(c) \/ HangUp(c) \/ HandlerEnds(c)
               \/ \E k \in {"ws", "sse"}, from \in Starts : Connect(c, k, from)
    BY <2>0, <2>2, ClientWakes
  <2>3. CASE UNCHANGED vars
    BY <2>3 DEF vars, busVars, clientVars, sentVars, TicketInv, WakeUpPending
  <2> QED
    BY <2>1, <2>2, <2>3 DEF Next
<1> QED
  BY <1>1, WakeUpStart, BusInvariant, PTL DEF Spec
=============================================================================
