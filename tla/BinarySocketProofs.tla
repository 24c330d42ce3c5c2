------------------------- MODULE BinarySocketProofs -------------------------
(***************************************************************************)
(* The accounts of the /binary endpoint, for any number of websockets and  *)
(* messages: the counters and gauges that the handlers, `send` and the     *)
(* dropped guards write agree with each other and with what is there, and  *)
(* every message has one answer.  What the connector promises is           *)
(* RequestService, which BinaryPool implements (BinaryPoolRefinement).     *)
(***************************************************************************)
EXTENDS BinarySocket, Integers, FiniteSetTheorems, TLAPS

Places == {"closed", "reading", "limited", "calling"}
States == {"idle", "asked", "served", "done"}

SocketTypeOK ==
  /\ state \in [Tasks -> States]
  /\ phase \in [Tasks -> Places]
  /\ wire \in [Tasks -> Seq(Messages)]
  /\ gone \in [Tasks -> BOOLEAN]
  /\ asked \in [Tasks -> Nat]
  /\ answered \in [Tasks -> Nat]
  /\ requests \in Nat
  /\ responses \in [Outcomes -> Nat]
  /\ connections \in Int
  /\ inflight \in Int

(* What the next handler of a slot finds. *)
ClosedIsClean ==
  \A s \in Tasks : phase[s] = "closed" => wire[s] = << >> /\ asked[s] = 0 /\ answered[s] = 0

SocketInv ==
  /\ SocketTypeOK
  /\ ClosedIsClean
  /\ CountersBalance
  /\ GaugesTrue
  /\ OneAnswerPerMessage

-----------------------------------------------------------------------------
(* Counting.  A set of slots gains one, loses one or stays.                *)
At(p)   == {s \in Tasks : phase[s] = p}
Pending == {s \in Tasks : state[s] \in {"asked", "served"}}

One(b) == IF b THEN 1 ELSE 0

LEMMA SetChanges ==
  ASSUME NEW T, IsFiniteSet(T), NEW A \in SUBSET T, NEW B \in SUBSET T, NEW x \in T,
         \A y \in T : y # x => (y \in A <=> y \in B)
  PROVE  /\ Cardinality(A) \in Nat /\ Cardinality(B) \in Nat
         /\ Cardinality(B) = Cardinality(A) + One(x \in B) - One(x \in A)
<1>1. IsFiniteSet(A) /\ IsFiniteSet(B)
  BY FS_Subset
<1>2. Cardinality(A) \in Nat /\ Cardinality(B) \in Nat
  BY <1>1, FS_CardinalityType
<1>3. CASE x \in A <=> x \in B
  <2>1. A = B
    BY <1>3
  <2> QED
    BY <1>2, <2>1 DEF One
<1>4. CASE x \in B /\ x \notin A
  <2>1. B = A \cup {x}
    BY <1>4
  <2>2. Cardinality(B) = Cardinality(A) + 1
    BY <1>1, <1>4, <2>1, FS_AddElement
  <2> QED
    BY <1>2, <1>4, <2>2 DEF One
<1>5. CASE x \in A /\ x \notin B
  <2>1. B = A \ {x}
    BY <1>5
  <2>2. Cardinality(B) = Cardinality(A) - 1
    BY <1>1, <1>5, <2>1, FS_RemoveElement
  <2> QED
    BY <1>2, <1>5, <2>2 DEF One
<1> QED
  BY <1>2, <1>3, <1>4, <1>5

LEMMA PlacesAre == "closed" \in Places /\ "reading" \in Places /\ "limited" \in Places
                   /\ "reading" # "limited" /\ "reading" # "closed" /\ "closed" # "limited"
  BY DEF Places

LEMMA HandlersMove ==
  ASSUME IsFiniteSet(Tasks), SocketTypeOK, NEW s \in Tasks, NEW to \in Places, Goto(s, to), NEW p
  PROVE  /\ In(p) \in Nat /\ In(p)' \in Nat
         /\ In(p)' = In(p) + One(to = p) - One(phase[s] = p)
<1> DEFINE A == {u \in Tasks : phase[u] = p}
<1> DEFINE B == {u \in Tasks : phase'[u] = p}
<1>1. phase \in [Tasks -> Places] /\ phase' = [phase EXCEPT ![s] = to]
  BY DEF SocketTypeOK, Goto
<1>2. A \in SUBSET Tasks /\ B \in SUBSET Tasks
  OBVIOUS
<1>3. \A y \in Tasks : y # s => (y \in A <=> y \in B)
  BY <1>1
<1>4. (s \in A <=> phase[s] = p) /\ (s \in B <=> to = p)
  BY <1>1
<1> HIDE DEF A, B
<1>5. /\ Cardinality(A) \in Nat /\ Cardinality(B) \in Nat
      /\ Cardinality(B) = Cardinality(A) + One(s \in B) - One(s \in A)
  BY <1>2, <1>3, SetChanges
<1>6. One(s \in B) = One(to = p) /\ One(s \in A) = One(phase[s] = p)
  BY <1>4 DEF One
<1>7. Cardinality(B) = Cardinality(A) + One(to = p) - One(phase[s] = p)
  BY <1>5, <1>6
<1>8. In(p) = Cardinality(A) /\ In(p)' = Cardinality(B)
  BY DEF In, A, B
<1> QED
  BY <1>5, <1>7, <1>8

LEMMA HandlersPass ==
  ASSUME IsFiniteSet(Tasks), SocketTypeOK, NEW s \in Tasks, NEW to \in Places, Goto(s, to),
         NEW p, to # p
  PROVE  In(p)' = In(p) - One(phase[s] = p)
<1>1. In(p) \in Nat /\ In(p)' = In(p) + One(to = p) - One(phase[s] = p)
  BY HandlersMove
<1>2. One(to = p) = 0 /\ One(phase[s] = p) \in Nat
  BY DEF One
<1> QED
  BY <1>1, <1>2

LEMMA HandlersArrive ==
  ASSUME IsFiniteSet(Tasks), SocketTypeOK, NEW s \in Tasks, NEW to \in Places, Goto(s, to)
  PROVE  In(to)' = In(to) + 1 - One(phase[s] = to)
<1>1. In(to)' = In(to) + One(to = to) - One(phase[s] = to)
  BY HandlersMove
<1>2. One(to = to) = 1
  BY DEF One
<1> QED
  BY <1>1, <1>2

LEMMA CallsMove ==
  ASSUME IsFiniteSet(Tasks), SocketTypeOK, NEW s \in Tasks, NEW from, NEW to, Move(s, from, to)
  PROVE  /\ Cardinality(Pending) \in Nat /\ Cardinality(Pending)' \in Nat
         /\ Cardinality(Pending)' =
              Cardinality(Pending) + One(to \in {"asked", "served"}) - One(from \in {"asked", "served"})
<1> DEFINE Q == {"asked", "served"}
<1> DEFINE A == {u \in Tasks : state[u] \in Q}
<1> DEFINE B == {u \in Tasks : state'[u] \in Q}
<1>1. state \in [Tasks -> States] /\ state' = [state EXCEPT ![s] = to] /\ state[s] = from
  BY DEF SocketTypeOK, Move
<1>2. A \in SUBSET Tasks /\ B \in SUBSET Tasks
  OBVIOUS
<1>3. \A y \in Tasks : y # s => (y \in A <=> y \in B)
  BY <1>1
<1>4. (s \in A <=> from \in Q) /\ (s \in B <=> to \in Q)
  BY <1>1
<1> HIDE DEF A, B, Q
<1>5. /\ Cardinality(A) \in Nat /\ Cardinality(B) \in Nat
      /\ Cardinality(B) = Cardinality(A) + One(s \in B) - One(s \in A)
  BY <1>2, <1>3, SetChanges
<1>6. One(s \in B) = One(to \in Q) /\ One(s \in A) = One(from \in Q)
  BY <1>4 DEF One
<1>7. Cardinality(B) = Cardinality(A) + One(to \in Q) - One(from \in Q)
  BY <1>5, <1>6
<1>8. Cardinality(Pending) = Cardinality(A) /\ Cardinality(Pending)' = Cardinality(B)
  BY DEF Pending, A, B, Q
<1> QED
  BY <1>5, <1>7, <1>8 DEF Q

(* Unread messages: one more when a binary one is sent, one fewer when it  *)
(* is read.                                                                *)
Binaries(q) == {i \in 1 .. Len(q) : q[i] = "Binary"}

LEMMA BinariesFinite ==
  ASSUME NEW q \in Seq(Messages)
  PROVE  IsFiniteSet(Binaries(q)) /\ Cardinality(Binaries(q)) \in Nat
<1>1. Len(q) \in Int /\ 1 \in Int
  OBVIOUS
<1>2. IsFiniteSet(1 .. Len(q))
  BY <1>1, FS_Interval
<1>3. Binaries(q) \in SUBSET (1 .. Len(q))
  BY DEF Binaries
<1>4. IsFiniteSet(Binaries(q))
  BY <1>2, <1>3, FS_Subset
<1> QED
  BY <1>4, FS_CardinalityType

LEMMA BinariesAppend ==
  ASSUME NEW q \in Seq(Messages), NEW m \in Messages
  PROVE  Cardinality(Binaries(Append(q, m))) = Cardinality(Binaries(q)) + One(m = "Binary")
<1> DEFINE r == Append(q, m)
<1>1. /\ Len(r) = Len(q) + 1 /\ Len(q) \in Nat
      /\ (\A i \in 1 .. Len(q) : r[i] = q[i]) /\ r[Len(q) + 1] = m
  OBVIOUS
<1> HIDE DEF r
<1>2. Len(q) + 1 \notin Binaries(q)
  BY <1>1 DEF Binaries
<1>3. IsFiniteSet(Binaries(q)) /\ Cardinality(Binaries(q)) \in Nat
  BY BinariesFinite
<1>4. CASE m = "Binary"
  <2>1. Binaries(r) = Binaries(q) \cup {Len(q) + 1}
    BY <1>1, <1>4 DEF Binaries
  <2>2. Cardinality(Binaries(r)) = Cardinality(Binaries(q)) + 1
    BY <1>2, <1>3, <2>1, FS_AddElement
  <2> QED
    BY <1>4, <2>2 DEF One, r
<1>5. CASE m # "Binary"
  <2>1. Binaries(r) = Binaries(q)
    BY <1>1, <1>5 DEF Binaries
  <2> QED
    BY <1>3, <1>5, <2>1 DEF One, r
<1> QED
  BY <1>4, <1>5

LEMMA BinariesTail ==
  ASSUME NEW q \in Seq(Messages), q # << >>
  PROVE  Cardinality(Binaries(Tail(q))) = Cardinality(Binaries(q)) - One(Head(q) = "Binary")
<1> DEFINE r == Tail(q)
<1> DEFINE A == Binaries(r)
<1> DEFINE B == Binaries(q) \ {1}
<1> DEFINE f == [i \in A |-> i + 1]
<1>1. /\ r \in Seq(Messages) /\ Len(r) = Len(q) - 1 /\ Len(q) \in Nat /\ Len(q) >= 1
      /\ (\A i \in 1 .. Len(r) : r[i] = q[i + 1]) /\ Head(q) = q[1]
  OBVIOUS
<1> HIDE DEF r
<1>2. IsFiniteSet(Binaries(q)) /\ Cardinality(Binaries(q)) \in Nat /\ IsFiniteSet(A)
  BY <1>1, BinariesFinite
<1>3. \A i \in A : i \in Nat /\ i + 1 \in B
  BY <1>1 DEF Binaries
<1>4. \A j \in B : j - 1 \in A /\ j \in Nat /\ (j - 1) + 1 = j
  BY <1>1 DEF Binaries
<1> HIDE DEF A, B
<1>5. f \in [A -> B] /\ (\A i, j \in A : f[i] = f[j] => i = j) /\ (\A j \in B : \E i \in A : f[i] = j)
  <2>1. f \in [A -> B]
    BY <1>3
  <2>2. \A i, j \in A : f[i] = f[j] => i = j
    BY <1>3
  <2>3. \A j \in B : \E i \in A : f[i] = j
    BY <1>4
  <2> QED
    BY <2>1, <2>2, <2>3
<1> HIDE DEF f
<1>6. f \in Bijection(A, B)
  BY <1>5 DEF Bijection, Injection, Surjection, IsInjective
<1>7. Cardinality(B) = Cardinality(A)
  BY <1>2, <1>6, FS_Bijection DEF ExistsBijection
<1>8. /\ 1 \in Binaries(q) <=> Head(q) = "Binary"
  BY <1>1 DEF Binaries
<1>9. Cardinality(B) = Cardinality(Binaries(q)) - One(Head(q) = "Binary")
  <2>1. Cardinality(B) = IF 1 \in Binaries(q) THEN Cardinality(Binaries(q)) - 1 ELSE Cardinality(Binaries(q))
    BY <1>2, FS_RemoveElement DEF B
  <2> QED
    BY <1>2, <1>8, <2>1 DEF One
<1> QED
  BY <1>7, <1>9 DEF A, r

-----------------------------------------------------------------------------
(* The invariant, slot by slot. *)
Total == responses["ok"] + responses["error"] + responses["rate_limited"]

Clean(s) == phase[s] = "closed" => wire[s] = << >> /\ asked[s] = 0 /\ answered[s] = 0

Answers(s) ==
  phase[s] # "closed" /\ ~gone[s] =>
    asked[s] = answered[s] + Unread(s) + (IF phase[s] = "reading" THEN 0 ELSE 1)

Steady(s) ==
  /\ phase'[s] = phase[s] /\ wire'[s] = wire[s] /\ gone'[s] = gone[s]
  /\ asked'[s] = asked[s] /\ answered'[s] = answered[s]

LEMMA UnreadIs ==
  ASSUME NEW s \in Tasks
  PROVE  Unread(s) = Cardinality(Binaries(wire[s])) /\ Unread(s)' = Cardinality(Binaries(wire'[s]))
  BY DEF Unread, Binaries

LEMMA ResponsesType ==
  ASSUME responses \in [Outcomes -> Nat]
  PROVE  /\ responses["ok"] \in Nat /\ responses["error"] \in Nat
         /\ responses["rate_limited"] \in Nat /\ Total \in Nat
<1>1. /\ responses["ok"] \in Nat /\ responses["error"] \in Nat
      /\ responses["rate_limited"] \in Nat
  BY DEF Outcomes
<1> QED
  BY <1>1 DEF Total

LEMMA CountAdds ==
  ASSUME responses \in [Outcomes -> Nat], NEW o \in Outcomes, Count(o)
  PROVE  responses' \in [Outcomes -> Nat] /\ Total' = Total + 1 /\ Total \in Nat
<1>1. /\ responses["ok"] \in Nat /\ responses["error"] \in Nat
      /\ responses["rate_limited"] \in Nat /\ Total \in Nat
  BY ResponsesType
<1>2. responses' \in [Outcomes -> Nat]
  BY DEF Count
<1>3. /\ responses'["ok"] = responses["ok"] + One(o = "ok")
      /\ responses'["error"] = responses["error"] + One(o = "error")
      /\ responses'["rate_limited"] = responses["rate_limited"] + One(o = "rate_limited")
  BY <1>1 DEF Count, Outcomes, One
<1>4. Total' = Total + 1
  BY <1>1, <1>3 DEF Total, Outcomes, One
<1> QED
  BY <1>1, <1>2, <1>4

(* It is enough to look at the slot that moved and at the sums. *)
LEMMA Assembled ==
  ASSUME SocketInv, NEW s \in Tasks, SocketTypeOK', \A d \in Tasks : d # s => Steady(d),
         Clean(s)', Answers(s)',
         requests' = Total' + inflight' + In("limited")',
         connections' = Cardinality(Tasks) - In("closed")',
         inflight' = Cardinality(Pending)'
  PROVE  SocketInv'
<1>1. \A d \in Tasks : Clean(d) /\ Answers(d)
  BY DEF SocketInv, ClosedIsClean, OneAnswerPerMessage, Clean, Answers
<1>2. ASSUME NEW d \in Tasks PROVE Clean(d)' /\ Answers(d)'
  <2>1. CASE d = s
    BY <2>1
  <2>2. CASE d # s
    <3>1. Steady(d) /\ Clean(d) /\ Answers(d)
      BY <1>1, <2>2
    <3>2. Unread(d)' = Unread(d)
      BY <3>1 DEF Steady, Unread
    <3> QED
      BY <3>1, <3>2 DEF Steady, Clean, Answers
  <2> QED
    BY <2>1, <2>2
<1>3. ClosedIsClean' /\ OneAnswerPerMessage'
  BY <1>2 DEF ClosedIsClean, OneAnswerPerMessage, Clean, Answers
<1>4. CountersBalance' /\ GaugesTrue'
  BY DEF CountersBalance, GaugesTrue, Total, Pending
<1> QED
  BY <1>3, <1>4 DEF SocketInv

(* What the invariant says before the step. *)
LEMMA Disassembled ==
  ASSUME IsFiniteSet(Tasks), SocketInv, NEW s \in Tasks
  PROVE  /\ SocketTypeOK /\ Clean(s) /\ Answers(s)
         /\ requests = Total + inflight + In("limited") /\ Total \in Nat
         /\ connections = Cardinality(Tasks) - In("closed")
         /\ inflight = Cardinality(Pending)
         /\ phase[s] \in Places /\ state[s] \in States /\ wire[s] \in Seq(Messages)
         /\ asked[s] \in Nat /\ answered[s] \in Nat /\ Unread(s) \in Nat
         /\ In("limited") \in Nat /\ In("closed") \in Nat /\ Cardinality(Tasks) \in Nat
         /\ Cardinality(Pending) \in Nat
<1>1. SocketTypeOK /\ Clean(s) /\ Answers(s)
  BY DEF SocketInv, ClosedIsClean, OneAnswerPerMessage, Clean, Answers
<1>2. /\ phase[s] \in Places /\ state[s] \in States /\ wire[s] \in Seq(Messages)
      /\ asked[s] \in Nat /\ answered[s] \in Nat
  BY <1>1 DEF SocketTypeOK
<1>3. Unread(s) \in Nat
  BY <1>2, UnreadIs, BinariesFinite
<1>4. \A p : At(p) \in SUBSET Tasks
  BY DEF At
<1>5. /\ In("limited") \in Nat /\ In("closed") \in Nat /\ Cardinality(Tasks) \in Nat
  BY <1>4, FS_Subset, FS_CardinalityType DEF In, At
<1>6. Cardinality(Pending) \in Nat
  <2>1. Pending \in SUBSET Tasks
    BY DEF Pending
  <2> QED
    BY <2>1, FS_Subset, FS_CardinalityType
<1>7. Total \in Nat
  BY <1>1, ResponsesType DEF SocketTypeOK
<1>8. requests = Total + inflight + In("limited")
  BY DEF SocketInv, CountersBalance, Total
<1>9. /\ connections = Cardinality(Tasks) - In("closed")
      /\ inflight = Cardinality(Pending)
  BY DEF SocketInv, GaugesTrue, Pending
<1> QED
  BY <1>1, <1>2, <1>3, <1>5, <1>6, <1>7, <1>8, <1>9

LEMMA ClientKeeps ==
  ASSUME IsFiniteSet(Tasks), SocketInv, NEW s \in Tasks, ClientStep(s)
  PROVE  SocketInv'
<1>a. /\ SocketTypeOK /\ Clean(s) /\ Answers(s)
      /\ requests = Total + inflight + In("limited") /\ Total \in Nat
      /\ connections = Cardinality(Tasks) - In("closed")
      /\ inflight = Cardinality(Pending)
      /\ phase[s] \in Places /\ wire[s] \in Seq(Messages)
      /\ asked[s] \in Nat /\ answered[s] \in Nat /\ Unread(s) \in Nat
      /\ In("closed") \in Nat /\ Cardinality(Tasks) \in Nat
  BY Disassembled
<1>b. state' = state
  BY DEF ClientStep, Open, ClientGoes, ClientSends, vars
<1>c. Cardinality(Pending)' = Cardinality(Pending)
  BY <1>b DEF Pending
<1>1. CASE Open(s)
  <2>1. /\ Goto(s, "reading") /\ phase[s] = "closed" /\ connections' = connections + 1
        /\ wire' = wire /\ gone' = gone /\ asked' = asked /\ answered' = answered
        /\ requests' = requests /\ responses' = responses /\ inflight' = inflight
    BY <1>1 DEF Open, clientVars
  <2>2. SocketTypeOK' /\ (\A d \in Tasks : d # s => Steady(d)) /\ phase'[s] = "reading"
    <3>1. phase' \in [Tasks -> Places] /\ phase'[s] = "reading"
      BY <1>a, <2>1 DEF SocketTypeOK, Goto, Places
    <3>2. connections' \in Int
      <4>1. connections \in Int
        BY <1>a DEF SocketTypeOK
      <4>2. connections' = connections + 1
        BY <2>1
      <4> QED
        BY <4>1, <4>2
    <3>3. \A d \in Tasks : d # s => Steady(d)
      BY <1>a, <2>1 DEF SocketTypeOK, Steady, Goto
    <3> QED
      BY <1>a, <1>b, <2>1, <3>1, <3>2, <3>3 DEF SocketTypeOK
  <2>3. In("limited")' = In("limited") - One(phase[s] = "limited")
    BY <1>a, <2>1, PlacesAre, HandlersPass
  <2>4. In("closed")' = In("closed") - One(phase[s] = "closed")
    BY <1>a, <2>1, PlacesAre, HandlersPass
  <2>5. In("limited")' = In("limited") /\ In("closed")' = In("closed") - 1
    BY <1>a, <2>1, <2>3, <2>4, Disassembled DEF One
  <2>6. Clean(s)' /\ Answers(s)'
    <3>1. wire[s] = << >> /\ asked[s] = 0 /\ answered[s] = 0
      BY <1>a, <2>1 DEF Clean
    <3>2. Unread(s)' = 0
      <4>1. Binaries(<< >>) = {}
        BY DEF Binaries
      <4> QED
        BY <2>1, <3>1, <4>1, UnreadIs, FS_EmptySet
    <3> QED
      BY <2>1, <2>2, <3>1, <3>2 DEF Clean, Answers
  <2>7. requests' = Total' + inflight' + In("limited")' /\ inflight' = Cardinality(Pending)'
    BY <1>a, <1>c, <2>1, <2>5 DEF Total
  <2>8. connections' = Cardinality(Tasks) - In("closed")'
    BY <1>a, <2>1, <2>5
  <2> QED
    BY <2>2, <2>6, <2>7, <2>8, Assembled
<1>2. ASSUME NEW m \in Messages, ClientSends(s, m) PROVE SocketInv'
  <2>1. /\ phase[s] # "closed" /\ ~gone[s] /\ phase' = phase /\ gone' = gone /\ answered' = answered
        /\ wire' = [wire EXCEPT ![s] = Append(wire[s], m)]
        /\ asked' = IF m = "Binary" THEN [asked EXCEPT ![s] = asked[s] + 1] ELSE asked
        /\ requests' = requests /\ responses' = responses /\ inflight' = inflight
        /\ connections' = connections
    BY <1>2 DEF ClientSends, metricVars
  <2>2. /\ SocketTypeOK' /\ (\A d \in Tasks : d # s => Steady(d))
        /\ wire'[s] = Append(wire[s], m) /\ asked'[s] = asked[s] + One(m = "Binary")
    <3>1. Append(wire[s], m) \in Seq(Messages)
      BY <1>a, <1>2
    <3>2. wire' \in [Tasks -> Seq(Messages)] /\ wire'[s] = Append(wire[s], m)
      BY <1>a, <2>1, <3>1 DEF SocketTypeOK
    <3>3. asked' \in [Tasks -> Nat] /\ asked'[s] = asked[s] + One(m = "Binary")
      <4>1. CASE m = "Binary"
        <5>1. asked \in [Tasks -> Nat] /\ asked[s] \in Nat /\ One(m = "Binary") = 1
          BY <1>a, <4>1 DEF SocketTypeOK, One
        <5>2. asked' = [asked EXCEPT ![s] = asked[s] + 1] /\ asked[s] + 1 \in Nat
          BY <2>1, <4>1, <5>1
        <5> QED
          BY <5>1, <5>2
      <4>2. CASE m # "Binary"
        <5>1. asked \in [Tasks -> Nat] /\ asked[s] \in Nat /\ One(m = "Binary") = 0
          BY <1>a, <4>2 DEF SocketTypeOK, One
        <5>2. asked' = asked
          BY <2>1, <4>2
        <5> QED
          BY <5>1, <5>2
      <4> QED
        BY <4>1, <4>2
    <3>4. \A d \in Tasks : d # s => Steady(d)
      BY <1>a, <2>1 DEF SocketTypeOK, Steady
    <3> QED
      BY <1>a, <1>b, <2>1, <3>2, <3>3, <3>4 DEF SocketTypeOK
  <2>3. Unread(s)' = Unread(s) + One(m = "Binary")
    <3>1. Cardinality(Binaries(Append(wire[s], m))) = Cardinality(Binaries(wire[s])) + One(m = "Binary")
      BY <1>a, <1>2, BinariesAppend
    <3>2. /\ Unread(s) = Cardinality(Binaries(wire[s]))
          /\ Unread(s)' = Cardinality(Binaries(Append(wire[s], m)))
      BY <2>2, UnreadIs
    <3> QED
      BY <3>1, <3>2
  <2>4. Clean(s)'
    BY <2>1 DEF Clean
  <2>5. Answers(s)'
    <3>1. asked[s] = answered[s] + Unread(s) + (IF phase[s] = "reading" THEN 0 ELSE 1)
      BY <1>a, <2>1 DEF Answers
    <3>2. One(m = "Binary") \in Nat
      BY DEF One
    <3>3. PICK k \in Nat : k = IF phase[s] = "reading" THEN 0 ELSE 1
      OBVIOUS
    <3>4. asked[s] = answered[s] + Unread(s) + k
      BY <3>1, <3>3
    <3>5. answered[s] \in Nat /\ Unread(s) \in Nat
      BY <1>a, UnreadIs DEF SocketTypeOK
    <3>6. /\ asked'[s] = asked[s] + One(m = "Binary") /\ answered'[s] = answered[s]
          /\ Unread(s)' = Unread(s) + One(m = "Binary") /\ phase'[s] = phase[s]
      BY <2>1, <2>2, <2>3
    <3>7. asked'[s] = answered'[s] + Unread(s)' + k
      BY <3>2, <3>4, <3>5, <3>6
    <3>8. asked'[s] = answered'[s] + Unread(s)' + (IF phase'[s] = "reading" THEN 0 ELSE 1)
      BY <3>3, <3>6, <3>7
    <3> QED
      BY <3>8 DEF Answers
  <2>6. \A p : In(p)' = In(p)
    BY <2>1 DEF In
  <2>7. requests' = Total' + inflight' + In("limited")' /\ inflight' = Cardinality(Pending)'
    BY <1>a, <1>c, <2>1, <2>6 DEF Total
  <2>8. connections' = Cardinality(Tasks) - In("closed")'
    BY <1>a, <2>1, <2>6
  <2> QED
    BY <2>2, <2>4, <2>5, <2>7, <2>8, Assembled
<1>3. CASE ClientGoes(s)
  <2>1. /\ phase[s] # "closed" /\ phase' = phase /\ asked' = asked /\ answered' = answered
        /\ gone' = [gone EXCEPT ![s] = TRUE]
        /\ wire' \in {wire, [wire EXCEPT ![s] = << >>]}
        /\ requests' = requests /\ responses' = responses /\ inflight' = inflight
        /\ connections' = connections
    BY <1>3 DEF ClientGoes, metricVars
  <2>2. /\ SocketTypeOK' /\ (\A d \in Tasks : d # s => Steady(d))
    <3>1. wire' \in [Tasks -> Seq(Messages)] /\ gone' \in [Tasks -> BOOLEAN]
      <4>1. wire \in [Tasks -> Seq(Messages)] /\ << >> \in Seq(Messages)
        BY <1>a DEF SocketTypeOK
      <4>2. wire' \in [Tasks -> Seq(Messages)]
        BY <2>1, <4>1
      <4>3. gone' \in [Tasks -> BOOLEAN]
        BY <1>a, <2>1 DEF SocketTypeOK
      <4> QED
        BY <4>2, <4>3
    <3>2. \A d \in Tasks : d # s => Steady(d)
      BY <1>a, <2>1 DEF SocketTypeOK, Steady
    <3> QED
      BY <1>a, <1>b, <2>1, <3>1, <3>2 DEF SocketTypeOK
  <2>3. gone'[s] = TRUE
    BY <1>a, <2>1 DEF SocketTypeOK
  <2>4. Clean(s)' /\ Answers(s)'
    BY <2>1, <2>3 DEF Clean, Answers
  <2>6. \A p : In(p)' = In(p)
    BY <2>1 DEF In
  <2>7. requests' = Total' + inflight' + In("limited")' /\ inflight' = Cardinality(Pending)'
    BY <1>a, <1>c, <2>1, <2>6 DEF Total
  <2>8. connections' = Cardinality(Tasks) - In("closed")'
    BY <1>a, <2>1, <2>6
  <2> QED
    BY <2>2, <2>4, <2>7, <2>8, Assembled
<1> QED
  BY <1>1, <1>2, <1>3 DEF ClientStep

(* A message is read, and its handler goes on to `to`. *)
LEMMA ReadTakes ==
  ASSUME IsFiniteSet(Tasks), SocketInv, NEW s \in Tasks, NEW m \in Messages, Read(s, m),
         NEW to \in Places, Goto(s, to), to # "closed", to = "reading" <=> m # "Binary",
         gone' = gone, asked' = asked, answered' = answered
  PROVE  /\ \A d \in Tasks : d # s => Steady(d)
         /\ wire' \in [Tasks -> Seq(Messages)] /\ phase' \in [Tasks -> Places]
         /\ Clean(s)' /\ Answers(s)'
         /\ In("limited")' = In("limited") + One(to = "limited") /\ In("limited") \in Nat
         /\ In("closed")' = In("closed")
<1>a. /\ SocketTypeOK /\ Answers(s) /\ wire[s] \in Seq(Messages)
      /\ asked[s] \in Nat /\ answered[s] \in Nat /\ Unread(s) \in Nat
      /\ In("closed") \in Nat /\ In("limited") \in Nat
  BY Disassembled
<1>1. phase[s] = "reading" /\ wire[s] # << >> /\ Head(wire[s]) = m
      /\ wire' = [wire EXCEPT ![s] = Tail(wire[s])] /\ phase' = [phase EXCEPT ![s] = to]
  BY DEF Read, Goto
<1>2. Tail(wire[s]) \in Seq(Messages)
  BY <1>a, <1>1
<1>3. /\ wire' \in [Tasks -> Seq(Messages)] /\ wire'[s] = Tail(wire[s])
      /\ phase' \in [Tasks -> Places] /\ phase'[s] = to
  BY <1>a, <1>1, <1>2 DEF SocketTypeOK
<1>4. \A d \in Tasks : d # s => Steady(d)
  BY <1>a, <1>1 DEF SocketTypeOK, Steady
<1>5. Unread(s)' = Unread(s) - One(m = "Binary")
  BY <1>a, <1>1, <1>3, UnreadIs, BinariesTail
<1>6. Clean(s)'
  BY <1>3 DEF Clean
<1>7. Answers(s)'
  BY <1>a, <1>1, <1>3, <1>5 DEF Answers, One
<1>8. In("limited")' = In("limited") + One(to = "limited") - One(phase[s] = "limited")
  BY <1>a, HandlersMove
<1>9. In("closed")' = In("closed") + One(to = "closed") - One(phase[s] = "closed")
  BY <1>a, HandlersMove
<1>10. In("limited")' = In("limited") + One(to = "limited")
  BY <1>a, <1>1, <1>8 DEF One
<1>11. In("closed")' = In("closed")
  BY <1>a, <1>1, <1>9 DEF One
<1> QED
  BY <1>a, <1>3, <1>4, <1>6, <1>7, <1>10, <1>11

LEMMA ReadKeeps ==
  ASSUME IsFiniteSet(Tasks), SocketInv, NEW s \in Tasks,
         ReadLimited(s) \/ ReadForwarded(s) \/ ReadOther(s) \/ \E b \in Refusals : ReadRefused(s, b)
  PROVE  SocketInv'
<1>a. /\ SocketTypeOK
      /\ requests = Total + inflight + In("limited") /\ Total \in Nat
      /\ connections = Cardinality(Tasks) - In("closed")
      /\ inflight = Cardinality(Pending) /\ In("limited") \in Nat
      /\ In("closed") \in Nat /\ Cardinality(Tasks) \in Nat /\ Cardinality(Pending) \in Nat
  BY Disassembled
<1>b. requests \in Nat /\ inflight \in Int
  BY <1>a DEF SocketTypeOK
<1>1. CASE ReadLimited(s)
  <2>1. /\ Read(s, "Binary") /\ Goto(s, "limited") /\ gone' = gone /\ asked' = asked
        /\ answered' = answered /\ requests' = requests + 1 /\ responses' = responses
        /\ connections' = connections /\ inflight' = inflight /\ state' = state
    BY <1>1 DEF ReadLimited, CountRequest, vars
  <2>2. /\ \A d \in Tasks : d # s => Steady(d)
        /\ wire' \in [Tasks -> Seq(Messages)] /\ phase' \in [Tasks -> Places]
        /\ Clean(s)' /\ Answers(s)'
        /\ In("limited")' = In("limited") + One("limited" = "limited")
        /\ In("closed")' = In("closed")
    BY <2>1, ReadTakes DEF Messages, Places
  <2>3. SocketTypeOK'
    <3>1. requests' \in Nat
      BY <2>1, <1>b
    <3> QED
      BY <1>a, <2>1, <2>2, <3>1 DEF SocketTypeOK
  <2>4. Cardinality(Pending)' = Cardinality(Pending) /\ Total' = Total
    BY <2>1 DEF Pending, Total
  <2>5. In("limited")' = In("limited") + 1
    BY <2>2 DEF One
  <2>6. requests' = Total' + inflight' + In("limited")'
    BY <1>a, <2>1, <2>4, <2>5
  <2>7. connections' = Cardinality(Tasks) - In("closed")' /\ inflight' = Cardinality(Pending)'
    BY <1>a, <2>1, <2>2, <2>4
  <2> QED
    BY <2>2, <2>3, <2>6, <2>7, Assembled
<1>2. CASE ReadForwarded(s)
  <2>1. /\ Read(s, "Binary") /\ Goto(s, "calling") /\ gone' = gone /\ asked' = asked
        /\ answered' = answered /\ requests' = requests + 1 /\ responses' = responses
        /\ connections' = connections /\ inflight' = inflight + 1 /\ Move(s, "idle", "asked")
    BY <1>2 DEF ReadForwarded, CountRequest, Ask
  <2>2. /\ \A d \in Tasks : d # s => Steady(d)
        /\ wire' \in [Tasks -> Seq(Messages)] /\ phase' \in [Tasks -> Places]
        /\ Clean(s)' /\ Answers(s)'
        /\ In("limited")' = In("limited") + One("calling" = "limited")
        /\ In("closed")' = In("closed")
    BY <2>1, ReadTakes DEF Messages, Places
  <2>3. SocketTypeOK'
    <3>1. state' \in [Tasks -> States]
      BY <1>a, <2>1 DEF SocketTypeOK, Move, States
    <3>2. requests' \in Nat /\ inflight' \in Int
      BY <2>1, <1>b
    <3> QED
      BY <1>a, <2>1, <2>2, <3>1, <3>2 DEF SocketTypeOK
  <2>4. Cardinality(Pending)' =
          Cardinality(Pending) + One("asked" \in {"asked", "served"}) - One("idle" \in {"asked", "served"})
    BY <1>a, <2>1, CallsMove
  <2>5. Cardinality(Pending)' = Cardinality(Pending) + 1 /\ Total' = Total /\ In("limited")' = In("limited")
    BY <1>a, <2>1, <2>2, <2>4 DEF Total, One
  <2>6. requests' = Total' + inflight' + In("limited")'
    BY <1>a, <2>1, <2>5
  <2>7. connections' = Cardinality(Tasks) - In("closed")' /\ inflight' = Cardinality(Pending)'
    BY <1>a, <2>1, <2>2, <2>5
  <2> QED
    BY <2>2, <2>3, <2>6, <2>7, Assembled
<1>3. ASSUME NEW b \in Refusals, ReadRefused(s, b) PROVE SocketInv'
  <2>1. /\ Read(s, "Binary") /\ Goto(s, "calling") /\ gone' = gone /\ asked' = asked
        /\ answered' = answered /\ requests' = requests + 1 /\ Count("error")
        /\ connections' = connections /\ inflight' = inflight /\ Move(s, "idle", "done")
    BY <1>3 DEF ReadRefused, CountRequest, Refuse
  <2>2. /\ \A d \in Tasks : d # s => Steady(d)
        /\ wire' \in [Tasks -> Seq(Messages)] /\ phase' \in [Tasks -> Places]
        /\ Clean(s)' /\ Answers(s)'
        /\ In("limited")' = In("limited") + One("calling" = "limited")
        /\ In("closed")' = In("closed")
    BY <2>1, ReadTakes DEF Messages, Places
  <2>3. Total' = Total + 1 /\ responses' \in [Outcomes -> Nat]
    BY <1>a, <2>1, CountAdds DEF SocketTypeOK, Outcomes
  <2>4. SocketTypeOK'
    <3>1. state' \in [Tasks -> States]
      BY <1>a, <2>1 DEF SocketTypeOK, Move, States
    <3>2. requests' \in Nat
      BY <2>1, <1>b
    <3> QED
      BY <1>a, <2>1, <2>2, <2>3, <3>1, <3>2 DEF SocketTypeOK
  <2>5. Cardinality(Pending)' =
          Cardinality(Pending) + One("done" \in {"asked", "served"}) - One("idle" \in {"asked", "served"})
    BY <1>a, <2>1, CallsMove
  <2>6. Cardinality(Pending)' = Cardinality(Pending) /\ In("limited")' = In("limited")
    BY <1>a, <2>2, <2>5 DEF One
  <2>7. requests' = Total' + inflight' + In("limited")'
    BY <1>a, <2>1, <2>3, <2>6
  <2>8. connections' = Cardinality(Tasks) - In("closed")' /\ inflight' = Cardinality(Pending)'
    BY <1>a, <2>1, <2>2, <2>6
  <2> QED
    BY <2>2, <2>4, <2>7, <2>8, Assembled
<1>4. CASE ReadOther(s)
  <2>1. /\ Read(s, "Other") /\ phase' = phase /\ gone' = gone /\ asked' = asked
        /\ answered' = answered /\ requests' = requests /\ responses' = responses
        /\ connections' = connections /\ inflight' = inflight /\ state' = state
    BY <1>4 DEF ReadOther, metricVars, vars
  <2>2. Goto(s, "reading")
    BY <1>a, <2>1 DEF Read, Goto, SocketTypeOK
  <2>3. /\ \A d \in Tasks : d # s => Steady(d)
        /\ wire' \in [Tasks -> Seq(Messages)] /\ phase' \in [Tasks -> Places]
        /\ Clean(s)' /\ Answers(s)'
    BY <2>1, <2>2, ReadTakes DEF Messages, Places
  <2>4. SocketTypeOK'
    BY <1>a, <2>1, <2>3 DEF SocketTypeOK
  <2>5. /\ Cardinality(Pending)' = Cardinality(Pending) /\ Total' = Total
        /\ \A p : In(p)' = In(p)
    BY <2>1 DEF Pending, Total, In
  <2>6. requests' = Total' + inflight' + In("limited")'
    BY <1>a, <2>1, <2>5
  <2>7. connections' = Cardinality(Tasks) - In("closed")' /\ inflight' = Cardinality(Pending)'
    BY <1>a, <2>1, <2>5
  <2> QED
    BY <2>3, <2>4, <2>6, <2>7, Assembled
<1> QED
  BY <1>1, <1>2, <1>3, <1>4

(* The handler ends, with or without a reply in its hands. *)
LEMMA EndKeeps ==
  ASSUME IsFiniteSet(Tasks), SocketInv, NEW s \in Tasks, ReadEnd(s) \/ PassOnFails(s)
  PROVE  SocketInv'
<1>a. /\ SocketTypeOK
      /\ requests = Total + inflight + In("limited") /\ Total \in Nat
      /\ connections = Cardinality(Tasks) - In("closed")
      /\ inflight = Cardinality(Pending) /\ In("limited") \in Nat
      /\ In("closed") \in Nat /\ Cardinality(Tasks) \in Nat /\ Cardinality(Pending) \in Nat
  BY Disassembled
<1>1. phase[s] \in {"reading", "calling"} /\ Ends(s)
  BY DEF ReadEnd, PassOnFails
<1>2. /\ Goto(s, "closed") /\ connections' = connections - 1
      /\ wire' = [wire EXCEPT ![s] = << >>] /\ gone' = [gone EXCEPT ![s] = FALSE]
      /\ asked' = [asked EXCEPT ![s] = 0] /\ answered' = [answered EXCEPT ![s] = 0]
      /\ requests' = requests /\ responses' = responses /\ inflight' = inflight
  BY <1>1 DEF Ends
<1>3. state' \in [Tasks -> States] /\ Cardinality(Pending)' = Cardinality(Pending)
  <2>1. CASE ReadEnd(s)
    BY <1>a, <2>1 DEF ReadEnd, vars, Pending, SocketTypeOK
  <2>2. CASE PassOnFails(s)
    <3>1. Move(s, "done", "idle")
      BY <2>2 DEF PassOnFails, Take
    <3>2. state' \in [Tasks -> States]
      BY <1>a, <3>1 DEF SocketTypeOK, Move, States
    <3>3. Cardinality(Pending)' =
            Cardinality(Pending) + One("idle" \in {"asked", "served"}) - One("done" \in {"asked", "served"})
      BY <1>a, <3>1, CallsMove
    <3> QED
      BY <1>a, <3>2, <3>3 DEF One
  <2> QED
    BY <2>1, <2>2
<1>4. SocketTypeOK' /\ (\A d \in Tasks : d # s => Steady(d))
  <2>1. phase' \in [Tasks -> Places]
    BY <1>a, <1>2 DEF SocketTypeOK, Goto, Places
  <2>2. wire' \in [Tasks -> Seq(Messages)]
    <3>1. wire \in [Tasks -> Seq(Messages)] /\ << >> \in Seq(Messages)
      BY <1>a DEF SocketTypeOK
    <3> QED
      BY <1>2, <3>1
  <2>3. gone' \in [Tasks -> BOOLEAN]
    BY <1>a, <1>2 DEF SocketTypeOK
  <2>4. asked' \in [Tasks -> Nat] /\ answered' \in [Tasks -> Nat] /\ connections' \in Int
    <3>1. asked \in [Tasks -> Nat] /\ answered \in [Tasks -> Nat] /\ connections \in Int
      BY <1>a DEF SocketTypeOK
    <3> QED
      BY <1>2, <3>1
  <2>5. \A d \in Tasks : d # s => Steady(d)
    BY <1>a, <1>2 DEF SocketTypeOK, Steady, Goto
  <2> QED
    BY <1>a, <1>2, <1>3, <2>1, <2>2, <2>3, <2>4, <2>5 DEF SocketTypeOK
<1>5. Clean(s)' /\ Answers(s)'
  <2>1. phase'[s] = "closed" /\ wire'[s] = << >> /\ asked'[s] = 0 /\ answered'[s] = 0
    BY <1>a, <1>2 DEF SocketTypeOK, Goto
  <2> QED
    BY <2>1 DEF Clean, Answers
<1>6. In("limited")' = In("limited") - One(phase[s] = "limited")
  BY <1>a, <1>2, PlacesAre, HandlersPass
<1>7. In("closed")' = In("closed") + 1 - One(phase[s] = "closed")
  BY <1>a, <1>2, PlacesAre, HandlersArrive
<1>8. In("limited")' = In("limited") /\ In("closed")' = In("closed") + 1 /\ Total' = Total
  BY <1>a, <1>1, <1>2, <1>6, <1>7 DEF One, Total
<1>9. requests' = Total' + inflight' + In("limited")'
  BY <1>a, <1>2, <1>8
<1>10. connections' = Cardinality(Tasks) - In("closed")' /\ inflight' = Cardinality(Pending)'
  BY <1>a, <1>2, <1>3, <1>8
<1> QED
  BY <1>4, <1>5, <1>9, <1>10, Assembled

LEMMA ReplyKeeps ==
  ASSUME IsFiniteSet(Tasks), SocketInv, NEW s \in Tasks, SendLimited(s) \/ PassOn(s)
  PROVE  SocketInv'
<1>a. /\ SocketTypeOK /\ Answers(s)
      /\ requests = Total + inflight + In("limited") /\ Total \in Nat
      /\ connections = Cardinality(Tasks) - In("closed")
      /\ inflight = Cardinality(Pending) /\ In("limited") \in Nat
      /\ asked[s] \in Nat /\ answered[s] \in Nat /\ Unread(s) \in Nat
      /\ In("closed") \in Nat /\ Cardinality(Tasks) \in Nat /\ Cardinality(Pending) \in Nat
  BY Disassembled
<1>1. /\ phase[s] \in {"limited", "calling"} /\ Goto(s, "reading")
      /\ answered' = [answered EXCEPT ![s] = answered[s] + 1]
      /\ wire' = wire /\ gone' = gone /\ asked' = asked /\ requests' = requests
      /\ connections' = connections /\ inflight' = inflight
      /\ phase[s] = "limited" => Count("rate_limited") /\ state' = state
      /\ phase[s] = "calling" => responses' = responses /\ Move(s, "done", "idle")
  BY DEF SendLimited, PassOn, Answer, metricVars, vars, Take
<1>2. /\ phase' \in [Tasks -> Places] /\ phase'[s] = "reading"
      /\ answered' \in [Tasks -> Nat] /\ answered'[s] = answered[s] + 1
  <2>1. phase \in [Tasks -> Places] /\ answered \in [Tasks -> Nat]
    BY <1>a DEF SocketTypeOK
  <2>2. phase' \in [Tasks -> Places] /\ phase'[s] = "reading"
    BY <1>1, <2>1 DEF Goto, Places
  <2>3. answered' \in [Tasks -> Nat] /\ answered'[s] = answered[s] + 1
    BY <1>1, <2>1
  <2> QED
    BY <2>2, <2>3
<1>3. \A d \in Tasks : d # s => Steady(d)
  BY <1>a, <1>1 DEF SocketTypeOK, Steady, Goto
<1>4. Clean(s)' /\ Answers(s)'
  <2>1. Unread(s)' = Unread(s)
    BY <1>1 DEF Unread
  <2>2. ~gone[s] => asked[s] = answered[s] + Unread(s) + 1
    BY <1>a, <1>1 DEF Answers
  <2>3. ~gone[s] => asked'[s] = answered'[s] + Unread(s)'
    BY <1>a, <1>1, <1>2, <2>1, <2>2
  <2> QED
    BY <1>a, <1>1, <1>2, <2>1, <2>3 DEF Clean, Answers
<1>5. In("limited")' = In("limited") - One(phase[s] = "limited")
  BY <1>a, <1>1, PlacesAre, HandlersPass
<1>6. In("closed")' = In("closed") - One(phase[s] = "closed")
  BY <1>a, <1>1, PlacesAre, HandlersPass
<1>7. In("closed")' = In("closed")
  BY <1>a, <1>1, <1>6 DEF One
<1>8. connections' = Cardinality(Tasks) - In("closed")'
  BY <1>a, <1>1, <1>7
<1>9. CASE phase[s] = "limited"
  <2>1. Total' = Total + 1 /\ responses' \in [Outcomes -> Nat]
    BY <1>a, <1>1, <1>9, CountAdds DEF SocketTypeOK, Outcomes
  <2>2. SocketTypeOK'
    BY <1>a, <1>1, <1>2, <1>9, <2>1 DEF SocketTypeOK
  <2>3. Cardinality(Pending)' = Cardinality(Pending) /\ In("limited")' = In("limited") - 1
    BY <1>a, <1>1, <1>5, <1>9 DEF Pending, One
  <2>4. requests' = Total' + inflight' + In("limited")' /\ inflight' = Cardinality(Pending)'
    BY <1>a, <1>1, <2>1, <2>3
  <2> QED
    BY <1>3, <1>4, <1>8, <2>2, <2>4, Assembled
<1>10. CASE phase[s] = "calling"
  <2>1. Total' = Total
    BY <1>1, <1>10 DEF Total
  <2>2. SocketTypeOK'
    <3>1. state' \in [Tasks -> States]
      BY <1>a, <1>1, <1>10 DEF SocketTypeOK, Move, States
    <3> QED
      BY <1>a, <1>1, <1>2, <1>10, <3>1 DEF SocketTypeOK
  <2>3. Cardinality(Pending)' =
          Cardinality(Pending) + One("idle" \in {"asked", "served"}) - One("done" \in {"asked", "served"})
    BY <1>a, <1>1, <1>10, CallsMove
  <2>4. Cardinality(Pending)' = Cardinality(Pending) /\ In("limited")' = In("limited")
    BY <1>a, <1>5, <1>10, <2>3 DEF One
  <2>5. requests' = Total' + inflight' + In("limited")' /\ inflight' = Cardinality(Pending)'
    BY <1>a, <1>1, <2>1, <2>4
  <2> QED
    BY <1>3, <1>4, <1>8, <2>2, <2>5, Assembled
<1> QED
  BY <1>1, <1>9, <1>10

LEMMA ServiceKeeps ==
  ASSUME IsFiniteSet(Tasks), SocketInv, NEW s \in Tasks, ServiceStep(s)
  PROVE  SocketInv'
<1>a. /\ SocketTypeOK /\ Clean(s) /\ Answers(s)
      /\ requests = Total + inflight + In("limited") /\ Total \in Nat
      /\ connections = Cardinality(Tasks) - In("closed")
      /\ inflight = Cardinality(Pending) /\ In("limited") \in Nat
      /\ In("closed") \in Nat /\ Cardinality(Tasks) \in Nat /\ Cardinality(Pending) \in Nat
  BY Disassembled
<1>1. /\ phase' = phase /\ wire' = wire /\ gone' = gone /\ asked' = asked /\ answered' = answered
      /\ requests' = requests /\ connections' = connections
  BY DEF ServiceStep, GetConnection, SendReturns, clientVars, metricVars
<1>2. /\ \A d \in Tasks : d # s => Steady(d)
      /\ Clean(s)' /\ Answers(s)'
      /\ \A p : In(p)' = In(p)
  <2>1. Unread(s)' = Unread(s)
    BY <1>1 DEF Unread
  <2> QED
    BY <1>a, <1>1, <2>1 DEF Steady, Clean, Answers, In
<1>3. CASE GetConnection(s)
  <2>1. Move(s, "asked", "served") /\ responses' = responses /\ inflight' = inflight
    BY <1>3 DEF GetConnection, Serve, metricVars
  <2>2. SocketTypeOK'
    <3>1. state' \in [Tasks -> States]
      BY <1>a, <2>1 DEF SocketTypeOK, Move, States
    <3> QED
      BY <1>a, <1>1, <2>1, <3>1 DEF SocketTypeOK
  <2>3. Cardinality(Pending)' =
          Cardinality(Pending) + One("served" \in {"asked", "served"}) - One("asked" \in {"asked", "served"})
    BY <1>a, <2>1, CallsMove
  <2>4. Cardinality(Pending)' = Cardinality(Pending) /\ Total' = Total
    BY <1>a, <2>1, <2>3 DEF One, Total
  <2>5. /\ requests' = Total' + inflight' + In("limited")' /\ inflight' = Cardinality(Pending)'
        /\ connections' = Cardinality(Tasks) - In("closed")'
    BY <1>a, <1>1, <1>2, <2>1, <2>4
  <2> QED
    BY <1>2, <2>2, <2>5, Assembled
<1>4. ASSUME NEW e \in Endings, SendReturns(s, e) PROVE SocketInv'
  <2>1. /\ Move(s, "served", "done") /\ inflight' = inflight - 1
        /\ Count(IF e.ok THEN "ok" ELSE "error")
    BY <1>4 DEF SendReturns, Return
  <2>2. Total' = Total + 1 /\ responses' \in [Outcomes -> Nat]
    BY <1>a, <2>1, CountAdds DEF SocketTypeOK, Outcomes
  <2>3. SocketTypeOK'
    <3>1. state' \in [Tasks -> States]
      BY <1>a, <2>1 DEF SocketTypeOK, Move, States
    <3>2. inflight' \in Int
      BY <1>a, <2>1
    <3> QED
      BY <1>a, <1>1, <2>2, <3>1, <3>2 DEF SocketTypeOK
  <2>4. Cardinality(Pending)' =
          Cardinality(Pending) + One("done" \in {"asked", "served"}) - One("served" \in {"asked", "served"})
    BY <1>a, <2>1, CallsMove
  <2>5. Cardinality(Pending)' = Cardinality(Pending) - 1
    BY <1>a, <2>4 DEF One
  <2>6. /\ requests' = Total' + inflight' + In("limited")' /\ inflight' = Cardinality(Pending)'
        /\ connections' = Cardinality(Tasks) - In("closed")'
    BY <1>a, <1>1, <1>2, <2>1, <2>2, <2>5
  <2> QED
    BY <1>2, <2>3, <2>6, Assembled
<1> QED
  BY <1>3, <1>4 DEF ServiceStep

-----------------------------------------------------------------------------
LEMMA SocketInvStarts ==
  ASSUME IsFiniteSet(Tasks), SocketInit
  PROVE  SocketInv
<1>1. SocketTypeOK
  <2>1. << >> \in Seq(Messages)
    OBVIOUS
  <2> QED
    BY <2>1 DEF SocketInit, Init, SocketTypeOK, States, Places
<1>2. ClosedIsClean /\ OneAnswerPerMessage
  BY DEF SocketInit, ClosedIsClean, OneAnswerPerMessage
<1>3. At("closed") = Tasks /\ At("limited") = {} /\ Pending = {}
  BY DEF SocketInit, Init, At, Pending
<1>4. In("closed") = Cardinality(Tasks) /\ In("limited") = 0 /\ Cardinality(Pending) = 0
  BY <1>3, FS_EmptySet DEF At, In
<1>5. Cardinality(Tasks) \in Nat
  BY FS_CardinalityType
<1>6. CountersBalance
  BY <1>4 DEF SocketInit, CountersBalance, Outcomes
<1>7. GaugesTrue
  BY <1>4, <1>5 DEF SocketInit, GaugesTrue, Pending
<1> QED
  BY <1>1, <1>2, <1>6, <1>7 DEF SocketInv

LEMMA SocketInvStep ==
  ASSUME IsFiniteSet(Tasks), SocketInv, [SocketNext]_socketVars
  PROVE  SocketInv'
<1>1. ASSUME NEW s \in Tasks, HandlerStep(s) PROVE SocketInv'
  BY <1>1, ReadKeeps, EndKeeps, ReplyKeeps DEF HandlerStep
<1>2. ASSUME NEW s \in Tasks, ServiceStep(s) PROVE SocketInv'
  BY <1>2, ServiceKeeps
<1>3. ASSUME NEW s \in Tasks, ClientStep(s) PROVE SocketInv'
  BY <1>3, ClientKeeps
<1>4. CASE UNCHANGED socketVars
  <2> USE <1>4 DEF socketVars, vars, clientVars, metricVars
  <2>1. SocketTypeOK'
    BY DEF SocketInv, SocketTypeOK
  <2>2. ClosedIsClean' /\ OneAnswerPerMessage'
    BY DEF SocketInv, ClosedIsClean, OneAnswerPerMessage, Unread
  <2>3. CountersBalance' /\ GaugesTrue'
    BY DEF SocketInv, CountersBalance, GaugesTrue, In
  <2> QED
    BY <2>1, <2>2, <2>3 DEF SocketInv
<1> QED
  BY <1>1, <1>2, <1>3, <1>4 DEF SocketNext

LEMMA SocketInvariant ==
  ASSUME IsFiniteSet(Tasks)
  PROVE  SocketSpec => []SocketInv
<1>1. SocketInit => SocketInv
  BY SocketInvStarts
<1>2. SocketInv /\ [SocketNext]_socketVars => SocketInv'
  BY SocketInvStep
<1> QED
  BY <1>1, <1>2, PTL DEF SocketSpec

(* Requests and responses balance, although two functions and a guard      *)
(* count them and each of the early returns of `send` counts for itself.   *)
THEOREM CountersBalanceAlways ==
  ASSUME IsFiniteSet(Tasks)
  PROVE  SocketSpec => []CountersBalance
<1>1. SocketInv => CountersBalance
  BY DEF SocketInv
<1> QED
  BY <1>1, SocketInvariant, PTL

(* The two gauges, kept by guards that are dropped on every way out, are   *)
(* the number of handlers and the number of calls with the connector.      *)
THEOREM GaugesTellTheTruth ==
  ASSUME IsFiniteSet(Tasks)
  PROVE  SocketSpec => []GaugesTrue
<1>1. SocketInv => GaugesTrue
  BY DEF SocketInv
<1> QED
  BY <1>1, SocketInvariant, PTL

(* One answer for each binary message, whatever became of it.              *)
THEOREM MessagesGetOneAnswer ==
  ASSUME IsFiniteSet(Tasks)
  PROVE  SocketSpec => []OneAnswerPerMessage
<1>1. SocketInv => OneAnswerPerMessage
  BY DEF SocketInv
<1> QED
  BY <1>1, SocketInvariant, PTL
=============================================================================
