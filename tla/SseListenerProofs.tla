-------------------------- MODULE SseListenerProofs --------------------------
(***************************************************************************)
(* The listener hands the node's events over in order and without gaps,    *)
(* for any number of events, reconnects, Redis failures and restarts.      *)
(*                                                                         *)
(* The argument rests on one position: `Due`, the next event the task will *)
(* receive.  What is pushed reaches without gaps up to it, and moving it   *)
(* back, to start_from or to the identifier in Redis, repeats events but   *)
(* skips none, because neither is ever ahead of what was handed over.      *)
(***************************************************************************)
EXTENDS SseListener, TLAPS

(* The task has a stream open and is between two of its events. *)
Reading == phase = "next" \/ (phase = "deliver" /\ item = Api)

Due == IF Reading THEN cursor ELSE startFrom

(* The process has not asked Redis for an identifier yet. *)
Fresh == phase \in {"down", "redis", "load"}

(* Every event from i on and before n is in S or cannot be serialised. *)
Filled(i, n, S) == \A k \in Ids : i <= k /\ k < n => k \in S \cup Opaque

Phases == {"down", "redis", "load", "build", "connect", "next", "store", "deliver",
           "sleep", "dead"}

ListenerTypeOK ==
  /\ head \in 0 .. MaxHead
  /\ cursor \in Nat \ {0}
  /\ apiDue \in BOOLEAN
  /\ persisted \in Ids \cup {None}
  /\ phase \in Phases
  /\ startFrom \in Ids \cup {None}
  /\ pushed \subseteq Ids \ Opaque
  /\ covered \subseteq Ids \ Opaque
  /\ amnesia \in BOOLEAN

(* The task's own position: what it received last is what it remembers,    *)
(* and the stream goes on with that event or with the next one.            *)
PositionInv ==
  /\ Fresh => startFrom = None
  /\ phase = "store" => item # Api
  /\ phase \in {"store", "deliver"} /\ item # Api =>
       startFrom # None /\ item = startFrom /\ cursor = startFrom + 1
  /\ Reading /\ startFrom # None => cursor \in {startFrom, startFrom + 1}

(* What this process pushed. *)
PushedInv ==
  /\ startFrom = None => pushed = {}
  /\ startFrom # None => \A i \in pushed : i <= startFrom /\ Filled(i, Due, pushed)
  /\ Gapless(pushed)

(* What any process pushed, as long as no identifier was lost.  The        *)
(* identifier in Redis is a place to go on from, as Due is: it leaves no   *)
(* event out, and there is no gap between it and what is covered.          *)
CoveredInv ==
  ~amnesia =>
    /\ Gapless(covered)
    /\ startFrom = None /\ ~Fresh => covered = {} /\ persisted = None
    /\ persisted # None =>
         \A i \in covered : Filled(i, persisted, covered) /\ Filled(persisted, i + 1, covered)
    /\ startFrom # None =>
         \A i \in covered : Filled(i, Due, covered) /\ Filled(Due, i + 1, covered)
    /\ startFrom # None /\ persisted # None =>
         persisted <= startFrom /\ Filled(persisted, Due, covered)
    /\ Reading /\ startFrom # None /\ cursor = startFrom + 1 => startFrom \in covered \cup Opaque

ListenerInv == ListenerTypeOK /\ PositionInv /\ PushedInv /\ CoveredInv

-----------------------------------------------------------------------------
(* The steps, one disjunct per action, as the proofs below take them. *)
Waits == Start \/ Build \/ ConnectFails \/ Sleep \/ Emit

LEMMA StepCases ==
  ASSUME [Next]_vars
  PROVE  \/ Waits \/ OpenRedis \/ LoadLastId \/ ConnectOk \/ ReceiveApiVersion \/ Receive
         \/ StoreOk \/ StoreFails \/ Deliver \/ StreamEnds \/ Crash \/ UNCHANGED vars
  BY DEF Next, ListenerStep, Waits

(* Neither ApiVersion nor "no identifier" is an identifier. *)
LEMMA NoIdentifiers == Api \notin Ids /\ None \notin Ids /\ Api # None /\ MaxHead \in Nat
  BY ListenerAssumption DEF Ids

LEMMA TypeStep == ListenerTypeOK /\ PositionInv /\ [Next]_vars => ListenerTypeOK'
<1> SUFFICES ASSUME ListenerTypeOK, PositionInv, [Next]_vars PROVE ListenerTypeOK'
  OBVIOUS
<1> USE NoIdentifiers DEF ListenerTypeOK, envVars, taskVars, Phases
<1>1. CASE Waits
  BY <1>1 DEF Waits, Start, Build, ConnectFails, Sleep, Emit
<1>2. CASE OpenRedis
  BY <1>2 DEF OpenRedis, BeginFrom
<1>3. CASE LoadLastId
  BY <1>3 DEF LoadLastId, BeginFrom
<1>4. CASE ConnectOk
  BY <1>4 DEF ConnectOk, Ids
<1>5. CASE ReceiveApiVersion
  BY <1>5 DEF ReceiveApiVersion
<1>6. CASE Receive
  <2>1. cursor \in Ids
    BY <1>6 DEF Receive, Ids
  <2> QED
    BY <1>6, <2>1 DEF Receive
<1>7. CASE StoreOk \/ StoreFails
  <2>1. item \in Ids
    BY <1>7 DEF StoreOk, StoreFails, PositionInv
  <2> QED
    BY <1>7, <2>1 DEF StoreOk, StoreFails
<1>8. CASE Deliver
  <2>1. {item} \ (Opaque \cup {Api}) \subseteq Ids \ Opaque
    BY <1>8 DEF Deliver, PositionInv
  <2> QED
    BY <1>8, <2>1 DEF Deliver
<1>9. CASE StreamEnds \/ Crash
  BY <1>9 DEF StreamEnds, Crash
<1>10. CASE UNCHANGED vars
  BY <1>10 DEF vars
<1> QED
  BY <1>1, <1>2, <1>3, <1>4, <1>5, <1>6, <1>7, <1>8, <1>9, <1>10, StepCases

LEMMA PositionStep == ListenerTypeOK /\ PositionInv /\ [Next]_vars => PositionInv'
<1> SUFFICES ASSUME ListenerTypeOK, PositionInv, [Next]_vars PROVE PositionInv'
  OBVIOUS
<1> USE NoIdentifiers DEF ListenerTypeOK, PositionInv, Fresh, Reading, envVars, taskVars, Phases
<1>1. CASE Waits
  BY <1>1 DEF Waits, Start, Build, ConnectFails, Sleep, Emit
<1>2. CASE OpenRedis
  BY <1>2 DEF OpenRedis, BeginFrom
<1>3. CASE LoadLastId
  BY <1>3 DEF LoadLastId, BeginFrom
<1>4. CASE ConnectOk
  BY <1>4 DEF ConnectOk
<1>5. CASE ReceiveApiVersion
  BY <1>5 DEF ReceiveApiVersion
<1>6. CASE Receive
  <2>1. cursor \in Ids
    BY <1>6 DEF Receive, Ids
  <2> QED
    BY <1>6, <2>1 DEF Receive
<1>7. CASE StoreOk \/ StoreFails
  BY <1>7 DEF StoreOk, StoreFails
<1>8. CASE Deliver
  BY <1>8 DEF Deliver
<1>9. CASE StreamEnds \/ Crash
  BY <1>9 DEF StreamEnds, Crash
<1>10. CASE UNCHANGED vars
  BY <1>10 DEF vars
<1> QED
  BY <1>1, <1>2, <1>3, <1>4, <1>5, <1>6, <1>7, <1>8, <1>9, <1>10, StepCases

-----------------------------------------------------------------------------
(* How Filled carries over when the end moves back, when the set grows,    *)
(* and when the event at the end is handed over.                           *)
LEMMA FilledShrinks ==
  ASSUME NEW S, NEW i \in Nat, NEW m \in Nat, NEW n \in Nat, n <= m, Filled(i, m, S)
  PROVE  Filled(i, n, S)
  BY DEF Filled, Ids

LEMMA FilledExtends ==
  ASSUME NEW S, NEW i \in Nat, NEW n \in Nat, Filled(i, n, S)
  PROVE  Filled(i, n + 1, S \cup ({n} \ Opaque))
  BY DEF Filled, Ids

LEMMA FilledGrows ==
  ASSUME NEW S, NEW T, S \subseteq T, NEW i \in Nat, NEW n \in Nat, Filled(i, n, S)
  PROVE  Filled(i, n, T)
  BY DEF Filled

LEMMA FilledFromNext ==
  ASSUME NEW S, NEW i \in Nat, NEW n \in Nat, Filled(i, n, S)
  PROVE  Filled(i + 1, n, S)
  BY DEF Filled, Ids

LEMMA FilledEmpty ==
  ASSUME NEW S, NEW i \in Nat, NEW n \in Nat, n <= i
  PROVE  Filled(i, n, S)
  BY DEF Filled, Ids

(* A set without gaps, extended by an event that joins on to it. *)
LEMMA GaplessExtends ==
  ASSUME NEW S \in SUBSET Ids, Gapless(S), NEW n \in Ids,
         \A i \in S : Filled(i, n, S) /\ Filled(n, i + 1, S \cup ({n} \ Opaque))
  PROVE  Gapless(S \cup ({n} \ Opaque))
<1> DEFINE T == S \cup ({n} \ Opaque)
<1> SUFFICES ASSUME NEW i \in T, NEW j \in T, NEW k \in i .. j PROVE k \in T \cup Opaque
  BY DEF Gapless
<1>1. i \in Ids /\ j \in Ids /\ k \in Ids /\ i <= k /\ k <= j
  BY NoIdentifiers DEF Ids
<1>2. CASE i \in S /\ j \in S
  BY <1>2 DEF Gapless
<1>3. CASE i \in S /\ j = n
  <2>1. k < n \/ k = n
    BY <1>1, <1>3 DEF Ids
  <2> QED
    BY <1>1, <1>3, <2>1 DEF Filled
<1>4. CASE i = n /\ j \in S
  <2>1. k < j + 1
    BY <1>1 DEF Ids
  <2> QED
    BY <1>1, <1>4, <2>1 DEF Filled
<1>5. CASE i = n /\ j = n
  <2>1. k = n
    BY <1>1, <1>5 DEF Ids
  <2> QED
    BY <2>1
<1> QED
  BY <1>2, <1>3, <1>4, <1>5

-----------------------------------------------------------------------------
(* Due keeps its place through every step but a reconnect, a restart and a *)
(* delivery.                                                               *)
LEMMA PushedStep ==
  ListenerTypeOK /\ PositionInv /\ PushedInv /\ [Next]_vars => PushedInv'
<1> SUFFICES ASSUME ListenerTypeOK, PositionInv, PushedInv, [Next]_vars PROVE PushedInv'
  OBVIOUS
<1> USE NoIdentifiers DEF PushedInv
<1>a. /\ cursor \in Nat /\ startFrom \in Ids \cup {None} /\ pushed \subseteq Ids
      /\ phase \in Phases /\ Ids \subseteq Nat
  BY DEF ListenerTypeOK, Ids
<1>b. ASSUME startFrom' = startFrom, pushed' = pushed, startFrom # None => Due' = Due
      PROVE  PushedInv'
  BY <1>b
<1>1. CASE Waits
  BY <1>1, <1>b
  DEF Waits, Start, Build, ConnectFails, Sleep, Emit, Due, Reading, envVars, taskVars, PositionInv
<1>2. CASE OpenRedis
  <2>1. startFrom' = None /\ pushed' = {}
    BY <1>2 DEF OpenRedis, BeginFrom, PositionInv, Fresh
  <2> QED
    BY <2>1 DEF Gapless
<1>3. CASE LoadLastId
  <2>1. pushed' = {}
    BY <1>3 DEF LoadLastId, PositionInv, Fresh
  <2> QED
    BY <2>1 DEF Gapless
<1>4. CASE ConnectOk
  <2>1. startFrom # None => Due' = Due
    BY <1>4 DEF ConnectOk, Due, Reading
  <2> QED
    BY <1>4, <1>b, <2>1 DEF ConnectOk
<1>5. CASE ReceiveApiVersion
  BY <1>5, <1>b DEF ReceiveApiVersion, Due, Reading
<1>6. CASE Receive
  <2>1. /\ startFrom' = cursor /\ cursor \in Ids /\ pushed' = pushed
        /\ Due = cursor /\ Due' = cursor
    BY <1>6, <1>a DEF Receive, Due, Reading, Ids, ListenerTypeOK
  <2>2. startFrom # None => startFrom <= cursor /\ startFrom \in Nat
    BY <1>6, <1>a DEF Receive, Reading, PositionInv
  <2>3. \A i \in pushed : i <= cursor /\ Filled(i, cursor, pushed)
    BY <1>a, <2>1, <2>2
  <2> QED
    BY <2>1, <2>3
<1>7. CASE StoreOk \/ StoreFails
  BY <1>7, <1>b DEF StoreOk, StoreFails, Due, Reading, PositionInv
<1>8. CASE Deliver /\ item = Api
  BY <1>8, <1>b DEF Deliver, Due, Reading
<1>9. CASE Deliver /\ item # Api
  <2>1. /\ item = startFrom /\ startFrom \in Ids /\ cursor = startFrom + 1
        /\ pushed' = pushed \cup ({startFrom} \ Opaque) /\ startFrom' = startFrom
        /\ Due = startFrom /\ Due' = startFrom + 1
    BY <1>9, <1>a DEF Deliver, Due, Reading, PositionInv
  <2>2. \A i \in pushed : i <= startFrom /\ Filled(i, startFrom, pushed)
    BY <2>1
  <2>f. Filled(startFrom, startFrom + 1, pushed')
    <3>1. Filled(startFrom, startFrom, pushed)
      BY <1>a, <2>1, FilledEmpty
    <3> QED
      BY <1>a, <2>1, <3>1, FilledExtends
  <2>3. \A i \in pushed' : i <= startFrom /\ Filled(i, startFrom + 1, pushed')
    <3>1. \A i \in pushed : Filled(i, startFrom + 1, pushed')
      BY <1>a, <2>1, <2>2, FilledExtends
    <3> QED
      BY <1>a, <2>1, <2>2, <2>f, <3>1
  <2>4. \A i \in pushed : Filled(startFrom, i + 1, pushed')
    <3>1. \A i \in pushed : i + 1 <= startFrom + 1 /\ i + 1 \in Nat
      BY <1>a, <2>1, <2>2
    <3> QED
      BY <1>a, <2>1, <2>f, <3>1, FilledShrinks
  <2>5. Gapless(pushed')
    BY <1>a, <2>1, <2>2, <2>4, GaplessExtends
  <2> QED
    BY <2>1, <2>3, <2>5
<1>10. CASE StreamEnds
  <2>1. /\ startFrom' = startFrom /\ pushed' = pushed /\ Due = cursor /\ Due' = startFrom
        /\ startFrom # None => startFrom <= cursor /\ startFrom \in Nat
    BY <1>10, <1>a DEF StreamEnds, Due, Reading, PositionInv
  <2> QED
    BY <1>a, <2>1, FilledShrinks
<1>11. CASE Crash
  BY <1>11 DEF Crash, Gapless
<1>12. CASE UNCHANGED vars
  BY <1>12, <1>b DEF vars, Due, Reading
<1> QED
  BY <1>1, <1>2, <1>3, <1>4, <1>5, <1>6, <1>7, <1>8, <1>9, <1>10, <1>11, <1>12, StepCases

LEMMA CoveredStep ==
  ListenerTypeOK /\ PositionInv /\ CoveredInv /\ [Next]_vars => CoveredInv'
<1> SUFFICES ASSUME ListenerTypeOK, PositionInv, CoveredInv, [Next]_vars, ~amnesia'
             PROVE  CoveredInv'
  BY DEF CoveredInv
<1>a. /\ cursor \in Nat /\ startFrom \in Ids \cup {None} /\ covered \subseteq Ids
      /\ persisted \in Ids \cup {None} /\ phase \in Phases /\ Ids \subseteq Nat
  BY DEF ListenerTypeOK, Ids
<1>m. ~amnesia
  BY StepCases
  DEF Waits, Start, Build, ConnectFails, Sleep, Emit, OpenRedis, LoadLastId, BeginFrom, ConnectOk,
      ReceiveApiVersion, Receive, StoreOk, StoreFails, Deliver, StreamEnds, Crash, vars
<1> USE NoIdentifiers, <1>m DEF CoveredInv
<1>b. ASSUME startFrom' = startFrom, covered' = covered, persisted' = persisted, ~Fresh' => ~Fresh,
             startFrom # None => Due' = Due /\ cursor' = cursor /\ (Reading' => Reading)
      PROVE  CoveredInv'
  BY <1>b
<1>1. CASE Waits
  <2>1. startFrom # None => Due' = Due /\ cursor' = cursor /\ (Reading' => Reading)
    BY <1>1
    DEF Waits, Start, Build, ConnectFails, Sleep, Emit, Due, Reading, taskVars, PositionInv, Fresh
  <2> QED
    BY <1>1, <1>b, <2>1
    DEF Waits, Start, Build, ConnectFails, Sleep, Emit, envVars, taskVars, Fresh, Phases
<1>2. CASE OpenRedis
  <2>1. startFrom' = None /\ covered' = covered /\ persisted' = persisted
    BY <1>2 DEF OpenRedis, BeginFrom, PositionInv, Fresh, envVars
  <2>2. ~Fresh' => covered = {} /\ persisted = None
    BY <1>2 DEF OpenRedis, BeginFrom, Fresh
  <2> QED
    BY <2>1, <2>2
<1>3. CASE LoadLastId
  <2>1. covered' = covered /\ persisted' = persisted /\ startFrom' \in {persisted, None}
        /\ ~Reading' /\ ~Fresh'
    BY <1>3 DEF LoadLastId, BeginFrom, envVars, Fresh, Reading
  <2>2. startFrom' = None => covered = {} /\ persisted = None
    BY <1>3 DEF LoadLastId, BeginFrom
  <2>3. Due' = startFrom'
    BY <2>1 DEF Due
  <2>4. persisted # None => persisted <= persisted /\ Filled(persisted, persisted, covered)
    BY <1>a, FilledEmpty
  <2> QED
    BY <2>1, <2>2, <2>3, <2>4
<1>4. CASE ConnectOk
  <2>1. startFrom # None => Due' = Due /\ Reading' /\ cursor' = startFrom /\ startFrom \in Nat
    BY <1>4, <1>a DEF ConnectOk, Due, Reading
  <2>2. startFrom' = startFrom /\ covered' = covered /\ persisted' = persisted /\ ~Fresh
    BY <1>4 DEF ConnectOk, envVars, Fresh
  <2>3. startFrom # None => cursor' # startFrom + 1
    BY <2>1
  <2> QED
    BY <2>1, <2>2, <2>3
<1>5. CASE ReceiveApiVersion
  BY <1>5, <1>b DEF ReceiveApiVersion, Due, Reading, Fresh, envVars
<1>6. CASE Receive
  <2>1. /\ startFrom' = cursor /\ cursor \in Ids /\ covered' = covered /\ persisted' = persisted
        /\ Due = cursor /\ Due' = cursor /\ ~Fresh /\ ~Fresh'
    BY <1>6, <1>a DEF Receive, Due, Reading, Ids, ListenerTypeOK, envVars, Fresh
  <2>2. startFrom = None => covered = {} /\ persisted = None
    BY <2>1
  <2>3. startFrom # None => startFrom <= cursor /\ startFrom \in Nat
    BY <1>6, <1>a DEF Receive, Reading, PositionInv
  <2>4. persisted # None => persisted <= cursor
    BY <1>a, <2>2, <2>3
  <2>5. ~Reading'
    BY <1>6, <2>1 DEF Receive, Reading
  <2> QED
    BY <2>1, <2>2, <2>4, <2>5
<1>7. CASE StoreOk \/ StoreFails
  <2>1. /\ startFrom' = startFrom /\ startFrom \in Ids /\ covered' = covered
        /\ persisted' \in {persisted, startFrom}
        /\ ~Reading' /\ ~Reading /\ ~Fresh'
    BY <1>7, <1>a DEF StoreOk, StoreFails, Reading, PositionInv, Fresh
  <2>2. Due' = startFrom /\ Due = startFrom
    BY <2>1 DEF Due
  <2>3. startFrom <= startFrom /\ Filled(startFrom, startFrom, covered)
    BY <1>a, <2>1, FilledEmpty
  <2> QED
    BY <2>1, <2>2, <2>3
<1>8. CASE Deliver /\ item = Api
  BY <1>8, <1>b DEF Deliver, Due, Reading, Fresh, envVars
<1>9. CASE Deliver /\ item # Api
  <2>1. /\ item = startFrom /\ startFrom \in Ids /\ cursor = startFrom + 1
        /\ covered' = covered \cup ({startFrom} \ Opaque) /\ startFrom' = startFrom
        /\ persisted' = persisted /\ cursor' = cursor
        /\ Due = startFrom /\ Due' = startFrom + 1
    BY <1>9, <1>a DEF Deliver, Due, Reading, PositionInv, envVars
  <2>2. startFrom \in Nat /\ persisted # None => persisted \in Nat /\ persisted <= startFrom
    BY <1>a, <2>1
  <2>3. \A i \in covered : Filled(i, startFrom, covered) /\ Filled(startFrom, i + 1, covered)
    BY <2>1
  <2>4. Filled(startFrom, startFrom + 1, covered')
    <3>1. Filled(startFrom, startFrom, covered)
      BY <1>a, <2>1, FilledEmpty
    <3> QED
      BY <1>a, <2>1, <3>1, FilledExtends
  <2>5. ASSUME NEW i \in covered'
        PROVE  Filled(i, startFrom + 1, covered') /\ Filled(startFrom + 1, i + 1, covered')
    <3>1. CASE i \in covered
      <4>1. Filled(i, startFrom + 1, covered')
        BY <1>a, <2>1, <2>3, <3>1, FilledExtends
      <4>2. Filled(startFrom, i + 1, covered')
        BY <1>a, <2>1, <2>3, <3>1, FilledGrows
      <4> QED
        BY <1>a, <2>1, <3>1, <4>1, <4>2, FilledFromNext
    <3>2. CASE i = startFrom
      BY <1>a, <2>1, <2>4, <3>2, FilledEmpty
    <3> QED
      BY <2>1, <3>1, <3>2
  <2>6. Gapless(covered')
    <3>1. \A i \in covered : Filled(startFrom, i + 1, covered')
      BY <1>a, <2>1, <2>3, FilledGrows
    <3> QED
      BY <1>a, <2>1, <2>3, <3>1, GaplessExtends
  <2>7. ASSUME persisted # None
        PROVE  /\ Filled(persisted, startFrom + 1, covered')
               /\ \A i \in covered' : /\ Filled(i, persisted, covered')
                                      /\ Filled(persisted, i + 1, covered')
    <3>1. Filled(persisted, startFrom + 1, covered')
      BY <1>a, <2>1, <2>7, FilledExtends
    <3>2. ASSUME NEW i \in covered
          PROVE  Filled(i, persisted, covered') /\ Filled(persisted, i + 1, covered')
      BY <1>a, <2>1, <2>7, <3>2, FilledGrows
    <3>3. Filled(startFrom, persisted, covered')
      BY <1>a, <2>1, <2>2, <2>7, FilledEmpty
    <3> QED
      BY <2>1, <3>1, <3>2, <3>3
  <2>8. startFrom \in covered' \cup Opaque
    BY <2>1
  <2> QED
    BY <2>1, <2>2, <2>5, <2>6, <2>7, <2>8
<1>10. CASE StreamEnds
  <2>1. /\ startFrom' = startFrom /\ covered' = covered /\ persisted' = persisted
        /\ Due = cursor /\ Due' = startFrom /\ Reading /\ ~Reading' /\ ~Fresh
    BY <1>10 DEF StreamEnds, Due, Reading, envVars, Fresh
  <2>2. CASE startFrom = None
    BY <2>1, <2>2
  <2>3. CASE startFrom # None
    <3>1. startFrom \in Nat /\ cursor \in {startFrom, startFrom + 1} /\ startFrom <= cursor
      BY <1>a, <2>1, <2>3 DEF PositionInv
    <3>2. \A i \in covered : Filled(i, startFrom, covered)
      BY <1>a, <2>1, <2>3, <3>1, FilledShrinks
    <3>3. \A i \in covered : Filled(startFrom, i + 1, covered)
      <4>1. \A i \in covered : Filled(cursor, i + 1, covered)
        BY <2>1, <2>3
      <4>2. CASE cursor = startFrom
        BY <4>1, <4>2
      <4>3. CASE cursor = startFrom + 1
        <5>1. startFrom \in covered \cup Opaque
          BY <2>1, <2>3, <4>3
        <5> QED
          BY <1>a, <3>1, <4>1, <4>3, <5>1 DEF Filled
      <4> QED
        BY <3>1, <4>2, <4>3
    <3>4. persisted # None => persisted <= startFrom /\ Filled(persisted, startFrom, covered)
      BY <1>a, <2>1, <2>3, <3>1, FilledShrinks
    <3> QED
      BY <2>1, <2>3, <3>2, <3>3, <3>4
  <2> QED
    BY <2>2, <2>3
<1>11. CASE Crash
  <2>1. startFrom' = None /\ Fresh' /\ covered' = covered /\ persisted' = persisted
    BY <1>11 DEF Crash, Fresh, envVars
  <2> QED
    BY <2>1
<1>12. CASE UNCHANGED vars
  BY <1>12, <1>b DEF vars, Due, Reading, Fresh
<1> QED
  BY <1>1, <1>2, <1>3, <1>4, <1>5, <1>6, <1>7, <1>8, <1>9, <1>10, <1>11, <1>12, StepCases

-----------------------------------------------------------------------------
LEMMA InitListenerInv == Init => ListenerInv
<1> SUFFICES ASSUME Init PROVE ListenerInv
  OBVIOUS
<1>1. ListenerTypeOK
  <2>1. apiDue \in BOOLEAN /\ amnesia \in BOOLEAN /\ phase \in Phases
    BY DEF Init, Phases
  <2>2. head = 0 /\ cursor = 1 /\ persisted = None /\ startFrom = None
        /\ pushed = {} /\ covered = {}
    BY DEF Init
  <2> QED
    BY <2>1, <2>2, NoIdentifiers DEF ListenerTypeOK
<1>2. PositionInv
  BY DEF Init, PositionInv, Fresh, Reading
<1>3. PushedInv /\ CoveredInv
  BY DEF Init, PushedInv, CoveredInv, Gapless, Fresh
<1> QED
  BY <1>1, <1>2, <1>3 DEF ListenerInv

LEMMA ListenerInvStep == ListenerInv /\ [Next]_vars => ListenerInv'
  BY TypeStep, PositionStep, PushedStep, CoveredStep DEF ListenerInv

LEMMA SpecListenerInv == Spec => []ListenerInv
  BY InitListenerInv, ListenerInvStep, PTL DEF Spec

(* One process never pushes an event after a later one, across any number  *)
(* of reconnects and whatever Redis does.                                  *)
THEOREM EventsKeepTheirOrder == Spec => []NeverStepsBack
<1>1. ListenerInv => NeverStepsBack
  BY NoIdentifiers
  DEF ListenerInv, ListenerTypeOK, PositionInv, PushedInv, NeverStepsBack, Ids
<1> QED
  BY <1>1, SpecListenerInv, PTL

(* One process leaves out no event that can be serialised between the      *)
(* first and the last it pushed.                                           *)
THEOREM ProcessLeavesNoGaps == Spec => []NoGaps
<1>1. ListenerInv => NoGaps
  BY DEF ListenerInv, ListenerTypeOK, PushedInv, NoGaps
<1> QED
  BY <1>1, SpecListenerInv, PTL

(* Nor do successive processes together, wherever each of them crashed, as *)
(* long as each found the identifier its predecessor left in Redis.        *)
THEOREM RestartsLeaveNoGaps == Spec => []NoGapsAcrossRestarts
<1>1. ListenerInv => NoGapsAcrossRestarts
  BY DEF ListenerInv, CoveredInv, NoGapsAcrossRestarts
<1> QED
  BY <1>1, SpecListenerInv, PTL
=============================================================================
