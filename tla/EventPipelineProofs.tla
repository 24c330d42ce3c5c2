------------------------- MODULE EventPipelineProofs -------------------------
(***************************************************************************)
(* From end to end: clients miss nothing and never go back, for any number *)
(* of clients, events, reconnects and restarts.                            *)
(*                                                                         *)
(* Two facts carry the argument.  Between two successive entries of the    *)
(* log, and from its last one to the event the listener receives next,     *)
(* the node has nothing to push.  And a client that was up to date when    *)
(* the proxy died has the same relation to wherever the next process goes  *)
(* on: the identifier in Redis, the listener's position, and in the end    *)
(* the first entry of the new log.                                         *)
(***************************************************************************)
EXTENDS EventPipeline, SseListenerProofs

(* The node has no event to push after m and before n. *)
Nothing(m, n) == \A k \in Ids : m < k /\ k < n => k \in Opaque

LogInv ==
  /\ log \in Seq(Ids)
  /\ \A i \in 1 .. Len(log) : log[i] \in covered
  /\ \A j \in 1 .. Len(log) : \A i \in 1 .. j : log[i] <= log[j]
  /\ \A i \in 1 .. Len(log) : i + 1 <= Len(log) => Nothing(log[i], log[i + 1])
  /\ log # << >> =>
       /\ startFrom # None
       /\ \A i \in 1 .. Len(log) : log[i] <= startFrom
       /\ Nothing(log[Len(log)], Due)

(* What a client knows of the running process. *)
ConnectionInv(c) ==
  /\ heard[c] # 0 => heard[c] \in covered
  /\ fresh[c] => token[c] \in 1 .. Len(log)
  /\ fresh[c] /\ heard[c] # 0 => heard[c] = log[token[c]]
  /\ last[c] # 0 => fresh[c] /\ token[c] = last[c] /\ heard[c] # 0 /\ due[c] # {}
  /\ last[c] = 0 /\ heard[c] # 0 =>
       due[c] \subseteq IF fresh[c] THEN {token[c], token[c] + 1} ELSE {1}

(* A client that was up to date when the last process died that pushed     *)
(* anything, and has been sent nothing since.                              *)
WaitingInv(c) ==
  heard[c] # 0 /\ ~fresh[c] /\ ~skipped[c] /\ ~amnesia =>
    IF log = << >>
      THEN /\ persisted # None => Nothing(heard[c], persisted)
           /\ startFrom # None => Nothing(heard[c], Due)
      ELSE Nothing(heard[c], log[1])

PipelineTypeOK ==
  /\ due \in [Clients -> SUBSET Nat] /\ last \in [Clients -> Nat]
  /\ lagged \in [Clients -> BOOLEAN] /\ heard \in [Clients -> Nat]
  /\ token \in [Clients -> Nat] /\ fresh \in [Clients -> BOOLEAN]
  /\ skipped \in [Clients -> BOOLEAN]

ClientsInv == \A c \in Clients : ConnectionInv(c) /\ WaitingInv(c)

PipelineInv == ListenerInv /\ PipelineTypeOK /\ LogInv /\ ClientsInv

-----------------------------------------------------------------------------
LEMMA NothingShrinks ==
  ASSUME NEW m \in Nat, NEW n \in Nat, NEW o \in Nat, Nothing(m, n), o <= n
  PROVE  Nothing(m, o)
  BY DEF Nothing, Ids

LEMMA NothingExtends ==
  ASSUME NEW m \in Nat, NEW n \in Nat, Nothing(m, n), n \in Opaque
  PROVE  Nothing(m, n + 1)
  BY DEF Nothing, Ids

LEMMA NothingNext ==
  ASSUME NEW m \in Nat
  PROVE  Nothing(m, m + 1)
  BY DEF Nothing, Ids

(* The pipeline leaves the listener as it is. *)
LEMMA PipelineListens == [PipelineNext]_pipelineVars => [Next]_vars
<1> SUFFICES ASSUME [PipelineNext]_pipelineVars PROVE [Next]_vars
  OBVIOUS
<1>1. CASE Push \/ Listen \/ Die
  BY <1>1 DEF Push, Listen, Die, Next, ListenerStep
<1>2. ASSUME NEW c \in Clients,
             Arrive(c) \/ Resume(c) \/ Falter(c) \/ \E e \in 1 .. Len(log) : Get(c, e)
      PROVE  UNCHANGED vars
  BY <1>2 DEF Arrive, Resume, Falter, Get, vars
<1>3. CASE UNCHANGED pipelineVars
  BY <1>3 DEF pipelineVars
<1> QED
  BY <1>1, <1>2, <1>3 DEF PipelineNext

-----------------------------------------------------------------------------
(* How the listener's position moves.  It goes back only when a stream     *)
(* ends, and what goes to Redis is the position.                           *)
LEMMA ListenMoves ==
  ASSUME ListenerTypeOK, PositionInv, Listen
  PROVE  /\ covered' = covered /\ (amnesia => amnesia')
         /\ startFrom # None =>
              /\ startFrom' \in Ids /\ startFrom <= startFrom'
              /\ Due \in Nat /\ Due' \in Nat /\ Due' <= Due
              /\ persisted' \in {persisted, Due}
         /\ startFrom = None /\ Fresh =>
              /\ persisted' = persisted
              /\ startFrom' = None \/ (startFrom' = persisted /\ Due' = persisted)
<1>a. /\ cursor \in Nat /\ startFrom \in Ids \cup {None} /\ persisted \in Ids \cup {None}
      /\ phase \in Phases /\ Ids \subseteq Nat /\ None \notin Ids
  BY NoIdentifiers DEF ListenerTypeOK, Ids
<1>b. startFrom # None => Due \in Nat /\ startFrom <= startFrom
  BY <1>a DEF Due
<1>1. CASE Start \/ Build \/ ConnectFails \/ Sleep \/ Emit
  <2>1. /\ covered' = covered /\ amnesia' = amnesia /\ startFrom' = startFrom
        /\ persisted' = persisted /\ cursor' = cursor
    BY <1>1 DEF Start, Build, ConnectFails, Sleep, Emit, envVars, taskVars
  <2>2. startFrom # None => Due' = Due
    BY <1>1, <2>1 DEF Start, Build, ConnectFails, Sleep, Emit, Due, Reading, taskVars,
                      PositionInv, Fresh
  <2> QED
    BY <1>a, <1>b, <2>1, <2>2
<1>2. CASE OpenRedis
  <2>1. covered' = covered /\ persisted' = persisted /\ startFrom = None /\ startFrom' = None
    BY <1>2 DEF OpenRedis, BeginFrom, PositionInv, Fresh, envVars
  <2>2. amnesia => amnesia'
    BY <1>2 DEF OpenRedis, BeginFrom
  <2> QED
    BY <2>1, <2>2
<1>3. CASE LoadLastId
  <2>1. /\ covered' = covered /\ persisted' = persisted /\ startFrom' \in {persisted, None}
        /\ (amnesia => amnesia') /\ ~Reading' /\ startFrom = None
    BY <1>3 DEF LoadLastId, BeginFrom, PositionInv, Fresh, Reading, envVars
  <2> QED
    BY <2>1 DEF Due
<1>4. CASE ConnectOk
  <2>1. /\ covered' = covered /\ amnesia' = amnesia /\ startFrom' = startFrom
        /\ persisted' = persisted /\ ~Fresh
        /\ startFrom # None => Due' = startFrom /\ Due = startFrom
    BY <1>4 DEF ConnectOk, envVars, Fresh, Due, Reading
  <2> QED
    BY <1>a, <1>b, <2>1
<1>5. CASE ReceiveApiVersion
  <2>1. /\ covered' = covered /\ amnesia' = amnesia /\ startFrom' = startFrom
        /\ persisted' = persisted /\ ~Fresh /\ Due' = Due
    BY <1>5 DEF ReceiveApiVersion, envVars, Fresh, Due, Reading
  <2> QED
    BY <1>a, <1>b, <2>1
<1>6. CASE Receive
  <2>1. /\ covered' = covered /\ amnesia' = amnesia /\ startFrom' = cursor
        /\ persisted' = persisted /\ ~Fresh /\ Due' = cursor /\ Due = cursor
    BY <1>6 DEF Receive, envVars, Fresh, Due, Reading
  <2>2. cursor \in Ids
    BY <1>6, NoIdentifiers DEF Receive, Ids, ListenerTypeOK
  <2>3. startFrom # None => startFrom <= cursor
    BY <1>6, <1>a DEF Receive, Reading, PositionInv
  <2> QED
    BY <1>a, <2>1, <2>2, <2>3
<1>7. CASE StoreOk \/ StoreFails
  <2>1. /\ covered' = covered /\ amnesia' = amnesia /\ startFrom' = startFrom
        /\ ~Fresh /\ Due = startFrom /\ Due' = startFrom /\ startFrom # None
        /\ persisted' \in {persisted, startFrom}
    BY <1>7 DEF StoreOk, StoreFails, Fresh, Due, Reading, PositionInv
  <2> QED
    BY <1>a, <1>b, <2>1
<1>8. CASE StreamEnds
  <2>1. /\ covered' = covered /\ amnesia' = amnesia /\ startFrom' = startFrom
        /\ persisted' = persisted /\ ~Fresh /\ Due' = startFrom /\ Due = cursor
        /\ startFrom # None => startFrom <= cursor
    BY <1>8, <1>a DEF StreamEnds, envVars, Fresh, Due, Reading, PositionInv
  <2> QED
    BY <1>a, <1>b, <2>1
<1> QED
  BY <1>1, <1>2, <1>3, <1>4, <1>5, <1>6, <1>7, <1>8 DEF Listen

(* A delivery pushes the event at the position, or leaves it out. *)
LEMMA PushMoves ==
  ASSUME ListenerTypeOK, PositionInv, Push
  PROVE  /\ startFrom' = startFrom /\ persisted' = persisted /\ amnesia' = amnesia
         /\ \/ log' = log /\ covered' = covered /\ Due' = Due
            \/ /\ startFrom \in Ids /\ Due = startFrom /\ Due' = startFrom + 1
               /\ \/ startFrom \in Opaque /\ log' = log /\ covered' = covered
                  \/ log' = Append(log, startFrom) /\ covered' = covered \cup {startFrom}
<1>1. startFrom' = startFrom /\ persisted' = persisted /\ amnesia' = amnesia /\ cursor' = cursor
  BY DEF Push, Deliver, envVars
<1>2. CASE item = Api
  BY <1>1, <1>2 DEF Push, Deliver, Due, Reading
<1>3. CASE item # Api
  <2>1. /\ item = startFrom /\ startFrom \in Ids /\ cursor = startFrom + 1
        /\ Due = startFrom /\ Due' = startFrom + 1
    BY <1>1, <1>3, NoIdentifiers DEF Push, Deliver, Due, Reading, PositionInv, ListenerTypeOK
  <2>2. CASE startFrom \in Opaque
    BY <1>1, <2>1, <2>2 DEF Push, Deliver
  <2>3. CASE startFrom \notin Opaque
    BY <1>1, <1>3, <2>1, <2>3 DEF Push, Deliver
  <2> QED
    BY <2>2, <2>3
<1> QED
  BY <1>2, <1>3

-----------------------------------------------------------------------------
LEMMA LogKept ==
  ASSUME LogInv, log' = log, covered \subseteq covered',
         log # << >> => /\ startFrom' \in Nat /\ startFrom' # None
                        /\ \A i \in 1 .. Len(log) : log[i] <= startFrom'
                        /\ Nothing(log[Len(log)], Due')
  PROVE  LogInv'
  BY DEF LogInv

(* The next entry is the event at the listener's position. *)
LEMMA LogGrows ==
  ASSUME ListenerTypeOK, LogInv, startFrom \in Ids, Due = startFrom, startFrom' = startFrom,
         Due' = startFrom + 1, log' = Append(log, startFrom),
         covered' = covered \cup {startFrom}
  PROVE  LogInv'
<1>a. log \in Seq(Ids) /\ Len(log) \in Nat /\ Ids \subseteq Nat /\ None \notin Ids
  BY NoIdentifiers DEF LogInv, Ids
<1>1. /\ log' \in Seq(Ids) /\ Len(log') = Len(log) + 1 /\ log'[Len(log) + 1] = startFrom
      /\ \A i \in 1 .. Len(log) : log'[i] = log[i]
  BY <1>a
<1>2. \A i \in 1 .. Len(log) : log[i] \in covered /\ log[i] <= startFrom /\ log[i] \in Nat
  <2>1. ASSUME NEW i \in 1 .. Len(log) PROVE log # << >> /\ log[i] \in Ids
    BY <1>a
  <2> QED
    BY <1>a, <2>1 DEF LogInv
<1>3. \A i \in 1 .. Len(log') : i \in 1 .. Len(log) \/ i = Len(log) + 1
  BY <1>a, <1>1
<1>4. \A i \in 1 .. Len(log') : log'[i] \in covered' /\ log'[i] <= startFrom'
  BY <1>a, <1>1, <1>2, <1>3
<1>5. ASSUME NEW j \in 1 .. Len(log'), NEW i \in 1 .. j PROVE log'[i] <= log'[j]
  <2>1. CASE j \in 1 .. Len(log)
    <3>1. i \in 1 .. Len(log)
      BY <1>a, <2>1
    <3> QED
      BY <1>1, <2>1, <3>1 DEF LogInv
  <2>2. CASE j = Len(log) + 1
    <3>1. i \in 1 .. Len(log')
      BY <1>a, <1>1
    <3> QED
      BY <1>1, <1>4, <2>2, <3>1
  <2> QED
    BY <1>3, <2>1, <2>2
<1>6. ASSUME NEW i \in 1 .. Len(log'), i + 1 <= Len(log') PROVE Nothing(log'[i], log'[i + 1])
  <2>1. CASE i + 1 <= Len(log)
    <3>1. i \in 1 .. Len(log) /\ i + 1 \in 1 .. Len(log)
      BY <1>a, <1>1, <2>1
    <3> QED
      BY <1>1, <2>1, <3>1 DEF LogInv
  <2>2. CASE i = Len(log)
    <3>1. log # << >> /\ log'[i] = log[Len(log)] /\ log'[i + 1] = startFrom
      BY <1>a, <1>1, <2>2
    <3>2. Nothing(log[Len(log)], startFrom)
      BY <3>1 DEF LogInv
    <3> QED
      BY <3>1, <3>2
  <2> QED
    BY <1>a, <1>1, <1>6, <2>1, <2>2
<1>7. Nothing(log'[Len(log')], Due')
  <2>1. Nothing(startFrom, startFrom + 1)
    BY <1>a, NothingNext
  <2> QED
    BY <1>1, <2>1
<1> QED
  BY <1>a, <1>1, <1>4, <1>5, <1>6, <1>7 DEF LogInv

LEMMA LogInvStep == ListenerInv /\ LogInv /\ [PipelineNext]_pipelineVars => LogInv'
<1> SUFFICES ASSUME ListenerInv, LogInv, [PipelineNext]_pipelineVars PROVE LogInv'
  OBVIOUS
<1>a. ListenerTypeOK /\ PositionInv /\ log \in Seq(Ids) /\ Ids \subseteq Nat /\ None \notin Ids
  BY NoIdentifiers DEF ListenerInv, LogInv, Ids
<1>b. log # << >> =>
        /\ startFrom \in Ids /\ log[Len(log)] \in Nat /\ Nothing(log[Len(log)], Due)
        /\ \A i \in 1 .. Len(log) : log[i] <= startFrom /\ log[i] \in Nat
  <2>1. ASSUME log # << >> PROVE Len(log) \in 1 .. Len(log)
    BY <1>a, <2>1
  <2>2. \A i \in 1 .. Len(log) : log[i] \in Nat
    <3>1. \A i \in 1 .. Len(log) : log[i] \in Ids
      BY <1>a
    <3> QED
      BY <1>a, <3>1
  <2>3. log # << >> => startFrom \in Ids
    BY <1>a DEF LogInv, ListenerTypeOK
  <2> QED
    BY <2>1, <2>2, <2>3 DEF LogInv
<1>c. ASSUME UNCHANGED <<vars, log>> PROVE LogInv'
  <2>1. startFrom' = startFrom /\ covered' = covered /\ log' = log /\ Due' = Due
    BY <1>c DEF vars, Due, Reading
  <2> QED
    BY <1>a, <1>b, <2>1, LogKept
<1>1. CASE Push
  <2>1. /\ startFrom' = startFrom
        /\ \/ log' = log /\ covered' = covered /\ Due' = Due
           \/ /\ startFrom \in Ids /\ Due = startFrom /\ Due' = startFrom + 1
              /\ \/ startFrom \in Opaque /\ log' = log /\ covered' = covered
                 \/ log' = Append(log, startFrom) /\ covered' = covered \cup {startFrom}
    BY <1>1, <1>a, PushMoves
  <2>2. CASE log' = log /\ covered' = covered /\ Due' = Due
    BY <1>a, <1>b, <2>1, <2>2, LogKept
  <2>3. CASE /\ startFrom \in Ids /\ Due = startFrom /\ Due' = startFrom + 1
             /\ startFrom \in Opaque /\ log' = log /\ covered' = covered
    <3>1. log # << >> => Nothing(log[Len(log)], startFrom + 1)
      BY <1>a, <1>b, <2>3, NothingExtends
    <3> QED
      BY <1>a, <1>b, <2>1, <2>3, <3>1, LogKept
  <2>4. CASE /\ startFrom \in Ids /\ Due = startFrom /\ Due' = startFrom + 1
             /\ log' = Append(log, startFrom) /\ covered' = covered \cup {startFrom}
    BY <1>a, <2>1, <2>4, LogGrows
  <2> QED
    BY <2>1, <2>2, <2>3, <2>4
<1>2. CASE Listen
  <2>1. /\ covered' = covered
        /\ startFrom # None => /\ startFrom' \in Ids /\ startFrom <= startFrom'
                               /\ Due \in Nat /\ Due' \in Nat /\ Due' <= Due
    BY <1>2, <1>a, ListenMoves
  <2>2. log' = log
    BY <1>2 DEF Listen
  <2>3. ASSUME log # << >>
        PROVE  /\ startFrom' \in Nat /\ startFrom' # None
               /\ \A i \in 1 .. Len(log) : log[i] <= startFrom'
               /\ Nothing(log[Len(log)], Due')
    <3>1. startFrom' \in Ids /\ startFrom <= startFrom' /\ startFrom \in Nat /\ startFrom' \in Nat
      BY <1>a, <1>b, <2>1, <2>3
    <3>2. Nothing(log[Len(log)], Due')
      BY <1>a, <1>b, <2>1, <2>3, NothingShrinks
    <3>3. \A i \in 1 .. Len(log) : log[i] <= startFrom'
      BY <1>b, <2>3, <3>1
    <3> QED
      BY <1>a, <3>1, <3>2, <3>3
  <2> QED
    BY <2>1, <2>2, <2>3, LogKept
<1>3. CASE Die
  BY <1>3 DEF Die, LogInv
<1>4. ASSUME NEW c \in Clients,
             Arrive(c) \/ Resume(c) \/ Falter(c) \/ \E e \in 1 .. Len(log) : Get(c, e)
      PROVE  UNCHANGED <<vars, log>>
  BY <1>4 DEF Arrive, Resume, Falter, Get
<1>5. CASE UNCHANGED pipelineVars
  BY <1>5, <1>c DEF pipelineVars
<1> QED
  BY <1>1, <1>2, <1>3, <1>4, <1>5, <1>c DEF PipelineNext

-----------------------------------------------------------------------------
(* What a client that resumes is sent first: the event after its token, or *)
(* the one of its token when that is still being published; and all there  *)
(* is when the token is of an earlier process.                             *)
LEMMA FirstOnResume ==
  ASSUME NEW n \in Nat, NEW next \in {n, n + 1} \ {0}
  PROVE  /\ Feed!First(0, next) = {1}
         /\ Feed!First(None, next) = {next}
         /\ \A t \in 1 .. n : Feed!First(t + 1, next) \subseteq {t, t + 1}
<1>a. None \notin Nat /\ next \in Nat /\ 0 <= next
  BY ListenerAssumption
<1>1. Feed!First(None, next) = {next}
  BY <1>a DEF Feed!First
<1>2. Feed!First(0, next) = {1}
  BY <1>a DEF Feed!First
<1>3. ASSUME NEW t \in 1 .. n PROVE Feed!First(t + 1, next) \subseteq {t, t + 1}
  <2>1. t + 1 \in Nat /\ t + 1 # None /\ t + 1 # 0
    BY <1>a
  <2>2. CASE t + 1 <= next
    <3>1. ~(t + 1 > next)
      BY <1>a, <2>1, <2>2
    <3>2. Feed!First(t + 1, next) = {t + 1}
      BY <2>1, <2>2, <3>1 DEF Feed!First
    <3> QED
      BY <3>2
  <2>3. CASE t + 1 > next
    <3>1. next = t /\ ~(t + 1 <= next)
      BY <2>3
    <3>2. Feed!First(t + 1, next) = {next, t + 1}
      BY <2>1, <2>3, <3>1 DEF Feed!First
    <3> QED
      BY <3>1, <3>2
  <2> QED
    BY <1>a, <2>1, <2>2, <2>3
<1> QED
  BY <1>1, <1>2, <1>3

(* The clients' steps, one client each. *)
SameClient(d) ==
  /\ heard'[d] = heard[d] /\ token'[d] = token[d] /\ fresh'[d] = fresh[d]
  /\ skipped'[d] = skipped[d] /\ last'[d] = last[d] /\ due'[d] = due[d]

LEMMA ArriveEffect ==
  ASSUME NEW c \in Clients, Arrive(c), PipelineTypeOK, log \in Seq(Ids)
  PROVE  /\ UNCHANGED <<vars, log>> /\ PipelineTypeOK' /\ \A d \in Clients \ {c} : SameClient(d)
         /\ due[c] = {} /\ last'[c] = last[c] /\ heard'[c] = 0
         /\ fresh'[c] = fresh[c] /\ token'[c] = token[c]
<1>1. /\ UNCHANGED <<vars, log, token, fresh, last, lagged>> /\ due[c] = {}
      /\ heard' = [heard EXCEPT ![c] = 0] /\ skipped' = [skipped EXCEPT ![c] = FALSE]
  BY DEF Arrive, Feed!Join
<1>2. PICK from \in {0, None}, next \in {Len(log), Len(log) + 1} \ {0} :
        due' = [due EXCEPT ![c] = Feed!First(from, next)]
  BY DEF Arrive, Feed!Join
<1>3. Len(log) \in Nat /\ next \in Nat
  OBVIOUS
<1>4. Feed!First(from, next) \in SUBSET Nat
  BY <1>3, FirstOnResume
<1>5. due' \in [Clients -> SUBSET Nat] /\ \A d \in Clients \ {c} : due'[d] = due[d]
  BY <1>2, <1>4 DEF PipelineTypeOK
<1> QED
  BY <1>1, <1>5 DEF PipelineTypeOK, SameClient

LEMMA ResumeEffect ==
  ASSUME NEW c \in Clients, Resume(c), PipelineTypeOK, log \in Seq(Ids), ConnectionInv(c)
  PROVE  /\ UNCHANGED <<vars, log>> /\ PipelineTypeOK' /\ \A d \in Clients \ {c} : SameClient(d)
         /\ due[c] = {} /\ last'[c] = last[c] /\ heard'[c] = heard[c]
         /\ fresh'[c] = fresh[c] /\ token'[c] = token[c] /\ skipped'[c] = skipped[c]
         /\ due'[c] \subseteq IF fresh[c] THEN {token[c], token[c] + 1} ELSE {1}
<1>1. UNCHANGED <<vars, log, clientVars, last, lagged>> /\ due[c] = {}
  BY DEF Resume, Feed!Join
<1>2. PICK next \in {Len(log), Len(log) + 1} \ {0} :
        due' = [due EXCEPT ![c] = Feed!First(IF fresh[c] THEN token[c] + 1 ELSE 0, next)]
  BY DEF Resume, Feed!Join
<1> DEFINE F == Feed!First(IF fresh[c] THEN token[c] + 1 ELSE 0, next)
<1>3. Len(log) \in Nat /\ token[c] \in Nat
  BY DEF PipelineTypeOK
<1>4. F \subseteq IF fresh[c] THEN {token[c], token[c] + 1} ELSE {1}
  <2>1. CASE fresh[c]
    <3>1. token[c] \in 1 .. Len(log)
      BY <2>1 DEF ConnectionInv
    <3>2. Feed!First(token[c] + 1, next) \subseteq {token[c], token[c] + 1}
      BY <1>3, <3>1, FirstOnResume
    <3> QED
      BY <2>1, <3>2
  <2>2. CASE ~fresh[c]
    <3>1. Feed!First(0, next) = {1}
      BY <1>3, FirstOnResume
    <3> QED
      BY <2>2, <3>1
  <2> QED
    BY <2>1, <2>2
<1>5. due' = [due EXCEPT ![c] = F]
  BY <1>2
<1> HIDE DEF F
<1>6. F \in SUBSET Nat
  BY <1>3, <1>4
<1>7. /\ due' \in [Clients -> SUBSET Nat] /\ due'[c] = F
      /\ \A d \in Clients \ {c} : due'[d] = due[d]
  BY <1>5, <1>6 DEF PipelineTypeOK
<1> QED
  BY <1>1, <1>4, <1>7 DEF PipelineTypeOK, SameClient, clientVars

LEMMA FalterEffect ==
  ASSUME NEW c \in Clients, Falter(c), PipelineTypeOK
  PROVE  /\ UNCHANGED <<vars, log>> /\ PipelineTypeOK' /\ \A d \in Clients \ {c} : SameClient(d)
         /\ heard'[c] = heard[c] /\ fresh'[c] = fresh[c] /\ token'[c] = token[c]
         /\ skipped'[c] = skipped[c]
         /\ \/ last'[c] = last[c] /\ due'[c] = due[c]
            \/ last'[c] = 0 /\ due'[c] = {}
<1>1. CASE Feed!Overrun(c)
  BY <1>1 DEF Falter, Feed!Overrun, PipelineTypeOK, SameClient, clientVars
<1>2. CASE Feed!Leave(c)
  BY <1>2 DEF Falter, Feed!Leave, PipelineTypeOK, SameClient, clientVars
<1> QED
  BY <1>1, <1>2 DEF Falter

LEMMA GetEffect ==
  ASSUME NEW c \in Clients, NEW e \in 1 .. Len(log), Get(c, e), PipelineTypeOK, log \in Seq(Ids)
  PROVE  /\ UNCHANGED <<vars, log>> /\ PipelineTypeOK' /\ \A d \in Clients \ {c} : SameClient(d)
         /\ due[c] # {} /\ due'[c] = due[c] /\ last'[c] = e /\ heard'[c] = log[e]
         /\ fresh'[c] = TRUE /\ token'[c] = e
         /\ Feed!InTurn(c, e)
         /\ ~skipped'[c] => ~skipped[c] /\ ~lagged[c] /\ (last[c] = 0 => e \in due[c])
<1>1. e \in Nat /\ log[e] \in Ids /\ log[e] \in Nat
  BY NoIdentifiers DEF Ids
<1>2. /\ UNCHANGED <<vars, log, due, lagged>> /\ due[c] # {} /\ Feed!InTurn(c, e)
      /\ last' = [last EXCEPT ![c] = e] /\ heard' = [heard EXCEPT ![c] = log[e]]
      /\ token' = [token EXCEPT ![c] = e] /\ fresh' = [fresh EXCEPT ![c] = TRUE]
  BY DEF Get, Feed!Send
<1>3. skipped' = [skipped EXCEPT ![c] = @ \/ lagged[c] \/ (last[c] = 0 /\ e \notin due[c])]
  BY DEF Get
<1>4. /\ skipped' \in [Clients -> BOOLEAN] /\ \A d \in Clients \ {c} : skipped'[d] = skipped[d]
      /\ ~skipped'[c] => ~skipped[c] /\ ~lagged[c] /\ (last[c] = 0 => e \in due[c])
  BY <1>3 DEF PipelineTypeOK
<1>5. /\ last' \in [Clients -> Nat] /\ token' \in [Clients -> Nat] /\ heard' \in [Clients -> Nat]
      /\ fresh' \in [Clients -> BOOLEAN]
  BY <1>1, <1>2 DEF PipelineTypeOK
<1> QED
  BY <1>1, <1>2, <1>4, <1>5 DEF PipelineTypeOK, SameClient

LEMMA DieEffect ==
  ASSUME Die, PipelineTypeOK
  PROVE  /\ PipelineTypeOK' /\ log' = << >> /\ startFrom' = None
         /\ persisted' = persisted /\ amnesia' = amnesia /\ covered' = covered
         /\ \A c \in Clients :
              /\ heard'[c] = heard[c] /\ fresh'[c] = FALSE /\ last'[c] = 0 /\ due'[c] = {}
              /\ ~skipped'[c] => ~skipped[c] /\ (log = << >> \/ heard[c] = log[Len(log)])
<1>1. skipped' \in [Clients -> BOOLEAN]
      /\ \A c \in Clients :
           ~skipped'[c] => ~skipped[c] /\ (log = << >> \/ heard[c] = log[Len(log)])
  BY DEF Die, PipelineTypeOK
<1>2. due' \in [Clients -> SUBSET Nat] /\ last' \in [Clients -> Nat]
      /\ lagged' \in [Clients -> BOOLEAN] /\ fresh' \in [Clients -> BOOLEAN]
  BY DEF Die
<1>3. /\ UNCHANGED <<heard, token, persisted, amnesia, covered>>
      /\ log' = << >> /\ startFrom' = None
      /\ \A c \in Clients : fresh'[c] = FALSE /\ last'[c] = 0 /\ due'[c] = {}
  BY DEF Die, Crash, envVars
<1> QED
  BY <1>1, <1>2, <1>3 DEF PipelineTypeOK

-----------------------------------------------------------------------------
(* The log and what is covered grow, the client does nothing. *)
LEMMA ConnectionKept ==
  ASSUME NEW c \in Clients, ConnectionInv(c), SameClient(c), log \in Seq(Ids),
         covered \subseteq covered', log' = log \/ \E x \in Ids : log' = Append(log, x)
  PROVE  ConnectionInv(c)'
<1>1. Len(log) \in Nat /\ Len(log') \in Nat /\ Len(log) <= Len(log')
      /\ \A i \in 1 .. Len(log) : log'[i] = log[i]
  <2>1. CASE log' = log
    BY <2>1
  <2>2. CASE \E x \in Ids : log' = Append(log, x)
    BY <2>2
  <2> QED
    BY <2>1, <2>2
<1>2. /\ heard'[c] # 0 => heard'[c] \in covered'
      /\ last'[c] # 0 => fresh'[c] /\ token'[c] = last'[c] /\ heard'[c] # 0 /\ due'[c] # {}
      /\ last'[c] = 0 /\ heard'[c] # 0 =>
           due'[c] \subseteq IF fresh'[c] THEN {token'[c], token'[c] + 1} ELSE {1}
  BY DEF ConnectionInv, SameClient
<1>3. fresh'[c] => token'[c] \in 1 .. Len(log) /\ token'[c] \in 1 .. Len(log')
  BY <1>1 DEF ConnectionInv, SameClient
<1>4. fresh'[c] /\ heard'[c] # 0 => heard'[c] = log'[token'[c]]
  BY <1>1, <1>3 DEF ConnectionInv, SameClient
<1> QED
  BY <1>2, <1>3, <1>4 DEF ConnectionInv

(* Nothing happens but at other clients. *)
LEMMA ClientKept ==
  ASSUME NEW c \in Clients, ConnectionInv(c), WaitingInv(c), SameClient(c), log \in Seq(Ids),
         UNCHANGED <<vars, log>>
  PROVE  ConnectionInv(c)' /\ WaitingInv(c)'
<1>1. covered' = covered /\ log' = log /\ startFrom' = startFrom /\ persisted' = persisted
      /\ amnesia' = amnesia /\ Due' = Due
  BY DEF vars, Due, Reading
<1>2. ConnectionInv(c)'
  BY <1>1, ConnectionKept
<1>3. WaitingInv(c)'
  BY <1>1 DEF WaitingInv, SameClient
<1> QED
  BY <1>2, <1>3

(* An arriving client waits for nothing; one that resumes waits for what   *)
(* it waited for before.                                                   *)
LEMMA ClientStep ==
  ASSUME NEW c \in Clients, PipelineTypeOK, LogInv, ConnectionInv(c), WaitingInv(c),
         Arrive(c) \/ Resume(c) \/ Falter(c) \/ \E e \in 1 .. Len(log) : Get(c, e)
  PROVE  ConnectionInv(c)' /\ WaitingInv(c)'
<1>a. log \in Seq(Ids)
  BY DEF LogInv
<1>b. UNCHANGED <<vars, log>>
  BY DEF Arrive, Resume, Falter, Get
<1>c. covered' = covered /\ log' = log /\ startFrom' = startFrom /\ persisted' = persisted
      /\ amnesia' = amnesia /\ Due' = Due
  BY <1>b DEF vars, Due, Reading
<1>1. CASE Arrive(c)
  <2>1. due[c] = {} /\ last'[c] = last[c] /\ heard'[c] = 0 /\ fresh'[c] = fresh[c]
        /\ token'[c] = token[c]
    BY <1>1, <1>a, ArriveEffect
  <2>2. last[c] = 0
    BY <2>1 DEF ConnectionInv
  <2> QED
    BY <1>c, <2>1, <2>2 DEF ConnectionInv, WaitingInv
<1>2. CASE Resume(c)
  <2>1. /\ due[c] = {} /\ last'[c] = last[c] /\ heard'[c] = heard[c]
        /\ fresh'[c] = fresh[c] /\ token'[c] = token[c] /\ skipped'[c] = skipped[c]
        /\ due'[c] \subseteq IF fresh[c] THEN {token[c], token[c] + 1} ELSE {1}
    BY <1>2, <1>a, ResumeEffect
  <2>2. last[c] = 0
    BY <2>1 DEF ConnectionInv
  <2>3. ConnectionInv(c)'
    BY <1>c, <2>1, <2>2 DEF ConnectionInv
  <2>4. WaitingInv(c)'
    BY <1>c, <2>1 DEF WaitingInv
  <2> QED
    BY <2>3, <2>4
<1>3. CASE Falter(c)
  <2>1. /\ heard'[c] = heard[c] /\ fresh'[c] = fresh[c] /\ token'[c] = token[c]
        /\ skipped'[c] = skipped[c]
        /\ \/ last'[c] = last[c] /\ due'[c] = due[c]
           \/ last'[c] = 0 /\ due'[c] = {}
    BY <1>3, FalterEffect
  <2>2. ConnectionInv(c)'
    BY <1>c, <2>1 DEF ConnectionInv
  <2>3. WaitingInv(c)'
    BY <1>c, <2>1 DEF WaitingInv
  <2> QED
    BY <2>2, <2>3
<1>4. ASSUME NEW e \in 1 .. Len(log), Get(c, e) PROVE ConnectionInv(c)' /\ WaitingInv(c)'
  <2>1. /\ due[c] # {} /\ due'[c] = due[c] /\ last'[c] = e /\ heard'[c] = log[e]
        /\ fresh'[c] = TRUE /\ token'[c] = e
    BY <1>4, <1>a, GetEffect
  <2>2. e # 0 /\ log[e] # 0 /\ log[e] \in covered
    <3>1. log[e] \in Ids /\ e # 0
      BY <1>a, <1>4
    <3>2. 0 \notin Ids
      BY DEF Ids
    <3> QED
      BY <3>1, <3>2 DEF LogInv
  <2>3. ConnectionInv(c)'
    BY <1>c, <2>1, <2>2 DEF ConnectionInv
  <2>4. WaitingInv(c)'
    BY <2>1 DEF WaitingInv
  <2> QED
    BY <2>3, <2>4
<1> QED
  BY <1>1, <1>2, <1>3, <1>4

(* The listener moves on while a client waits. *)
LEMMA WaitingOnPush ==
  ASSUME NEW c \in Clients, ListenerInv, LogInv, PipelineTypeOK, WaitingInv(c), Push
  PROVE  WaitingInv(c)'
<1> SUFFICES ASSUME heard[c] # 0, ~fresh[c], ~skipped[c], ~amnesia
             PROVE  IF log' = << >>
                      THEN /\ persisted # None => Nothing(heard[c], persisted)
                           /\ startFrom # None => Nothing(heard[c], Due')
                      ELSE Nothing(heard[c], log'[1])
  BY PushMoves DEF ListenerInv, WaitingInv, Push, clientVars
<1>a. log \in Seq(Ids) /\ heard[c] \in Nat /\ Ids \subseteq Nat /\ None \notin Ids
  BY NoIdentifiers DEF LogInv, PipelineTypeOK, Ids
<1>b. IF log = << >>
        THEN /\ persisted # None => Nothing(heard[c], persisted)
             /\ startFrom # None => Nothing(heard[c], Due)
        ELSE Nothing(heard[c], log[1])
  BY DEF WaitingInv
<1>1. \/ log' = log /\ Due' = Due
      \/ /\ startFrom \in Ids /\ Due = startFrom /\ Due' = startFrom + 1
         /\ (startFrom \in Opaque /\ log' = log) \/ log' = Append(log, startFrom)
  BY PushMoves DEF ListenerInv
<1>2. CASE log' = log /\ Due' = Due
  BY <1>b, <1>2
<1>3. CASE startFrom \in Ids /\ Due = startFrom /\ Due' = startFrom + 1
           /\ startFrom \in Opaque /\ log' = log
  <2>1. log = << >> => Nothing(heard[c], startFrom + 1)
    BY <1>a, <1>b, <1>3, NothingExtends
  <2> QED
    BY <1>b, <1>3, <2>1
<1>4. CASE startFrom \in Ids /\ Due = startFrom /\ log' = Append(log, startFrom)
  <2>1. log' # << >> /\ log'[1] = IF log = << >> THEN startFrom ELSE log[1]
    BY <1>a, <1>4
  <2> QED
    BY <1>a, <1>b, <1>4, <2>1
<1> QED
  BY <1>1, <1>2, <1>3, <1>4

LEMMA WaitingOnListen ==
  ASSUME NEW c \in Clients, ListenerInv, PipelineTypeOK, ConnectionInv(c), WaitingInv(c), Listen
  PROVE  WaitingInv(c)'
<1>m. /\ (amnesia => amnesia') /\ log' = log
      /\ heard' = heard /\ fresh' = fresh /\ skipped' = skipped
  BY ListenMoves DEF ListenerInv, Listen, clientVars
<1> SUFFICES ASSUME heard[c] # 0, ~fresh[c], ~skipped[c], ~amnesia, log = << >>
             PROVE  /\ persisted' # None => Nothing(heard[c], persisted')
                    /\ startFrom' # None => Nothing(heard[c], Due')
  BY <1>m DEF WaitingInv
<1>a. heard[c] \in Nat /\ heard[c] \in covered
  BY DEF PipelineTypeOK, ConnectionInv
<1>b. /\ persisted # None => Nothing(heard[c], persisted)
      /\ startFrom # None => Nothing(heard[c], Due)
  BY DEF WaitingInv
<1>1. CASE startFrom # None
  <2>1. Due \in Nat /\ Due' \in Nat /\ Due' <= Due /\ persisted' \in {persisted, Due}
    BY <1>1, ListenMoves DEF ListenerInv
  <2>2. Nothing(heard[c], Due')
    BY <1>1, <1>a, <1>b, <2>1, NothingShrinks
  <2> QED
    BY <1>1, <1>b, <2>1, <2>2
<1>2. CASE startFrom = None
  <2>1. Fresh
    BY <1>2, <1>a DEF ListenerInv, CoveredInv
  <2>2. /\ persisted' = persisted
        /\ startFrom' = None \/ (startFrom' = persisted /\ Due' = persisted)
    BY <1>2, <2>1, ListenMoves DEF ListenerInv
  <2> QED
    BY <1>b, <2>2
<1> QED
  BY <1>1, <1>2

(* The proxy dies: where the next process goes on, in Redis, is no later   *)
(* than where this one was, and a client that was up to date has all       *)
(* before that.                                                            *)
LEMMA WaitingOnDie ==
  ASSUME NEW c \in Clients, ListenerInv, LogInv, PipelineTypeOK, ConnectionInv(c),
         WaitingInv(c), Die
  PROVE  WaitingInv(c)'
<1>m. /\ log' = << >> /\ startFrom' = None /\ persisted' = persisted /\ amnesia' = amnesia
      /\ heard'[c] = heard[c]
      /\ ~skipped'[c] => ~skipped[c] /\ (log = << >> \/ heard[c] = log[Len(log)])
  BY DieEffect
<1> SUFFICES ASSUME heard[c] # 0, ~skipped[c], ~amnesia, persisted # None,
                    log = << >> \/ heard[c] = log[Len(log)]
             PROVE  Nothing(heard[c], persisted)
  BY <1>m DEF WaitingInv
<1>1. CASE log = << >>
  <2>1. ~fresh[c]
    BY <1>1 DEF ConnectionInv
  <2> QED
    BY <1>1, <2>1 DEF WaitingInv
<1>2. CASE log # << >>
  <2>1. startFrom # None /\ Nothing(heard[c], Due)
    BY <1>2 DEF LogInv
  <2>2. startFrom \in Nat /\ persisted \in Nat /\ cursor \in Nat /\ heard[c] \in Nat
    BY <2>1 DEF ListenerInv, ListenerTypeOK, PipelineTypeOK, Ids
  <2>3. persisted <= startFrom
    BY <2>1 DEF ListenerInv, CoveredInv
  <2>4. Due \in Nat /\ startFrom <= Due
    <3>1. CASE Reading
      BY <2>1, <2>2, <3>1 DEF ListenerInv, PositionInv, Due
    <3>2. CASE ~Reading
      BY <2>2, <3>2 DEF Due
    <3> QED
      BY <3>1, <3>2
  <2>5. persisted <= Due
    BY <2>2, <2>3, <2>4
  <2> QED
    BY <2>1, <2>2, <2>4, <2>5, NothingShrinks
<1> QED
  BY <1>1, <1>2

-----------------------------------------------------------------------------
LEMMA PipelineInvStep == PipelineInv /\ [PipelineNext]_pipelineVars => PipelineInv'
<1> SUFFICES ASSUME PipelineInv, [PipelineNext]_pipelineVars
             PROVE  PipelineTypeOK' /\ ClientsInv'
  BY PipelineListens, ListenerInvStep, LogInvStep DEF PipelineInv
<1>a. /\ ListenerInv /\ PipelineTypeOK /\ LogInv /\ log \in Seq(Ids)
      /\ ListenerTypeOK /\ PositionInv
      /\ \A c \in Clients : ConnectionInv(c) /\ WaitingInv(c)
  BY DEF PipelineInv, ClientsInv, LogInv, ListenerInv
<1>b. ASSUME UNCHANGED <<due, last, lagged, clientVars>>
      PROVE  PipelineTypeOK' /\ \A c \in Clients : SameClient(c)
  BY <1>a, <1>b DEF PipelineTypeOK, SameClient, clientVars
<1>1. CASE Push
  <2>1. PipelineTypeOK' /\ \A c \in Clients : SameClient(c)
    BY <1>1, <1>b DEF Push
  <2>2. covered \subseteq covered' /\ (log' = log \/ \E x \in Ids : log' = Append(log, x))
    BY <1>1, <1>a, PushMoves
  <2>3. \A c \in Clients : ConnectionInv(c)'
    BY <1>a, <2>1, <2>2, ConnectionKept
  <2>4. \A c \in Clients : WaitingInv(c)'
    BY <1>1, <1>a, WaitingOnPush
  <2> QED
    BY <2>1, <2>3, <2>4 DEF ClientsInv
<1>2. CASE Listen
  <2>1. PipelineTypeOK' /\ \A c \in Clients : SameClient(c)
    BY <1>2, <1>b DEF Listen
  <2>2. covered' = covered /\ log' = log
    BY <1>2, <1>a, ListenMoves DEF Listen
  <2>3. \A c \in Clients : ConnectionInv(c)'
    BY <1>a, <2>1, <2>2, ConnectionKept
  <2>4. \A c \in Clients : WaitingInv(c)'
    BY <1>2, <1>a, WaitingOnListen
  <2> QED
    BY <2>1, <2>3, <2>4 DEF ClientsInv
<1>3. CASE Die
  <2>1. PipelineTypeOK'
    BY <1>3, <1>a, DieEffect
  <2>2. ASSUME NEW c \in Clients PROVE ConnectionInv(c)'
    <3>1. /\ heard'[c] = heard[c] /\ fresh'[c] = FALSE /\ last'[c] = 0 /\ due'[c] = {}
          /\ covered' = covered
      BY <1>3, <1>a, DieEffect
    <3> QED
      BY <1>a, <3>1 DEF ConnectionInv
  <2>3. \A c \in Clients : WaitingInv(c)'
    BY <1>3, <1>a, WaitingOnDie
  <2> QED
    BY <2>1, <2>2, <2>3 DEF ClientsInv
<1>4. ASSUME NEW c \in Clients,
             Arrive(c) \/ Resume(c) \/ Falter(c) \/ \E e \in 1 .. Len(log) : Get(c, e)
      PROVE  PipelineTypeOK' /\ ClientsInv'
  <2>1. UNCHANGED <<vars, log>> /\ PipelineTypeOK' /\ \A d \in Clients \ {c} : SameClient(d)
    BY <1>4, <1>a, ArriveEffect, ResumeEffect, FalterEffect, GetEffect
  <2>2. \A d \in Clients \ {c} : ConnectionInv(d)' /\ WaitingInv(d)'
    BY <1>a, <2>1, ClientKept
  <2>3. ConnectionInv(c)' /\ WaitingInv(c)'
    BY <1>4, <1>a, ClientStep
  <2> QED
    BY <2>1, <2>2, <2>3 DEF ClientsInv
<1>5. CASE UNCHANGED pipelineVars
  <2>1. UNCHANGED <<vars, log>> /\ UNCHANGED <<due, last, lagged, clientVars>>
    BY <1>5 DEF pipelineVars
  <2>2. PipelineTypeOK' /\ \A c \in Clients : SameClient(c)
    BY <1>b, <2>1
  <2>3. \A c \in Clients : ConnectionInv(c)' /\ WaitingInv(c)'
    BY <1>a, <2>1, <2>2, ClientKept
  <2> QED
    BY <2>2, <2>3 DEF ClientsInv
<1> QED
  BY <1>1, <1>2, <1>3, <1>4, <1>5 DEF PipelineNext

LEMMA PipelineInvariant == PipelineSpec => []PipelineInv
<1>1. PipelineInit => PipelineInv
  <2> SUFFICES ASSUME PipelineInit PROVE PipelineInv
    OBVIOUS
  <2>1. ListenerInv
    BY InitListenerInv DEF PipelineInit
  <2>2. PipelineTypeOK /\ log = << >>
    BY DEF PipelineInit, Feed!Init, PipelineTypeOK
  <2>3. LogInv
    BY <2>2 DEF LogInv
  <2>4. ClientsInv
    BY DEF PipelineInit, Feed!Init, ClientsInv, ConnectionInv, WaitingInv
  <2> QED
    BY <2>1, <2>2, <2>3, <2>4 DEF PipelineInv
<1> QED
  BY <1>1, PipelineInvStep, PTL DEF PipelineSpec

(* Only the sending of an event changes what a client was sent last. *)
LEMMA GetsMeansGet ==
  ASSUME PipelineInv, [PipelineNext]_pipelineVars, NEW c \in Clients, Gets(c)
  PROVE  \E e \in 1 .. Len(log) : Get(c, e)
<1>a. last'[c] # 0 /\ last'[c] # last[c] /\ PipelineTypeOK /\ LogInv /\ log \in Seq(Ids)
      /\ \A d \in Clients : ConnectionInv(d)
  BY DEF Gets, PipelineInv, LogInv, ClientsInv
<1>1. CASE Push \/ Listen
  BY <1>1, <1>a DEF Push, Listen
<1>2. CASE Die
  BY <1>2, <1>a, DieEffect
<1>3. ASSUME NEW d \in Clients, Arrive(d) \/ Resume(d) \/ Falter(d)
      PROVE  FALSE
  BY <1>3, <1>a, ArriveEffect, ResumeEffect, FalterEffect DEF SameClient
<1>4. ASSUME NEW d \in Clients, NEW e \in 1 .. Len(log), Get(d, e)
      PROVE  d = c
  <2>1. \A b \in Clients \ {d} : SameClient(b)
    BY <1>4, <1>a, GetEffect
  <2> QED
    BY <1>a, <2>1 DEF SameClient
<1>5. CASE UNCHANGED pipelineVars
  BY <1>5, <1>a DEF pipelineVars
<1> QED
  BY <1>1, <1>2, <1>3, <1>4, <1>5 DEF PipelineNext

(* Within one process a client is never sent an older event than it had    *)
(* last, over any number of reconnects of its own and of the listener.     *)
THEOREM ClientsGoForward == PipelineSpec => ClientsNeverGoBack
<1>1. ASSUME PipelineInv, [PipelineNext]_pipelineVars
      PROVE  \A c \in Clients : Gets(c) /\ fresh[c] => heard'[c] >= heard[c]
  <2> SUFFICES ASSUME NEW c \in Clients, Gets(c), fresh[c] PROVE heard'[c] >= heard[c]
    OBVIOUS
  <2>1. PICK e \in 1 .. Len(log) : Get(c, e)
    BY <1>1, GetsMeansGet
  <2>a. /\ PipelineTypeOK /\ LogInv /\ log \in Seq(Ids) /\ ConnectionInv(c)
        /\ Len(log) \in Nat /\ Ids \subseteq Nat
    BY <1>1 DEF PipelineInv, LogInv, ClientsInv, Ids
  <2>2. heard'[c] = log[e] /\ Feed!InTurn(c, e)
    BY <2>1, <2>a, GetEffect
  <2>3. token[c] \in 1 .. Len(log) /\ heard[c] = log[token[c]] /\ heard[c] # 0
    BY <2>a DEF ConnectionInv, Gets
  <2>4. token[c] <= e
    <3>1. CASE last[c] = 0
      <4>1. due[c] \subseteq {token[c], token[c] + 1}
        BY <2>a, <2>3, <3>1 DEF ConnectionInv
      <4>2. e \in due[c] \/ \E d \in due[c] : e > d
        BY <2>2, <3>1 DEF Feed!InTurn
      <4> QED
        BY <2>a, <2>3, <4>1, <4>2
    <3>2. CASE last[c] # 0
      <4>1. token[c] = last[c]
        BY <2>a, <3>2 DEF ConnectionInv
      <4>2. e = last[c] + 1 \/ e > last[c]
        BY <2>2, <3>2 DEF Feed!InTurn
      <4> QED
        BY <2>a, <2>3, <4>1, <4>2
    <3> QED
      BY <3>1, <3>2
  <2>5. log[token[c]] <= log[e]
    <3>1. token[c] \in 1 .. e
      BY <2>3, <2>4
    <3> QED
      BY <2>a, <3>1 DEF LogInv
  <2>6. log[e] \in Nat /\ log[token[c]] \in Nat
    <3>1. log[e] \in Ids /\ log[token[c]] \in Ids
      BY <2>a, <2>3
    <3> QED
      BY <2>a, <3>1
  <2> QED
    BY <2>2, <2>3, <2>5, <2>6
<1> QED
  BY <1>1, PipelineInvariant, PTL DEF PipelineSpec, ClientsNeverGoBack

(* From one event a client is sent to the next, over any number of         *)
(* reconnects and restarts of the proxy, it misses no event of the node,   *)
(* unless it was told so or the proxy started without its identifier.      *)
THEOREM ClientsMissNone == PipelineSpec => ClientsMissNothing
<1>1. ASSUME PipelineInv, [PipelineNext]_pipelineVars
      PROVE  \A c \in Clients :
               Gets(c) /\ ~skipped'[c] /\ ~amnesia =>
                 heard[c] + 1 .. heard'[c] - 1 \subseteq Opaque
  <2> SUFFICES ASSUME NEW c \in Clients, Gets(c), ~skipped'[c], ~amnesia,
                      NEW k \in heard[c] + 1 .. heard'[c] - 1
               PROVE  k \in Opaque
    OBVIOUS
  <2>1. PICK e \in 1 .. Len(log) : Get(c, e)
    BY <1>1, GetsMeansGet
  <2>a. /\ PipelineTypeOK /\ LogInv /\ log \in Seq(Ids) /\ ConnectionInv(c) /\ WaitingInv(c)
        /\ Len(log) \in Nat /\ heard[c] # 0 /\ heard[c] \in Nat
    BY <1>1 DEF PipelineInv, LogInv, ClientsInv, Gets, PipelineTypeOK
  <2>2. /\ heard'[c] = log[e] /\ Feed!InTurn(c, e) /\ ~skipped[c]
        /\ ~lagged[c] /\ (last[c] = 0 => e \in due[c])
    BY <2>1, <2>a, GetEffect
  <2>3. log[e] \in Ids
    BY <2>a
  <2>4. heard[c] = log[e] \/ Nothing(heard[c], log[e])
    <3>1. ASSUME fresh[c], e = token[c] \/ e = token[c] + 1
          PROVE  heard[c] = log[e] \/ Nothing(heard[c], log[e])
      <4>1. token[c] \in 1 .. Len(log) /\ heard[c] = log[token[c]]
        BY <2>a, <3>1 DEF ConnectionInv
      <4>2. CASE e = token[c] + 1
        <5>1. token[c] + 1 <= Len(log)
          BY <2>a, <4>1, <4>2
        <5> QED
          BY <2>a, <4>1, <4>2, <5>1 DEF LogInv
      <4> QED
        BY <3>1, <4>1, <4>2
    <3>2. CASE last[c] # 0
      <4>1. fresh[c] /\ token[c] = last[c]
        BY <2>a, <3>2 DEF ConnectionInv
      <4>2. e = last[c] + 1
        BY <2>2, <3>2 DEF Feed!InTurn
      <4> QED
        BY <3>1, <4>1, <4>2
    <3>3. CASE last[c] = 0 /\ fresh[c]
      <4>1. due[c] \subseteq {token[c], token[c] + 1}
        BY <2>a, <3>3 DEF ConnectionInv
      <4> QED
        BY <2>2, <3>1, <3>3, <4>1
    <3>4. CASE last[c] = 0 /\ ~fresh[c]
      <4>1. e = 1
        BY <2>2, <2>a, <3>4 DEF ConnectionInv
      <4>2. log # << >>
        BY <2>a
      <4> QED
        BY <2>2, <2>a, <3>4, <4>1, <4>2 DEF WaitingInv
    <3> QED
      BY <3>2, <3>3, <3>4
  <2>5. k \in Ids /\ heard[c] < k /\ k < log[e]
    BY <2>2, <2>3, <2>a, NoIdentifiers DEF Ids
  <2> QED
    BY <2>3, <2>4, <2>5 DEF Nothing, Ids
<1> QED
  BY <1>1, PipelineInvariant, PTL DEF PipelineSpec, ClientsMissNothing
=============================================================================
