-------------------------- MODULE BinaryPoolProofs --------------------------
(***************************************************************************)
(* The safety of the connection pool, for every number of tasks,           *)
(* connections and streams.  The invariants are proved together: who owns  *)
(* a permit or a stream, and what a stream carries in each phase of its    *)
(* owner.  None of them is inductive alone.  From them follow the bound on *)
(* the demand for connections, that the pool implements RequestService,    *)
(* and how often the node executes a request (BinaryPoolExecutions).       *)
(***************************************************************************)
EXTENDS BinaryPoolExecutions, FiniteSetTheorems, TLAPS

(* None is neither a permit nor a stream. *)
LEMMA NoneIsFresh == None \notin Permits /\ None \notin Streams
  BY PoolAssumption

-----------------------------------------------------------------------------
(* How ownership moves.  The lemmas serve permits (the rest are the free   *)
(* ones) and streams (the rest are the closed ones) alike.                 *)

(* A task takes x from the rest: an acquired permit, a dialled stream.     *)
LEMMA TakeFromRest ==
  ASSUME NEW A, None \notin A, NEW r \in SUBSET A, NEW q \in Seq(A),
         NEW h \in [Tasks -> A \cup {None}], NEW t \in Tasks, NEW x \in r,
         h[t] = None, Partitioned(h, q, r, A)
  PROVE  Partitioned([h EXCEPT ![t] = x], q, r \ {x}, A)
  BY DEF Partitioned

(* A task gives what it holds back to the rest: a dropped connection.      *)
LEMMA GiveToRest ==
  ASSUME NEW A, None \notin A, NEW r \in SUBSET A, NEW q \in Seq(A),
         NEW h \in [Tasks -> A \cup {None}], NEW t \in Tasks,
         h[t] # None, Partitioned(h, q, r, A)
  PROVE  Partitioned([h EXCEPT ![t] = None], q, r \cup {h[t]}, A)
  BY DEF Partitioned

(* A task pushes what it holds: return_connection.                         *)
LEMMA PushFromHand ==
  ASSUME NEW A, None \notin A, NEW r \in SUBSET A, NEW q \in Seq(A),
         NEW h \in [Tasks -> A \cup {None}], NEW t \in Tasks,
         h[t] # None, Partitioned(h, q, r, A)
  PROVE  Partitioned([h EXCEPT ![t] = None], Append(q, h[t]), r, A)
  BY DEF Partitioned

(* A task pops the last idle entry: the first half of get_connection.      *)
LEMMA PopToHand ==
  ASSUME NEW A, None \notin A, NEW r \in SUBSET A, NEW q \in Seq(A), q # << >>,
         NEW h \in [Tasks -> A \cup {None}], NEW t \in Tasks,
         h[t] = None, Partitioned(h, q, r, A)
  PROVE  Partitioned([h EXCEPT ![t] = q[Len(q)]], SubSeq(q, 1, Len(q) - 1), r, A)
  BY DEF Partitioned

-----------------------------------------------------------------------------
(* The idle permits and streams follow the pool through a push and a pop.  *)
LEMMA IdleTypes ==
  ASSUME pool \in Seq(Connections)
  PROVE  /\ IdlePermits \in Seq(Permits) /\ Len(IdlePermits) = Len(pool)
         /\ IdleStreams \in Seq(Streams) /\ Len(IdleStreams) = Len(pool)
<1>1. \A i \in 1 .. Len(pool) : pool[i].permit \in Permits /\ pool[i].stream \in Streams
  <2>1. \A i \in 1 .. Len(pool) : pool[i] \in Connections
    OBVIOUS
  <2>2. \A c \in Connections : c.permit \in Permits /\ c.stream \in Streams
    BY DEF Connections
  <2> QED
    BY <2>1, <2>2
<1>2. Len(pool) \in Nat
  OBVIOUS
<1>3. IdlePermits \in Seq(Permits) /\ Len(IdlePermits) = Len(pool)
  BY <1>1, <1>2 DEF IdlePermits
<1>4. IdleStreams \in Seq(Streams) /\ Len(IdleStreams) = Len(pool)
  BY <1>1, <1>2 DEF IdleStreams
<1> QED
  BY <1>3, <1>4

LEMMA IdlePush ==
  ASSUME pool \in Seq(Connections), NEW s \in Streams, NEW p \in Permits,
         pool' = Append(pool, [stream |-> s, permit |-> p])
  PROVE  /\ IdlePermits' = Append(IdlePermits, p)
         /\ IdleStreams' = Append(IdleStreams, s)
  BY IdleTypes DEF IdlePermits, IdleStreams, Connections

LEMMA IdlePop ==
  ASSUME pool \in Seq(Connections), pool # << >>,
         pool' = SubSeq(pool, 1, Len(pool) - 1)
  PROVE  /\ IdlePermits # << >>
         /\ IdlePermits[Len(IdlePermits)] = pool[Len(pool)].permit
         /\ IdlePermits' = SubSeq(IdlePermits, 1, Len(IdlePermits) - 1)
         /\ IdleStreams # << >>
         /\ IdleStreams[Len(IdleStreams)] = pool[Len(pool)].stream
         /\ IdleStreams' = SubSeq(IdleStreams, 1, Len(IdleStreams) - 1)
  BY IdleTypes DEF IdlePermits, IdleStreams, Connections

-----------------------------------------------------------------------------
(* The requests and replies the actions build are of the right kind.       *)
LEMMA RequestTyped ==
  ASSUME NEW t \in Tasks, call \in [Tasks -> 0 .. CallNumbers - 1]
  PROVE  Request(t) \in Requests
  BY DEF Request, Requests

LEMMA NextCallTyped ==
  ASSUME NEW t \in Tasks, call \in [Tasks -> 0 .. CallNumbers - 1]
  PROVE  NextCall(t) \in 0 .. CallNumbers - 1
  BY PoolAssumption DEF NextCall

LEMMA AnsweredTyped ==
  ASSUME NEW t \in Tasks, call \in [Tasks -> 0 .. CallNumbers - 1], got[t] \in Frames
  PROVE  Answered(t) \in Requests
  BY RequestTyped DEF Answered, Frames

LEMMA RewrittenTyped == \A b \in NodeBodies : Rewritten(b) \in ReplyBodies
  BY DEF NodeBodies, Rewritten, ReplyBodies

LEMMA SendReplyTyped ==
  ASSUME NEW t \in Tasks, NEW p \in Payloads, Verdict(p) # "forward",
         call \in [Tasks -> 0 .. CallNumbers - 1]
  PROVE  [ok |-> Verdict(p) # "RequestTooLarge",
          req |-> <<t, NextCall(t)>>, body |-> Verdict(p)] \in Replies
<1>1. Verdict(p) \in ReplyBodies
  BY DEF Verdict, ReplyBodies
<1>2. <<t, NextCall(t)>> \in Requests
  BY NextCallTyped DEF Requests
<1> QED
  BY <1>1, <1>2 DEF Replies

-----------------------------------------------------------------------------
(* What the stream in a task's hand carries.  Before the write it is       *)
(* quiet; afterwards it holds the task's own request, or the answer to it, *)
(* or, once the node hung up, nothing; after the read it is quiet again.   *)
QuietStream(s) == outbox[s] = << >> /\ inbox[s] = << >>

OwnExchange(t, s) ==
  \/ outbox[s] = <<Request(t)>> /\ inbox[s] = << >>
  \/ outbox[s] = << >> /\ inbox[s] = << >>
  \/ outbox[s] = << >> /\ \E f \in Frames : inbox[s] = <<f>> /\ f.req = Request(t)

ExchangeInv ==
  /\ \A s \in Streams : peer[s] = "none" => QuietStream(s)
  /\ \A t \in Tasks : phase[t] \in {"write", "return"} => QuietStream(stream[t])
  /\ \A t \in Tasks : phase[t] = "read" => OwnExchange(t, stream[t])
  /\ \A t \in Tasks : phase[t] = "return" => got[t] \in Frames
  /\ \A t \in Tasks : phase[t] = "done" => reply[t] \in Replies

IInv ==
  /\ TypeOK
  /\ PermitsConserved
  /\ StreamsExclusive
  /\ PooledStreamsQuiet
  /\ ExchangeInv
  /\ AnswersOwnRequest
  /\ RetryOnlyAfterPeerClosed

LEMMA PermitsStep == TypeOK /\ PermitsConserved /\ StreamsExclusive /\ [Next]_vars => PermitsConserved'
<1> SUFFICES ASSUME TypeOK, PermitsConserved, StreamsExclusive, [Next]_vars PROVE PermitsConserved'
  OBVIOUS
<1> DEFINE HasPermit == {"dial"} \cup Holding
<1>a. /\ phase \in [Tasks -> Phases] /\ permit \in [Tasks -> Permits \cup {None}]
      /\ free \in SUBSET Permits /\ pool \in Seq(Connections)
      /\ IdlePermits \in Seq(Permits) /\ None \notin Permits
  BY IdleTypes, NoneIsFresh DEF TypeOK, TasksTypeOK, PoolTypeOK
<1>b. /\ \A t \in Tasks : permit[t] # None <=> phase[t] \in HasPermit
      /\ Partitioned(permit, IdlePermits, free, Permits)
  BY DEF PermitsConserved
<1>c. \A t \in Tasks : phase[t] \in Holding => stream[t] \in Streams
  BY DEF StreamsExclusive, TypeOK, TasksTypeOK
<1>1. ASSUME NEW t \in Tasks, PopHit(t) PROVE PermitsConserved'
  <2>1. Partitioned(permit', IdlePermits', free', Permits)
    <3>1. pool # << >> /\ pool' = SubSeq(pool, 1, Len(pool) - 1)
      BY <1>1 DEF PopHit
    <3>2. permit[t] = None
      BY <1>b, <1>1 DEF PopHit, Holding
    <3>3. permit' = [permit EXCEPT ![t] = IdlePermits[Len(IdlePermits)]] /\ free' = free
      BY <1>a, <1>1, <3>1, IdlePop DEF PopHit
    <3>4. /\ IdlePermits # << >>
          /\ IdlePermits' = SubSeq(IdlePermits, 1, Len(IdlePermits) - 1)
      BY <1>a, <3>1, IdlePop
    <3>5. Partitioned([permit EXCEPT ![t] = IdlePermits[Len(IdlePermits)]],
                      SubSeq(IdlePermits, 1, Len(IdlePermits) - 1), free, Permits)
      BY <1>a, <1>b, <3>2, <3>4, PopToHand
    <3> QED
      BY <3>3, <3>4, <3>5
  <2>2. \A u \in Tasks : permit'[u] # None <=> phase'[u] \in HasPermit
    <3>1. pool[Len(pool)] \in Connections
      BY <1>a, <1>1 DEF PopHit
    <3> QED
      BY <3>1, <1>a, <1>b, <1>1 DEF PopHit, Goto, Holding, Connections
  <2> QED
    BY <2>1, <2>2 DEF PermitsConserved
<1>2. ASSUME NEW t \in Tasks, Acquire(t) PROVE PermitsConserved'
  <2>1. Partitioned(permit', IdlePermits', free', Permits)
    <3> PICK p \in free : free' = free \ {p} /\ permit' = [permit EXCEPT ![t] = p]
      BY <1>2 DEF Acquire
    <3>1. IdlePermits' = IdlePermits
      BY <1>2 DEF Acquire, IdlePermits
    <3> QED
      BY <1>a, <1>b, <1>2, <3>1, TakeFromRest DEF Acquire, Holding
  <2>2. \A u \in Tasks : permit'[u] # None <=> phase'[u] \in HasPermit
    BY <1>a, <1>b, <1>2 DEF Acquire, Goto, Holding
  <2> QED
    BY <2>1, <2>2 DEF PermitsConserved
<1>3. ASSUME NEW t \in Tasks, phase[t] \in HasPermit, phase' = [phase EXCEPT ![t] = "done"],
             free' = free \cup {permit[t]}, permit' = [permit EXCEPT ![t] = None], pool' = pool
      PROVE  PermitsConserved'
  <2>1. Partitioned(permit', IdlePermits', free', Permits)
    <3>1. IdlePermits' = IdlePermits
      BY <1>3 DEF IdlePermits
    <3> QED
      BY <1>a, <1>b, <1>3, <3>1, GiveToRest
  <2>2. \A u \in Tasks : permit'[u] # None <=> phase'[u] \in HasPermit
    BY <1>a, <1>b, <1>3 DEF Holding
  <2> QED
    BY <2>1, <2>2 DEF PermitsConserved
<1>4. ASSUME NEW t \in Tasks, Return(t) PROVE PermitsConserved'
  <2>1. Partitioned(permit', IdlePermits', free', Permits)
    <3>1. permit[t] \in Permits /\ stream[t] \in Streams
      BY <1>a, <1>b, <1>c, <1>4 DEF Return, Holding
    <3>2. IdlePermits' = Append(IdlePermits, permit[t])
      BY <1>a, <1>4, <3>1, IdlePush DEF Return
    <3> QED
      BY <1>a, <1>b, <1>4, <3>1, <3>2, PushFromHand DEF Return
  <2>2. \A u \in Tasks : permit'[u] # None <=> phase'[u] \in HasPermit
    BY <1>a, <1>b, <1>4 DEF Return, Finish, Goto, Holding
  <2> QED
    BY <2>1, <2>2 DEF PermitsConserved
<1>5. ASSUME UNCHANGED <<permit, free, pool>>,
             \A u \in Tasks : phase'[u] \in HasPermit <=> phase[u] \in HasPermit
      PROVE  PermitsConserved'
  BY <1>b, <1>5 DEF PermitsConserved, IdlePermits
<1>6. ASSUME NEW t \in Tasks, NEW p \in Payloads, Send(t, p) PROVE PermitsConserved'
  BY <1>a, <1>5, <1>6 DEF Send, Goto, Holding, poolVars
<1>7. ASSUME NEW t \in Tasks,
             PopMiss(t) \/ DialOk(t) \/ WriteOk(t) \/ ReadOk(t) \/ RedialOk(t) \/ Deliver(t)
      PROVE  PermitsConserved'
  BY <1>a, <1>5, <1>7
  DEF PopMiss, DialOk, WriteOk, ReadOk, RedialOk, Deliver, Goto, Holding, poolVars
<1>8. ASSUME NEW t \in Tasks, DialFails(t) \/ RedialFails(t) PROVE PermitsConserved'
  BY <1>3, <1>8 DEF DialFails, RedialFails, DropConnection, Finish, Goto, Holding
<1>9. ASSUME NEW t \in Tasks, NEW k \in ErrorKinds, Retry(t, k) PROVE PermitsConserved'
  BY <1>a, <1>5, <1>9 DEF Retry, Error, Goto, Holding, poolVars
<1>10. ASSUME NEW t \in Tasks, NEW k \in ErrorKinds, Fail(t, k) PROVE PermitsConserved'
  BY <1>3, <1>10 DEF Fail, Error, DropConnection, Finish, Goto, Holding
<1>11. ASSUME NEW s \in Streams, NodeStep(s) PROVE PermitsConserved'
  BY <1>5, <1>11 DEF NodeStep, NodeAnswers, NodeCloses, NodeResets, taskVars, poolVars
<1>12. ASSUME UNCHANGED vars PROVE PermitsConserved'
  BY <1>5, <1>12 DEF vars, taskVars, poolVars
<1> QED
  BY <1>1, <1>2, <1>4, <1>6, <1>7, <1>8, <1>9, <1>10, <1>11, <1>12 DEF Next, TaskStep, ErrorStep

LEMMA StreamsStep == TypeOK /\ PermitsConserved /\ StreamsExclusive /\ [Next]_vars => StreamsExclusive'
<1> SUFFICES ASSUME TypeOK, PermitsConserved, StreamsExclusive, [Next]_vars PROVE StreamsExclusive'
  OBVIOUS
<1>a. /\ phase \in [Tasks -> Phases] /\ stream \in [Tasks -> Streams \cup {None}]
      /\ peer \in [Streams -> PeerStates] /\ pool \in Seq(Connections)
      /\ IdleStreams \in Seq(Streams) /\ Closed \in SUBSET Streams /\ None \notin Streams
  BY IdleTypes, NoneIsFresh DEF TypeOK, TasksTypeOK, PoolTypeOK, StreamsTypeOK, Closed
<1>b. /\ \A t \in Tasks : stream[t] # None <=> phase[t] \in Holding
      /\ Partitioned(stream, IdleStreams, Closed, Streams)
  BY DEF StreamsExclusive
<1>c. \A t \in Tasks : phase[t] \in Holding => permit[t] \in Permits
  BY DEF PermitsConserved, TypeOK, TasksTypeOK
<1>1. ASSUME NEW t \in Tasks, PopHit(t) PROVE StreamsExclusive'
  <2>1. Partitioned(stream', IdleStreams', Closed', Streams)
    <3>1. pool # << >> /\ pool' = SubSeq(pool, 1, Len(pool) - 1)
      BY <1>1 DEF PopHit
    <3>2. stream[t] = None
      BY <1>b, <1>1 DEF PopHit, Holding
    <3>3. stream' = [stream EXCEPT ![t] = IdleStreams[Len(IdleStreams)]] /\ Closed' = Closed
      BY <1>a, <1>1, <3>1, IdlePop DEF PopHit, netVars, Closed
    <3>4. /\ IdleStreams # << >>
          /\ IdleStreams' = SubSeq(IdleStreams, 1, Len(IdleStreams) - 1)
      BY <1>a, <3>1, IdlePop
    <3>5. Partitioned([stream EXCEPT ![t] = IdleStreams[Len(IdleStreams)]],
                      SubSeq(IdleStreams, 1, Len(IdleStreams) - 1), Closed, Streams)
      BY <1>a, <1>b, <3>2, <3>4, PopToHand
    <3> QED
      BY <3>3, <3>4, <3>5
  <2>2. \A u \in Tasks : stream'[u] # None <=> phase'[u] \in Holding
    <3>1. pool[Len(pool)] \in Connections
      BY <1>a, <1>1 DEF PopHit
    <3> QED
      BY <3>1, <1>a, <1>b, <1>1 DEF PopHit, Goto, Holding, Connections
  <2> QED
    BY <2>1, <2>2 DEF StreamsExclusive
<1>2. ASSUME NEW t \in Tasks, DialOk(t) PROVE StreamsExclusive'
  <2> PICK s \in Streams : /\ peer[s] = "none"
                           /\ peer' = [peer EXCEPT ![s] = "open"]
                           /\ stream' = [stream EXCEPT ![t] = s]
    BY <1>2 DEF DialOk
  <2>1. Partitioned(stream', IdleStreams', Closed', Streams)
    <3>1. IdleStreams' = IdleStreams
      BY <1>2 DEF DialOk, poolVars, IdleStreams
    <3>2. s \in Closed /\ Closed' = Closed \ {s}
      BY <1>a DEF Closed
    <3>3. stream[t] = None
      BY <1>b, <1>2 DEF DialOk, Holding
    <3>4. Partitioned([stream EXCEPT ![t] = s], IdleStreams, Closed \ {s}, Streams)
      BY <1>a, <1>b, <3>2, <3>3, TakeFromRest
    <3> QED
      BY <3>1, <3>2, <3>4
  <2>2. \A u \in Tasks : stream'[u] # None <=> phase'[u] \in Holding
    BY <1>a, <1>b, <1>2 DEF DialOk, Goto, Holding
  <2> QED
    BY <2>1, <2>2 DEF StreamsExclusive
<1>3. ASSUME NEW t \in Tasks, phase[t] \in Holding, DropConnection(t), Goto(t, "done")
      PROVE  StreamsExclusive'
  <2>1. Partitioned(stream', IdleStreams', Closed', Streams)
    <3>1. IdleStreams' = IdleStreams
      BY <1>3 DEF DropConnection, IdleStreams
    <3>2. stream[t] # None /\ stream[t] \in Streams
      BY <1>a, <1>b, <1>3
    <3>3. Closed' = Closed \cup {stream[t]}
      BY <1>a, <1>3, <3>2 DEF DropConnection, CloseStream, Closed
    <3>4. Partitioned([stream EXCEPT ![t] = None], IdleStreams, Closed \cup {stream[t]}, Streams)
      BY <1>a, <1>b, <3>2, GiveToRest
    <3> QED
      BY <1>3, <3>1, <3>3, <3>4 DEF DropConnection
  <2>2. \A u \in Tasks : stream'[u] # None <=> phase'[u] \in Holding
    BY <1>a, <1>b, <1>3 DEF DropConnection, Goto, Holding
  <2> QED
    BY <2>1, <2>2 DEF StreamsExclusive
<1>4. ASSUME NEW t \in Tasks, RedialOk(t) PROVE StreamsExclusive'
  <2> DEFINE old == stream[t]
             bare == [stream EXCEPT ![t] = None]
  <2> PICK s \in Streams : /\ peer[s] = "none"
                           /\ stream' = [stream EXCEPT ![t] = s]
                           /\ peer' = [peer EXCEPT ![s] = "open", ![old] = "none"]
    BY <1>4 DEF RedialOk
  <2>1. Partitioned(stream', IdleStreams', Closed', Streams)
    <3>1. IdleStreams' = IdleStreams
      BY <1>4 DEF RedialOk, poolVars, IdleStreams
    <3>2. old # None /\ old \in Streams /\ old \notin Closed
      BY <1>a, <1>b, <1>4 DEF RedialOk, Holding, Partitioned
    <3>3. s \in Closed /\ Closed' = (Closed \cup {old}) \ {s}
      BY <1>a, <3>2 DEF Closed
    <3>4. Partitioned(bare, IdleStreams, Closed \cup {old}, Streams)
      BY <1>a, <1>b, <3>2, GiveToRest
    <3>5. /\ bare \in [Tasks -> Streams \cup {None}] /\ bare[t] = None
          /\ Closed \cup {old} \in SUBSET Streams
      BY <1>a, <3>2
    <3>6. Partitioned([bare EXCEPT ![t] = s], IdleStreams, (Closed \cup {old}) \ {s}, Streams)
      BY <1>a, <3>3, <3>4, <3>5, TakeFromRest
    <3>7. stream' = [bare EXCEPT ![t] = s]
      BY <1>a
    <3> QED
      BY <3>1, <3>3, <3>6, <3>7
  <2>2. \A u \in Tasks : stream'[u] # None <=> phase'[u] \in Holding
    BY <1>a, <1>b, <1>4 DEF RedialOk, Goto, Holding
  <2> QED
    BY <2>1, <2>2 DEF StreamsExclusive
<1>5. ASSUME NEW t \in Tasks, Return(t) PROVE StreamsExclusive'
  <2>1. Partitioned(stream', IdleStreams', Closed', Streams)
    <3>1. permit[t] \in Permits /\ stream[t] \in Streams /\ stream[t] # None
      BY <1>a, <1>b, <1>c, <1>5 DEF Return, Holding
    <3>2. IdleStreams' = Append(IdleStreams, stream[t])
      BY <1>a, <1>5, <3>1, IdlePush DEF Return
    <3>3. Closed' = Closed
      BY <1>5 DEF Return, netVars, Closed
    <3>4. Partitioned([stream EXCEPT ![t] = None], Append(IdleStreams, stream[t]), Closed, Streams)
      BY <1>a, <1>b, <3>1, PushFromHand
    <3> QED
      BY <1>5, <3>2, <3>3, <3>4 DEF Return
  <2>2. \A u \in Tasks : stream'[u] # None <=> phase'[u] \in Holding
    BY <1>a, <1>b, <1>5 DEF Return, Finish, Goto, Holding
  <2> QED
    BY <2>1, <2>2 DEF StreamsExclusive
<1>6. ASSUME UNCHANGED <<stream, pool>>, Closed' = Closed,
             \A u \in Tasks : phase'[u] \in Holding <=> phase[u] \in Holding
      PROVE  StreamsExclusive'
  BY <1>b, <1>6 DEF StreamsExclusive, IdleStreams
<1>7. ASSUME NEW t \in Tasks, NEW p \in Payloads, Send(t, p) PROVE StreamsExclusive'
  BY <1>a, <1>6, <1>7 DEF Send, Goto, Holding, poolVars, netVars, Closed
<1>8. ASSUME NEW t \in Tasks,
             PopMiss(t) \/ Acquire(t) \/ DialFails(t) \/ WriteOk(t) \/ ReadOk(t) \/ Deliver(t)
      PROVE  StreamsExclusive'
  BY <1>a, <1>6, <1>8
  DEF PopMiss, Acquire, DialFails, WriteOk, ReadOk, Deliver, Finish, Goto, Holding, poolVars, netVars, Closed
<1>9. ASSUME NEW t \in Tasks, RedialFails(t) PROVE StreamsExclusive'
  BY <1>3, <1>9 DEF RedialFails, Finish, Holding
<1>10. ASSUME NEW t \in Tasks, NEW k \in ErrorKinds, Retry(t, k) PROVE StreamsExclusive'
  BY <1>a, <1>6, <1>10 DEF Retry, Error, Goto, Holding, poolVars, netVars, Closed
<1>11. ASSUME NEW t \in Tasks, NEW k \in ErrorKinds, Fail(t, k) PROVE StreamsExclusive'
  BY <1>3, <1>11 DEF Fail, Error, Finish, Holding
<1>12. ASSUME NEW s \in Streams, NodeStep(s) PROVE StreamsExclusive'
  <2>1. Closed' = Closed
    BY <1>a, <1>12 DEF NodeStep, NodeAnswers, NodeCloses, NodeResets, Closed
  <2> QED
    BY <1>6, <1>12, <2>1 DEF NodeStep, NodeAnswers, NodeCloses, NodeResets, taskVars, poolVars
<1>13. ASSUME UNCHANGED vars PROVE StreamsExclusive'
  BY <1>6, <1>13 DEF vars, taskVars, poolVars, netVars, Closed
<1> QED
  BY <1>1, <1>2, <1>4, <1>5, <1>7, <1>8, <1>9, <1>10, <1>11, <1>12, <1>13
  DEF Next, TaskStep, ErrorStep

-----------------------------------------------------------------------------
(* What exclusive ownership means for a step on one stream: the streams in *)
(* other hands and in the pool are other streams.                          *)
LEMMA StreamsSeparate ==
  ASSUME TypeOK, StreamsExclusive
  PROVE  /\ \A t \in Tasks : phase[t] \in Holding =>
              stream[t] \in Streams /\ peer[stream[t]] # "none"
         /\ \A t, u \in Tasks : t # u /\ phase[t] \in Holding => stream[t] # stream[u]
         /\ \A i \in 1 .. Len(pool) :
              /\ pool[i].stream \in Streams
              /\ peer[pool[i].stream] # "none"
              /\ \A t \in Tasks : pool[i].stream # stream[t]
<1>1. /\ stream \in [Tasks -> Streams \cup {None}] /\ pool \in Seq(Connections)
      /\ IdleStreams \in Seq(Streams) /\ Len(IdleStreams) = Len(pool)
      /\ \A i \in 1 .. Len(pool) : IdleStreams[i] = pool[i].stream
  BY IdleTypes DEF TypeOK, TasksTypeOK, PoolTypeOK, IdleStreams
<1>2. \A i \in 1 .. Len(pool) : IdleStreams[i] \in Streams
  BY <1>1
<1> QED
  BY <1>1, <1>2 DEF StreamsExclusive, Partitioned, Closed

LEMMA QuietStep ==
  TypeOK /\ StreamsExclusive /\ PooledStreamsQuiet /\ ExchangeInv /\ [Next]_vars
    => PooledStreamsQuiet'
<1> SUFFICES ASSUME TypeOK, StreamsExclusive, PooledStreamsQuiet, ExchangeInv, [Next]_vars
             PROVE  PooledStreamsQuiet'
  OBVIOUS
<1>a. /\ pool \in Seq(Connections)
      /\ outbox \in [Streams -> Seq(Requests)] /\ inbox \in [Streams -> Seq(Frames)]
  BY DEF TypeOK, PoolTypeOK, StreamsTypeOK
<1>b. \A i \in 1 .. Len(pool) : outbox[pool[i].stream] = << >> /\ inbox[pool[i].stream] = << >>
  BY DEF PooledStreamsQuiet
<1>1. ASSUME NEW t \in Tasks, PopHit(t) PROVE PooledStreamsQuiet'
  BY <1>a, <1>b, <1>1 DEF PopHit, PooledStreamsQuiet, netVars
<1>2. ASSUME NEW t \in Tasks, Return(t) PROVE PooledStreamsQuiet'
  <2>1. QuietStream(stream[t])
    BY <1>2 DEF Return, ExchangeInv
  <2>2. /\ Len(pool') = Len(pool) + 1
        /\ pool'[Len(pool) + 1].stream = stream[t]
        /\ \A i \in 1 .. Len(pool) : pool'[i] = pool[i]
    BY <1>a, <1>2 DEF Return
  <2> QED
    BY <1>a, <1>b, <1>2, <2>1, <2>2 DEF Return, netVars, PooledStreamsQuiet, QuietStream
<1>3. ASSUME pool' = pool,
             \A i \in 1 .. Len(pool) : /\ outbox'[pool[i].stream] = << >>
                                      /\ inbox'[pool[i].stream] = << >>
      PROVE  PooledStreamsQuiet'
  BY <1>3 DEF PooledStreamsQuiet
<1>4. ASSUME NEW t \in Tasks, DropConnection(t) PROVE PooledStreamsQuiet'
  BY <1>a, <1>b, <1>3, <1>4, StreamsSeparate DEF DropConnection, CloseStream
<1>5. ASSUME NEW t \in Tasks, WriteOk(t) \/ ReadOk(t) \/ RedialOk(t) PROVE PooledStreamsQuiet'
  BY <1>a, <1>b, <1>3, <1>5, StreamsSeparate DEF WriteOk, ReadOk, RedialOk, poolVars
<1>6. ASSUME UNCHANGED <<pool, outbox, inbox>> PROVE PooledStreamsQuiet'
  BY <1>b, <1>3, <1>6
<1>7. ASSUME NEW s \in Streams, NodeStep(s) PROVE PooledStreamsQuiet'
  <2>1. CASE NodeAnswers(s)
    BY <1>a, <1>b, <1>3, <2>1, StreamsSeparate DEF NodeAnswers, poolVars
  <2>2. CASE NodeCloses(s) \/ NodeResets(s)
    BY <1>a, <1>b, <1>3, <2>2, StreamsSeparate DEF NodeCloses, NodeResets, poolVars
  <2> QED
    BY <1>7, <2>1, <2>2 DEF NodeStep
<1>8. ASSUME NEW t \in Tasks, PopMiss(t) \/ Acquire(t) \/ DialOk(t) \/ DialFails(t) \/ Deliver(t)
      PROVE  PooledStreamsQuiet'
  BY <1>6, <1>8 DEF PopMiss, Acquire, DialOk, DialFails, Deliver, poolVars, netVars
<1>9. ASSUME NEW t \in Tasks, NEW k \in ErrorKinds, Retry(t, k) PROVE PooledStreamsQuiet'
  BY <1>6, <1>9 DEF Retry, poolVars, netVars
<1>10. ASSUME NEW t \in Tasks, NEW p \in Payloads, Send(t, p) PROVE PooledStreamsQuiet'
  BY <1>6, <1>10 DEF Send, poolVars, netVars
<1>11. ASSUME UNCHANGED vars PROVE PooledStreamsQuiet'
  BY <1>6, <1>11 DEF vars, poolVars, netVars
<1> QED
  BY <1>1, <1>2, <1>4, <1>5, <1>7, <1>8, <1>9, <1>10, <1>11
  DEF Next, TaskStep, ErrorStep, RedialFails, Fail

(* A step that leaves the streams of the other tasks and the closed        *)
(* streams as they are only has to account for its own.                    *)
LEMMA ExchangeStep ==
  TypeOK /\ StreamsExclusive /\ PooledStreamsQuiet /\ ExchangeInv /\ [Next]_vars => ExchangeInv'
<1> SUFFICES ASSUME TypeOK, StreamsExclusive, PooledStreamsQuiet, ExchangeInv, [Next]_vars
             PROVE  ExchangeInv'
  OBVIOUS
<1> DEFINE Own(t) ==
      /\ phase[t] \in {"write", "return"} => QuietStream(stream[t])
      /\ phase[t] = "read" => OwnExchange(t, stream[t])
      /\ phase[t] = "return" => got[t] \in Frames
      /\ phase[t] = "done" => reply[t] \in Replies
<1> DEFINE ClosedQuiet == \A s \in Streams : peer[s] = "none" => QuietStream(s)
<1>a. /\ phase \in [Tasks -> Phases] /\ call \in [Tasks -> 0 .. CallNumbers - 1]
      /\ stream \in [Tasks -> Streams \cup {None}]
      /\ got \in [Tasks -> Frames \cup {None}] /\ reply \in [Tasks -> Replies \cup {None}]
      /\ pool \in Seq(Connections) /\ peer \in [Streams -> PeerStates]
      /\ outbox \in [Streams -> Seq(Requests)] /\ inbox \in [Streams -> Seq(Frames)]
  BY DEF TypeOK, TasksTypeOK, PoolTypeOK, StreamsTypeOK
<1>b. ClosedQuiet /\ \A t \in Tasks : Own(t)
  BY DEF ExchangeInv
<1>c. SUFFICES ClosedQuiet' /\ \A t \in Tasks : Own(t)'
  BY <1>c DEF ExchangeInv
<1>d. ASSUME NEW u \in Tasks, phase'[u] = phase[u], stream'[u] = stream[u], call'[u] = call[u],
             got'[u] = got[u], reply'[u] = reply[u],
             phase[u] \in Holding => /\ outbox'[stream[u]] = outbox[stream[u]]
                                     /\ inbox'[stream[u]] = inbox[stream[u]]
      PROVE  Own(u)'
  BY <1>b, <1>d DEF QuietStream, OwnExchange, Request, Holding
<1>f. ASSUME NEW t \in Tasks, UNCHANGED netVars,
             \A u \in Tasks \ {t} : /\ phase'[u] = phase[u] /\ stream'[u] = stream[u]
                                    /\ call'[u] = call[u] /\ got'[u] = got[u] /\ reply'[u] = reply[u],
             phase'[t] \notin {"write", "read", "return"},
             phase'[t] = "done" => reply'[t] \in Replies
      PROVE  ClosedQuiet' /\ \A u \in Tasks : Own(u)'
  <2>1. ClosedQuiet'
    BY <1>b, <1>f DEF netVars, QuietStream
  <2>2. \A u \in Tasks \ {t} : Own(u)'
    BY <1>d, <1>f DEF netVars
  <2> QED
    BY <1>f, <2>1, <2>2
<1>1. ASSUME NEW t \in Tasks, PopHit(t) PROVE ClosedQuiet' /\ \A u \in Tasks : Own(u)'
  <2>1. Len(pool) \in 1 .. Len(pool)
    BY <1>a, <1>1 DEF PopHit
  <2>2. QuietStream(stream'[t])
    BY <1>a, <1>1, <2>1 DEF PopHit, PooledStreamsQuiet, QuietStream
  <2> QED
    BY <1>a, <1>b, <1>1, <2>2
    DEF PopHit, Goto, QuietStream, OwnExchange, Request, netVars
<1>2. ASSUME NEW t \in Tasks, DialOk(t) PROVE ClosedQuiet' /\ \A u \in Tasks : Own(u)'
  <2> PICK s \in Streams : /\ peer[s] = "none"
                           /\ peer' = [peer EXCEPT ![s] = "open"]
                           /\ stream' = [stream EXCEPT ![t] = s]
    BY <1>2 DEF DialOk
  <2> QED
    <3>1. QuietStream(s) /\ UNCHANGED <<outbox, inbox>>
      BY <1>b, <1>2 DEF DialOk
    <3>2. \A u \in Tasks \ {t} : Own(u)'
      <4>1. \A u \in Tasks \ {t} : phase'[u] = phase[u] /\ stream'[u] = stream[u]
        BY <1>a, <1>2 DEF DialOk, Goto
      <4> QED
        BY <1>d, <1>2, <3>1, <4>1 DEF DialOk
    <3>3. ClosedQuiet'
      BY <1>a, <1>b, <3>1 DEF QuietStream
    <3>4. phase'[t] = "write" /\ stream'[t] = s
      BY <1>a, <1>2 DEF DialOk, Goto
    <3> QED
      BY <3>1, <3>2, <3>3, <3>4 DEF QuietStream
<1>3. ASSUME NEW t \in Tasks, WriteOk(t) PROVE ClosedQuiet' /\ \A u \in Tasks : Own(u)'
  <2>1. stream[t] \in Streams /\ QuietStream(stream[t]) /\ peer[stream[t]] # "none"
    BY <1>b, <1>3, StreamsSeparate DEF WriteOk, Holding
  <2>2. OwnExchange(t, stream[t])'
    BY <1>a, <1>3, <2>1 DEF WriteOk, OwnExchange, QuietStream, Request
  <2>3. \A s \in Streams : s # stream[t] => outbox'[s] = outbox[s] /\ inbox'[s] = inbox[s]
    BY <1>a, <1>3 DEF WriteOk
  <2>4. \A u \in Tasks \ {t} : Own(u)'
    BY <1>a, <1>d, <1>3, <2>3, StreamsSeparate DEF WriteOk, Goto
  <2> QED
    BY <1>a, <1>b, <1>3, <2>1, <2>2, <2>3, <2>4 DEF WriteOk, Goto, QuietStream
<1>4. ASSUME NEW t \in Tasks, ReadOk(t) PROVE ClosedQuiet' /\ \A u \in Tasks : Own(u)'
  <2>1. stream[t] \in Streams /\ peer[stream[t]] # "none" /\ OwnExchange(t, stream[t])
    BY <1>b, <1>4, StreamsSeparate DEF ReadOk, Holding
  <2>2. PICK f \in Frames : inbox[stream[t]] = <<f>>
    BY <1>4, <2>1 DEF ReadOk, OwnExchange
  <2>3. QuietStream(stream[t])' /\ got'[t] = f
    BY <1>a, <1>4, <2>1, <2>2 DEF ReadOk, OwnExchange, QuietStream
  <2>4. \A s \in Streams : s # stream[t] => outbox'[s] = outbox[s] /\ inbox'[s] = inbox[s]
    BY <1>a, <1>4 DEF ReadOk
  <2>5. \A u \in Tasks \ {t} : Own(u)'
    BY <1>a, <1>d, <1>4, <2>4, StreamsSeparate DEF ReadOk, Goto
  <2> QED
    BY <1>a, <1>b, <1>4, <2>1, <2>3, <2>4, <2>5 DEF ReadOk, Goto, QuietStream
<1>5. ASSUME NEW t \in Tasks, RedialOk(t) PROVE ClosedQuiet' /\ \A u \in Tasks : Own(u)'
  <2> PICK s \in Streams : /\ peer[s] = "none"
                           /\ stream' = [stream EXCEPT ![t] = s]
                           /\ peer' = [peer EXCEPT ![s] = "open", ![stream[t]] = "none"]
    BY <1>5 DEF RedialOk
  <2>1. stream[t] \in Streams /\ peer[stream[t]] # "none"
    BY <1>5, StreamsSeparate DEF RedialOk, Holding
  <2>2. /\ \A x \in Streams : x # stream[t] => outbox'[x] = outbox[x] /\ inbox'[x] = inbox[x]
        /\ outbox'[stream[t]] = << >> /\ inbox'[stream[t]] = << >>
    BY <1>a, <1>5, <2>1 DEF RedialOk
  <2>3. \A u \in Tasks \ {t} : Own(u)'
    <3>1. /\ UNCHANGED <<call, got, reply>>
          /\ \A u \in Tasks \ {t} : phase'[u] = phase[u] /\ stream'[u] = stream[u]
      BY <1>a, <1>5 DEF RedialOk, Goto
    <3> QED
      BY <1>d, <2>2, <3>1, StreamsSeparate
  <2>4. ClosedQuiet'
    BY <1>a, <1>b, <2>1, <2>2 DEF QuietStream
  <2>5. QuietStream(stream[t])'
    BY <1>a, <1>b, <2>1, <2>2 DEF QuietStream
  <2> QED
    BY <1>a, <1>5, <2>3, <2>4, <2>5 DEF RedialOk, Goto
<1>6. ASSUME NEW t \in Tasks, phase[t] \in Holding, DropConnection(t),
             Finish(t, FALSE, Request(t), "Io"), UNCHANGED <<call, got>>
      PROVE  ClosedQuiet' /\ \A u \in Tasks : Own(u)'
  <2>1. stream[t] \in Streams
    BY <1>6, StreamsSeparate
  <2>2. /\ \A x \in Streams : x # stream[t] => outbox'[x] = outbox[x] /\ inbox'[x] = inbox[x]
        /\ outbox'[stream[t]] = << >> /\ inbox'[stream[t]] = << >>
    BY <1>a, <1>6, <2>1 DEF DropConnection, CloseStream
  <2>3. \A u \in Tasks \ {t} : Own(u)'
    <3>1. \A u \in Tasks \ {t} : /\ phase'[u] = phase[u] /\ stream'[u] = stream[u]
                                  /\ call'[u] = call[u] /\ got'[u] = got[u] /\ reply'[u] = reply[u]
      BY <1>a, <1>6 DEF DropConnection, Finish, Goto
    <3> QED
      BY <1>d, <2>2, <3>1, StreamsSeparate
  <2>4. ClosedQuiet'
    BY <1>a, <1>b, <1>6, <2>1, <2>2 DEF DropConnection, CloseStream, QuietStream
  <2>5. reply'[t] \in Replies
    BY <1>a, <1>6, RequestTyped DEF Finish, Replies, ReplyBodies
  <2> QED
    BY <1>a, <1>6, <2>3, <2>4, <2>5 DEF Finish, Goto
<1>7. ASSUME NEW t \in Tasks, Return(t) PROVE ClosedQuiet' /\ \A u \in Tasks : Own(u)'
  <2>1. got[t] \in Frames
    BY <1>b, <1>7 DEF Return
  <2>2. reply'[t] \in Replies
    BY <1>a, <1>7, <2>1, RewrittenTyped, AnsweredTyped DEF Return, Finish, Frames, Replies
  <2> QED
    BY <1>a, <1>f, <1>7, <2>2 DEF Return, Finish, Goto
<1>8. ASSUME NEW t \in Tasks, DialFails(t) PROVE ClosedQuiet' /\ \A u \in Tasks : Own(u)'
  <2>1. reply'[t] \in Replies
    BY <1>a, <1>8, RequestTyped DEF DialFails, Finish, Replies, ReplyBodies
  <2> QED
    BY <1>a, <1>f, <1>8, <2>1 DEF DialFails, Finish, Goto
<1>9. ASSUME NEW t \in Tasks, PopMiss(t) \/ Acquire(t) \/ Deliver(t)
      PROVE  ClosedQuiet' /\ \A u \in Tasks : Own(u)'
  BY <1>a, <1>f, <1>9 DEF PopMiss, Acquire, Deliver, Goto
<1>10. ASSUME NEW t \in Tasks, NEW k \in ErrorKinds, Retry(t, k)
       PROVE  ClosedQuiet' /\ \A u \in Tasks : Own(u)'
  BY <1>a, <1>f, <1>10 DEF Retry, Goto
<1>11. ASSUME NEW t \in Tasks, NEW p \in Payloads, Send(t, p)
       PROVE  ClosedQuiet' /\ \A u \in Tasks : Own(u)'
  <2>1. phase'[t] = "done" => reply'[t] \in Replies
    BY <1>a, <1>11, SendReplyTyped DEF Send, Goto
  <2> QED
    BY <1>a, <1>f, <1>11, <2>1 DEF Send, Goto
<1>12. ASSUME NEW s \in Streams, NodeAnswers(s) PROVE ClosedQuiet' /\ \A u \in Tasks : Own(u)'
  <2>1. \A x \in Streams : x # s => outbox'[x] = outbox[x] /\ inbox'[x] = inbox[x]
    BY <1>a, <1>12 DEF NodeAnswers
  <2>2. ASSUME NEW u \in Tasks, stream[u] = s, phase[u] = "read" PROVE OwnExchange(u, s)'
    <3>1. outbox[s] = <<Request(u)>> /\ inbox[s] = << >>
      BY <1>b, <1>12, <2>2 DEF OwnExchange, NodeAnswers
    <3>2. PICK b \in NodeBodies :
            inbox' = [inbox EXCEPT ![s] = Append(@, [req |-> Head(outbox[s]), body |-> b])]
      BY <1>12 DEF NodeAnswers
    <3> DEFINE f == [req |-> Request(u), body |-> b]
    <3>3. Request(u) \in Requests
      BY <1>a, RequestTyped
    <3>4. f \in Frames /\ f.req = Request(u)
      BY <3>3 DEF Frames
    <3>5. inbox'[s] = <<f>> /\ outbox'[s] = << >>
      BY <1>a, <1>12, <3>1, <3>2 DEF NodeAnswers
    <3>6. Request(u)' = Request(u)
      BY <1>12 DEF NodeAnswers, taskVars, Request
    <3> QED
      BY <3>4, <3>5, <3>6 DEF OwnExchange
  <2>3. ASSUME NEW u \in Tasks PROVE Own(u)'
    <3>1. CASE phase[u] \in Holding /\ stream[u] = s
      <4>1. ~(phase[u] \in {"write", "return"})
        BY <1>b, <1>12, <3>1 DEF NodeAnswers, QuietStream
      <4> QED
        BY <1>12, <2>2, <3>1, <4>1 DEF NodeAnswers, taskVars, Holding
    <3>2. CASE ~(phase[u] \in Holding /\ stream[u] = s)
      BY <1>d, <1>12, <2>1, <3>2, StreamsSeparate DEF NodeAnswers, taskVars
    <3> QED
      BY <3>1, <3>2
  <2> QED
    BY <1>a, <1>b, <1>12, <2>1, <2>3 DEF NodeAnswers, QuietStream
<1>13. ASSUME NEW s \in Streams, NodeCloses(s) \/ NodeResets(s)
       PROVE  ClosedQuiet' /\ \A u \in Tasks : Own(u)'
  <2>1. \A x \in Streams : /\ outbox'[x] \in {outbox[x], << >>}
                           /\ inbox'[x] \in {inbox[x], << >>}
    BY <1>a, <1>13 DEF NodeCloses, NodeResets
  <2>2. ClosedQuiet'
    BY <1>a, <1>b, <1>13, <2>1 DEF NodeCloses, NodeResets, QuietStream
  <2>3. ASSUME NEW u \in Tasks PROVE Own(u)'
    <3>1. UNCHANGED taskVars
      BY <1>13 DEF NodeCloses, NodeResets
    <3>2. phase[u] \in Holding => stream[u] \in Streams
      BY StreamsSeparate
    <3>3. phase[u] \in {"write", "return"} => QuietStream(stream[u])'
      BY <1>b, <2>1, <3>1, <3>2 DEF taskVars, QuietStream, Holding
    <3>4. phase[u] = "read" => OwnExchange(u, stream[u])'
      BY <1>b, <2>1, <3>1, <3>2 DEF taskVars, OwnExchange, Request, Holding
    <3> QED
      BY <1>b, <3>1, <3>3, <3>4 DEF taskVars
  <2> QED
    BY <2>2, <2>3
<1>14. ASSUME UNCHANGED vars PROVE ClosedQuiet' /\ \A u \in Tasks : Own(u)'
  BY <1>b, <1>14 DEF vars, taskVars, netVars, QuietStream, OwnExchange, Request
<1>15. ASSUME NEW t \in Tasks, RedialFails(t) PROVE ClosedQuiet' /\ \A u \in Tasks : Own(u)'
  BY <1>6, <1>15 DEF RedialFails, Holding
<1>16. ASSUME NEW t \in Tasks, NEW k \in ErrorKinds, Fail(t, k)
       PROVE  ClosedQuiet' /\ \A u \in Tasks : Own(u)'
  BY <1>6, <1>16 DEF Fail, Error, Holding
<1> QED
  BY <1>1, <1>2, <1>3, <1>4, <1>5, <1>7, <1>8, <1>9, <1>10, <1>11, <1>12, <1>13, <1>14, <1>15, <1>16
  DEF Next, TaskStep, ErrorStep, NodeStep

LEMMA AnswersStep ==
  TypeOK /\ StreamsExclusive /\ ExchangeInv /\ AnswersOwnRequest /\ [Next]_vars => AnswersOwnRequest'
<1> SUFFICES ASSUME TypeOK, StreamsExclusive, ExchangeInv, AnswersOwnRequest, [Next]_vars
             PROVE  AnswersOwnRequest'
  OBVIOUS
<1>a. /\ phase \in [Tasks -> Phases] /\ call \in [Tasks -> 0 .. CallNumbers - 1]
      /\ got \in [Tasks -> Frames \cup {None}] /\ reply \in [Tasks -> Replies \cup {None}]
  BY DEF TypeOK, TasksTypeOK
<1>b. \A t \in Tasks : /\ phase[t] = "return" => got[t].req = Request(t)
                       /\ phase[t] = "done" => reply[t].req = Request(t)
  BY DEF AnswersOwnRequest
<1>1. ASSUME NEW t \in Tasks, ReadOk(t) PROVE AnswersOwnRequest'
  <2>1. OwnExchange(t, stream[t])
    BY <1>1 DEF ReadOk, ExchangeInv
  <2>2. PICK f \in Frames : inbox[stream[t]] = <<f>> /\ f.req = Request(t)
    BY <1>1, <2>1 DEF ReadOk, OwnExchange
  <2>3. got' = [got EXCEPT ![t] = f]
    BY <1>1, <2>2 DEF ReadOk
  <2> QED
    BY <1>a, <1>b, <1>1, <2>2, <2>3 DEF ReadOk, Goto, AnswersOwnRequest, Request
<1>2. ASSUME NEW t \in Tasks, Return(t) PROVE AnswersOwnRequest'
  BY <1>a, <1>b, <1>2 DEF Return, Finish, Goto, AnswersOwnRequest, Answered, Request
<1>3. ASSUME NEW t \in Tasks, NEW p \in Payloads, Send(t, p) PROVE AnswersOwnRequest'
  <2>1. phase'[t] = "done" => reply'[t].req = <<t, NextCall(t)>>
    BY <1>a, <1>3 DEF Send, Goto
  <2>2. Request(t)' = <<t, NextCall(t)>>
    BY <1>a, <1>3 DEF Send, Request
  <2>3. phase'[t] # "return"
    BY <1>a, <1>3 DEF Send, Goto
  <2> QED
    BY <1>a, <1>b, <1>3, <2>1, <2>2, <2>3 DEF Send, Goto, AnswersOwnRequest, Request
<1>4. ASSUME NEW t \in Tasks, Finish(t, FALSE, Request(t), "Io"), UNCHANGED <<call, got>>
      PROVE  AnswersOwnRequest'
  BY <1>a, <1>b, <1>4 DEF Finish, Goto, AnswersOwnRequest, Request
<1>5. ASSUME NEW t \in Tasks, NEW new \in Phases \ {"return", "done"}, Goto(t, new),
             UNCHANGED <<call, got>>, reply' = reply \/ phase'[t] = "idle",
             \A u \in Tasks \ {t} : reply'[u] = reply[u]
      PROVE  AnswersOwnRequest'
  BY <1>a, <1>b, <1>5 DEF Goto, AnswersOwnRequest, Request
<1>6. ASSUME UNCHANGED taskVars PROVE AnswersOwnRequest'
  BY <1>b, <1>6 DEF taskVars, AnswersOwnRequest, Request
<1>7. ASSUME NEW t \in Tasks, PopHit(t) \/ PopMiss(t) \/ Acquire(t) \/ DialOk(t) \/ WriteOk(t)
                              \/ RedialOk(t) \/ Deliver(t)
      PROVE  AnswersOwnRequest'
  <2>1. \E new \in Phases \ {"return", "done"} : Goto(t, new)
    BY <1>7 DEF PopHit, PopMiss, Acquire, DialOk, WriteOk, RedialOk, Deliver,
                Phases, Busy, Waiting, Holding
  <2>2. UNCHANGED <<call, got>> /\ (reply' = reply \/ phase'[t] = "idle")
    BY <1>a, <1>7 DEF PopHit, PopMiss, Acquire, DialOk, WriteOk, RedialOk, Deliver, Goto
  <2>3. \A u \in Tasks \ {t} : reply'[u] = reply[u]
    BY <1>a, <1>7 DEF PopHit, PopMiss, Acquire, DialOk, WriteOk, RedialOk, Deliver
  <2> QED
    BY <1>5, <2>1, <2>2, <2>3
<1>8. ASSUME NEW t \in Tasks, NEW k \in ErrorKinds, Retry(t, k) PROVE AnswersOwnRequest'
  BY <1>5, <1>8 DEF Retry, Phases, Busy, Holding
<1> QED
  BY <1>1, <1>2, <1>3, <1>4, <1>6, <1>7, <1>8
  DEF Next, TaskStep, ErrorStep, NodeStep, NodeAnswers, NodeCloses, NodeResets, DialFails, RedialFails, Fail, vars

LEMMA RetryStep ==
  TypeOK /\ StreamsExclusive /\ RetryOnlyAfterPeerClosed /\ [Next]_vars => RetryOnlyAfterPeerClosed'
<1> SUFFICES ASSUME TypeOK, StreamsExclusive, RetryOnlyAfterPeerClosed, [Next]_vars
             PROVE  RetryOnlyAfterPeerClosed'
  OBVIOUS
<1>a. /\ phase \in [Tasks -> Phases] /\ stream \in [Tasks -> Streams \cup {None}]
      /\ peer \in [Streams -> PeerStates]
  BY DEF TypeOK, TasksTypeOK, StreamsTypeOK
<1>b. \A t \in Tasks : phase[t] = "redial" => peer[stream[t]] \in {"fin", "rst"}
  BY DEF RetryOnlyAfterPeerClosed
<1>c. \A t \in Tasks : phase[t] = "redial" => stream[t] \in Streams
  BY StreamsSeparate DEF Holding
<1>1. ASSUME NEW t \in Tasks, NEW k \in ErrorKinds, Retry(t, k) PROVE RetryOnlyAfterPeerClosed'
  <2>1. k \in PeerGone
    BY <1>1 DEF Retry, IsRetryable, PeerGone
  <2>2. peer[stream[t]] \in {"fin", "rst"}
    BY <1>1, <2>1 DEF Retry, Error
  <2> QED
    BY <1>a, <1>b, <1>1, <2>2 DEF Retry, Goto, netVars, RetryOnlyAfterPeerClosed
<1>2. ASSUME NEW t \in Tasks, phase'[t] # "redial",
             \A u \in Tasks \ {t} : phase'[u] = phase[u] /\ stream'[u] = stream[u],
             \A u \in Tasks \ {t} : phase[u] = "redial" => peer'[stream[u]] = peer[stream[u]]
      PROVE  RetryOnlyAfterPeerClosed'
  BY <1>b, <1>2 DEF RetryOnlyAfterPeerClosed
<1>3. ASSUME NEW t \in Tasks, NEW p \in Payloads, Send(t, p) PROVE RetryOnlyAfterPeerClosed'
  BY <1>a, <1>2, <1>3 DEF Send, Goto, netVars
<1>4. ASSUME NEW t \in Tasks, PopHit(t) \/ PopMiss(t) \/ Acquire(t) \/ DialFails(t) \/ WriteOk(t)
                              \/ ReadOk(t) \/ Return(t) \/ Deliver(t)
      PROVE  RetryOnlyAfterPeerClosed'
  BY <1>a, <1>2, <1>4
  DEF PopHit, PopMiss, Acquire, DialFails, WriteOk, ReadOk, Return, Deliver, Finish, Goto, netVars
<1>5. ASSUME NEW t \in Tasks, DialOk(t) PROVE RetryOnlyAfterPeerClosed'
  BY <1>a, <1>b, <1>c, <1>2, <1>5 DEF DialOk, Goto
<1>6. ASSUME NEW t \in Tasks, RedialOk(t) PROVE RetryOnlyAfterPeerClosed'
  <2>1. \A u \in Tasks \ {t} : phase[u] = "redial" => peer'[stream[u]] = peer[stream[u]]
    BY <1>a, <1>b, <1>c, <1>6, StreamsSeparate DEF RedialOk, Holding
  <2> QED
    BY <1>a, <1>2, <1>6, <2>1 DEF RedialOk, Goto
<1>7. ASSUME NEW t \in Tasks, phase[t] \in Holding, DropConnection(t),
             Finish(t, FALSE, Request(t), "Io")
      PROVE  RetryOnlyAfterPeerClosed'
  <2>1. \A u \in Tasks \ {t} : phase[u] = "redial" => peer'[stream[u]] = peer[stream[u]]
    BY <1>a, <1>c, <1>7, StreamsSeparate DEF DropConnection, CloseStream, Holding
  <2> QED
    BY <1>a, <1>2, <1>7, <2>1 DEF DropConnection, Finish, Goto
<1>8. ASSUME NEW s \in Streams, NodeStep(s) PROVE RetryOnlyAfterPeerClosed'
  BY <1>a, <1>b, <1>c, <1>8
  DEF NodeStep, NodeAnswers, NodeCloses, NodeResets, taskVars, RetryOnlyAfterPeerClosed
<1>9. ASSUME UNCHANGED vars PROVE RetryOnlyAfterPeerClosed'
  BY <1>b, <1>9 DEF vars, taskVars, netVars, RetryOnlyAfterPeerClosed
<1>10. ASSUME NEW t \in Tasks, RedialFails(t) PROVE RetryOnlyAfterPeerClosed'
  BY <1>7, <1>10 DEF RedialFails, Holding
<1>11. ASSUME NEW t \in Tasks, NEW k \in ErrorKinds, Fail(t, k) PROVE RetryOnlyAfterPeerClosed'
  BY <1>7, <1>11 DEF Fail, Error, Holding
<1> QED
  BY <1>1, <1>3, <1>4, <1>5, <1>6, <1>8, <1>9, <1>10, <1>11 DEF Next, TaskStep, ErrorStep

LEMMA TypeStep ==
  TypeOK /\ PermitsConserved /\ StreamsExclusive /\ ExchangeInv /\ [Next]_vars => TypeOK'
<1> SUFFICES ASSUME TypeOK, PermitsConserved, StreamsExclusive, ExchangeInv, [Next]_vars
             PROVE  TypeOK'
  OBVIOUS
<1> USE DEF TypeOK, TasksTypeOK, PoolTypeOK, StreamsTypeOK
<1>p. {"idle", "pop", "acquire", "dial", "write", "read", "redial", "return", "done"} \subseteq Phases
  BY DEF Phases, Busy, Waiting, Holding
<1>e. << >> \in Seq(Requests) /\ << >> \in Seq(Frames)
  OBVIOUS
<1>1. ASSUME NEW t \in Tasks, NEW p \in Payloads, Send(t, p) PROVE TypeOK'
  <2>1. call' \in [Tasks -> 0 .. CallNumbers - 1]
    BY <1>1, NextCallTyped DEF Send
  <2>2. reply' \in [Tasks -> Replies \cup {None}]
    <3>1. CASE Verdict(p) = "forward"
      BY <1>1, <3>1 DEF Send
    <3>2. CASE Verdict(p) # "forward"
      <4> DEFINE r == [ok |-> Verdict(p) # "RequestTooLarge",
                       req |-> <<t, NextCall(t)>>, body |-> Verdict(p)]
      <4>1. reply' = [reply EXCEPT ![t] = r]
        BY <1>1, <3>2 DEF Send
      <4>2. r \in Replies
        BY <3>2, SendReplyTyped
      <4> HIDE DEF r
      <4> QED
        BY <4>1, <4>2
    <3> QED
      BY <3>1, <3>2
  <2>3. phase' \in [Tasks -> Phases]
    BY <1>1, <1>p DEF Send, Goto
  <2> QED
    BY <1>1, <2>1, <2>2, <2>3 DEF Send, poolVars, netVars
<1>2. ASSUME NEW t \in Tasks, PopHit(t) PROVE TypeOK'
  <2>1. pool[Len(pool)] \in Connections
    BY <1>2 DEF PopHit
  <2>2. pool[Len(pool)].stream \in Streams /\ pool[Len(pool)].permit \in Permits
    BY <2>1 DEF Connections
  <2>3. pool' \in Seq(Connections)
    BY <1>2 DEF PopHit
  <2> QED
    BY <1>2, <1>p, <2>2, <2>3 DEF PopHit, Goto, netVars
<1>3. ASSUME NEW t \in Tasks, PopMiss(t) \/ Acquire(t) \/ Deliver(t) PROVE TypeOK'
  <2>1. CASE PopMiss(t)
    BY <1>p, <2>1 DEF PopMiss, Goto, poolVars, netVars
  <2>2. CASE Acquire(t)
    BY <1>p, <2>2 DEF Acquire, Goto, netVars
  <2>3. CASE Deliver(t)
    BY <1>p, <2>3 DEF Deliver, Goto, poolVars, netVars
  <2> QED
    BY <1>3, <2>1, <2>2, <2>3
<1>4. ASSUME NEW t \in Tasks, DialOk(t) PROVE TypeOK'
  BY <1>4, <1>p DEF DialOk, Goto, poolVars, PeerStates
<1>5. ASSUME NEW t \in Tasks, DialFails(t) PROVE TypeOK'
  <2>1. reply' \in [Tasks -> Replies \cup {None}]
    BY <1>5, RequestTyped DEF DialFails, Finish, Replies, ReplyBodies
  <2>2. permit[t] \in Permits
    BY <1>5 DEF DialFails, PermitsConserved
  <2> QED
    BY <1>5, <1>p, <2>1, <2>2 DEF DialFails, Finish, Goto, netVars
<1>6. ASSUME NEW t \in Tasks, WriteOk(t) PROVE TypeOK'
  <2>1. outbox' \in [Streams -> Seq(Requests)]
    <3>1. \A q \in Seq(Requests) : Append(q, Request(t)) \in Seq(Requests)
      BY RequestTyped
    <3>2. stream[t] \in Streams
      BY <1>6, StreamsSeparate DEF WriteOk, Holding
    <3> QED
      BY <1>6, <3>1, <3>2 DEF WriteOk
  <2> QED
    BY <1>6, <1>p, <2>1 DEF WriteOk, Goto, poolVars
<1>7. ASSUME NEW t \in Tasks, ReadOk(t) PROVE TypeOK'
  <2>1. stream[t] \in Streams
    BY <1>7, StreamsSeparate DEF ReadOk, Holding
  <2>2. /\ Head(inbox[stream[t]]) \in Frames
        /\ inbox' \in [Streams -> Seq(Frames)]
    BY <1>7, <2>1 DEF ReadOk
  <2> QED
    BY <1>7, <1>p, <2>2 DEF ReadOk, Goto, poolVars
<1>8. ASSUME NEW t \in Tasks, NEW k \in ErrorKinds, Retry(t, k) PROVE TypeOK'
  BY <1>8, <1>p DEF Retry, Goto, poolVars, netVars
<1>9. ASSUME NEW t \in Tasks, phase[t] \in Holding, DropConnection(t),
             Finish(t, FALSE, Request(t), "Io"), UNCHANGED <<call, attempt, got>>
      PROVE  TypeOK'
  <2>1. reply' \in [Tasks -> Replies \cup {None}]
    BY <1>9, RequestTyped DEF Finish, Replies, ReplyBodies
  <2>2. permit[t] \in Permits
    BY <1>9 DEF PermitsConserved
  <2>3. StreamsTypeOK'
    BY <1>e, <1>9 DEF DropConnection, CloseStream, PeerStates
  <2> QED
    BY <1>9, <1>p, <2>1, <2>2, <2>3 DEF DropConnection, Finish, Goto
<1>10. ASSUME NEW t \in Tasks, NEW k \in ErrorKinds, Fail(t, k) PROVE TypeOK'
  BY <1>9, <1>10 DEF Fail, Error, Holding
<1>11. ASSUME NEW t \in Tasks, RedialFails(t) PROVE TypeOK'
  BY <1>9, <1>11 DEF RedialFails, Holding
<1>12. ASSUME NEW t \in Tasks, RedialOk(t) PROVE TypeOK'
  <2>1. StreamsTypeOK'
    <3>1. peer' \in [Streams -> PeerStates]
      BY <1>12 DEF RedialOk, PeerStates
    <3>2. outbox' \in [Streams -> Seq(Requests)] /\ inbox' \in [Streams -> Seq(Frames)]
      BY <1>e, <1>12 DEF RedialOk
    <3> QED
      BY <3>1, <3>2
  <2>2. TasksTypeOK'
    BY <1>12, <1>p DEF RedialOk, Goto
  <2> QED
    BY <1>12, <2>1, <2>2 DEF RedialOk, poolVars
<1>13. ASSUME NEW t \in Tasks, Return(t) PROVE TypeOK'
  <2>1. got[t] \in Frames
    BY <1>13 DEF Return, ExchangeInv
  <2>2. reply' \in [Tasks -> Replies \cup {None}]
    BY <1>13, <2>1, RewrittenTyped, AnsweredTyped DEF Return, Finish, Replies, Frames
  <2>3. stream[t] \in Streams /\ permit[t] \in Permits
    BY <1>13, StreamsSeparate DEF Return, PermitsConserved, Holding
  <2>4. [stream |-> stream[t], permit |-> permit[t]] \in Connections
    BY <2>3 DEF Connections
  <2>5. pool' \in Seq(Connections)
    BY <1>13, <2>4 DEF Return
  <2> QED
    BY <1>13, <1>p, <2>2, <2>5 DEF Return, Finish, Goto, netVars
<1>14. ASSUME NEW s \in Streams, NodeAnswers(s) PROVE TypeOK'
  <2>1. PICK b \in NodeBodies :
          inbox' = [inbox EXCEPT ![s] = Append(@, [req |-> Head(outbox[s]), body |-> b])]
    BY <1>14 DEF NodeAnswers
  <2>2. Head(outbox[s]) \in Requests /\ outbox' \in [Streams -> Seq(Requests)]
    BY <1>14 DEF NodeAnswers
  <2>3. [req |-> Head(outbox[s]), body |-> b] \in Frames
    BY <2>2 DEF Frames
  <2>4. inbox' \in [Streams -> Seq(Frames)]
    BY <2>1, <2>3
  <2> QED
    BY <1>14, <2>2, <2>4 DEF NodeAnswers, taskVars, poolVars
<1>15. ASSUME NEW s \in Streams, NodeCloses(s) \/ NodeResets(s) PROVE TypeOK'
  <2>1. peer' \in [Streams -> PeerStates]
    BY <1>15 DEF NodeCloses, NodeResets, PeerStates
  <2>2. outbox' \in [Streams -> Seq(Requests)]
    BY <1>e, <1>15 DEF NodeCloses, NodeResets
  <2>3. inbox' \in [Streams -> Seq(Frames)]
    BY <1>e, <1>15 DEF NodeCloses, NodeResets
  <2> QED
    BY <1>15, <2>1, <2>2, <2>3 DEF NodeCloses, NodeResets, taskVars, poolVars
<1>16. ASSUME UNCHANGED vars PROVE TypeOK'
  BY <1>16 DEF vars, taskVars, poolVars, netVars
<1> QED
  BY <1>1, <1>2, <1>3, <1>4, <1>5, <1>6, <1>7, <1>8, <1>10, <1>11, <1>12, <1>13, <1>14, <1>15, <1>16
  DEF Next, TaskStep, ErrorStep, NodeStep

-----------------------------------------------------------------------------
LEMMA InitEstablishesIInv == Init => IInv
<1> SUFFICES ASSUME Init PROVE IInv
  OBVIOUS
<1>1. TypeOK
  BY PoolAssumption
  DEF Init, TypeOK, TasksTypeOK, PoolTypeOK, StreamsTypeOK, Phases, PeerStates
<1>2. Len(pool) = 0 /\ Len(IdlePermits) = 0 /\ Len(IdleStreams) = 0
  BY <1>1, IdleTypes DEF Init, TypeOK, PoolTypeOK
<1>3. PermitsConserved /\ StreamsExclusive
  BY <1>2, NoneIsFresh
  DEF Init, PermitsConserved, StreamsExclusive, Partitioned, Closed, Holding
<1>4. PooledStreamsQuiet /\ ExchangeInv /\ AnswersOwnRequest /\ RetryOnlyAfterPeerClosed
  BY <1>2
  DEF Init, PooledStreamsQuiet, ExchangeInv, QuietStream, AnswersOwnRequest, RetryOnlyAfterPeerClosed
<1> QED
  BY <1>1, <1>3, <1>4 DEF IInv

LEMMA NextPreservesIInv == IInv /\ [Next]_vars => IInv'
  BY TypeStep, PermitsStep, StreamsStep, QuietStep, ExchangeStep, AnswersStep, RetryStep DEF IInv

LEMMA SpecIInv == Spec => []IInv
  BY InitEstablishesIInv, NextPreservesIInv, PTL DEF Spec

(* The callers, the pool and the streams keep their types in every         *)
(* behaviour of the pool.                                                  *)
THEOREM TypeCorrect == Spec => []TypeOK
  BY SpecIInv, PTL DEF IInv

(* No path through `send` loses a permit or uses one twice, for any number *)
(* of tasks and any max_connections, 0 included: each is free, in one      *)
(* task's hand or with one idle connection.                                *)
THEOREM PermitsAreConserved == Spec => []PermitsConserved
  BY SpecIInv, PTL DEF IInv

(* No two users ever share an upstream stream and none is left open        *)
(* without a user, through pops, returns, failures and reconnects.         *)
THEOREM StreamsAreExclusive == Spec => []StreamsExclusive
  BY SpecIInv, PTL DEF IInv

(* Only connections whose exchange is complete lie in the pool.            *)
THEOREM PooledStreamsAreQuiet == Spec => []PooledStreamsQuiet
  BY SpecIInv, PTL DEF IInv

(* A caller of `send` is given the answer to its own request.              *)
THEOREM CallersGetTheirAnswers == Spec => []AnswersOwnRequest
  BY SpecIInv, PTL DEF IInv

(* A request is repeated only after the node gave up the first stream.     *)
THEOREM RetriesFollowAClose == Spec => []RetryOnlyAfterPeerClosed
  BY SpecIInv, PTL DEF IInv

-----------------------------------------------------------------------------
(* The demand for connections.  `Wanting` are the tasks that ask for, dial *)
(* or use one; a task enters or leaves, or the set stays as it is.         *)
Wants == {"acquire", "dial"} \cup Holding
Wanting == {t \in Tasks : phase[t] \in Wants}

LEMMA WantingCount ==
  ASSUME IsFiniteSet(Tasks)
  PROVE  /\ IsFiniteSet(Wanting) /\ Cardinality(Wanting) \in Nat
         /\ Cardinality(Tasks) \in Nat /\ Cardinality(Wanting) <= Cardinality(Tasks)
<1>1. Wanting \subseteq Tasks
  BY DEF Wanting
<1> QED
  BY <1>1, FS_Subset, FS_CardinalityType

LEMMA WantingJoins ==
  ASSUME IsFiniteSet(Tasks), phase \in [Tasks -> Phases], NEW t \in Tasks, NEW p \in Wants,
         phase[t] \notin Wants, Goto(t, p)
  PROVE  /\ Cardinality(Wanting') = Cardinality(Wanting) + 1
         /\ Cardinality(Wanting') <= Cardinality(Tasks)
<1>1. Wanting' = Wanting \cup {t} /\ t \notin Wanting /\ Wanting' \subseteq Tasks
  BY DEF Wanting, Goto
<1> QED
  BY <1>1, WantingCount, FS_AddElement, FS_Subset

LEMMA WantingLeaves ==
  ASSUME IsFiniteSet(Tasks), phase \in [Tasks -> Phases], NEW t \in Tasks, NEW p \in Phases \ Wants,
         phase[t] \in Wants, Goto(t, p)
  PROVE  Cardinality(Wanting') = Cardinality(Wanting) - 1
<1>1. Wanting' = Wanting \ {t} /\ t \in Wanting
  BY DEF Wanting, Goto
<1> QED
  BY <1>1, WantingCount, FS_RemoveElement

LEMMA WantingStays ==
  ASSUME phase \in [Tasks -> Phases], NEW t \in Tasks, NEW p \in Phases,
         phase[t] \in Wants <=> p \in Wants, Goto(t, p)
  PROVE  Wanting' = Wanting
  BY DEF Wanting, Goto

LEMMA WantsTable ==
  /\ {"idle", "pop", "done"} \subseteq Phases \ Wants
  /\ {"acquire", "dial", "write", "read", "redial", "return"} \subseteq Phases \cap Wants
  BY DEF Phases, Busy, Waiting, Holding, Wants

LEMMA PopLength ==
  ASSUME NEW A, NEW q \in Seq(A), q # << >>
  PROVE  Len(SubSeq(q, 1, Len(q) - 1)) = Len(q) - 1
<1>1. ASSUME NEW n \in Nat, n <= Len(q) PROVE Len(SubSeq(q, 1, n)) = n
  BY <1>1
<1>2. Len(q) - 1 \in Nat /\ Len(q) - 1 <= Len(q)
  OBVIOUS
<1> QED
  BY <1>1, <1>2

LEMMA DemandStep ==
  ASSUME IsFiniteSet(Tasks)
  PROVE  IInv /\ DemandBounded /\ [Next]_vars => DemandBounded'
<1> SUFFICES ASSUME IInv, DemandBounded, [Next]_vars PROVE DemandBounded'
  OBVIOUS
<1> DEFINE C == Cardinality(Wanting)
<1>a. phase \in [Tasks -> Phases] /\ pool \in Seq(Connections) /\ Len(pool) \in Nat
  BY DEF IInv, TypeOK, TasksTypeOK, PoolTypeOK
<1>b. C \in Nat /\ Cardinality(Tasks) \in Nat /\ C <= Cardinality(Tasks)
      /\ Len(pool) + C <= Cardinality(Tasks)
  BY WantingCount DEF DemandBounded, Wanting, Wants
<1>c. SUFFICES Len(pool') + Cardinality(Wanting') <= Cardinality(Tasks)
  BY DEF DemandBounded, Wanting, Wants
<1> DEFINE Bounded == Len(pool') + Cardinality(Wanting') <= Cardinality(Tasks)
<1>d. ASSUME NEW t \in Tasks, NEW p \in Phases, Goto(t, p), pool' = pool,
             phase[t] \in Wants <=> p \in Wants
      PROVE  Bounded
  BY <1>a, <1>b, <1>d, WantingStays
<1>e. ASSUME NEW t \in Tasks, Goto(t, "done"), pool' = pool, phase[t] \in Wants
      PROVE  Bounded
  BY <1>a, <1>b, <1>e, WantingLeaves, WantsTable
<1>1. ASSUME NEW t \in Tasks, NEW p \in Payloads, Send(t, p) PROVE Bounded
  BY <1>d, <1>1, WantsTable DEF Send, poolVars
<1>2. ASSUME NEW t \in Tasks, PopHit(t) PROVE Bounded
  <2>1. Cardinality(Wanting') = C + 1
    BY <1>a, <1>2, WantingJoins, WantsTable DEF PopHit
  <2>2. pool # << >> /\ pool' = SubSeq(pool, 1, Len(pool) - 1)
    BY <1>2 DEF PopHit
  <2>3. Len(pool') = Len(pool) - 1
    BY <1>a, <2>2, PopLength
  <2> QED
    BY <1>a, <1>b, <2>1, <2>3
<1>3. ASSUME NEW t \in Tasks, PopMiss(t) PROVE Bounded
  <2>1. Cardinality(Wanting') = C + 1 /\ Cardinality(Wanting') <= Cardinality(Tasks)
    BY <1>a, <1>3, WantingJoins, WantsTable DEF PopMiss
  <2>2. Len(pool') = 0
    BY <1>3 DEF PopMiss, poolVars
  <2> QED
    BY <1>b, <2>1, <2>2
<1>4. ASSUME NEW t \in Tasks, Acquire(t) \/ DialOk(t) \/ WriteOk(t) \/ ReadOk(t) \/ RedialOk(t)
                              \/ Deliver(t)
      PROVE  Bounded
  BY <1>d, <1>4, WantsTable DEF Acquire, DialOk, WriteOk, ReadOk, RedialOk, Deliver, poolVars
<1>5. ASSUME NEW t \in Tasks, DialFails(t) \/ RedialFails(t) PROVE Bounded
  BY <1>e, <1>5, WantsTable DEF DialFails, RedialFails, DropConnection, Finish
<1>6. ASSUME NEW t \in Tasks, NEW k \in ErrorKinds, Retry(t, k) PROVE Bounded
  BY <1>d, <1>6, WantsTable DEF Retry, Error, poolVars
<1>7. ASSUME NEW t \in Tasks, NEW k \in ErrorKinds, Fail(t, k) PROVE Bounded
  BY <1>e, <1>7, WantsTable DEF Fail, Error, DropConnection, Finish
<1>8. ASSUME NEW t \in Tasks, Return(t) PROVE Bounded
  <2>1. Cardinality(Wanting') = C - 1
    BY <1>a, <1>8, WantingLeaves, WantsTable DEF Return, Finish
  <2>2. pool' = Append(pool, [stream |-> stream[t], permit |-> permit[t]])
    BY <1>8 DEF Return
  <2>3. Len(pool') = Len(pool) + 1
    BY <1>a, <2>2
  <2> QED
    BY <1>a, <1>b, <2>1, <2>3
<1>9. ASSUME NEW s \in Streams, NodeStep(s) PROVE Bounded
  BY <1>b, <1>9 DEF NodeStep, NodeAnswers, NodeCloses, NodeResets, taskVars, poolVars, Wanting
<1>10. ASSUME UNCHANGED vars PROVE Bounded
  BY <1>b, <1>10 DEF vars, taskVars, poolVars, Wanting
<1> QED
  BY <1>1, <1>2, <1>3, <1>4, <1>5, <1>6, <1>7, <1>8, <1>9, <1>10 DEF Next, TaskStep, ErrorStep

(* With finitely many websocket tasks the idle connections and the tasks   *)
(* that ask for, dial or use one are together never more than the tasks,   *)
(* whatever max_connections is.                                            *)
THEOREM DemandIsBounded ==
  ASSUME IsFiniteSet(Tasks)
  PROVE  Spec => []DemandBounded
<1>1. Init => DemandBounded
  <2> SUFFICES ASSUME Init PROVE DemandBounded
    OBVIOUS
  <2>1. Wanting = {} /\ Len(pool) = 0
    BY WantsTable DEF Init, Wanting
  <2> QED
    BY <2>1, WantingCount DEF DemandBounded, Wanting, Wants
<1>2. IInv /\ DemandBounded /\ [Next]_vars => DemandBounded'
  BY DemandStep
<1> QED
  BY <1>1, <1>2, SpecIInv, PTL DEF Spec

-----------------------------------------------------------------------------
(* Where starvation cannot happen.  A task waits for a permit in vain only *)
(* while every permit is with another task or with an idle connection; the *)
(* bound on the demand says that those are fewer than the tasks.           *)
PermitAtHand == \A t \in Tasks : phase[t] = "acquire" => free # {}

Image(f) == {f[x] : x \in DOMAIN f}

LEMMA ImageCount ==
  ASSUME NEW S, IsFiniteSet(S), NEW T, NEW f \in [S -> T]
  PROVE  /\ IsFiniteSet(Image(f)) /\ Cardinality(Image(f)) \in Nat
         /\ Cardinality(Image(f)) <= Cardinality(S)
<1>1. f \in Surjection(S, Image(f))
  BY DEF Surjection, Image
<1> QED
  BY <1>1, FS_Surjection, FS_CardinalityType

LEMMA IndexCount ==
  ASSUME NEW n \in Nat
  PROVE  IsFiniteSet(1 .. n) /\ Cardinality(1 .. n) = n
<1>1. 1 \in Int /\ n \in Int
  OBVIOUS
<1>2. IsFiniteSet(1 .. n) /\ Cardinality(1 .. n) = IF 1 > n THEN 0 ELSE n - 1 + 1
  BY <1>1, FS_Interval, Zenon
<1> QED
  BY <1>2

(* Without a free permit the holders and the idle connections have them    *)
(* all.                                                                    *)
LEMMA AllPermitsOut ==
  ASSUME IsFiniteSet(Tasks), IInv, free = {},
         NEW H, H = {t \in Tasks : permit[t] # None}
  PROVE  PermitCount <= Cardinality(H) + Len(pool)
<1> DEFINE held == [t \in H |-> permit[t]]
           idle == IdlePermits
<1>1. /\ permit \in [Tasks -> Permits \cup {None}] /\ Len(pool) \in Nat
      /\ idle \in [1 .. Len(pool) -> Permits]
      /\ \A x \in Permits : \/ \E t \in Tasks : permit[t] = x
                           \/ \E i \in 1 .. Len(pool) : idle[i] = x
  <2>1. pool \in Seq(Connections) /\ permit \in [Tasks -> Permits \cup {None}]
    BY DEF IInv, TypeOK, TasksTypeOK, PoolTypeOK
  <2>2. IdlePermits \in Seq(Permits) /\ Len(IdlePermits) = Len(pool) /\ Len(pool) \in Nat
    BY <2>1, IdleTypes
  <2> QED
    BY <2>1, <2>2 DEF IInv, PermitsConserved, Partitioned
<1>2. IsFiniteSet(H) /\ Cardinality(H) \in Nat
  BY FS_Subset, FS_CardinalityType
<1>3. IsFiniteSet(1 .. Len(pool)) /\ Cardinality(1 .. Len(pool)) = Len(pool)
  BY <1>1, IndexCount
<1>4. held \in [H -> Permits]
  BY <1>1
<1>5. Permits \subseteq Image(held) \cup Image(idle)
  BY <1>1, NoneIsFresh DEF Image
<1> HIDE DEF held, idle
<1>6. /\ IsFiniteSet(Image(held)) /\ Cardinality(Image(held)) \in Nat
      /\ Cardinality(Image(held)) <= Cardinality(H)
  BY <1>2, <1>4, ImageCount
<1>7. /\ IsFiniteSet(Image(idle)) /\ Cardinality(Image(idle)) \in Nat
      /\ Cardinality(Image(idle)) <= Len(pool)
  BY <1>1, <1>3, ImageCount
<1> DEFINE A == Image(held)
           B == Image(idle)
<1>8. /\ IsFiniteSet(A \cup B) /\ Cardinality(A \cap B) \in Nat
      /\ Cardinality(A \cup B) = Cardinality(A) + Cardinality(B) - Cardinality(A \cap B)
  <2>1. IsFiniteSet(A \cap B)
    BY <1>6, FS_Subset
  <2> QED
    BY <1>6, <1>7, <2>1, FS_Union, FS_CardinalityType
<1>9. PermitCount <= Cardinality(A \cup B) /\ PermitCount \in Nat
  BY <1>5, <1>8, FS_Subset, PoolAssumption DEF PermitCount
<1> QED
  BY <1>1, <1>2, <1>6, <1>7, <1>8, <1>9

(* With as many connections as websocket tasks a task that waits in        *)
(* get_connection for a permit always finds one free, although idle        *)
(* connections keep theirs.  With two tasks and one connection it may wait *)
(* for ever: BinaryPoolStarved.cfg.                                        *)
THEOREM PermitsAreAtHand ==
  ASSUME IsFiniteSet(Tasks), Cardinality(Tasks) <= PermitCount
  PROVE  Spec => []PermitAtHand
<1>1. IInv /\ DemandBounded => PermitAtHand
  <2> SUFFICES ASSUME IInv, DemandBounded, NEW t \in Tasks, phase[t] = "acquire", free = {}
               PROVE  FALSE
    BY DEF PermitAtHand
  <2> DEFINE H == {u \in Tasks : permit[u] # None}
  <2>1. H \cup {t} \subseteq Wanting /\ t \notin H
    BY DEF IInv, PermitsConserved, Wanting, Wants, Holding
  <2>2. IsFiniteSet(H) /\ Cardinality(H) \in Nat
    BY FS_Subset, FS_CardinalityType
  <2>3. PermitCount <= Cardinality(H) + Len(pool)
    BY AllPermitsOut
  <2> HIDE DEF H
  <2>4. Cardinality(H) + 1 <= Cardinality(Wanting)
    <3>1. Cardinality(H \cup {t}) = Cardinality(H) + 1
      BY <2>1, <2>2, FS_AddElement
    <3> QED
      BY <2>1, <3>1, WantingCount, FS_Subset
  <2>5. Len(pool) + Cardinality(Wanting) <= Cardinality(Tasks)
    BY DEF DemandBounded, Wanting, Wants
  <2>6. Len(pool) \in Nat /\ PermitCount \in Nat
    BY PoolAssumption DEF IInv, TypeOK, PoolTypeOK, PermitCount
  <2> QED
    BY <2>2, <2>3, <2>4, <2>5, <2>6, WantingCount
<1> QED
  BY <1>1, SpecIInv, DemandIsBounded, PTL

-----------------------------------------------------------------------------
(***************************************************************************)
(* The pool implements RequestService.  A step of the pool that moves no   *)
(* caller between the four states of the service is hidden; each of the    *)
(* others is one step of the service.  The inductive invariant is what     *)
(* makes it so: a popped or an acquired permit is in no other hand         *)
(* (PermitsConserved), and the request an answer is about is the caller's  *)
(* (AnswersOwnRequest).                                                    *)
(***************************************************************************)
(* The service's state for each phase of `send`. *)
ServiceOf(p) ==
  IF p = "idle" THEN "idle"
  ELSE IF p \in Waiting THEN "asked"
  ELSE IF p = "done" THEN "done" ELSE "served"

LEMMA ServiceStateIs ==
  ASSUME phase \in [Tasks -> Phases]
  PROVE  ServiceState = [t \in Tasks |-> ServiceOf(phase[t])]
<1>1. ASSUME NEW t \in Tasks
      PROVE  (CASE phase[t] = "idle" -> "idle"
                [] phase[t] \in Waiting -> "asked"
                [] phase[t] \in {"dial"} \cup Holding -> "served"
                [] phase[t] = "done" -> "done") = ServiceOf(phase[t])
  BY DEF Phases, Busy, Waiting, Holding, ServiceOf
<1> QED
  BY <1>1 DEF ServiceState

LEMMA ServiceStateIsPrimed ==
  ASSUME (phase \in [Tasks -> Phases])'
  PROVE  ServiceState' = [t \in Tasks |-> ServiceOf(phase'[t])]
<1>1. ASSUME NEW t \in Tasks
      PROVE  (CASE phase'[t] = "idle" -> "idle"
                [] phase'[t] \in Waiting -> "asked"
                [] phase'[t] \in {"dial"} \cup Holding -> "served"
                [] phase'[t] = "done" -> "done") = ServiceOf(phase'[t])
  BY DEF Phases, Busy, Waiting, Holding, ServiceOf
<1> QED
  BY <1>1 DEF ServiceState

(* A task that moves from one phase of `send` to another makes the move of *)
(* the service, or none if both phases stand for the same state.           *)
LEMMA PhaseMoves ==
  ASSUME phase \in [Tasks -> Phases], NEW t \in Tasks, NEW p \in Phases, Goto(t, p)
  PROVE  /\ ServiceState[t] = ServiceOf(phase[t])
         /\ ServiceState' = [ServiceState EXCEPT ![t] = ServiceOf(p)]
         /\ ServiceOf(phase[t]) = ServiceOf(p) => ServiceState' = ServiceState
<1>1. phase' = [phase EXCEPT ![t] = p] /\ phase' \in [Tasks -> Phases]
  BY DEF Goto
<1>2. ServiceState = [u \in Tasks |-> ServiceOf(phase[u])]
  BY ServiceStateIs
<1>3. ServiceState' = [u \in Tasks |-> ServiceOf(phase'[u])]
  BY <1>1, ServiceStateIsPrimed
<1> QED
  BY <1>1, <1>2, <1>3

(* The phases by name, and the state each stands for. *)
LEMMA PhaseTable ==
  /\ {"idle", "pop", "acquire", "dial", "write", "read", "redial", "return", "done"} \subseteq Phases
  /\ ServiceOf("idle") = "idle"
  /\ ServiceOf("pop") = "asked" /\ ServiceOf("acquire") = "asked"
  /\ ServiceOf("dial") = "served" /\ ServiceOf("write") = "served"
  /\ ServiceOf("read") = "served" /\ ServiceOf("redial") = "served"
  /\ ServiceOf("return") = "served"
  /\ ServiceOf("done") = "done"
  BY DEF Phases, Busy, Waiting, Holding, ServiceOf

(* What the proxy answers itself is a refusal of the service, and what it  *)
(* makes of the node's answer an ending of it.                             *)
LEMMA VerdictsAreRefusals ==
  ASSUME NEW p \in Payloads, Verdict(p) # "forward"
  PROVE  Verdict(p) \in Service!Refusals
  BY DEF Verdict, Service!Refusals

LEMMA RewrittenAreEndings ==
  /\ \A b \in NodeBodies : [ok |-> TRUE, body |-> Rewritten(b)] \in Service!Endings
  /\ [ok |-> FALSE, body |-> "Io"] \in Service!Endings
<1>1. \A b \in NodeBodies :
        Rewritten(b) \in {"response", "FunctionDisabled", "UnsupportedRequest", "InternalError"}
  BY DEF NodeBodies, Rewritten
<1> QED
  BY <1>1 DEF Service!Endings
-----------------------------------------------------------------------------
(* A call that ends, with the node's answer or with an error. *)
LEMMA EndsServed ==
  ASSUME phase \in [Tasks -> Phases], NEW t \in Tasks, ServiceOf(phase[t]) = "served",
         NEW ok, NEW body, [ok |-> ok, body |-> body] \in Service!Endings,
         Finish(t, ok, Request(t), body),
         permit' = [permit EXCEPT ![t] = None], call' = call
  PROVE  Service!Next
<1>1. /\ ServiceState[t] = "served"
      /\ ServiceState' = [ServiceState EXCEPT ![t] = "done"]
  BY PhaseMoves, PhaseTable DEF Finish
<1>2. reply' = [reply EXCEPT ![t] = [ok |-> ok, req |-> <<t, call[t]>>, body |-> body]]
  BY DEF Finish, Request
<1>3. Service!Return(t, [ok |-> ok, body |-> body])
  BY <1>1, <1>2 DEF Service!Return, Service!Move
<1> QED
  BY <1>3 DEF Service!Next

(* A step that keeps a caller in its state is hidden. *)
LEMMA HiddenStep ==
  ASSUME phase \in [Tasks -> Phases], NEW t \in Tasks, NEW p \in Phases, Goto(t, p),
         ServiceOf(phase[t]) = ServiceOf(p), UNCHANGED <<call, permit, reply>>
  PROVE  UNCHANGED Service!vars
<1>1. ServiceState' = ServiceState
  BY PhaseMoves
<1> QED
  BY <1>1 DEF Service!vars
-----------------------------------------------------------------------------
(* Every step of the pool is a step of the service or hidden from it. *)
LEMMA StepImplementsService == IInv /\ [Next]_vars => [Service!Next]_(Service!vars)
<1> SUFFICES ASSUME IInv, [Next]_vars PROVE Service!Next \/ UNCHANGED Service!vars
  OBVIOUS
<1>a. phase \in [Tasks -> Phases] /\ permit \in [Tasks -> Permits \cup {None}]
      /\ pool \in Seq(Connections) /\ free \in SUBSET Permits
  BY DEF IInv, TypeOK, TasksTypeOK, PoolTypeOK
<1>1. ASSUME NEW t \in Tasks, NEW p \in Payloads, Send(t, p) PROVE Service!Next
  <2>1. Service!NextNumber(t) = NextCall(t)
    BY DEF Service!NextNumber, NextCall
  <2>2. CASE Verdict(p) = "forward"
    <3>1. Goto(t, "pop") /\ reply' = reply
      BY <1>1, <2>2 DEF Send
    <3>2. ServiceState[t] = "idle" /\ ServiceState' = [ServiceState EXCEPT ![t] = "asked"]
      BY <1>1, <1>a, <3>1, PhaseMoves, PhaseTable DEF Send
    <3>3. Service!Ask(t)
      BY <1>1, <2>1, <3>1, <3>2 DEF Send, Service!Ask, Service!Move
    <3> QED
      BY <3>3 DEF Service!Next
  <2>3. CASE Verdict(p) # "forward"
    <3>1. /\ Goto(t, "done")
          /\ reply' = [reply EXCEPT ![t] =
                         [ok |-> Verdict(p) # "RequestTooLarge",
                          req |-> <<t, NextCall(t)>>, body |-> Verdict(p)]]
      BY <1>1, <2>3 DEF Send
    <3>2. ServiceState[t] = "idle" /\ ServiceState' = [ServiceState EXCEPT ![t] = "done"]
      BY <1>1, <1>a, <3>1, PhaseMoves, PhaseTable DEF Send
    <3>3. Service!Refuse(t, Verdict(p))
      BY <1>1, <2>1, <3>1, <3>2 DEF Send, Service!Refuse, Service!Move
    <3> QED
      BY <2>3, <3>3, VerdictsAreRefusals DEF Service!Next
  <2> QED
    BY <2>2, <2>3
<1>2. ASSUME NEW t \in Tasks, PopHit(t) PROVE Service!Next
  <2> DEFINE p == pool[Len(pool)].permit
  <2>1. ServiceState[t] = "asked" /\ ServiceState' = [ServiceState EXCEPT ![t] = "served"]
    BY <1>2, <1>a, PhaseMoves, PhaseTable DEF PopHit
  <2>2. Len(pool) \in 1 .. Len(pool) /\ pool[Len(pool)] \in Connections
    BY <1>2, <1>a DEF PopHit
  <2>3. p \in Permits /\ \A u \in Tasks : permit[u] # p
    <3>1. Len(IdlePermits) = Len(pool) /\ IdlePermits[Len(pool)] = p
      BY <1>a, <2>2, IdleTypes DEF IdlePermits
    <3>2. \A i \in 1 .. Len(IdlePermits) : \A u \in Tasks : IdlePermits[i] # permit[u]
      BY DEF IInv, PermitsConserved, Partitioned
    <3> QED
      BY <2>2, <3>1, <3>2 DEF Connections
  <2>4. permit' = [permit EXCEPT ![t] = p] /\ UNCHANGED <<call, reply>>
    BY <1>2 DEF PopHit
  <2>5. Service!Serve(t)
    BY <2>1, <2>3, <2>4 DEF Service!Serve, Service!Move
  <2> QED
    BY <2>5 DEF Service!Next
<1>3. ASSUME NEW t \in Tasks, Acquire(t) PROVE Service!Next
  <2>1. ServiceState[t] = "asked" /\ ServiceState' = [ServiceState EXCEPT ![t] = "served"]
    BY <1>3, <1>a, PhaseMoves, PhaseTable DEF Acquire
  <2>2. PICK p \in free : permit' = [permit EXCEPT ![t] = p]
    BY <1>3 DEF Acquire
  <2>3. p \in Permits /\ \A u \in Tasks : permit[u] # p
    BY <1>a DEF IInv, PermitsConserved, Partitioned
  <2>4. Service!Serve(t)
    BY <1>3, <2>1, <2>2, <2>3 DEF Acquire, Service!Serve, Service!Move
  <2> QED
    BY <2>4 DEF Service!Next
<1>4. ASSUME NEW t \in Tasks, DialFails(t) PROVE Service!Next
  BY <1>4, <1>a, EndsServed, RewrittenAreEndings, PhaseTable DEF DialFails
<1>5. ASSUME NEW t \in Tasks, NEW k \in ErrorKinds, Fail(t, k) PROVE Service!Next
  BY <1>5, <1>a, EndsServed, RewrittenAreEndings, PhaseTable DEF Fail, Error, DropConnection
<1>6. ASSUME NEW t \in Tasks, RedialFails(t) PROVE Service!Next
  BY <1>6, <1>a, EndsServed, RewrittenAreEndings, PhaseTable DEF RedialFails, DropConnection
<1>7. ASSUME NEW t \in Tasks, Return(t) PROVE Service!Next
  <2>1. got[t].req = Request(t) /\ got[t] \in Frames
    BY <1>7 DEF Return, IInv, AnswersOwnRequest, ExchangeInv
  <2>2. got[t].body \in NodeBodies
    BY <2>1 DEF Frames
  <2>3. Answered(t) = Request(t)
    BY <2>1 DEF Answered
  <2> QED
    BY <1>7, <1>a, <2>2, <2>3, EndsServed, RewrittenAreEndings, PhaseTable DEF Return
<1>8. ASSUME NEW t \in Tasks, Deliver(t) PROVE Service!Next
  <2>1. ServiceState[t] = "done" /\ ServiceState' = [ServiceState EXCEPT ![t] = "idle"]
    BY <1>8, <1>a, PhaseMoves, PhaseTable DEF Deliver
  <2>2. Service!Take(t)
    BY <1>8, <2>1 DEF Deliver, Service!Take, Service!Move
  <2> QED
    BY <2>2 DEF Service!Next
<1>9. ASSUME NEW t \in Tasks, PopMiss(t) \/ DialOk(t) \/ WriteOk(t) \/ ReadOk(t) \/ RedialOk(t)
      PROVE  UNCHANGED Service!vars
  BY <1>9, <1>a, HiddenStep, PhaseTable DEF PopMiss, DialOk, WriteOk, ReadOk, RedialOk
<1>10. ASSUME NEW t \in Tasks, NEW k \in ErrorKinds, Retry(t, k) PROVE UNCHANGED Service!vars
  BY <1>10, <1>a, HiddenStep, PhaseTable DEF Retry, Error
<1>11. ASSUME UNCHANGED taskVars PROVE UNCHANGED Service!vars
  BY <1>11 DEF taskVars, Service!vars, ServiceState
<1>12. ASSUME NEW s \in Streams, NodeStep(s) PROVE UNCHANGED Service!vars
  BY <1>11, <1>12 DEF NodeStep, NodeAnswers, NodeCloses, NodeResets
<1>13. ASSUME UNCHANGED vars PROVE UNCHANGED Service!vars
  BY <1>11, <1>13 DEF vars
<1> QED
  BY <1>1, <1>2, <1>3, <1>4, <1>5, <1>6, <1>7, <1>8, <1>9, <1>10, <1>12, <1>13
  DEF Next, TaskStep, ErrorStep

(* Callers of `send` see a service that gives each of its permits to one   *)
(* of them at a time and answers each about its own request: pooling,      *)
(* reconnecting and idle permits stay hidden, for any number of tasks and  *)
(* any max_connections.                                                    *)
THEOREM PoolImplementsService == Spec => ImplementsService
<1>1. Init => Service!Init
  <2> SUFFICES ASSUME Init PROVE Service!Init
    OBVIOUS
  <2>1. phase \in [Tasks -> Phases]
    BY PhaseTable DEF Init
  <2>2. ServiceState = [t \in Tasks |-> "idle"]
    BY <2>1, ServiceStateIs, PhaseTable DEF Init
  <2> QED
    BY <2>2 DEF Init, Service!Init
<1>2. IInv /\ [Next]_vars => [Service!Next]_(Service!vars)
  BY StepImplementsService
<1> QED
  BY <1>1, <1>2, SpecIInv, PTL DEF Spec, ImplementsService, Service!Spec

-----------------------------------------------------------------------------
(***************************************************************************)
(* How often the node executes a request.  The inductive invariant says    *)
(* whose request a stream carries; the counting adds how many executions   *)
(* are still possible in each phase of the caller.                         *)
(***************************************************************************)
(* A stream the node gave up carries no request any more. *)
NoneLeftUnanswered ==
  \A s \in Streams : peer[s] \in {"fin", "rst"} => outbox[s] = << >>

(* What the count may be in each phase.  Before a write the current        *)
(* attempt has not been executed; while its request is on the stream it    *)
(* may still be; once an answer is on the stream it has been.              *)
Counted(t) ==
  /\ executed[t] \in 0 .. attempt[t]
  /\ phase[t] \in {"pop", "acquire", "dial"} => executed[t] = 0 /\ attempt[t] = 1
  /\ phase[t] = "write" => executed[t] < attempt[t]
  /\ phase[t] = "read" =>
       /\ outbox[stream[t]] # << >> => executed[t] < attempt[t]
       /\ inbox[stream[t]] # << >> => executed[t] >= 1
  /\ phase[t] = "redial" => attempt[t] = 1
  /\ phase[t] = "return" => executed[t] >= 1
  /\ phase[t] = "done" =>
       /\ reply[t].body \in {"response", "InternalError"} => executed[t] >= 1
       /\ reply[t].body \in {"BadRequest", "RequestTooLarge"} => executed[t] = 0

CountInv ==
  /\ executed \in [Tasks -> Nat]
  /\ NoneLeftUnanswered
  /\ \A t \in Tasks : Counted(t)

-----------------------------------------------------------------------------
(* A request on a stream is the one of the task that reads there. *)
LEMMA UnansweredHasReader ==
  ASSUME IInv, NoneLeftUnanswered, NEW s \in Streams, outbox[s] # << >>
  PROVE  \E t \in Tasks : /\ phase[t] = "read" /\ stream[t] = s
                          /\ outbox[s] = <<Request(t)>> /\ inbox[s] = << >>
<1>1. peer[s] # "none"
  BY DEF IInv, ExchangeInv, QuietStream
<1>2. \A i \in 1 .. Len(IdleStreams) : IdleStreams[i] # s
  <2>1. Len(IdleStreams) = Len(pool) /\ \A i \in 1 .. Len(pool) : IdleStreams[i] = pool[i].stream
    BY IdleTypes DEF IInv, TypeOK, PoolTypeOK, IdleStreams
  <2> QED
    BY <2>1 DEF IInv, PooledStreamsQuiet
<1>3. PICK t \in Tasks : stream[t] = s
  BY <1>1, <1>2 DEF IInv, StreamsExclusive, Partitioned, Closed
<1>4. phase[t] \in Holding
  BY <1>3, NoneIsFresh DEF IInv, StreamsExclusive
<1>5. phase[t] = "read"
  BY <1>3, <1>4 DEF Holding, IInv, ExchangeInv, QuietStream, RetryOnlyAfterPeerClosed, NoneLeftUnanswered
<1> QED
  BY <1>3, <1>5 DEF IInv, ExchangeInv, OwnExchange

(* Executing what is on a stream counts for the task that reads there. *)
LEMMA ExecuteCountsReader ==
  ASSUME IInv, CountInv, NEW s \in Streams, outbox[s] # << >>, Execute(s)
  PROVE  \E t \in Tasks : /\ phase[t] = "read" /\ stream[t] = s
                          /\ inbox[s] = << >> /\ Tail(outbox[s]) = << >>
                          /\ executed[t] < attempt[t]
                          /\ executed' = [executed EXCEPT ![t] = @ + 1]
<1>1. PICK t \in Tasks : /\ phase[t] = "read" /\ stream[t] = s
                         /\ outbox[s] = <<Request(t)>> /\ inbox[s] = << >>
  BY UnansweredHasReader DEF CountInv
<1>2. Head(outbox[s])[1] = t /\ Tail(outbox[s]) = << >>
  BY <1>1 DEF Request
<1>3. executed[t] < attempt[t]
  BY <1>1 DEF CountInv, Counted
<1> QED
  BY <1>1, <1>2, <1>3 DEF Execute

(* A step of a task touches the stream in its hand and no other, and the   *)
(* variables of no other task.                                             *)
LEMMA StepsTouchTheirOwn ==
  ASSUME IInv, NEW t \in Tasks, TaskStep(t) \/ ErrorStep(t, ErrorKinds)
  PROVE  /\ \A s \in Streams : s # stream[t] => outbox'[s] = outbox[s] /\ inbox'[s] = inbox[s]
         /\ \A u \in Tasks : u # t =>
              /\ phase'[u] = phase[u] /\ attempt'[u] = attempt[u]
              /\ stream'[u] = stream[u] /\ reply'[u] = reply[u]
<1> USE DEF IInv, TypeOK, TasksTypeOK, StreamsTypeOK
<1>1. CASE PopHit(t) \/ PopMiss(t) \/ Acquire(t) \/ DialOk(t) \/ DialFails(t)
  BY <1>1 DEF PopHit, PopMiss, Acquire, DialOk, DialFails, Goto, Finish, netVars
<1>2. CASE WriteOk(t)
  BY <1>2 DEF WriteOk, Goto
<1>3. CASE ReadOk(t)
  BY <1>3 DEF ReadOk, Goto
<1>4. CASE RedialOk(t)
  BY <1>4 DEF RedialOk, Goto
<1>5. CASE RedialFails(t)
  BY <1>5 DEF RedialFails, DropConnection, CloseStream, Goto, Finish
<1>6. CASE Return(t) \/ Deliver(t)
  BY <1>6 DEF Return, Deliver, Goto, Finish, netVars
<1>7. ASSUME NEW k \in ErrorKinds, Retry(t, k)
      PROVE  /\ \A s \in Streams : s # stream[t] => outbox'[s] = outbox[s] /\ inbox'[s] = inbox[s]
             /\ \A u \in Tasks : u # t =>
                  /\ phase'[u] = phase[u] /\ attempt'[u] = attempt[u]
                  /\ stream'[u] = stream[u] /\ reply'[u] = reply[u]
  BY <1>7 DEF Retry, Goto, netVars
<1>8. ASSUME NEW k \in ErrorKinds, Fail(t, k)
      PROVE  /\ \A s \in Streams : s # stream[t] => outbox'[s] = outbox[s] /\ inbox'[s] = inbox[s]
             /\ \A u \in Tasks : u # t =>
                  /\ phase'[u] = phase[u] /\ attempt'[u] = attempt[u]
                  /\ stream'[u] = stream[u] /\ reply'[u] = reply[u]
  BY <1>8 DEF Fail, DropConnection, CloseStream, Goto, Finish
<1> QED
  BY <1>1, <1>2, <1>3, <1>4, <1>5, <1>6, <1>7, <1>8 DEF TaskStep, ErrorStep

(* The only request a task can lose is its own: an error that is not the   *)
(* node's while it waits for the answer.                                   *)
LEMMA TasksLoseOnlyTheirOwn ==
  ASSUME IInv, CountInv, NEW t \in Tasks, TaskStep(t) \/ ErrorStep(t, ErrorKinds),
         MayExecuteLost
  PROVE  \/ executed' = executed
         \/ /\ phase[t] = "read" /\ inbox[stream[t]] = << >>
            /\ \E k \in ErrorKinds : Fail(t, k)
            /\ executed[t] < attempt[t]
            /\ executed' = [executed EXCEPT ![t] = @ + 1]
<1> SUFFICES ASSUME NEW s \in Streams, Lost(s), Execute(s)
             PROVE  /\ phase[t] = "read" /\ inbox[stream[t]] = << >>
                    /\ \E k \in ErrorKinds : Fail(t, k)
                    /\ executed[t] < attempt[t]
                    /\ executed' = [executed EXCEPT ![t] = @ + 1]
  BY DEF MayExecuteLost
<1>1. s = stream[t]
  BY StepsTouchTheirOwn DEF Lost
<1>2. PICK u \in Tasks : /\ phase[u] = "read" /\ stream[u] = s
                         /\ inbox[s] = << >> /\ Tail(outbox[s]) = << >>
                         /\ executed[u] < attempt[u]
                         /\ executed' = [executed EXCEPT ![u] = @ + 1]
  BY ExecuteCountsReader DEF Lost
<1>3. u = t
  BY <1>1, <1>2, StreamsSeparate DEF IInv, Holding
<1>4. \E k \in ErrorKinds : Fail(t, k)
  <2>1. phase[t] = "read" /\ outbox' # outbox /\ inbox[stream[t]] = << >>
    BY <1>1, <1>2, <1>3 DEF Lost
  <2>2. ~(PopHit(t) \/ PopMiss(t) \/ Acquire(t) \/ DialOk(t) \/ DialFails(t))
    BY <2>1 DEF PopHit, PopMiss, Acquire, DialOk, DialFails
  <2>3. ~(WriteOk(t) \/ ReadOk(t) \/ RedialOk(t) \/ RedialFails(t) \/ Return(t) \/ Deliver(t))
    BY <2>1 DEF WriteOk, ReadOk, RedialOk, RedialFails, Return, Deliver
  <2>4. ASSUME NEW k \in ErrorKinds, Retry(t, k) PROVE FALSE
    BY <2>1, <2>4 DEF Retry, netVars
  <2> QED
    BY <2>2, <2>3, <2>4 DEF TaskStep, ErrorStep
<1> QED
  BY <1>1, <1>2, <1>3, <1>4

-----------------------------------------------------------------------------
(* A task whose phase, count and stream a step leaves alone stays counted. *)
LEMMA OthersStayCounted ==
  ASSUME IInv, CountInv, NEW t \in Tasks, TaskStep(t) \/ ErrorStep(t, ErrorKinds),
         NEW u \in Tasks, u # t, executed'[u] = executed[u]
  PROVE  Counted(u)'
<1>1. Counted(u)
  BY DEF CountInv
<1>2. /\ phase'[u] = phase[u] /\ attempt'[u] = attempt[u]
      /\ stream'[u] = stream[u] /\ reply'[u] = reply[u]
  BY StepsTouchTheirOwn
<1>3. phase[u] = "read" => /\ outbox'[stream[u]] = outbox[stream[u]]
                           /\ inbox'[stream[u]] = inbox[stream[u]]
  <2>1. phase[u] = "read" => stream[u] \in Streams /\ stream[u] # stream[t]
    BY StreamsSeparate DEF IInv, Holding
  <2> QED
    BY <2>1, StepsTouchTheirOwn
<1> QED
  BY <1>1, <1>2, <1>3 DEF Counted

(* The task that makes the step. *)
LEMMA TaskStaysCounted ==
  ASSUME IInv, CountInv, NEW t \in Tasks, TaskStep(t) \/ ErrorStep(t, ErrorKinds),
         executed' = executed
  PROVE  Counted(t)'
<1>a. /\ phase \in [Tasks -> Phases] /\ attempt \in [Tasks -> {1, 2}]
      /\ stream \in [Tasks -> Streams \cup {None}] /\ got \in [Tasks -> Frames \cup {None}]
      /\ reply \in [Tasks -> Replies \cup {None}] /\ executed \in [Tasks -> Nat]
      /\ outbox \in [Streams -> Seq(Requests)] /\ inbox \in [Streams -> Seq(Frames)]
  BY DEF IInv, TypeOK, TasksTypeOK, StreamsTypeOK, CountInv
<1>b. Counted(t)
  BY DEF CountInv
<1>1. CASE PopHit(t) \/ PopMiss(t) \/ Acquire(t) \/ DialOk(t)
  BY <1>a, <1>b, <1>1 DEF PopHit, PopMiss, Acquire, DialOk, Goto, Counted
<1>2. CASE DialFails(t)
  BY <1>a, <1>b, <1>2 DEF DialFails, Finish, Goto, Counted
<1>3. CASE WriteOk(t)
  <2>1. inbox[stream[t]] = << >>
    BY <1>3 DEF WriteOk, IInv, ExchangeInv, QuietStream
  <2> QED
    BY <1>a, <1>b, <1>3, <2>1 DEF WriteOk, Goto, Counted
<1>4. CASE ReadOk(t)
  BY <1>a, <1>b, <1>4 DEF ReadOk, Goto, Counted
<1>5. CASE RedialOk(t)
  BY <1>a, <1>b, <1>5 DEF RedialOk, Goto, Counted
<1>6. CASE RedialFails(t)
  BY <1>a, <1>b, <1>6 DEF RedialFails, Finish, Goto, Counted
<1>7. CASE Return(t)
  <2>1. got[t].body \in NodeBodies
    BY <1>7 DEF Return, IInv, ExchangeInv, Frames
  <2>2. Rewritten(got[t].body) \notin {"BadRequest", "RequestTooLarge"}
    BY <2>1 DEF NodeBodies, Rewritten
  <2> QED
    BY <1>a, <1>b, <1>7, <2>2 DEF Return, Finish, Goto, Counted
<1>8. CASE Deliver(t)
  BY <1>a, <1>b, <1>8 DEF Deliver, Goto, Counted
<1>9. ASSUME NEW k \in ErrorKinds, Retry(t, k) PROVE Counted(t)'
  BY <1>a, <1>b, <1>9 DEF Retry, Goto, Counted
<1>10. ASSUME NEW k \in ErrorKinds, Fail(t, k) PROVE Counted(t)'
  BY <1>a, <1>b, <1>10 DEF Fail, Finish, Goto, Counted
<1> QED
  BY <1>1, <1>2, <1>3, <1>4, <1>5, <1>6, <1>7, <1>8, <1>9, <1>10 DEF TaskStep, ErrorStep

(* A failed exchange whose request the node executed nevertheless. *)
LEMMA FailedStaysCounted ==
  ASSUME IInv, CountInv, NEW t \in Tasks, NEW k \in ErrorKinds, Fail(t, k),
         executed[t] < attempt[t], executed' = [executed EXCEPT ![t] = @ + 1]
  PROVE  Counted(t)'
<1>a. /\ phase \in [Tasks -> Phases] /\ attempt \in [Tasks -> {1, 2}]
      /\ reply \in [Tasks -> Replies \cup {None}] /\ executed \in [Tasks -> Nat]
  BY DEF IInv, TypeOK, TasksTypeOK, CountInv
<1> QED
  BY <1>a DEF Fail, Finish, Goto, Counted

(* Requests reach only streams the node holds open. *)
LEMMA UnansweredStep ==
  IInv /\ NoneLeftUnanswered /\ [Next]_vars => NoneLeftUnanswered'
<1> SUFFICES ASSUME IInv, NoneLeftUnanswered, [Next]_vars PROVE NoneLeftUnanswered'
  OBVIOUS
<1> USE DEF NoneLeftUnanswered
<1>a. /\ peer \in [Streams -> PeerStates] /\ outbox \in [Streams -> Seq(Requests)]
      /\ stream \in [Tasks -> Streams \cup {None}]
  BY DEF IInv, TypeOK, TasksTypeOK, StreamsTypeOK
<1>1. ASSUME NEW t \in Tasks, NEW p \in Payloads, Send(t, p) PROVE NoneLeftUnanswered'
  BY <1>1 DEF Send, netVars
<1>2. ASSUME NEW t \in Tasks, PopHit(t) \/ PopMiss(t) \/ Acquire(t) \/ DialFails(t)
      PROVE  NoneLeftUnanswered'
  BY <1>2 DEF PopHit, PopMiss, Acquire, DialFails, netVars
<1>3. ASSUME NEW t \in Tasks, DialOk(t) \/ RedialOk(t) PROVE NoneLeftUnanswered'
  BY <1>a, <1>3 DEF DialOk, RedialOk
<1>4. ASSUME NEW t \in Tasks, WriteOk(t) PROVE NoneLeftUnanswered'
  BY <1>a, <1>4 DEF WriteOk
<1>5. ASSUME NEW t \in Tasks, ReadOk(t) \/ Return(t) \/ Deliver(t) PROVE NoneLeftUnanswered'
  BY <1>5 DEF ReadOk, Return, Deliver, netVars
<1>6. ASSUME NEW t \in Tasks, DropConnection(t) PROVE NoneLeftUnanswered'
  BY <1>a, <1>6 DEF DropConnection, CloseStream
<1>7. ASSUME NEW t \in Tasks, NEW k \in ErrorKinds, Retry(t, k) \/ Fail(t, k)
      PROVE  NoneLeftUnanswered'
  BY <1>6, <1>7 DEF Retry, Fail, netVars
<1>8. ASSUME NEW s \in Streams, NodeStep(s) PROVE NoneLeftUnanswered'
  BY <1>a, <1>8 DEF NodeStep, NodeAnswers, NodeCloses, NodeResets
<1>9. ASSUME UNCHANGED vars PROVE NoneLeftUnanswered'
  BY <1>9 DEF vars, netVars
<1> QED
  BY <1>1, <1>2, <1>3, <1>4, <1>5, <1>6, <1>7, <1>8, <1>9
  DEF Next, TaskStep, ErrorStep, RedialFails

-----------------------------------------------------------------------------
LEMMA CountNextIsNext == [CountNext]_allVars => [Next]_vars
  BY DEF CountNext, CountTask, CountSend, CountAnswer, CountLoss, allVars, Next, NodeStep

LEMMA CountStep == IInv /\ CountInv /\ [CountNext]_allVars => CountInv'
<1> SUFFICES ASSUME IInv, CountInv, [CountNext]_allVars PROVE CountInv'
  OBVIOUS
<1>a. /\ phase \in [Tasks -> Phases] /\ attempt \in [Tasks -> {1, 2}]
      /\ stream \in [Tasks -> Streams \cup {None}] /\ executed \in [Tasks -> Nat]
      /\ reply \in [Tasks -> Replies \cup {None}]
      /\ outbox \in [Streams -> Seq(Requests)] /\ inbox \in [Streams -> Seq(Frames)]
  BY DEF IInv, TypeOK, TasksTypeOK, StreamsTypeOK, CountInv
<1>b. NoneLeftUnanswered'
  BY CountNextIsNext, UnansweredStep DEF CountInv
<1>c. \A t \in Tasks : Counted(t)
  BY DEF CountInv
<1>1. ASSUME NEW t \in Tasks, CountTask(t)
      PROVE  executed' \in [Tasks -> Nat] /\ \A u \in Tasks : Counted(u)'
  <2>1. TaskStep(t) \/ ErrorStep(t, ErrorKinds)
    BY <1>1 DEF CountTask
  <2>2. CASE executed' = executed
    BY <1>a, <2>1, <2>2, TaskStaysCounted, OthersStayCounted
  <2>3. CASE executed' # executed
    <3>1. /\ \E k \in ErrorKinds : Fail(t, k)
          /\ executed[t] < attempt[t]
          /\ executed' = [executed EXCEPT ![t] = @ + 1]
      BY <1>1, <2>3, TasksLoseOnlyTheirOwn DEF CountTask
    <3>2. executed' \in [Tasks -> Nat] /\ \A u \in Tasks : u # t => executed'[u] = executed[u]
      BY <1>a, <3>1
    <3> QED
      BY <2>1, <3>1, <3>2, FailedStaysCounted, OthersStayCounted
  <2> QED
    BY <2>2, <2>3
<1>2. ASSUME NEW t \in Tasks, NEW p \in Payloads, CountSend(t, p)
      PROVE  executed' \in [Tasks -> Nat] /\ \A u \in Tasks : Counted(u)'
  <2>1. executed' = [executed EXCEPT ![t] = 0] /\ attempt' = [attempt EXCEPT ![t] = 1]
        /\ UNCHANGED <<stream, outbox, inbox>>
    BY <1>2 DEF CountSend, Send, netVars
  <2>2. ASSUME NEW u \in Tasks, u # t PROVE Counted(u)'
    <3>1. phase'[u] = phase[u] /\ reply'[u] = reply[u]
      BY <1>a, <1>2, <2>2 DEF CountSend, Send, Goto
    <3> QED
      BY <1>a, <1>c, <2>1, <2>2, <3>1 DEF Counted
  <2>3. CASE Verdict(p) = "forward"
    BY <1>a, <1>2, <2>1, <2>2, <2>3 DEF CountSend, Send, Goto, Counted
  <2>4. CASE Verdict(p) # "forward"
    <3>1. /\ phase'[t] = "done" /\ reply'[t].body = Verdict(p)
          /\ executed'[t] = 0 /\ attempt'[t] = 1
      BY <1>a, <1>2, <2>1, <2>4 DEF CountSend, Send, Goto
    <3>2. Verdict(p) \notin {"response", "InternalError"}
      BY DEF Verdict
    <3>3. Counted(t)'
      BY <3>1, <3>2 DEF Counted
    <3> QED
      BY <1>a, <2>1, <2>2, <3>3
  <2> QED
    BY <2>3, <2>4
<1>3. ASSUME NEW s \in Streams, CountAnswer(s)
      PROVE  executed' \in [Tasks -> Nat] /\ \A u \in Tasks : Counted(u)'
  <2>1. PICK t \in Tasks : /\ phase[t] = "read" /\ stream[t] = s
                           /\ inbox[s] = << >> /\ Tail(outbox[s]) = << >>
                           /\ executed[t] < attempt[t]
                           /\ executed' = [executed EXCEPT ![t] = @ + 1]
    BY <1>3, ExecuteCountsReader DEF CountAnswer, NodeAnswers
  <2>2. /\ outbox' = [outbox EXCEPT ![s] = << >>]
        /\ \A r \in Streams : r # s => inbox'[r] = inbox[r]
        /\ UNCHANGED <<phase, attempt, stream, reply>>
    BY <1>a, <1>3, <2>1 DEF CountAnswer, NodeAnswers, taskVars
  <2>3. Counted(t)'
    <3>1. phase'[t] = "read" /\ outbox'[stream'[t]] = << >>
      BY <1>a, <2>1, <2>2
    <3>2. executed[t] \in Nat /\ attempt'[t] \in {1, 2} /\ attempt'[t] = attempt[t]
          /\ executed'[t] = executed[t] + 1
      BY <1>a, <2>1, <2>2
    <3> QED
      BY <2>1, <3>1, <3>2 DEF Counted
  <2>4. ASSUME NEW u \in Tasks, u # t PROVE Counted(u)'
    <3>1. phase[u] = "read" => stream[u] \in Streams /\ stream[u] # s
      BY <2>1, <2>4, StreamsSeparate DEF IInv, Holding
    <3> QED
      BY <1>a, <1>c, <2>1, <2>2, <2>4, <3>1 DEF Counted
  <2> QED
    BY <1>a, <2>1, <2>3, <2>4
<1>4. ASSUME NEW s \in Streams, CountLoss(s)
      PROVE  executed' \in [Tasks -> Nat] /\ \A u \in Tasks : Counted(u)'
  <2>1. /\ outbox' = [outbox EXCEPT ![s] = << >>]
        /\ inbox' \in {inbox, [inbox EXCEPT ![s] = << >>]}
        /\ UNCHANGED <<phase, attempt, stream, reply>>
    BY <1>4 DEF CountLoss, NodeCloses, NodeResets, taskVars
  <2>2. \A r \in Streams : inbox'[r] # << >> => inbox'[r] = inbox[r]
    BY <1>a, <2>1
  <2>3. \A r \in Streams : outbox'[r] # << >> => outbox'[r] = outbox[r]
    BY <1>a, <2>1
  <2>4. ASSUME NEW u \in Tasks, executed'[u] = executed[u] PROVE Counted(u)'
    <3>1. phase[u] = "read" => stream[u] \in Streams
      BY StreamsSeparate DEF IInv, Holding
    <3> QED
      BY <1>c, <2>1, <2>2, <2>3, <2>4, <3>1 DEF Counted
  <2>5. CASE executed' = executed
    BY <1>a, <2>4, <2>5
  <2>6. CASE executed' # executed
    <3>1. PICK r \in Streams : Lost(r) /\ Execute(r)
      BY <1>4, <2>6 DEF CountLoss, MayExecuteLost
    <3>2. r = s
      BY <1>a, <2>1, <3>1 DEF Lost
    <3>3. PICK t \in Tasks : /\ phase[t] = "read" /\ stream[t] = s
                             /\ inbox[s] = << >> /\ Tail(outbox[s]) = << >>
                             /\ executed[t] < attempt[t]
                             /\ executed' = [executed EXCEPT ![t] = @ + 1]
      BY <3>1, <3>2, ExecuteCountsReader DEF Lost
    <3>4. Counted(t)'
      <4>1. phase'[t] = "read" /\ outbox'[stream'[t]] = << >> /\ inbox'[stream'[t]] = << >>
        BY <1>a, <2>1, <3>3
      <4>2. executed[t] \in Nat /\ attempt'[t] \in {1, 2} /\ attempt'[t] = attempt[t]
            /\ executed'[t] = executed[t] + 1
        BY <1>a, <2>1, <3>3
      <4> QED
        BY <3>3, <4>1, <4>2 DEF Counted
    <3>5. \A u \in Tasks : u # t => executed'[u] = executed[u]
      BY <1>a, <3>3
    <3> QED
      BY <1>a, <2>4, <3>3, <3>4, <3>5
  <2> QED
    BY <2>5, <2>6
<1>5. ASSUME UNCHANGED allVars
      PROVE  executed' \in [Tasks -> Nat] /\ \A u \in Tasks : Counted(u)'
  BY <1>a, <1>c, <1>5 DEF allVars, vars, taskVars, netVars, Counted
<1>6. executed' \in [Tasks -> Nat] /\ \A u \in Tasks : Counted(u)'
  BY <1>1, <1>2, <1>3, <1>4, <1>5 DEF CountNext
<1> QED
  BY <1>b, <1>6 DEF CountInv

LEMMA SpecCountInv == CountSpec => [](IInv /\ CountInv)
<1>1. CountInit => IInv /\ CountInv
  <2> SUFFICES ASSUME CountInit PROVE IInv /\ CountInv
    OBVIOUS
  <2>1. CountInv
    BY DEF CountInit, Init, CountInv, NoneLeftUnanswered, Counted
  <2> QED
    BY <2>1, InitEstablishesIInv DEF CountInit
<1>2. IInv /\ CountInv /\ [CountNext]_allVars => (IInv /\ CountInv)'
  BY CountStep, CountNextIsNext, NextPreservesIInv
<1> QED
  BY <1>1, <1>2, PTL DEF CountSpec

(* However streams break, one call of `send` makes the node execute its    *)
(* request at most once per attempt, hence at most twice.                  *)
THEOREM ExecutionsAreBounded == CountSpec => []ExecutedOncePerAttempt
<1>1. IInv /\ CountInv => ExecutedOncePerAttempt
  BY DEF CountInv, Counted, ExecutedOncePerAttempt, IInv, TypeOK, TasksTypeOK
<1> QED
  BY <1>1, SpecCountInv, PTL

(* A response means that the node executed this very request, a refusal    *)
(* by the proxy that it never saw it.                                      *)
THEOREM RepliesTellTheTruth == CountSpec => []RepliesTellExecution
<1>1. CountInv => RepliesTellExecution
  BY DEF CountInv, Counted, RepliesTellExecution
<1> QED
  BY <1>1, SpecCountInv, PTL
=============================================================================
