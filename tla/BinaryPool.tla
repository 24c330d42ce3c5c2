----------------------------- MODULE BinaryPool -----------------------------
(***************************************************************************)
(* The upstream connector of the binary port (src/src/binary_proxy.rs):    *)
(* a semaphore of `max_connections` permits, a stack of idle connections   *)
(* that keep their permit, and `send`, which websocket tasks call to       *)
(* forward one request and wait for its answer.                            *)
(*                                                                         *)
(* A task runs `send` to its end before it calls it again: the websocket   *)
(* handler awaits each call, and nothing in it drops the call halfway.     *)
(* Between two awaits a task runs alone as far as the pool can tell, so an *)
(* action is the code from one await to the next.  The node at the other   *)
(* end of a stream is an environment: it answers requests in the order it  *)
(* reads them and may close or reset any stream at any time, also one that *)
(* lies idle in the pool.                                                  *)
(***************************************************************************)
EXTENDS Naturals, Sequences, FiniteSets, BinaryMessages

CONSTANTS
  Tasks,            \* websocket tasks, each with at most one call of `send`
  MaxConnections,   \* BINARY_POOL_SIZE, any usize
  Permits,          \* the permits of the semaphore
  Streams,          \* names for TCP streams, reusable once a stream is closed
  CallNumbers,      \* calls of one task are numbered modulo this
  None              \* no permit, no stream, no frame

(* `Semaphore::new(max_connections.max(1))` *)
PermitCount == IF MaxConnections = 0 THEN 1 ELSE MaxConnections

ASSUME PoolAssumption ==
  /\ MaxConnections \in Nat
  /\ CallNumbers \in Nat \ {0}
  /\ IsFiniteSet(Permits) /\ Cardinality(Permits) = PermitCount
  /\ None \notin Permits \cup Streams

VARIABLES
  phase,     \* where each task is in `send`
  call,      \* number of the current call of each task
  attempt,   \* 1, or 2 after `reconnect`
  permit,    \* the permit in each task's hand
  stream,    \* the stream in each task's hand
  got,       \* the frame `send_and_receive` returned
  reply,     \* what `send` returned
  free,      \* permits the semaphore can still give out
  pool,      \* idle connections; `Vec::push` and `Vec::pop` work at the end
  peer,      \* the node's side of each stream
  outbox,    \* requests written to a stream and not yet answered
  inbox      \* answers on a stream and not yet read

taskVars == <<phase, call, attempt, permit, stream, got, reply>>
poolVars == <<free, pool>>
netVars  == <<peer, outbox, inbox>>
vars     == <<taskVars, poolVars, netVars>>

-----------------------------------------------------------------------------
(* The phases of `send`.  "acquire" is the wait for a permit, "dial" and   *)
(* "redial" are TcpStream::connect, "write" and "read" the two halves of   *)
(* send_and_receive, "return" is return_connection.                        *)
Holding == {"write", "read", "redial", "return"}
Waiting == {"pop", "acquire"}
Busy    == Waiting \cup {"dial"} \cup Holding
Phases  == {"idle", "done"} \cup Busy

PeerStates == {"none", "open", "fin", "rst"}

Requests == Tasks \X (0 .. CallNumbers - 1)
Request(t) == <<t, call[t]>>

(* An answer of the node, and what `send` returns: see BinaryMessages. *)
Frames == [req : Requests, body : NodeBodies]

Replies == [ok : BOOLEAN, req : Requests, body : ReplyBodies]

(* A connection as it lies in the pool. *)
Connections == [stream : Streams, permit : Permits]

(* The request a rewritten answer is about: the one the node's envelope    *)
(* names, or the caller's own where the proxy builds the envelope.         *)
Answered(t) ==
  IF got[t].body \in {"decodes", "peers"} THEN got[t].req ELSE Request(t)

-----------------------------------------------------------------------------
Init ==
  /\ phase    = [t \in Tasks |-> "idle"]
  /\ call     = [t \in Tasks |-> 0]
  /\ attempt  = [t \in Tasks |-> 1]
  /\ permit   = [t \in Tasks |-> None]
  /\ stream   = [t \in Tasks |-> None]
  /\ got      = [t \in Tasks |-> None]
  /\ reply    = [t \in Tasks |-> None]
  /\ free     = Permits
  /\ pool     = << >>
  /\ peer     = [s \in Streams |-> "none"]
  /\ outbox   = [s \in Streams |-> << >>]
  /\ inbox    = [s \in Streams |-> << >>]

Goto(t, p) == phase' = [phase EXCEPT ![t] = p]

(* `send` returns. *)
Finish(t, ok, req, body) ==
  /\ Goto(t, "done")
  /\ reply' = [reply EXCEPT ![t] = [ok |-> ok, req |-> req, body |-> body]]

(* A task calls `send`.  A request the proxy answers itself never reaches  *)
(* the pool; the others go on to get_connection.                           *)
NextCall(t) == IF call[t] + 1 = CallNumbers THEN 0 ELSE call[t] + 1

Send(t, p) ==
  /\ phase[t] = "idle"
  /\ call' = [call EXCEPT ![t] = NextCall(t)]
  /\ attempt' = [attempt EXCEPT ![t] = 1]
  /\ \/ /\ Verdict(p) = "forward"
        /\ Goto(t, "pop")
        /\ UNCHANGED reply
     \/ /\ Verdict(p) # "forward"
        /\ Goto(t, "done")
        /\ reply' = [reply EXCEPT ![t] =
                       [ok |-> Verdict(p) # "RequestTooLarge",
                        req |-> <<t, NextCall(t)>>, body |-> Verdict(p)]]
  /\ UNCHANGED <<permit, stream, got, poolVars, netVars>>

(* get_connection, first half: take the connection returned last, or go    *)
(* and wait for a permit.  The pool's lock is released in between.         *)
PopHit(t) ==
  /\ phase[t] = "pop"
  /\ pool # << >>
  /\ LET conn == pool[Len(pool)] IN
       /\ stream' = [stream EXCEPT ![t] = conn.stream]
       /\ permit' = [permit EXCEPT ![t] = conn.permit]
  /\ pool' = SubSeq(pool, 1, Len(pool) - 1)
  /\ Goto(t, "write")
  /\ UNCHANGED <<call, attempt, got, reply, free, netVars>>

\* Seeded fault: a task goes for a new connection without looking for an idle one.
PopMissWithoutLooking(t) ==
  /\ phase[t] = "pop"
  /\ Goto(t, "acquire")
  /\ UNCHANGED <<call, attempt, permit, stream, got, reply, poolVars, netVars>>

PopMiss(t) ==
  /\ phase[t] = "pop"
  /\ pool = << >>
  /\ Goto(t, "acquire")
  /\ UNCHANGED <<call, attempt, permit, stream, got, reply, poolVars, netVars>>

(* get_connection, second half: `acquire_owned` and `connect`.  A failed   *)
(* connect drops the permit on its way out.                                *)
Acquire(t) ==
  /\ phase[t] = "acquire"
  /\ \E p \in free :
       /\ free' = free \ {p}
       /\ permit' = [permit EXCEPT ![t] = p]
  /\ Goto(t, "dial")
  /\ UNCHANGED <<call, attempt, stream, got, reply, pool, netVars>>

DialOk(t) ==
  /\ phase[t] = "dial"
  /\ \E s \in Streams :
       /\ peer[s] = "none"
       /\ peer' = [peer EXCEPT ![s] = "open"]
       /\ stream' = [stream EXCEPT ![t] = s]
  /\ Goto(t, "write")
  /\ UNCHANGED <<call, attempt, permit, got, reply, poolVars, outbox, inbox>>

\* Seeded fault: the permit of a failed connect is forgotten.
DialFailsForgetsPermit(t) ==
  /\ phase[t] = "dial"
  /\ permit' = [permit EXCEPT ![t] = None]
  /\ Finish(t, FALSE, Request(t), "Io")
  /\ UNCHANGED <<call, attempt, stream, got, poolVars, netVars>>

DialFails(t) ==
  /\ phase[t] = "dial"
  /\ free' = free \cup {permit[t]}
  /\ permit' = [permit EXCEPT ![t] = None]
  /\ Finish(t, FALSE, Request(t), "Io")
  /\ UNCHANGED <<call, attempt, stream, got, pool, netVars>>

-----------------------------------------------------------------------------
(* send_and_receive.  Bytes written after the node closed its side may     *)
(* still be accepted locally; they reach nobody.                           *)
WriteOk(t) ==
  /\ phase[t] = "write"
  /\ peer[stream[t]] \in {"open", "fin"}
  /\ outbox' = IF peer[stream[t]] = "open"
                 THEN [outbox EXCEPT ![stream[t]] = Append(@, Request(t))]
                 ELSE outbox
  /\ Goto(t, "read")
  /\ UNCHANGED <<call, attempt, permit, stream, got, reply, poolVars, peer, inbox>>

ReadOk(t) ==
  /\ phase[t] = "read"
  /\ inbox[stream[t]] # << >>
  /\ got' = [got EXCEPT ![t] = Head(inbox[stream[t]])]
  /\ inbox' = [inbox EXCEPT ![stream[t]] = Tail(@)]
  /\ Goto(t, "return")
  /\ UNCHANGED <<call, attempt, permit, stream, reply, poolVars, peer, outbox>>

(* An io::Error by its kind.  A node that closed or reset the stream shows *)
(* as one of the first four, on a read only once the answers that arrived  *)
(* before are consumed; any other kind can strike at any time.             *)
PeerGone   == {"UnexpectedEof", "ConnectionReset", "ConnectionAborted", "BrokenPipe"}
ErrorKinds == PeerGone \cup {"Other"}

Error(t, k) ==
  /\ phase[t] \in {"write", "read"}
  /\ k = "UnexpectedEof" => phase[t] = "read"
  /\ k \in PeerGone =>
       /\ peer[stream[t]] \in {"fin", "rst"}
       /\ phase[t] = "read" => inbox[stream[t]] = << >>

\* Seeded fault: every I/O error counts as a lost peer.
AnyErrorIsRetryable(k) == k \in ErrorKinds

(* is_retryable_io_error *)
IsRetryable(k) ==
  k \in {"UnexpectedEof", "ConnectionReset", "ConnectionAborted", "BrokenPipe"}

(* The first failed exchange is repeated once, on a new stream. *)
Retry(t, k) ==
  /\ Error(t, k)
  /\ IsRetryable(k)
  /\ attempt[t] = 1
  /\ Goto(t, "redial")
  /\ UNCHANGED <<call, attempt, permit, stream, got, reply, poolVars, netVars>>

(* Dropping a connection closes its stream and releases its permit. *)
CloseStream(s) ==
  /\ peer' = [peer EXCEPT ![s] = "none"]
  /\ outbox' = [outbox EXCEPT ![s] = << >>]
  /\ inbox' = [inbox EXCEPT ![s] = << >>]

\* Seeded fault: the permit is cleared before it is released.
DropClearsPermitFirst(t) ==
  /\ permit' = [permit EXCEPT ![t] = None]
  /\ free' = free \cup {permit'[t]}
  /\ stream' = [stream EXCEPT ![t] = None]
  /\ CloseStream(stream[t])
  /\ UNCHANGED pool

DropConnection(t) ==
  /\ free' = free \cup {permit[t]}
  /\ permit' = [permit EXCEPT ![t] = None]
  /\ stream' = [stream EXCEPT ![t] = None]
  /\ CloseStream(stream[t])
  /\ UNCHANGED pool

(* An error that is not retried ends the call, and the connection with it. *)
\* Seeded fault: the connection of a failed exchange goes back to the pool.
FailKeepsConnection(t, k) ==
  /\ Error(t, k)
  /\ ~IsRetryable(k) \/ attempt[t] = 2
  /\ pool' = Append(pool, [stream |-> stream[t], permit |-> permit[t]])
  /\ stream' = [stream EXCEPT ![t] = None]
  /\ permit' = [permit EXCEPT ![t] = None]
  /\ Finish(t, FALSE, Request(t), "Io")
  /\ UNCHANGED <<call, attempt, got, free, netVars>>

Fail(t, k) ==
  /\ Error(t, k)
  /\ ~IsRetryable(k) \/ attempt[t] = 2
  /\ DropConnection(t)
  /\ Finish(t, FALSE, Request(t), "Io")
  /\ UNCHANGED <<call, attempt, got>>

(* `reconnect`: the new stream replaces the old one, which closes; the     *)
(* permit stays.  If it fails the call fails with it.                      *)
\* Seeded fault: the replaced stream is never closed.
RedialLeaksStream(t) ==
  /\ phase[t] = "redial"
  /\ \E s \in Streams :
       /\ peer[s] = "none"
       /\ stream' = [stream EXCEPT ![t] = s]
       /\ peer' = [peer EXCEPT ![s] = "open"]
  /\ attempt' = [attempt EXCEPT ![t] = 2]
  /\ Goto(t, "write")
  /\ UNCHANGED <<call, permit, got, reply, poolVars, outbox, inbox>>

\* Seeded fault: the retry is retried, for as long as the node hangs up.
RedialForgetsAttempt(t) ==
  /\ phase[t] = "redial"
  /\ \E s \in Streams :
       /\ peer[s] = "none"
       /\ stream' = [stream EXCEPT ![t] = s]
       /\ peer' = [peer EXCEPT ![s] = "open", ![stream[t]] = "none"]
  /\ outbox' = [outbox EXCEPT ![stream[t]] = << >>]
  /\ inbox' = [inbox EXCEPT ![stream[t]] = << >>]
  /\ Goto(t, "write")
  /\ UNCHANGED <<call, attempt, permit, got, reply, poolVars>>

RedialOk(t) ==
  /\ phase[t] = "redial"
  /\ \E s \in Streams :
       /\ peer[s] = "none"
       /\ stream' = [stream EXCEPT ![t] = s]
       /\ peer' = [peer EXCEPT ![s] = "open", ![stream[t]] = "none"]
  /\ outbox' = [outbox EXCEPT ![stream[t]] = << >>]
  /\ inbox' = [inbox EXCEPT ![stream[t]] = << >>]
  /\ attempt' = [attempt EXCEPT ![t] = 2]
  /\ Goto(t, "write")
  /\ UNCHANGED <<call, permit, got, reply, poolVars>>

RedialFails(t) ==
  /\ phase[t] = "redial"
  /\ DropConnection(t)
  /\ Finish(t, FALSE, Request(t), "Io")
  /\ UNCHANGED <<call, attempt, got>>

(* The answer is rewritten and the connection goes back to the pool, with  *)
(* its permit, whether or not the answer could be decoded.                 *)
Return(t) ==
  /\ phase[t] = "return"
  /\ pool' = Append(pool, [stream |-> stream[t], permit |-> permit[t]])
  /\ stream' = [stream EXCEPT ![t] = None]
  /\ permit' = [permit EXCEPT ![t] = None]
  /\ got' = [got EXCEPT ![t] = None]
  /\ Finish(t, TRUE, Answered(t), Rewritten(got[t].body))
  /\ UNCHANGED <<call, attempt, free, netVars>>

(* The websocket handler sends the reply on and reads the next message. *)
Deliver(t) ==
  /\ phase[t] = "done"
  /\ Goto(t, "idle")
  /\ reply' = [reply EXCEPT ![t] = None]
  /\ UNCHANGED <<call, attempt, permit, stream, got, poolVars, netVars>>

-----------------------------------------------------------------------------
(* The node. *)
NodeAnswers(s) ==
  /\ peer[s] = "open"
  /\ outbox[s] # << >>
  /\ \E b \in NodeBodies :
       inbox' = [inbox EXCEPT ![s] = Append(@, [req |-> Head(outbox[s]), body |-> b])]
  /\ outbox' = [outbox EXCEPT ![s] = Tail(@)]
  /\ UNCHANGED <<taskVars, poolVars, peer>>

(* It closes a stream: what it has not answered stays unanswered, and an   *)
(* answer under way arrives whole or is cut off.                           *)
NodeCloses(s) ==
  /\ peer[s] = "open"
  /\ peer' = [peer EXCEPT ![s] = "fin"]
  /\ outbox' = [outbox EXCEPT ![s] = << >>]
  /\ inbox' \in {inbox, [inbox EXCEPT ![s] = << >>]}
  /\ UNCHANGED <<taskVars, poolVars>>

NodeResets(s) ==
  /\ peer[s] \in {"open", "fin"}
  /\ peer' = [peer EXCEPT ![s] = "rst"]
  /\ outbox' = [outbox EXCEPT ![s] = << >>]
  /\ inbox' \in {inbox, [inbox EXCEPT ![s] = << >>]}
  /\ UNCHANGED <<taskVars, poolVars>>

-----------------------------------------------------------------------------
TaskStep(t) ==
  \/ PopHit(t) \/ PopMiss(t) \/ Acquire(t) \/ DialOk(t) \/ DialFails(t)
  \/ WriteOk(t) \/ ReadOk(t) \/ RedialOk(t) \/ RedialFails(t)
  \/ Return(t) \/ Deliver(t)

ErrorStep(t, kinds) == \E k \in kinds : Retry(t, k) \/ Fail(t, k)

NodeStep(s) == NodeAnswers(s) \/ NodeCloses(s) \/ NodeResets(s)

Next ==
  \/ \E t \in Tasks :
       \/ \E p \in Payloads : Send(t, p)
       \/ TaskStep(t)
       \/ ErrorStep(t, ErrorKinds)
  \/ \E s \in Streams : NodeStep(s)

Spec == Init /\ [][Next]_vars

(* What the runtime and the node are counted on to do.  Every task that    *)
(* can run is polled again; an error other than a lost peer need never     *)
(* happen, so nothing rests on it to end a read.  Tokio's semaphore serves *)
(* its waiters in order, so a task that finds a permit free again and      *)
(* again gets one.  The node answers what it has read, or closes: `send`   *)
(* has no timeout of its own.  Nobody has to send requests.                *)
Fairness ==
  /\ \A t \in Tasks :
       /\ WF_vars(TaskStep(t) \/ ErrorStep(t, PeerGone))
       /\ SF_vars(Acquire(t))
  /\ \A s \in Streams : WF_vars(NodeAnswers(s))

FairSpec == Spec /\ Fairness

-----------------------------------------------------------------------------
(* Properties. *)

(* What each variable of the callers, the pool and the streams holds.      *)
TasksTypeOK ==
  /\ phase \in [Tasks -> Phases]
  /\ call \in [Tasks -> 0 .. CallNumbers - 1]
  /\ attempt \in [Tasks -> {1, 2}]
  /\ permit \in [Tasks -> Permits \cup {None}]
  /\ stream \in [Tasks -> Streams \cup {None}]
  /\ got \in [Tasks -> Frames \cup {None}]
  /\ reply \in [Tasks -> Replies \cup {None}]

PoolTypeOK ==
  /\ free \in SUBSET Permits
  /\ pool \in Seq(Connections)

StreamsTypeOK ==
  /\ peer \in [Streams -> PeerStates]
  /\ outbox \in [Streams -> Seq(Requests)]
  /\ inbox \in [Streams -> Seq(Frames)]

TypeOK == TasksTypeOK /\ PoolTypeOK /\ StreamsTypeOK

(* Each element of `all` is in exactly one place: in the hand of one task, *)
(* in one entry of the sequence `idle`, or in the set `rest`.              *)
Partitioned(hand, idle, rest, all) ==
  /\ \A t \in Tasks : hand[t] \notin rest
  /\ \A t, u \in Tasks : t # u /\ hand[t] # None => hand[t] # hand[u]
  /\ \A i \in 1 .. Len(idle) : idle[i] \notin rest
  /\ \A i \in 1 .. Len(idle) : \A t \in Tasks : idle[i] # hand[t]
  /\ \A i, j \in 1 .. Len(idle) : i # j => idle[i] # idle[j]
  /\ \A x \in all :
       \/ x \in rest
       \/ \E t \in Tasks : hand[t] = x
       \/ \E i \in 1 .. Len(idle) : idle[i] = x

IdlePermits == [i \in 1 .. Len(pool) |-> pool[i].permit]
IdleStreams == [i \in 1 .. Len(pool) |-> pool[i].stream]
Closed == {s \in Streams : peer[s] = "none"}

(* Every permit of the semaphore is in exactly one place, on every path    *)
(* through `send`, the failing ones too: free, in the hand of one task     *)
(* that dials or talks to the node, or with one idle connection.  None is  *)
(* lost, so the pool never shrinks; none is given out twice, so there are  *)
(* never more than max_connections of them in use.                         *)
PermitsConserved ==
  /\ \A t \in Tasks : permit[t] # None <=> phase[t] \in {"dial"} \cup Holding
  /\ Partitioned(permit, IdlePermits, free, Permits)

(* No two users share a TCP stream, and no stream stays open without one:  *)
(* a stream the proxy has not closed belongs to exactly one task that      *)
(* talks on it or to exactly one idle connection, through pops, returns,   *)
(* failures and reconnects.                                                *)
StreamsExclusive ==
  /\ \A t \in Tasks : stream[t] # None <=> phase[t] \in Holding
  /\ Partitioned(stream, IdleStreams, Closed, Streams)

(* A connection is put back only when its exchange is complete: an idle    *)
(* stream carries neither a request the node still has to answer nor an    *)
(* answer nobody has read, however the last call that used it ended.       *)
PooledStreamsQuiet ==
  \A i \in 1 .. Len(pool) :
    /\ outbox[pool[i].stream] = << >>
    /\ inbox[pool[i].stream] = << >>

(* A caller is given the answer to its own request, never one left over on *)
(* a reused connection from another caller or from an earlier call: frames *)
(* carry no identifier that `send` would compare.                          *)
AnswersOwnRequest ==
  \A t \in Tasks :
    /\ phase[t] = "return" => got[t].req = Request(t)
    /\ phase[t] = "done" => reply[t].req = Request(t)

(* A request is written a second time only when the node has closed or     *)
(* reset the stream of the first attempt, so that no answer to the first   *)
(* one can arrive any more.                                                *)
RetryOnlyAfterPeerClosed ==
  \A t \in Tasks : phase[t] = "redial" => peer[stream[t]] \in {"fin", "rst"}

(* The tasks that ask for, dial or use a connection, and the idle          *)
(* connections, are together never more than the tasks: a task goes for a  *)
(* new connection only after it saw the pool empty, so connections do not  *)
(* pile up beyond what the callers once needed at the same time.           *)
DemandBounded ==
  Len(pool) + Cardinality({t \in Tasks : phase[t] \in {"acquire", "dial"} \cup Holding})
    <= Cardinality(Tasks)

(* "Send one request and await the corresponding response": every call of  *)
(* `send` returns, with an answer or an error.                             *)
EveryCallReturns ==
  \A t \in Tasks : phase[t] \in Busy ~> phase[t] \notin Busy

-----------------------------------------------------------------------------
(* How the connector implements RequestService: a call is served from the  *)
(* moment it has a permit, from the semaphore or with a connection of the  *)
(* pool, until `send` returns.                                             *)
ServiceState ==
  [t \in Tasks |-> CASE phase[t] = "idle" -> "idle"
                     [] phase[t] \in Waiting -> "asked"
                     [] phase[t] \in {"dial"} \cup Holding -> "served"
                     [] phase[t] = "done" -> "done"]

Service == INSTANCE RequestService WITH state <- ServiceState

(* Whatever happens to connections, callers see a service that serves as   *)
(* many of them as there are permits and answers each about its own        *)
(* request: pooling, reconnecting and idle permits stay hidden.            *)
ImplementsService == Service!Spec
=============================================================================
