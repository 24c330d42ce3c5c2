---------------------------- MODULE BinarySocket ----------------------------
(***************************************************************************)
(* The /binary endpoint (handle_binary_socket in src/src/handlers.rs): one *)
(* handler per websocket reads messages, asks the connection's own rate    *)
(* limiter, calls `send` of the connector and passes the reply on, one     *)
(* message after the other.  The connector is RequestService, which        *)
(* BinaryPool implements.  The metrics both of them write                  *)
(* (src/src/metrics.rs) are part of the state: binary_requests_total and   *)
(* the gauges are written by the handler and by guards that are dropped,   *)
(* binary_responses_total partly by `send` and partly by the handler.      *)
(***************************************************************************)
EXTENDS RequestService, Sequences, FiniteSets, FiniteSetsExt

CONSTANTS
  MaxQueue,     \* bound: unread messages of one websocket
  MaxMessages,  \* bound: binary messages of one connection
  MaxRequests   \* bound: binary messages that are read or can be, altogether

ASSUME SocketAssumption ==
  MaxQueue \in Nat /\ MaxMessages \in Nat /\ MaxRequests \in Nat

VARIABLES
  phase,        \* "closed", "reading", "limited" by the rate, or "calling" send
  wire,         \* messages of the client the handler has not read
  gone,         \* the client went away
  asked,        \* binary messages the client sent on this connection
  answered,     \* answers it was sent
  requests,     \* binary_requests_total
  responses,    \* binary_responses_total, by outcome
  connections,  \* binary_connections
  inflight      \* binary_inflight_requests

clientVars  == <<wire, gone, asked, answered>>
metricVars  == <<requests, responses, connections, inflight>>
socketVars  == <<vars, phase, clientVars, metricVars>>

Outcomes == {"ok", "error", "rate_limited"}

(* Messages as the handler tells them apart: Binary, Close, any other. *)
Messages == {"Binary", "Close", "Other"}

SocketInit ==
  /\ Init
  /\ phase    = [s \in Tasks |-> "closed"]
  /\ wire     = [s \in Tasks |-> << >>]
  /\ gone     = [s \in Tasks |-> FALSE]
  /\ asked    = [s \in Tasks |-> 0]
  /\ answered = [s \in Tasks |-> 0]
  /\ requests = 0 /\ responses = [o \in Outcomes |-> 0]
  /\ connections = 0 /\ inflight = 0

Goto(s, p) == phase' = [phase EXCEPT ![s] = p]

(* increment_binary_response *)
Count(o) == responses' = [responses EXCEPT ![o] = @ + 1]

Answer(s) == answered' = [answered EXCEPT ![s] = @ + 1]

-----------------------------------------------------------------------------
(* The client. *)
Open(s) ==
  /\ phase[s] = "closed"
  /\ Goto(s, "reading")
  /\ connections' = connections + 1
  /\ UNCHANGED <<vars, clientVars, requests, responses, inflight>>

Unread(s) == Cardinality({i \in 1 .. Len(wire[s]) : wire[s][i] = "Binary"})

ClientSends(s, m) ==
  /\ phase[s] # "closed" /\ ~gone[s]
  /\ Len(wire[s]) < MaxQueue
  /\ m = "Binary" =>
       asked[s] < MaxMessages /\ requests + MapThenSumSet(Unread, Tasks) < MaxRequests
  /\ wire' = [wire EXCEPT ![s] = Append(@, m)]
  /\ asked' = IF m = "Binary" THEN [asked EXCEPT ![s] = @ + 1] ELSE asked
  /\ UNCHANGED <<vars, phase, gone, answered, metricVars>>

(* What it sent before may still arrive, or be lost with the connection. *)
ClientGoes(s) ==
  /\ phase[s] # "closed" /\ ~gone[s]
  /\ gone' = [gone EXCEPT ![s] = TRUE]
  /\ wire' \in {wire, [wire EXCEPT ![s] = << >>]}
  /\ UNCHANGED <<vars, phase, asked, answered, metricVars>>

-----------------------------------------------------------------------------
(* The handler reads a message.  A binary one is counted, then shown to    *)
(* the limiter; an admitted one goes to `send`, which counts the call as   *)
(* in flight and may refuse it on the spot.                                *)
Read(s, m) ==
  /\ phase[s] = "reading"
  /\ wire[s] # << >> /\ Head(wire[s]) = m
  /\ wire' = [wire EXCEPT ![s] = Tail(@)]

CountRequest == requests' = requests + 1

ReadLimited(s) ==
  /\ Read(s, "Binary")
  /\ CountRequest
  /\ Goto(s, "limited")
  /\ UNCHANGED <<vars, gone, asked, answered, responses, connections, inflight>>

\* Seeded fault: the guard of the gauge is dropped where it is made.
ReadForwardedWithoutGuard(s) ==
  /\ Read(s, "Binary")
  /\ CountRequest
  /\ Ask(s)
  /\ Goto(s, "calling")
  /\ UNCHANGED <<gone, asked, answered, responses, connections, inflight>>

ReadForwarded(s) ==
  /\ Read(s, "Binary")
  /\ CountRequest
  /\ Ask(s)
  /\ Goto(s, "calling")
  /\ inflight' = inflight + 1
  /\ UNCHANGED <<gone, asked, answered, responses, connections>>

\* Seeded fault: an early return of `send` leaves the counter alone.
ReadRefusedUncounted(s, b) ==
  /\ Read(s, "Binary")
  /\ CountRequest
  /\ Refuse(s, b)
  /\ Goto(s, "calling")
  /\ UNCHANGED <<gone, asked, answered, responses, connections, inflight>>

ReadRefused(s, b) ==
  /\ Read(s, "Binary")
  /\ CountRequest
  /\ Refuse(s, b)
  /\ Goto(s, "calling")
  /\ Count("error")
  /\ UNCHANGED <<gone, asked, answered, connections, inflight>>

ReadOther(s) ==
  /\ Read(s, "Other")
  /\ UNCHANGED <<vars, phase, gone, asked, answered, metricVars>>

(* The handler ends, and its guard with it. *)
Ends(s) ==
  /\ Goto(s, "closed")
  /\ connections' = connections - 1
  /\ wire' = [wire EXCEPT ![s] = << >>]
  /\ gone' = [gone EXCEPT ![s] = FALSE]
  /\ asked' = [asked EXCEPT ![s] = 0]
  /\ answered' = [answered EXCEPT ![s] = 0]
  /\ UNCHANGED <<requests, responses, inflight>>

\* Seeded fault: an error of the websocket is logged and the loop goes on.
ReadEndOnCloseOnly(s) ==
  /\ phase[s] = "reading"
  /\ \/ wire[s] # << >> /\ Head(wire[s]) = "Close" /\ Ends(s)
     \/ wire[s] = << >> /\ gone[s] /\ UNCHANGED <<phase, clientVars, metricVars>>
  /\ UNCHANGED vars

(* A close frame, or the end of the stream or an error. *)
ReadEnd(s) ==
  /\ phase[s] = "reading"
  /\ \/ wire[s] # << >> /\ Head(wire[s]) = "Close"
     \/ wire[s] = << >> /\ gone[s]
  /\ Ends(s)
  /\ UNCHANGED vars

-----------------------------------------------------------------------------
\* Seeded fault: a refused message goes to the node all the same.
SendLimitedAndCall(s) ==
  /\ phase[s] = "limited"
  /\ Answer(s)
  /\ Count("rate_limited")
  /\ Ask(s)
  /\ inflight' = inflight + 1
  /\ Goto(s, "calling")
  /\ UNCHANGED <<wire, gone, asked, requests, connections>>

(* The limiter's answer; whether it could be sent does not matter. *)
SendLimited(s) ==
  /\ phase[s] = "limited"
  /\ Answer(s)
  /\ Count("rate_limited")
  /\ Goto(s, "reading")
  /\ UNCHANGED <<vars, wire, gone, asked, requests, connections, inflight>>

(* Inside `send`: the call gets its connection; it returns and is counted. *)
GetConnection(s) ==
  /\ Serve(s)
  /\ UNCHANGED <<phase, clientVars, metricVars>>

SendReturns(s, e) ==
  /\ Return(s, e)
  /\ Count(IF e.ok THEN "ok" ELSE "error")
  /\ inflight' = inflight - 1
  /\ UNCHANGED <<phase, clientVars, requests, connections>>

(* A response is passed on; only there does a client that is gone end the  *)
(* handler.  An error becomes a text message, sent or not.                 *)
\* Seeded fault: a call that ended with an error is not answered.
PassOnResponsesOnly(s) ==
  /\ phase[s] = "calling"
  /\ Take(s)
  /\ \/ /\ reply[s].ok /\ Answer(s)
     \/ /\ ~reply[s].ok /\ UNCHANGED answered
  /\ Goto(s, "reading")
  /\ UNCHANGED <<wire, gone, asked, metricVars>>

PassOn(s) ==
  /\ phase[s] = "calling"
  /\ Take(s)
  /\ Answer(s)
  /\ Goto(s, "reading")
  /\ UNCHANGED <<wire, gone, asked, metricVars>>

PassOnFails(s) ==
  /\ phase[s] = "calling" /\ gone[s]
  /\ Take(s)
  /\ reply[s].ok
  /\ Ends(s)

-----------------------------------------------------------------------------
HandlerStep(s) ==
  \/ ReadLimited(s) \/ ReadForwarded(s) \/ ReadOther(s) \/ ReadEnd(s)
  \/ \E b \in Refusals : ReadRefused(s, b)
  \/ SendLimited(s) \/ PassOn(s) \/ PassOnFails(s)

ServiceStep(s) == GetConnection(s) \/ \E e \in Endings : SendReturns(s, e)

ClientStep(s) == Open(s) \/ ClientGoes(s) \/ \E m \in Messages : ClientSends(s, m)

SocketNext == \E s \in Tasks : HandlerStep(s) \/ ServiceStep(s) \/ ClientStep(s)

SocketSpec == SocketInit /\ [][SocketNext]_socketVars

(* Handlers that can run are polled, and a call that has a connection      *)
(* returns, as the node answers or closes.  A call is counted on to get    *)
(* one only where there are as many permits as websockets: with fewer, it  *)
(* may wait for ever for a permit that lies in the pool, which is free for *)
(* RequestService and not for the waiter (BinaryPoolStarved.cfg).          *)
SocketFairSpec ==
  /\ SocketSpec
  /\ \A s \in Tasks :
       /\ WF_socketVars(HandlerStep(s))
       /\ WF_socketVars(\E e \in Endings : SendReturns(s, e))
       /\ Cardinality(Tasks) <= Cardinality(Permits) => WF_socketVars(GetConnection(s))

-----------------------------------------------------------------------------
(* Properties. *)

In(p) == Cardinality({s \in Tasks : phase[s] = p})

(* The counters two functions keep agree: every binary message counted as  *)
(* a request is counted as one response, whichever way it ended (limited,  *)
(* refused, failed, answered, answered to nobody), except those in flight  *)
(* by the gauge or being refused by the limiter at this moment.            *)
CountersBalance ==
  requests = responses["ok"] + responses["error"]
             + responses["rate_limited"] + inflight + In("limited")

(* The gauges show what is there: handlers, and calls of `send`.           *)
GaugesTrue ==
  /\ connections = Cardinality(Tasks) - In("closed")
  /\ inflight = Cardinality({s \in Tasks : state[s] \in {"asked", "served"}})

(* On a connection that stands every binary message gets exactly one       *)
(* answer: what the client sent and was not answered is still unread, or   *)
(* is the one message its handler is busy with.                            *)
OneAnswerPerMessage ==
  \A s \in Tasks : phase[s] # "closed" /\ ~gone[s] =>
    asked[s] = answered[s] + Unread(s) + (IF phase[s] = "reading" THEN 0 ELSE 1)

(* Every binary message is answered, or its connection ends, where permits *)
(* suffice.                                                                *)
EveryMessageAnswered ==
  \A s \in Tasks : \A n \in 1 .. MaxMessages :
    asked[s] >= n ~> answered[s] >= n \/ phase[s] = "closed"

(* The handler of a client that went away ends, also when it was waiting   *)
(* for the node, where permits suffice.                                    *)
HandlersOfGoneEnd == \A s \in Tasks : gone[s] ~> phase[s] = "closed"
=============================================================================
