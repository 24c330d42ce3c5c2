---------------------------- MODULE JsonRpcProxy ----------------------------
(***************************************************************************)
(* The /rpc endpoint (src/src/jsonrpc_proxy.rs): a request is looked at,   *)
(* answered by the proxy itself or forwarded to the node's JSON-RPC        *)
(* server, whose reply is passed on, without its peers if it is a node     *)
(* status.  A client that goes away drops the handler at its await.        *)
(*                                                                         *)
(* Requests and replies are what the code tells apart in them.             *)
(***************************************************************************)
EXTENDS Naturals, FiniteSets

CONSTANTS
  Handlers,      \* requests that are handled at the same time
  MaxForwarded,  \* bound: requests forwarded altogether
  None           \* no request, no reply

ASSUME ProxyAssumption == MaxForwarded \in Nat

VARIABLES
  phase,         \* "idle", "sent" to the node, "body" awaited, or "done"
  method,        \* the method of the request it forwarded
  upstream,      \* the status line it received
  reply,         \* what it returned
  methods,       \* jsonrpc_method_total
  durations,     \* samples of rpc_upstream_duration_seconds
  errors,        \* rpc_upstream_errors_total
  nonSuccess,    \* rpc_upstream_non_success_total
  abandoned      \* handlers dropped while the node had not answered

metricVars == <<methods, durations, errors, nonSuccess>>
vars == <<phase, method, upstream, reply, metricVars, abandoned>>

Statuses == {200, 429}

(* A request: is its network configured, what is its body, and, of a JSON  *)
(* object, which method it names and whether it has an id.                 *)
Methods  == {"missing", "unsupported", "plain", "info_get_status", "info_get_peers"}
Requests == [known : BOOLEAN, json : {"garbled", "array", "scalar", "object"},
             method : Methods, id : {"given", "null"}]

(* is_supported_jsonrpc_method; "plain" is any of the list but one. *)
Supported == {"plain", "info_get_status"}

(* The methods whose results list peers, if the node gets to see them. *)
ListsPeers == {"info_get_status", "info_get_peers"}

(* A body of the node: JSON or not, its `result` an object or not, with    *)
(* peers in it or not.                                                     *)
Bodies == {b \in [json : BOOLEAN, result : {"object", "other"}, peers : BOOLEAN] :
             b.peers => b.result = "object"}

(* Replies: HTTP status, JSON-RPC error code or 0, its id, peers.          *)
Made(status, code, id) == [status |-> status, code |-> code, id |-> id, peers |-> FALSE]
BadGateway == Made(502, 0, "null")

-----------------------------------------------------------------------------
Init ==
  /\ phase    = [h \in Handlers |-> "idle"]
  /\ method   = [h \in Handlers |-> None]
  /\ upstream = [h \in Handlers |-> None]
  /\ reply    = [h \in Handlers |-> None]
  /\ methods = 0 /\ durations = 0 /\ errors = 0 /\ nonSuccess = 0
  /\ abandoned = 0

Goto(h, p) == phase' = [phase EXCEPT ![h] = p]

Finish(h, r) ==
  /\ Goto(h, "done")
  /\ reply' = [reply EXCEPT ![h] = r]

(* What gets to the node, and the early returns of what does not, in the   *)
(* order of the code: the network, the syntax, the shape, the method.      *)
(* Only the last one repeats the client's id.                              *)
Accepted(q) == q.known /\ q.json = "object" /\ q.method \in Supported

Rejection(q) ==
  CASE ~q.known -> Made(404, 0, "null")
    [] q.known /\ q.json = "garbled" -> Made(200, 32700, "null")
    [] q.known /\ q.json \in {"array", "scalar"} -> Made(200, 32600, "null")
    [] q.known /\ q.json = "object" /\ q.method = "missing" -> Made(200, 32600, "null")
    [] q.known /\ q.json = "object" /\ q.method \notin Supported \cup {"missing"}
         -> Made(200, 32601, q.id)

Reject(h, q) ==
  /\ phase[h] = "idle"
  /\ ~Accepted(q)
  /\ Finish(h, Rejection(q))
  /\ UNCHANGED <<method, upstream, metricVars, abandoned>>

(* A supported method is counted and the request sent to the node. *)
Forward(h, q) ==
  /\ phase[h] = "idle"
  /\ Accepted(q)
  /\ methods < MaxForwarded
  /\ method' = [method EXCEPT ![h] = q.method]
  /\ methods' = methods + 1
  /\ Goto(h, "sent")
  /\ UNCHANGED <<upstream, reply, durations, errors, nonSuccess, abandoned>>

-----------------------------------------------------------------------------
(* `send` fails; or it returns the status line.  Both are timed. *)
SendFails(h) ==
  /\ phase[h] = "sent"
  /\ errors' = errors + 1
  /\ durations' = durations + 1
  /\ Finish(h, BadGateway)
  /\ UNCHANGED <<method, upstream, methods, nonSuccess, abandoned>>

\* Seeded fault: a reply that is no success returns before it is timed.
ReceiveStatusUntimed(h, status) ==
  /\ phase[h] = "sent"
  /\ upstream' = [upstream EXCEPT ![h] = status]
  /\ durations' = IF status = 200 THEN durations + 1 ELSE durations
  /\ nonSuccess' = IF status = 200 THEN nonSuccess ELSE nonSuccess + 1
  /\ Goto(h, "body")
  /\ UNCHANGED <<method, reply, methods, errors, abandoned>>

ReceiveStatus(h, status) ==
  /\ phase[h] = "sent"
  /\ upstream' = [upstream EXCEPT ![h] = status]
  /\ durations' = durations + 1
  /\ nonSuccess' = IF status = 200 THEN nonSuccess ELSE nonSuccess + 1
  /\ Goto(h, "body")
  /\ UNCHANGED <<method, reply, methods, errors, abandoned>>

(* `bytes` fails: the exchange broke off and no counter says so. *)
BodyFails(h) ==
  /\ phase[h] = "body"
  /\ Finish(h, BadGateway)
  /\ UNCHANGED <<method, upstream, metricVars, abandoned>>

PassedOn(status, b) == [status |-> status, code |-> 0, id |-> "node", peers |-> b.peers]

\* Seeded fault: only what the node calls a success is sanitized.
SanitizedOnSuccess(status, b) ==
  IF status # 200 THEN PassedOn(status, b)
  ELSE IF ~b.json THEN BadGateway ELSE PassedOn(status, [b EXCEPT !.peers = FALSE])

(* sanitize_info_get_status_response: no JSON, no reply; a result that is  *)
(* an object gets an empty list of peers; anything else goes unchanged.    *)
Sanitized(status, b) ==
  CASE ~b.json -> BadGateway
    [] b.json /\ b.result = "object" -> PassedOn(status, [b EXCEPT !.peers = FALSE])
    [] b.json /\ b.result = "other" -> PassedOn(status, b)

ReceiveBody(h, b) ==
  /\ phase[h] = "body"
  /\ b.peers => method[h] \in ListsPeers
  /\ Finish(h, IF method[h] = "info_get_status"
                 THEN Sanitized(upstream[h], b) ELSE PassedOn(upstream[h], b))
  /\ UNCHANGED <<method, upstream, metricVars, abandoned>>

(* The reply is sent; the client goes away before that. *)
Reset(h) ==
  /\ Goto(h, "idle")
  /\ method' = [method EXCEPT ![h] = None]
  /\ upstream' = [upstream EXCEPT ![h] = None]
  /\ reply' = [reply EXCEPT ![h] = None]

Respond(h) ==
  /\ phase[h] = "done"
  /\ Reset(h)
  /\ UNCHANGED <<metricVars, abandoned>>

Cancel(h) ==
  /\ phase[h] \in {"sent", "body"}
  /\ Reset(h)
  /\ abandoned' = IF phase[h] = "sent" THEN abandoned + 1 ELSE abandoned
  /\ UNCHANGED metricVars

-----------------------------------------------------------------------------
NodeStep(h) ==
  \/ SendFails(h) \/ BodyFails(h)
  \/ \E status \in Statuses : ReceiveStatus(h, status)
  \/ \E b \in Bodies : ReceiveBody(h, b)

Next ==
  \E h \in Handlers :
    \/ \E q \in Requests : Reject(h, q) \/ Forward(h, q)
    \/ NodeStep(h) \/ Respond(h) \/ Cancel(h)

Spec == Init /\ [][Next]_vars

-----------------------------------------------------------------------------
(* Properties. *)

(* "`info_get_status` responses are sanitized": no reply of any request    *)
(* carries the node's peers, whatever its HTTP status.  The other method   *)
(* that lists them must not get past the allowlist.                        *)
PeersNeverLeave == \A h \in Handlers : reply[h] # None => ~reply[h].peers

Awaiting == Cardinality({h \in Handlers : phase[h] = "sent"})

(* A method is counted if and only if its request goes to the node, and    *)
(* every such request is timed once, unless its client left first: the     *)
(* counters written before and after the await add up.                     *)
UpstreamCallsAddUp ==
  /\ methods = durations + Awaiting + abandoned
  /\ errors + nonSuccess <= durations
=============================================================================
