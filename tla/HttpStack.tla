----------------------------- MODULE HttpStack -----------------------------
(***************************************************************************)
(* The path of an HTTP request through the proxy's layers: the metrics     *)
(* (track_http in src/src/metrics.rs) are outermost, then comes the rate   *)
(* limiter, then the router with the four endpoints of                     *)
(* src/src/handlers.rs.  The JSON-RPC endpoint is JsonRpcProxy, composed   *)
(* here; the others answer at once, what their streams and websockets do   *)
(* later is in EventBus and BinarySocket.                                  *)
(*                                                                         *)
(* A path is the sequence of what stands between its slashes, the first    *)
(* slash left out: /net/rpc is <<"net", "rpc">>, / is <<"">>.  The metrics *)
(* and the router take a segment as it was written, the Path extractor     *)
(* (axum) percent-decodes it.                                              *)
(***************************************************************************)
EXTENDS JsonRpcProxy, Sequences, Bags

CONSTANTS
  Paths,        \* paths of requests
  Names,        \* segments that percent-decode to a configured network
  Clients,      \* client IPs
  MaxRequests   \* bound: requests of one process

ASSUME StackAssumption ==
  /\ MaxRequests \in Nat
  /\ \A path \in Paths : path \in Seq(STRING) /\ path # << >>
  /\ None # "rpc"

VARIABLES
  current,   \* per handler, the request in it as the layers see it
  status,    \* per handler, the status of its response, 0 before there is one
  arrived,   \* requests to this process
  total,     \* http_requests_total, a bag of its labels
  limited,   \* http_429_total
  byIp,      \* http_requests_by_ip_total
  sent       \* responses of this process, a bag of their statuses

httpMetrics == <<total, limited, byIp>>
httpVars == <<vars, current, status, arrived, httpMetrics, sent>>

-----------------------------------------------------------------------------
(* `trim_start_matches` and `split`: a path of slashes is one empty        *)
(* segment.                                                                *)
Trimmed(path) ==
  LET full == {i \in DOMAIN path : path[i] # ""} IN
  IF full = {} THEN <<"">>
  ELSE SubSeq(path, CHOOSE i \in full : \A j \in full : i <= j, Len(path))

(* network_from_path *)
NetworkFromPath(path) ==
  LET candidate == Trimmed(path)[1] IN IF candidate = "" THEN "global" ELSE candidate

\* Seeded fault: an endpoint that is an empty segment is not the root.
EndpointFromPathNoRoot(path) ==
  LET rest == Tail(Trimmed(path)) IN
  CASE rest = << >> -> "root"
    [] rest # << >> /\ rest[1] \in {"rpc", "events", "binary"} -> rest[1]
    [] OTHER -> "other"

(* endpoint_from_path *)
EndpointFromPath(path) ==
  LET rest == Tail(Trimmed(path)) IN
  CASE rest = << >> \/ rest[1] = "" -> "root"
    [] rest # << >> /\ rest[1] \in {"rpc", "events", "binary"} -> rest[1]
    [] OTHER -> "other"

(* `routes`: the route of a path, and the method each one takes. *)
Route(path) ==
  CASE Len(path) # 2 \/ path[1] = "" -> None
    [] Len(path) = 2 /\ path[1] # "" /\ path[2] = "" -> "root"
    [] Len(path) = 2 /\ path[1] # "" /\ path[2] \in {"rpc", "events", "binary"} -> path[2]
    [] OTHER -> None

Verb(route) == IF route = "rpc" THEN "POST" ELSE "GET"

(* The statuses of endpoints that answer at once.  The extractors come     *)
(* before get_network: a query that does not parse, a request that is no   *)
(* websocket upgrade, a body that breaks off or is too large for axum, is  *)
(* told so even if the network is not known.                               *)
EndpointStatuses(route, known) ==
  CASE route = "root"   -> IF known THEN {200} ELSE {404}
    [] route = "events" -> IF known THEN {101, 200, 400} ELSE {400, 404}
    [] route = "binary" -> IF known THEN {101, 400} ELSE {400, 404}
    [] route = "rpc"    -> {400, 413}

-----------------------------------------------------------------------------
HttpInit ==
  /\ Init
  /\ current = [h \in Handlers |-> None]
  /\ status  = [h \in Handlers |-> 0]
  /\ arrived = 0
  /\ total = EmptyBag /\ limited = EmptyBag /\ byIp = EmptyBag /\ sent = EmptyBag

(* track_http up to `next.run`: the labels are taken from the path as it   *)
(* is, and the request goes to the inner layers, which may have its status *)
(* at once.                                                                *)
Tracked(path, verb, ip) ==
  [network |-> NetworkFromPath(path), verb |-> verb,
   endpoint |-> EndpointFromPath(path), ip |-> ip]

Enter(h, path, verb, ip, target, st) ==
  /\ current[h] = None /\ arrived < MaxRequests
  /\ current' = [current EXCEPT ![h] = [labels |-> Tracked(path, verb, ip), target |-> target]]
  /\ status' = [status EXCEPT ![h] = st]
  /\ arrived' = arrived + 1
  /\ UNCHANGED <<httpMetrics, sent>>

\* Seeded fault: the limiter is outside the metrics.
RefuseUntracked(h, path, verb, ip) ==
  /\ current[h] = None /\ arrived < MaxRequests
  /\ arrived' = arrived + 1
  /\ sent' = sent (+) SetToBag({429})
  /\ UNCHANGED <<vars, current, status, httpMetrics>>

(* The rate limiter refuses; the router finds no route or not the method;  *)
(* an endpoint answers; the JSON-RPC proxy answers or calls the node.      *)
Refuse(h, path, verb, ip) ==
  /\ Enter(h, path, verb, ip, None, 429)
  /\ UNCHANGED vars

NotRouted(h, path, verb, ip) ==
  /\ Route(path) = None \/ Verb(Route(path)) # verb
  /\ Enter(h, path, verb, ip, None, IF Route(path) = None THEN 404 ELSE 405)
  /\ UNCHANGED vars

Target(path) == [name |-> path[1], route |-> Route(path)]

Serve(h, path, verb, ip) ==
  /\ Route(path) # None /\ Verb(Route(path)) = verb
  /\ \E st \in EndpointStatuses(Route(path), path[1] \in Names) :
       Enter(h, path, verb, ip, Target(path), st)
  /\ UNCHANGED vars

Call(h, path, verb, ip) ==
  /\ Route(path) = "rpc" /\ Verb("rpc") = verb
  /\ Enter(h, path, verb, ip, Target(path), 0)
  /\ \E q \in Requests : q.known = (path[1] \in Names) /\ (Reject(h, q) \/ Forward(h, q))

NodeReplies(h) ==
  /\ NodeStep(h)
  /\ UNCHANGED <<current, status, arrived, httpMetrics, sent>>

Leave(h) ==
  /\ current' = [current EXCEPT ![h] = None]
  /\ status' = [status EXCEPT ![h] = 0]

(* http_observe.  Every connection has an address, so there is always an   *)
(* IP.                                                                     *)
HttpObserve(l, st) ==
  /\ total' = total (+) SetToBag({[network |-> l.network, verb |-> l.verb,
                                   endpoint |-> l.endpoint, status |-> st]})
  /\ limited' = IF st = 429
       THEN limited (+) SetToBag({[network |-> l.network, endpoint |-> l.endpoint]})
       ELSE limited
  /\ byIp' = byIp (+) SetToBag({[network |-> l.network, ip |-> l.ip]})

(* The rest of track_http: the response is counted and leaves. *)
SendResponse(h, st) ==
  /\ current[h] # None
  /\ HttpObserve(current[h].labels, st)
  /\ sent' = sent (+) SetToBag({st})
  /\ Leave(h)
  /\ UNCHANGED arrived

RespondDirectly(h) == status[h] # 0 /\ SendResponse(h, status[h]) /\ UNCHANGED vars
RespondToCall(h)   == Respond(h) /\ SendResponse(h, reply[h].status)

(* The client goes away while the JSON-RPC proxy awaits the node: the      *)
(* layers' futures are dropped with the handler's.                         *)
CancelCall(h) ==
  /\ Cancel(h)
  /\ Leave(h)
  /\ UNCHANGED <<arrived, httpMetrics, sent>>

(* The process begins anew, with new metrics. *)
Restart ==
  /\ phase'    = [h \in Handlers |-> "idle"]
  /\ method'   = [h \in Handlers |-> None]
  /\ upstream' = [h \in Handlers |-> None]
  /\ reply'    = [h \in Handlers |-> None]
  /\ methods' = 0 /\ durations' = 0 /\ errors' = 0 /\ nonSuccess' = 0 /\ abandoned' = 0
  /\ current' = [h \in Handlers |-> None]
  /\ status'  = [h \in Handlers |-> 0]
  /\ arrived' = 0
  /\ total' = EmptyBag /\ limited' = EmptyBag /\ byIp' = EmptyBag /\ sent' = EmptyBag

HttpNext ==
  \/ Restart
  \/ \E h \in Handlers :
       \/ \E path \in Paths, verb \in {"GET", "POST"}, ip \in Clients :
            \/ Refuse(h, path, verb, ip) \/ NotRouted(h, path, verb, ip)
            \/ Serve(h, path, verb, ip) \/ Call(h, path, verb, ip)
       \/ NodeReplies(h) \/ CancelCall(h)
       \/ RespondDirectly(h) \/ RespondToCall(h)

HttpSpec == HttpInit /\ [][HttpNext]_httpVars

-----------------------------------------------------------------------------
(* Properties. *)

(* How many of the bag's elements are in S: they are numbered and put into *)
(* a set.                                                                  *)
Numbered(bag, S) == UNION {{x} \X (1 .. bag[x]) : x \in S \cap DOMAIN bag}
Count(bag, S)    == Cardinality(Numbered(bag, S))

(* Every response that leaves the proxy is counted once, under its status, *)
(* under its client and, if it was refused for its rate, as such: those of *)
(* the limiter and of the router too, and none that did not leave because  *)
(* its client did.                                                         *)
EveryResponseCounted ==
  /\ \A st \in DOMAIN sent \cup {x.status : x \in DOMAIN total} :
       Count(total, {x \in DOMAIN total : x.status = st}) = Count(sent, {st})
  /\ Count(byIp, DOMAIN byIp) = Count(sent, DOMAIN sent)
  /\ Count(limited, DOMAIN limited) = Count(sent, {429})

(* The labels that the metrics take from a path on their own agree with    *)
(* the router: a request that reaches an endpoint is counted under that    *)
(* endpoint, and under the network's name as the client wrote it.          *)
LabelsNameTheEndpoint ==
  \A h \in Handlers :
    (current[h] # None /\ current[h].target # None) =>
      /\ current[h].labels.endpoint = current[h].target.route
      /\ current[h].labels.network = current[h].target.name
=============================================================================
