-------------------------- MODULE HttpStackProofs --------------------------
(***************************************************************************)
(* The layers of an HTTP request and the JSON-RPC proxy in them, for any   *)
(* number of requests at a time and any paths: no reply carries the node's *)
(* peers, the counters around the await of the node add up, and the labels *)
(* of the metrics name the endpoint the router chose.                      *)
(***************************************************************************)
EXTENDS HttpStack, Integers, FiniteSetTheorems, SequenceTheorems, TLAPS

ProxyPhases == {"idle", "sent", "body", "done"}

ProxyTypeOK ==
  /\ phase \in [Handlers -> ProxyPhases]
  /\ DOMAIN reply = Handlers /\ DOMAIN method = Handlers
  /\ methods \in Nat /\ durations \in Nat /\ errors \in Nat /\ nonSuccess \in Nat
  /\ abandoned \in Nat

(* What the node is asked is on the allowlist. *)
OnlySupportedSent ==
  \A h \in Handlers : phase[h] \in {"sent", "body"} => method[h] \in Supported

ProxyInv == ProxyTypeOK /\ OnlySupportedSent /\ PeersNeverLeave /\ UpstreamCallsAddUp

(* What can stand in a slot: a request that reached no endpoint, or one    *)
(* with the labels and the target of the same path.                        *)
Entered ==
  {None} \cup
  {[labels |-> Tracked(path, verb, ip), target |-> None] :
     path \in Paths, verb \in {"GET", "POST"}, ip \in Clients} \cup
  {[labels |-> Tracked(path, verb, ip), target |-> Target(path)] :
     path \in {q \in Paths : Route(q) # None}, verb \in {"GET", "POST"}, ip \in Clients}

HttpInv == ProxyInv /\ current \in [Handlers -> Entered]

-----------------------------------------------------------------------------
(* Handlers that wait for the node's status line. *)
Sent == {h \in Handlers : phase[h] = "sent"}

LEMMA SentCount ==
  ASSUME IsFiniteSet(Handlers)
  PROVE  IsFiniteSet(Sent) /\ Cardinality(Sent) \in Nat /\ Awaiting = Cardinality(Sent)
<1>1. Sent \in SUBSET Handlers
  BY DEF Sent
<1> QED
  BY <1>1, FS_Subset, FS_CardinalityType DEF Awaiting, Sent

LEMMA SentMoves ==
  ASSUME IsFiniteSet(Handlers), phase \in [Handlers -> ProxyPhases], NEW h \in Handlers,
         NEW p \in ProxyPhases, Goto(h, p)
  PROVE  /\ phase' \in [Handlers -> ProxyPhases]
         /\ Awaiting \in Nat /\ Awaiting' \in Nat
         /\ phase[h] = "sent" /\ p # "sent" => Awaiting' = Awaiting - 1
         /\ phase[h] # "sent" /\ p = "sent" => Awaiting' = Awaiting + 1
         /\ phase[h] # "sent" /\ p # "sent" => Awaiting' = Awaiting
<1>1. phase' = [phase EXCEPT ![h] = p] /\ phase' \in [Handlers -> ProxyPhases]
  BY DEF Goto
<1>2. /\ IsFiniteSet(Sent) /\ Awaiting = Cardinality(Sent) /\ Cardinality(Sent) \in Nat
      /\ Awaiting' = Cardinality(Sent')
  BY SentCount DEF Awaiting, Sent
<1>3. Cardinality(Sent') \in Nat
  <2>1. Sent' \in SUBSET Handlers
    BY DEF Sent
  <2> QED
    BY <2>1, FS_Subset, FS_CardinalityType
<1>4. CASE phase[h] = "sent" /\ p # "sent"
  <2>1. Sent' = Sent \ {h} /\ h \in Sent
    BY <1>1, <1>4 DEF Sent
  <2>2. Cardinality(Sent') = Cardinality(Sent) - 1
    BY <1>2, <2>1, FS_RemoveElement
  <2> QED
    BY <1>1, <1>2, <1>3, <1>4, <2>2
<1>5. CASE phase[h] # "sent" /\ p = "sent"
  <2>1. Sent' = Sent \cup {h} /\ h \notin Sent
    BY <1>1, <1>5 DEF Sent
  <2>2. Cardinality(Sent') = Cardinality(Sent) + 1
    BY <1>2, <2>1, FS_AddElement
  <2> QED
    BY <1>1, <1>2, <1>3, <1>5, <2>2
<1>6. CASE phase[h] # "sent" /\ p # "sent"
  <2>1. Sent' = Sent
    BY <1>1, <1>6 DEF Sent
  <2> QED
    BY <1>1, <1>2, <1>3, <1>6, <2>1
<1>7. CASE phase[h] = "sent" /\ p = "sent"
  BY <1>1, <1>2, <1>3, <1>7
<1> QED
  BY <1>4, <1>5, <1>6, <1>7

(* Replies the proxy makes itself, and what it leaves of the node's. *)
LEMMA RejectionPeerless ==
  ASSUME NEW q \in Requests, ~Accepted(q)
  PROVE  Rejection(q).peers = FALSE
<1>1. q.known \in BOOLEAN /\ q.json \in {"garbled", "array", "scalar", "object"}
  BY DEF Requests
<1> QED
  BY <1>1 DEF Rejection, Accepted, Made

LEMMA PassedPeerless ==
  ASSUME NEW st, NEW b \in Bodies
  PROVE  /\ Sanitized(st, b).peers = FALSE
         /\ ~b.peers => PassedOn(st, b).peers = FALSE
<1>1. b \in [json : BOOLEAN, result : {"object", "other"}, peers : BOOLEAN] /\ (b.peers => b.result = "object")
  BY DEF Bodies
<1>2. b.json \in BOOLEAN /\ b.result \in {"object", "other"} /\ b.peers \in BOOLEAN
  BY <1>1
<1>3. ~b.peers => PassedOn(st, b).peers = FALSE
  BY <1>2 DEF PassedOn
<1>4. CASE ~b.json
  <2>1. Sanitized(st, b) = BadGateway
    BY <1>4 DEF Sanitized
  <2> QED
    BY <1>3, <2>1 DEF BadGateway, Made
<1>5. CASE b.json /\ b.result = "object"
  <2>1. Sanitized(st, b) = PassedOn(st, [b EXCEPT !.peers = FALSE])
    BY <1>5 DEF Sanitized
  <2>2. [b EXCEPT !.peers = FALSE].peers = FALSE
    BY <1>1
  <2> QED
    BY <1>3, <2>1, <2>2 DEF PassedOn
<1>6. CASE b.json /\ b.result = "other"
  <2>1. Sanitized(st, b) = PassedOn(st, b)
    BY <1>6 DEF Sanitized
  <2> QED
    BY <1>1, <1>3, <1>6, <2>1
<1> QED
  BY <1>2, <1>4, <1>5, <1>6

LEMMA PeerlessReply ==
  ASSUME ProxyInv, NEW h \in Handlers, NEW r, reply' = [reply EXCEPT ![h] = r],
         r = None \/ r.peers = FALSE
  PROVE  DOMAIN reply' = Handlers /\ PeersNeverLeave'
<1>1. DOMAIN reply = Handlers
  BY DEF ProxyInv, ProxyTypeOK
<1>2. \A d \in Handlers : reply'[d] = IF d = h THEN r ELSE reply[d]
  BY <1>1
<1> QED
  BY <1>1, <1>2 DEF ProxyInv, PeersNeverLeave

LEMMA SupportedKept ==
  ASSUME ProxyInv, NEW h \in Handlers, NEW p, Goto(h, p),
         NEW m, method' = [method EXCEPT ![h] = m],
         p \in {"sent", "body"} => m \in Supported
  PROVE  DOMAIN method' = Handlers /\ OnlySupportedSent'
<1>1. DOMAIN method = Handlers /\ phase \in [Handlers -> ProxyPhases]
  BY DEF ProxyInv, ProxyTypeOK
<1>2. \A d \in Handlers : /\ method'[d] = IF d = h THEN m ELSE method[d]
                          /\ phase'[d] = IF d = h THEN p ELSE phase[d]
  BY <1>1 DEF Goto
<1> QED
  BY <1>1, <1>2 DEF ProxyInv, OnlySupportedSent

LEMMA SupportedUnmoved ==
  ASSUME ProxyInv, NEW h \in Handlers, NEW p, Goto(h, p), method' = method,
         p = "body" => phase[h] = "sent", p # "sent"
  PROVE  DOMAIN method' = Handlers /\ OnlySupportedSent'
<1>1. DOMAIN method = Handlers /\ phase \in [Handlers -> ProxyPhases]
  BY DEF ProxyInv, ProxyTypeOK
<1>2. \A d \in Handlers : phase'[d] = IF d = h THEN p ELSE phase[d]
  BY <1>1 DEF Goto
<1> QED
  BY <1>1, <1>2 DEF ProxyInv, OnlySupportedSent

-----------------------------------------------------------------------------
(* The JSON-RPC proxy, action by action. *)
LEMMA RequestKeeps ==
  ASSUME IsFiniteSet(Handlers), ProxyInv, NEW h \in Handlers, NEW q \in Requests,
         Reject(h, q) \/ Forward(h, q)
  PROVE  ProxyInv'
<1>a. /\ phase \in [Handlers -> ProxyPhases] /\ DOMAIN reply = Handlers
      /\ methods \in Nat /\ durations \in Nat /\ errors \in Nat /\ nonSuccess \in Nat
      /\ abandoned \in Nat
      /\ methods = durations + Awaiting + abandoned /\ errors + nonSuccess <= durations
  BY DEF ProxyInv, ProxyTypeOK, UpstreamCallsAddUp
<1>1. CASE Reject(h, q)
  <2>1. /\ phase[h] = "idle" /\ ~Accepted(q) /\ Goto(h, "done") /\ method' = method
        /\ reply' = [reply EXCEPT ![h] = Rejection(q)]
        /\ methods' = methods /\ durations' = durations /\ errors' = errors
        /\ nonSuccess' = nonSuccess /\ abandoned' = abandoned
    BY <1>1 DEF Reject, Finish, metricVars
  <2>2. phase' \in [Handlers -> ProxyPhases] /\ Awaiting' = Awaiting
    BY <1>a, <2>1, SentMoves DEF ProxyPhases
  <2>3. DOMAIN reply' = Handlers /\ PeersNeverLeave'
    BY <2>1, RejectionPeerless, PeerlessReply
  <2>4. UpstreamCallsAddUp'
    BY <1>a, <2>1, <2>2 DEF UpstreamCallsAddUp
  <2>5. DOMAIN method' = Handlers /\ OnlySupportedSent'
    BY <2>1, SupportedUnmoved
  <2> QED
    BY <1>a, <2>1, <2>2, <2>3, <2>4, <2>5 DEF ProxyInv, ProxyTypeOK
<1>2. CASE Forward(h, q)
  <2>1. /\ phase[h] = "idle" /\ Goto(h, "sent") /\ reply' = reply
        /\ Accepted(q) /\ method' = [method EXCEPT ![h] = q.method]
        /\ methods' = methods + 1 /\ durations' = durations /\ errors' = errors
        /\ nonSuccess' = nonSuccess /\ abandoned' = abandoned
    BY <1>2 DEF Forward
  <2>2. phase' \in [Handlers -> ProxyPhases] /\ Awaiting' = Awaiting + 1 /\ Awaiting \in Nat
    BY <1>a, <2>1, SentMoves DEF ProxyPhases
  <2>3. PeersNeverLeave'
    BY <2>1 DEF ProxyInv, PeersNeverLeave
  <2>4. UpstreamCallsAddUp' /\ methods' \in Nat
    BY <1>a, <2>1, <2>2 DEF UpstreamCallsAddUp
  <2>5. DOMAIN method' = Handlers /\ OnlySupportedSent'
    BY <2>1, SupportedKept DEF Accepted
  <2> QED
    BY <1>a, <2>1, <2>2, <2>3, <2>4, <2>5 DEF ProxyInv, ProxyTypeOK
<1> QED
  BY <1>1, <1>2

LEMMA NodeKeeps ==
  ASSUME IsFiniteSet(Handlers), ProxyInv, NEW h \in Handlers, NodeStep(h)
  PROVE  ProxyInv'
<1>a. /\ phase \in [Handlers -> ProxyPhases] /\ DOMAIN reply = Handlers
      /\ methods \in Nat /\ durations \in Nat /\ errors \in Nat /\ nonSuccess \in Nat
      /\ abandoned \in Nat
      /\ methods = durations + Awaiting + abandoned /\ errors + nonSuccess <= durations
  BY DEF ProxyInv, ProxyTypeOK, UpstreamCallsAddUp
<1>b. BadGateway.peers = FALSE
  BY DEF BadGateway, Made
<1>1. CASE SendFails(h)
  <2>1. /\ phase[h] = "sent" /\ Goto(h, "done") /\ reply' = [reply EXCEPT ![h] = BadGateway]
        /\ methods' = methods /\ durations' = durations + 1 /\ errors' = errors + 1
        /\ nonSuccess' = nonSuccess /\ abandoned' = abandoned /\ method' = method
    BY <1>1 DEF SendFails, Finish
  <2>2. phase' \in [Handlers -> ProxyPhases] /\ Awaiting' = Awaiting - 1 /\ Awaiting \in Nat
    BY <1>a, <2>1, SentMoves DEF ProxyPhases
  <2>3. DOMAIN reply' = Handlers /\ PeersNeverLeave'
    BY <1>b, <2>1, PeerlessReply
  <2>4. UpstreamCallsAddUp' /\ durations' \in Nat /\ errors' \in Nat
    BY <1>a, <2>1, <2>2 DEF UpstreamCallsAddUp
  <2>5. DOMAIN method' = Handlers /\ OnlySupportedSent'
    BY <2>1, SupportedUnmoved
  <2> QED
    BY <1>a, <2>1, <2>2, <2>3, <2>4, <2>5 DEF ProxyInv, ProxyTypeOK
<1>2. ASSUME NEW st \in Statuses, ReceiveStatus(h, st) PROVE ProxyInv'
  <2>1. /\ phase[h] = "sent" /\ Goto(h, "body") /\ reply' = reply
        /\ methods' = methods /\ durations' = durations + 1 /\ errors' = errors
        /\ nonSuccess' \in {nonSuccess, nonSuccess + 1} /\ abandoned' = abandoned
        /\ method' = method
    BY <1>2 DEF ReceiveStatus
  <2>2. phase' \in [Handlers -> ProxyPhases] /\ Awaiting' = Awaiting - 1 /\ Awaiting \in Nat
    BY <1>a, <2>1, SentMoves DEF ProxyPhases
  <2>3. PeersNeverLeave'
    BY <2>1 DEF ProxyInv, PeersNeverLeave
  <2>4. UpstreamCallsAddUp' /\ durations' \in Nat /\ nonSuccess' \in Nat
    <3>1. CASE nonSuccess' = nonSuccess
      BY <1>a, <2>1, <2>2, <3>1 DEF UpstreamCallsAddUp
    <3>2. CASE nonSuccess' = nonSuccess + 1
      BY <1>a, <2>1, <2>2, <3>2 DEF UpstreamCallsAddUp
    <3> QED
      BY <2>1, <3>1, <3>2
  <2>5. DOMAIN method' = Handlers /\ OnlySupportedSent'
    BY <2>1, SupportedUnmoved
  <2> QED
    BY <1>a, <2>1, <2>2, <2>3, <2>4, <2>5 DEF ProxyInv, ProxyTypeOK
<1>3. ASSUME NEW r, r.peers = FALSE, phase[h] = "body", Finish(h, r), UNCHANGED metricVars,
             abandoned' = abandoned, method' = method
      PROVE  ProxyInv'
  <2>1. /\ Goto(h, "done") /\ reply' = [reply EXCEPT ![h] = r]
        /\ methods' = methods /\ durations' = durations /\ errors' = errors
        /\ nonSuccess' = nonSuccess
    BY <1>3 DEF Finish, metricVars
  <2>2. phase' \in [Handlers -> ProxyPhases] /\ Awaiting' = Awaiting
    BY <1>a, <1>3, <2>1, SentMoves DEF ProxyPhases
  <2>3. DOMAIN reply' = Handlers /\ PeersNeverLeave'
    BY <1>3, <2>1, PeerlessReply
  <2>4. UpstreamCallsAddUp'
    BY <1>a, <1>3, <2>1, <2>2 DEF UpstreamCallsAddUp
  <2>5. DOMAIN method' = Handlers /\ OnlySupportedSent'
    BY <1>3, <2>1, SupportedUnmoved
  <2> QED
    BY <1>a, <1>3, <2>1, <2>2, <2>3, <2>4, <2>5 DEF ProxyInv, ProxyTypeOK
<1>4. CASE BodyFails(h)
  BY <1>b, <1>3, <1>4 DEF BodyFails
<1>5. ASSUME NEW b \in Bodies, ReceiveBody(h, b) PROVE ProxyInv'
  <2> DEFINE r == IF method[h] = "info_get_status"
                    THEN Sanitized(upstream[h], b) ELSE PassedOn(upstream[h], b)
  <2>1. /\ phase[h] = "body" /\ Finish(h, r) /\ UNCHANGED metricVars /\ abandoned' = abandoned
        /\ method' = method /\ (b.peers => method[h] \in ListsPeers)
    BY <1>5 DEF ReceiveBody
  <2>2. b.peers => method[h] = "info_get_status"
    BY <2>1 DEF ProxyInv, OnlySupportedSent, ListsPeers, Supported
  <2>3. r.peers = FALSE
    BY <2>2, PassedPeerless
  <2> HIDE DEF r
  <2> QED
    BY <1>3, <2>1, <2>3
<1> QED
  BY <1>1, <1>2, <1>4, <1>5 DEF NodeStep

LEMMA EndingKeeps ==
  ASSUME IsFiniteSet(Handlers), ProxyInv, NEW h \in Handlers, Respond(h) \/ Cancel(h)
  PROVE  ProxyInv'
<1>a. /\ phase \in [Handlers -> ProxyPhases] /\ DOMAIN reply = Handlers
      /\ methods \in Nat /\ durations \in Nat /\ errors \in Nat /\ nonSuccess \in Nat
      /\ abandoned \in Nat
      /\ methods = durations + Awaiting + abandoned /\ errors + nonSuccess <= durations
  BY DEF ProxyInv, ProxyTypeOK, UpstreamCallsAddUp
<1>1. /\ Goto(h, "idle") /\ reply' = [reply EXCEPT ![h] = None]
      /\ method' = [method EXCEPT ![h] = None]
      /\ methods' = methods /\ durations' = durations /\ errors' = errors
      /\ nonSuccess' = nonSuccess
      /\ abandoned' = IF phase[h] = "sent" THEN abandoned + 1 ELSE abandoned
  BY DEF Respond, Cancel, Reset, metricVars
<1>2. /\ phase' \in [Handlers -> ProxyPhases] /\ Awaiting \in Nat
      /\ Awaiting' = IF phase[h] = "sent" THEN Awaiting - 1 ELSE Awaiting
  BY <1>a, <1>1, SentMoves DEF ProxyPhases
<1>3. DOMAIN reply' = Handlers /\ PeersNeverLeave'
  BY <1>1, PeerlessReply
<1>4. UpstreamCallsAddUp' /\ abandoned' \in Nat
  BY <1>a, <1>1, <1>2 DEF UpstreamCallsAddUp
<1>5. DOMAIN method' = Handlers /\ OnlySupportedSent'
  <2>1. "idle" \notin {"sent", "body"}
    OBVIOUS
  <2> QED
    BY <1>1, <2>1, SupportedKept
<1> QED
  BY <1>a, <1>1, <1>2, <1>3, <1>4, <1>5 DEF ProxyInv, ProxyTypeOK

LEMMA ProxyIdle ==
  ASSUME ProxyInv, UNCHANGED vars
  PROVE  ProxyInv'
  BY DEF vars, metricVars, ProxyInv, ProxyTypeOK, OnlySupportedSent, PeersNeverLeave,
         UpstreamCallsAddUp, Awaiting

LEMMA ProxyStarts ==
  ASSUME IsFiniteSet(Handlers), Init
  PROVE  ProxyInv
<1>1. Sent = {}
  BY DEF Init, Sent
<1>2. Awaiting = 0
  BY <1>1, FS_EmptySet DEF Sent, Awaiting
<1> QED
  BY <1>2 DEF Init, ProxyInv, ProxyTypeOK, ProxyPhases, OnlySupportedSent, PeersNeverLeave,
                UpstreamCallsAddUp

(* A restart begins where the process began. *)
LEMMA RestartKeeps ==
  ASSUME IsFiniteSet(Handlers), Restart
  PROVE  ProxyInv' /\ current' \in [Handlers -> Entered]
<1>1. Sent' = {}
  BY DEF Restart, Sent
<1>2. Awaiting' = 0
  BY <1>1, FS_EmptySet DEF Sent, Awaiting
<1>3. ProxyInv'
  BY <1>2 DEF Restart, ProxyInv, ProxyTypeOK, ProxyPhases, OnlySupportedSent,
                PeersNeverLeave, UpstreamCallsAddUp
<1> QED
  BY <1>3 DEF Restart, Entered

-----------------------------------------------------------------------------
(* A path with a route has two segments, and trimming leaves it as it is. *)
LEMMA PairOf ==
  ASSUME NEW S, NEW q \in Seq(S), Len(q) = 2
  PROVE  /\ DOMAIN q = 1 .. 2 /\ SubSeq(q, 1, Len(q)) = q
         /\ Tail(q) # << >> /\ Tail(q)[1] = q[2]
<1>1. DOMAIN q = 1 .. 2
  OBVIOUS
<1>2. SubSeq(q, 1, Len(q)) = q
  OBVIOUS
<1>3. Len(Tail(q)) = 1 /\ Tail(q) \in Seq(S)
  OBVIOUS
<1>4. q # << >>
  BY EmptySeq
<1>5. ASSUME Tail(q) = << >> PROVE FALSE
  <2> DEFINE t == Tail(q)
  <2>1. Len(t) = 1 /\ t = << >>
    BY <1>3, <1>5
  <2> HIDE DEF t
  <2>2. Len(t) = 0
    BY <2>1
  <2> QED
    BY <2>1, <2>2
<1>6. Tail(q)[1] = q[2]
  BY <1>3, <1>4, HeadTailProperties
<1> QED
  BY <1>1, <1>2, <1>5, <1>6

LEMMA RoutedPath ==
  ASSUME NEW path \in Paths, Route(path) # None
  PROVE  /\ EndpointFromPath(path) = Route(path)
         /\ NetworkFromPath(path) = path[1]
<1>1. path \in Seq(STRING)
  BY StackAssumption
<1>2. Len(path) = 2 /\ path[1] # ""
  BY DEF Route
<1>3. \/ path[2] = "" /\ Route(path) = "root"
      \/ path[2] \in {"rpc", "events", "binary"} /\ path[2] # "" /\ Route(path) = path[2]
  BY <1>2 DEF Route
<1>4. Trimmed(path) = path
  <2> DEFINE full == {i \in DOMAIN path : path[i] # ""}
  <2> DEFINE first == CHOOSE i \in full : \A j \in full : i <= j
  <2>1. DOMAIN path = 1 .. 2 /\ SubSeq(path, 1, Len(path)) = path
    BY <1>1, <1>2, PairOf
  <2>2. 1 \in full /\ \A j \in full : 1 <= j /\ j \in Nat
    <3>1. 1 \in DOMAIN path /\ \A j \in DOMAIN path : 1 <= j /\ j \in Nat
      BY <2>1
    <3> QED
      BY <1>2, <3>1
  <2> HIDE DEF full
  <2>3. first \in full /\ \A j \in full : first <= j
    BY <2>2
  <2> HIDE DEF first
  <2>4. first = 1
    <3>1. first <= 1 /\ 1 <= first /\ first \in Nat
      BY <2>2, <2>3
    <3> QED
      BY <3>1
  <2>5. Trimmed(path) = SubSeq(path, 1, Len(path))
    BY <2>2, <2>4 DEF Trimmed, full, first
  <2> QED
    BY <2>1, <2>5
<1>5. NetworkFromPath(path) = path[1]
  BY <1>2, <1>4 DEF NetworkFromPath
<1>6. Tail(path) # << >> /\ Tail(path)[1] = path[2]
  BY <1>1, <1>2, PairOf
<1>7. EndpointFromPath(path) = Route(path)
  BY <1>3, <1>4, <1>6 DEF EndpointFromPath
<1> QED
  BY <1>5, <1>7

LEMMA EnterKeeps ==
  ASSUME current \in [Handlers -> Entered], NEW h \in Handlers, NEW path \in Paths,
         NEW verb \in {"GET", "POST"}, NEW ip \in Clients, NEW t, NEW st,
         Enter(h, path, verb, ip, t, st), t = None \/ (t = Target(path) /\ Route(path) # None)
  PROVE  current' \in [Handlers -> Entered]
<1>1. [labels |-> Tracked(path, verb, ip), target |-> t] \in Entered
  BY DEF Entered
<1> QED
  BY <1>1 DEF Enter

LEMMA LeaveKeeps ==
  ASSUME current \in [Handlers -> Entered], NEW h \in Handlers, Leave(h)
  PROVE  current' \in [Handlers -> Entered]
<1>1. None \in Entered
  BY DEF Entered
<1> QED
  BY <1>1 DEF Leave

LEMMA HttpInvStep ==
  ASSUME IsFiniteSet(Handlers), HttpInv, [HttpNext]_httpVars
  PROVE  HttpInv'
<1>a. ProxyInv /\ current \in [Handlers -> Entered]
  BY DEF HttpInv
<1>1. CASE Restart
  BY <1>1, RestartKeeps DEF HttpInv
<1>2. ASSUME NEW h \in Handlers, NEW path \in Paths, NEW verb \in {"GET", "POST"}, NEW ip \in Clients,
             \/ Refuse(h, path, verb, ip) \/ NotRouted(h, path, verb, ip)
             \/ Serve(h, path, verb, ip) \/ Call(h, path, verb, ip)
      PROVE  HttpInv'
  <2>1. CASE Refuse(h, path, verb, ip)
    BY <1>a, <2>1, ProxyIdle, EnterKeeps DEF Refuse, HttpInv
  <2>2. CASE NotRouted(h, path, verb, ip)
    BY <1>a, <2>2, ProxyIdle, EnterKeeps DEF NotRouted, HttpInv
  <2>3. CASE Serve(h, path, verb, ip)
    <3>1. PICK st \in EndpointStatuses(Route(path), path[1] \in Names) :
            Enter(h, path, verb, ip, Target(path), st)
      BY <2>3 DEF Serve
    <3>2. Route(path) # None /\ UNCHANGED vars
      BY <2>3 DEF Serve
    <3> QED
      BY <1>a, <3>1, <3>2, ProxyIdle, EnterKeeps DEF HttpInv
  <2>4. CASE Call(h, path, verb, ip)
    <3>1. Route(path) = "rpc" /\ Enter(h, path, verb, ip, Target(path), 0)
      BY <2>4 DEF Call
    <3>2. Route(path) # None
      BY <3>1, StackAssumption
    <3>3. PICK q \in Requests : Reject(h, q) \/ Forward(h, q)
      BY <2>4 DEF Call
    <3>4. ProxyInv'
      BY <1>a, <3>3, RequestKeeps
    <3> QED
      BY <1>a, <3>1, <3>2, <3>4, EnterKeeps DEF HttpInv
  <2> QED
    BY <1>2, <2>1, <2>2, <2>3, <2>4
<1>3. ASSUME NEW h \in Handlers, NodeReplies(h) PROVE HttpInv'
  BY <1>a, <1>3, NodeKeeps DEF NodeReplies, HttpInv
<1>4. ASSUME NEW h \in Handlers, CancelCall(h) PROVE HttpInv'
  BY <1>a, <1>4, EndingKeeps, LeaveKeeps DEF CancelCall, HttpInv
<1>5. ASSUME NEW h \in Handlers, RespondDirectly(h) PROVE HttpInv'
  BY <1>a, <1>5, ProxyIdle, LeaveKeeps DEF RespondDirectly, SendResponse, HttpInv
<1>6. ASSUME NEW h \in Handlers, RespondToCall(h) PROVE HttpInv'
  BY <1>a, <1>6, EndingKeeps, LeaveKeeps DEF RespondToCall, SendResponse, HttpInv
<1>7. CASE UNCHANGED httpVars
  BY <1>a, <1>7, ProxyIdle DEF httpVars, HttpInv
<1> QED
  BY <1>1, <1>2, <1>3, <1>4, <1>5, <1>6, <1>7 DEF HttpNext

LEMMA HttpInvariant ==
  ASSUME IsFiniteSet(Handlers)
  PROVE  HttpSpec => []HttpInv
<1>1. HttpInit => HttpInv
  <2> SUFFICES ASSUME HttpInit PROVE HttpInv
    OBVIOUS
  <2>1. ProxyInv
    BY ProxyStarts DEF HttpInit
  <2>2. current \in [Handlers -> Entered]
    BY DEF HttpInit, Entered
  <2> QED
    BY <2>1, <2>2 DEF HttpInv
<1>2. HttpInv /\ [HttpNext]_httpVars => HttpInv'
  BY HttpInvStep
<1> QED
  BY <1>1, <1>2, PTL DEF HttpSpec

(* No reply of the JSON-RPC proxy carries the node's peers: errors of its  *)
(* own never do, of the methods that list them the allowlist lets only     *)
(* info_get_status through, and sanitize_info_get_status_response sees all *)
(* of its replies, whatever their status.                                  *)
THEOREM NoPeersInReplies ==
  ASSUME IsFiniteSet(Handlers)
  PROVE  HttpSpec => []PeersNeverLeave
<1>1. HttpInv => PeersNeverLeave
  BY DEF HttpInv, ProxyInv
<1> QED
  BY <1>1, HttpInvariant, PTL

(* Each forwarded request is counted before the await and timed after it,  *)
(* unless its client left in between; also across restarts.                *)
THEOREM UpstreamCallsBalance ==
  ASSUME IsFiniteSet(Handlers)
  PROVE  HttpSpec => []UpstreamCallsAddUp
<1>1. HttpInv => UpstreamCallsAddUp
  BY DEF HttpInv, ProxyInv
<1> QED
  BY <1>1, HttpInvariant, PTL

(* network_from_path and endpoint_from_path, which read the path on their  *)
(* own, agree with the router on every path the router takes.              *)
THEOREM LabelsAreTrue ==
  ASSUME IsFiniteSet(Handlers)
  PROVE  HttpSpec => []LabelsNameTheEndpoint
<1>1. HttpInv => LabelsNameTheEndpoint
  <2> SUFFICES ASSUME HttpInv, NEW h \in Handlers, current[h] # None, current[h].target # None
               PROVE  /\ current[h].labels.endpoint = current[h].target.route
                      /\ current[h].labels.network = current[h].target.name
    BY DEF LabelsNameTheEndpoint
  <2>1. current[h] \in Entered
    BY DEF HttpInv
  <2>2. PICK path \in {q \in Paths : Route(q) # None}, verb \in {"GET", "POST"}, ip \in Clients :
          current[h] = [labels |-> Tracked(path, verb, ip), target |-> Target(path)]
    BY <2>1 DEF Entered
  <2>3. EndpointFromPath(path) = Route(path) /\ NetworkFromPath(path) = path[1]
    BY RoutedPath
  <2> QED
    BY <2>2, <2>3 DEF Tracked, Target
<1> QED
  BY <1>1, HttpInvariant, PTL

-----------------------------------------------------------------------------
(* Counting in bags: one element more is one more in every set it is in. *)
FiniteBag(B) == B \in [DOMAIN B -> Nat \ {0}] /\ IsFiniteSet(Numbered(B, DOMAIN B))

LEMMA NumberedFinite ==
  ASSUME NEW B, NEW S, FiniteBag(B)
  PROVE  IsFiniteSet(Numbered(B, S)) /\ Count(B, S) \in Nat
<1>1. Numbered(B, S) \in SUBSET Numbered(B, DOMAIN B)
  BY DEF Numbered
<1> QED
  BY <1>1, FS_Subset, FS_CardinalityType DEF FiniteBag, Count

LEMMA OneMore ==
  ASSUME NEW B, NEW e, FiniteBag(B)
  PROVE  LET C == B (+) SetToBag({e})
             n == IF e \in DOMAIN B THEN B[e] ELSE 0
         IN  /\ n \in Nat /\ DOMAIN C = DOMAIN B \cup {e} /\ C[e] = n + 1
             /\ \A x \in DOMAIN B : x # e => C[x] = B[x]
<1>1. DOMAIN (B (+) SetToBag({e})) = DOMAIN B \cup {e}
  BY DEF (+), SetToBag
<1>2. B \in [DOMAIN B -> Nat \ {0}]
  BY DEF FiniteBag
<1>3. SetToBag({e})[e] = 1 /\ DOMAIN SetToBag({e}) = {e}
  BY DEF SetToBag
<1>4. (B (+) SetToBag({e}))[e] = (IF e \in DOMAIN B THEN B[e] ELSE 0) + 1
  BY <1>3 DEF (+)
<1>5. ASSUME NEW x \in DOMAIN B, x # e PROVE (B (+) SetToBag({e}))[x] = B[x]
  <2>1. (B (+) SetToBag({e}))[x] = B[x] + 0
    BY <1>3, <1>5 DEF (+)
  <2>2. B[x] \in Nat
    BY <1>2
  <2> QED
    BY <2>1, <2>2
<1> QED
  BY <1>1, <1>2, <1>4, <1>5

(* C is B with one e more, its n + 1st. *)
IsOneMore(B, C, e, n) ==
  /\ n = IF e \in DOMAIN B THEN B[e] ELSE 0
  /\ DOMAIN C = DOMAIN B \cup {e} /\ C[e] = n + 1
  /\ \A x \in DOMAIN B : x # e => C[x] = B[x]

LEMMA NumberedMore ==
  ASSUME NEW B, NEW C, NEW e, NEW n \in Nat, NEW S, NEW T, IsOneMore(B, C, e, n),
         T \cap DOMAIN B = S \cap DOMAIN B
  PROVE  /\ e \in T => /\ Numbered(C, T) = Numbered(B, S) \cup {<<e, n + 1>>}
                       /\ <<e, n + 1>> \notin Numbered(B, S)
         /\ e \notin T => Numbered(C, T) = Numbered(B, S)
<1> USE DEF IsOneMore
<1>1. \A U, D : \A p : p \in Numbered(D, U) <=>
        \E x \in U \cap DOMAIN D : \E i \in 1 .. D[x] : p = <<x, i>>
  BY DEF Numbered
<1>2. \A p : p \in Numbered(B, S) => p \in Numbered(C, T)
  <2> SUFFICES ASSUME NEW x \in S \cap DOMAIN B, NEW i \in 1 .. B[x]
               PROVE  <<x, i>> \in Numbered(C, T)
    BY <1>1
  <2>1. x \in T \cap DOMAIN C
    OBVIOUS
  <2>2. i \in 1 .. C[x]
    <3>1. CASE x # e
      BY <3>1
    <3>2. CASE x = e
      BY <3>2
    <3> QED
      BY <3>1, <3>2
  <2> QED
    BY <1>1, <2>1, <2>2
<1>3. \A p : p \in Numbered(C, T) => p \in Numbered(B, S) \/ (e \in T /\ p = <<e, n + 1>>)
  <2> SUFFICES ASSUME NEW x \in T \cap DOMAIN C, NEW i \in 1 .. C[x],
                      <<x, i>> \notin Numbered(B, S)
               PROVE  e \in T /\ <<x, i>> = <<e, n + 1>>
    BY <1>1
  <2>1. x = e
    <3> SUFFICES ASSUME x # e PROVE FALSE
      OBVIOUS
    <3>1. x \in S \cap DOMAIN B /\ i \in 1 .. B[x]
      OBVIOUS
    <3> QED
      BY <1>1, <3>1
  <2>2. i \in 1 .. n + 1
    BY <2>1
  <2>3. i \notin 1 .. n
    <3> SUFFICES ASSUME i \in 1 .. n PROVE FALSE
      OBVIOUS
    <3>1. e \in DOMAIN B /\ n = B[e]
      OBVIOUS
    <3>2. x \in S \cap DOMAIN B /\ i \in 1 .. B[x]
      BY <2>1, <3>1
    <3> QED
      BY <1>1, <3>2
  <2>4. i = n + 1
    BY <2>2, <2>3
  <2> QED
    BY <2>1, <2>4
<1>4. e \in T => <<e, n + 1>> \in Numbered(C, T)
  <2> SUFFICES ASSUME e \in T PROVE <<e, n + 1>> \in Numbered(C, T)
    OBVIOUS
  <2>1. n + 1 \in 1 .. C[e] /\ e \in T \cap DOMAIN C
    OBVIOUS
  <2> QED
    BY <1>1, <2>1
<1>5. <<e, n + 1>> \notin Numbered(B, S)
  <2> SUFFICES ASSUME NEW x \in S \cap DOMAIN B, NEW i \in 1 .. B[x], <<e, n + 1>> = <<x, i>>
               PROVE  FALSE
    BY <1>1
  <2>1. e = x /\ n + 1 = i
    OBVIOUS
  <2> QED
    BY <2>1
<1> QED
  BY <1>2, <1>3, <1>4, <1>5

(* What that does to the counts of any set of elements; S and T are the    *)
(* same but for elements that B does not have.                             *)
CountsOneMore(B, C, e) ==
  /\ DOMAIN C = DOMAIN B \cup {e}
  /\ \A S, T : T \cap DOMAIN B = S \cap DOMAIN B =>
       /\ e \in T => Count(C, T) = Count(B, S) + 1
       /\ e \notin T => Count(C, T) = Count(B, S)

LEMMA CountMore ==
  ASSUME NEW B, NEW e, FiniteBag(B), NEW C, C = B (+) SetToBag({e})
  PROVE  FiniteBag(C) /\ CountsOneMore(B, C, e)
<1> DEFINE n == IF e \in DOMAIN B THEN B[e] ELSE 0
<1>1. /\ n \in Nat /\ DOMAIN C = DOMAIN B \cup {e} /\ C[e] = n + 1
      /\ \A x \in DOMAIN B : x # e => C[x] = B[x]
  BY OneMore
<1>2. IsOneMore(B, C, e, n)
  BY <1>1 DEF IsOneMore
<1> HIDE DEF n
<1>3. ASSUME NEW S, NEW T, T \cap DOMAIN B = S \cap DOMAIN B
      PROVE  /\ e \in T => /\ Numbered(C, T) = Numbered(B, S) \cup {<<e, n + 1>>}
                           /\ <<e, n + 1>> \notin Numbered(B, S)
             /\ e \notin T => Numbered(C, T) = Numbered(B, S)
  <2>1. n \in Nat
    BY <1>1
  <2> QED
    BY <1>2, <1>3, <2>1, NumberedMore
<1>4. ASSUME NEW S, NEW T, T \cap DOMAIN B = S \cap DOMAIN B
      PROVE  /\ e \in T => Count(C, T) = Count(B, S) + 1
             /\ e \notin T => Count(C, T) = Count(B, S)
  <2>1. IsFiniteSet(Numbered(B, S))
    BY NumberedFinite
  <2>2. ASSUME e \in T PROVE Count(C, T) = Count(B, S) + 1
    <3>1. /\ Numbered(C, T) = Numbered(B, S) \cup {<<e, n + 1>>}
          /\ <<e, n + 1>> \notin Numbered(B, S)
      BY <1>3, <1>4, <2>2
    <3> QED
      BY <2>1, <3>1, FS_AddElement DEF Count
  <2>3. ASSUME e \notin T PROVE Count(C, T) = Count(B, S)
    BY <1>3, <1>4, <2>3 DEF Count
  <2> QED
    BY <2>2, <2>3
<1>5. IsFiniteSet(Numbered(C, DOMAIN C))
  <2>1. DOMAIN C \cap DOMAIN B = DOMAIN B \cap DOMAIN B /\ e \in DOMAIN C
    BY <1>1
  <2>2. Numbered(C, DOMAIN C) = Numbered(B, DOMAIN B) \cup {<<e, n + 1>>}
    BY <1>3, <2>1
  <2>3. IsFiniteSet(Numbered(B, DOMAIN B))
    BY DEF FiniteBag
  <2> QED
    BY <2>2, <2>3, FS_AddElement
<1>6. C \in [DOMAIN C -> Nat \ {0}]
  <2>1. C = [x \in DOMAIN C |-> C[x]]
    BY DEF (+)
  <2>2. \A x \in DOMAIN C : C[x] \in Nat \ {0}
    BY <1>1 DEF FiniteBag
  <2> QED
    BY <2>1, <2>2
<1> QED
  BY <1>1, <1>4, <1>5, <1>6 DEF FiniteBag, CountsOneMore

(* The whole bag, and one element. *)
LEMMA CountAll ==
  ASSUME NEW B, NEW C, NEW e, CountsOneMore(B, C, e)
  PROVE  Count(C, DOMAIN C) = Count(B, DOMAIN B) + 1
<1>1. DOMAIN C \cap DOMAIN B = DOMAIN B \cap DOMAIN B /\ e \in DOMAIN C
  BY DEF CountsOneMore
<1> QED
  BY <1>1 DEF CountsOneMore

LEMMA CountOne ==
  ASSUME NEW B, NEW C, NEW e, CountsOneMore(B, C, e), NEW x
  PROVE  Count(C, {x}) = IF x = e THEN Count(B, {x}) + 1 ELSE Count(B, {x})
<1>1. CASE x = e
  BY <1>1 DEF CountsOneMore
<1>2. CASE x # e
  BY <1>2 DEF CountsOneMore
<1> QED
  BY <1>1, <1>2

(* The elements with a status. *)
Under(B, st) == {x \in DOMAIN B : x.status = st}

LEMMA CountUnder ==
  ASSUME NEW B, NEW C, NEW e, CountsOneMore(B, C, e), NEW st
  PROVE  Count(C, Under(C, st)) =
           IF st = e.status THEN Count(B, Under(B, st)) + 1 ELSE Count(B, Under(B, st))
<1>1. DOMAIN C = DOMAIN B \cup {e}
  BY DEF CountsOneMore
<1>2. Under(C, st) \cap DOMAIN B = Under(B, st) \cap DOMAIN B
  BY <1>1 DEF Under
<1>3. e \in Under(C, st) <=> st = e.status
  BY <1>1 DEF Under
<1> QED
  BY <1>2, <1>3 DEF CountsOneMore

LEMMA CountNone ==
  /\ FiniteBag(EmptyBag)
  /\ \A S : Count(EmptyBag, S) = 0
<1>1. DOMAIN EmptyBag = {} /\ EmptyBag \in [{} -> Nat \ {0}]
  BY DEF EmptyBag, SetToBag
<1>2. \A S : Numbered(EmptyBag, S) = {}
  BY <1>1 DEF Numbered
<1> QED
  BY <1>1, <1>2, FS_EmptySet DEF FiniteBag, Count

(* The counters and the responses, status by status. *)
CountedInv ==
  /\ FiniteBag(total) /\ FiniteBag(limited) /\ FiniteBag(byIp) /\ FiniteBag(sent)
  /\ \A st : Count(total, Under(total, st)) = Count(sent, {st})
  /\ Count(byIp, DOMAIN byIp) = Count(sent, DOMAIN sent)
  /\ Count(limited, DOMAIN limited) = Count(sent, {429})

LEMMA CountedFromNone ==
  ASSUME total = EmptyBag, limited = EmptyBag, byIp = EmptyBag, sent = EmptyBag
  PROVE  CountedInv
  BY CountNone DEF CountedInv

LEMMA ResponseCounted ==
  ASSUME CountedInv, NEW h \in Handlers, NEW st, SendResponse(h, st)
  PROVE  CountedInv'
<1> DEFINE l == current[h].labels
           t == [network |-> l.network, verb |-> l.verb, endpoint |-> l.endpoint, status |-> st]
           m == [network |-> l.network, endpoint |-> l.endpoint]
           i == [network |-> l.network, ip |-> l.ip]
<1>1. /\ total' = total (+) SetToBag({t}) /\ byIp' = byIp (+) SetToBag({i})
      /\ sent' = sent (+) SetToBag({st})
      /\ limited' = IF st = 429 THEN limited (+) SetToBag({m}) ELSE limited
  BY DEF SendResponse, HttpObserve
<1>2. t.status = st
  OBVIOUS
<1> HIDE DEF l, t, m, i
<1>a. /\ FiniteBag(total) /\ FiniteBag(limited) /\ FiniteBag(byIp) /\ FiniteBag(sent)
      /\ \A s : Count(total, Under(total, s)) = Count(sent, {s})
      /\ Count(byIp, DOMAIN byIp) = Count(sent, DOMAIN sent)
      /\ Count(limited, DOMAIN limited) = Count(sent, {429})
  BY DEF CountedInv
<1>3. FiniteBag(sent') /\ CountsOneMore(sent, sent', st)
  BY <1>1, <1>a, CountMore
<1>4. FiniteBag(total') /\ CountsOneMore(total, total', t)
  BY <1>1, <1>a, CountMore
<1>5. FiniteBag(byIp') /\ CountsOneMore(byIp, byIp', i)
  BY <1>1, <1>a, CountMore
<1>6. /\ FiniteBag(limited')
      /\ st = 429 => CountsOneMore(limited, limited', m)
      /\ st # 429 => limited' = limited
  <2>1. CASE st = 429
    <3>1. limited' = limited (+) SetToBag({m})
      BY <1>1, <2>1
    <3> QED
      BY <1>a, <2>1, <3>1, CountMore
  <2>2. CASE st # 429
    BY <1>1, <1>a, <2>2
  <2> QED
    BY <2>1, <2>2
<1>7. ASSUME NEW s PROVE Count(total', Under(total', s)) = Count(sent', {s})
  <2>1. Count(sent', {s}) = IF s = st THEN Count(sent, {s}) + 1 ELSE Count(sent, {s})
    BY <1>3, CountOne
  <2>2. Count(total', Under(total', s)) =
          IF s = st THEN Count(total, Under(total, s)) + 1 ELSE Count(total, Under(total, s))
    BY <1>2, <1>4, CountUnder
  <2> QED
    BY <1>a, <2>1, <2>2
<1>8. Count(byIp', DOMAIN byIp') = Count(sent', DOMAIN sent')
  <2>1. /\ Count(byIp', DOMAIN byIp') = Count(byIp, DOMAIN byIp) + 1
        /\ Count(sent', DOMAIN sent') = Count(sent, DOMAIN sent) + 1
    BY <1>3, <1>5, CountAll
  <2> QED
    BY <1>a, <2>1
<1>9. Count(limited', DOMAIN limited') = Count(sent', {429})
  <2>1. Count(sent', {429}) = IF 429 = st THEN Count(sent, {429}) + 1 ELSE Count(sent, {429})
    BY <1>3, CountOne
  <2>2. CASE st = 429
    <3>1. Count(limited', DOMAIN limited') = Count(limited, DOMAIN limited) + 1
      BY <1>6, <2>2, CountAll
    <3> QED
      BY <1>a, <2>1, <2>2, <3>1
  <2>3. CASE st # 429
    BY <1>6, <1>a, <2>1, <2>3
  <2> QED
    BY <2>2, <2>3
<1> QED
  BY <1>3, <1>4, <1>5, <1>6, <1>7, <1>8, <1>9 DEF CountedInv

(* Each response that leaves the proxy is counted once, and nothing else   *)
(* is: http_requests_total by status, http_requests_by_ip_total and, of    *)
(* refused requests, http_429_total agree with the responses.              *)
THEOREM ResponsesAreCounted == HttpSpec => []EveryResponseCounted
<1>1. HttpInit => CountedInv
  BY CountedFromNone DEF HttpInit
<1>2. CountedInv /\ [HttpNext]_httpVars => CountedInv'
  <2> SUFFICES ASSUME CountedInv, [HttpNext]_httpVars PROVE CountedInv'
    OBVIOUS
  <2>a. ASSUME UNCHANGED <<httpMetrics, sent>> PROVE CountedInv'
    BY <2>a DEF CountedInv, httpMetrics
  <2>1. CASE Restart
    BY <2>1, CountNone DEF Restart, CountedInv
  <2>2. ASSUME NEW h \in Handlers, NEW path \in Paths, NEW verb \in {"GET", "POST"},
               NEW ip \in Clients,
               \/ Refuse(h, path, verb, ip) \/ NotRouted(h, path, verb, ip)
               \/ Serve(h, path, verb, ip) \/ Call(h, path, verb, ip)
        PROVE  UNCHANGED <<httpMetrics, sent>>
    BY <2>2 DEF Refuse, NotRouted, Serve, Call, Enter
  <2>3. ASSUME NEW h \in Handlers, NodeReplies(h) \/ CancelCall(h)
        PROVE  UNCHANGED <<httpMetrics, sent>>
    BY <2>3 DEF NodeReplies, CancelCall
  <2>4. ASSUME NEW h \in Handlers, RespondDirectly(h) \/ RespondToCall(h) PROVE CountedInv'
    BY <2>4, ResponseCounted DEF RespondDirectly, RespondToCall
  <2>5. CASE UNCHANGED httpVars
    BY <2>5, <2>a DEF httpVars
  <2> QED
    BY <2>1, <2>2, <2>3, <2>4, <2>5, <2>a DEF HttpNext
<1>3. CountedInv => EveryResponseCounted
  BY DEF CountedInv, EveryResponseCounted, Under
<1> QED
  BY <1>1, <1>2, <1>3, PTL DEF HttpSpec
============================================================================
