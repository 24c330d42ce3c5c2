---------------------------- MODULE BinaryCodec ----------------------------
(***************************************************************************)
(* How the binary port connector reads a client's request and rewrites a   *)
(* node's response (src/src/binary_proxy.rs, from parse_request on).       *)
(*                                                                         *)
(* A request, and a frame of the node, is a record of what the decoders    *)
(* make of its parts; encoding a decoded value gives its canonical form.   *)
(* The decoders are those of casper_binary_port and casper_types: they can *)
(* fail, leave bytes over, or accept a form they would not have written.   *)
(* Encoding never fails.                                                   *)
(***************************************************************************)
EXTENDS BinaryMessages

CONSTANT
  None       \* nothing: no request, no frame, no reply, no request in a frame

(* The type tags of responses. *)
Tags == {"unknown", "value", "opaque", "NodeStatus", "Peers"}

VARIABLES
  request,   \* the message of the client
  frame,     \* what the node sent for it
  reply      \* what `send` returned: an error of its own or a frame

vars == <<request, frame, reply>>

-----------------------------------------------------------------------------
(* Data. *)

(* The decoding of a request, in the order of parse_request: the header,   *)
(* its version, its tag, the command, and of a request for information its *)
(* own tag and key.                                                        *)
ClientRequests ==
  [header : BOOLEAN, version : BOOLEAN, tag : BOOLEAN, command : BOOLEAN,
   info : {"none", "unknown", "undecodable", "Peers", "other"}, large : BOOLEAN]

(* Nothing is neither a request nor a tag. *)
ASSUME NoneAssumption == None \notin ClientRequests /\ None \notin Tags

(* Decoding a response's payload as the type its tag names. *)
Decodings == {"fails", "left over", "other form", "canonical"}

(* A response: an error code or "none", its tag, its payload and whether   *)
(* the payload lists peers.  Tags whose payload is read as a value, tags   *)
(* whose payload is kept as it is, and the two that are special.           *)
Contents ==
  [error : {"none", "node's", "FunctionDisabled", "BadRequest", "UnsupportedRequest",
            "InternalError"},
   tag : {None} \cup Tags,
   payload : {"empty"} \cup Decodings, peers : BOOLEAN]

NewError(code) == [error |-> code, tag |-> None, payload |-> "empty", peers |-> FALSE]

(* A frame: the outcome of reading it as a response with its request, of   *)
(* reading it as a response alone, the request in it, and the response.    *)
Wrapped(q, c) == [both |-> "whole", alone |-> "fails", request |-> q, content |-> c]
Bare(c) == [both |-> "fails", alone |-> "whole", request |-> None, content |-> c]

(* What a node sends: a response to the request, or only a response, whole *)
(* or not.  Its errors have no payload, and a payload without a tag, or    *)
(* with one that is not known, tells nothing.                              *)
NodeContents ==
  {NewError("node's")} \cup
  {c \in Contents :
     /\ c.error = "none"
     /\ c.tag \in {None, "unknown"} => c.payload \in {"empty", "other form"} /\ ~c.peers
     /\ c.tag \notin {None, "unknown"} => c.payload # "empty"
     /\ c.tag = "opaque" => c.payload = "canonical"
     /\ c.peers => c.tag \in {"NodeStatus", "Peers"} /\ c.payload \in {"other form", "canonical"}}

NodeFrames(q) ==
  LET outcomes == {"fails", "left over", "whole"} IN
  {f \in [both : outcomes, alone : outcomes, request : {None, q}, content : NodeContents] :
     f.request = IF f.both = "fails" THEN None ELSE q}

-----------------------------------------------------------------------------
(* parse_request and the checks after it. *)

ParseRequest(q) ==
  CASE ~q.header -> "fails"
    [] q.header /\ ~q.version -> "version"
    [] q.header /\ q.version
         /\ (~q.tag \/ ~q.command \/ q.info \in {"unknown", "undecodable"}) -> "fails"
    [] OTHER -> "ok"

(* What the pool knows of a request. *)
PayloadOf(q) == [parse |-> ParseRequest(q), large |-> q.large, peers |-> q.info = "Peers"]

BuildErrorResponse(code, q) == Wrapped(q, NewError(code))

-----------------------------------------------------------------------------
(* rewrite_response_bytes and what it calls.  A failure is a record with   *)
(* the error code of its ResponseRewriteError.                             *)

Failure(code) == [failed |-> code]
Failed(x) == "failed" \in DOMAIN x

\* Seeded fault: bytes left over after both are taken for a response alone.
ParseResponseEnvelopeTwice(f) ==
  CASE f.both = "whole" -> Wrapped(f.request, f.content)
    [] f.both # "whole" /\ f.alone # "fails" -> Bare(f.content)
    [] OTHER -> Failure("InternalError")

(* parse_response_envelope: bytes left over after a response with its      *)
(* request are an error, and no reason to read the frame the other way.    *)
ParseResponseEnvelope(f) ==
  CASE f.both = "whole" -> Wrapped(f.request, f.content)
    [] f.both = "fails" /\ f.alone = "whole" -> Bare(f.content)
    [] OTHER -> Failure("InternalError")

(* roundtrip_response: the payload as the proxy itself would write it; one *)
(* that is kept as it is (OpaquePayload) always decodes.                   *)
Roundtrip(c) ==
  IF c.payload \in {"fails", "left over"} THEN Failure("InternalError")
  ELSE [c EXCEPT !.payload = "canonical"]

\* Seeded fault: a node status is one more payload to be read and written.
SanitizeNodeStatusKeepsPeers(c) == Roundtrip(c)

(* sanitize_node_status_payload *)
SanitizeNodeStatus(c) ==
  LET status == Roundtrip(c) IN IF Failed(status) THEN status ELSE [status EXCEPT !.peers = FALSE]

\* Seeded fault: a response without a tag is refused even if it is empty.
UntaggedRefused(c) == Failure("InternalError")

(* A success without a tag is fine if there is nothing in it. *)
Untagged(c) == IF c.payload = "empty" THEN c ELSE Failure("InternalError")

(* The match of rewrite_response_bytes: errors and empty responses pass;   *)
(* a list of peers becomes an error, a node status loses its own.          *)
Rewrite(c) ==
  IF c.error # "none" THEN c ELSE
  CASE c.tag = None -> Untagged(c)
    [] c.tag = "unknown" -> Failure("UnsupportedRequest")
    [] c.tag = "Peers" -> NewError("FunctionDisabled")
    [] c.tag = "NodeStatus" -> SanitizeNodeStatus(c)
    [] c.tag \in {"value", "opaque"} -> Roundtrip(c)

(* set_response and serialize_response_envelope: the rewritten response in *)
(* the envelope it came in.                                                *)
RewriteResponseBytes(f) ==
  LET envelope == ParseResponseEnvelope(f) IN
  IF Failed(envelope) THEN envelope
  ELSE LET new == Rewrite(envelope.content) IN
       IF Failed(new) THEN new ELSE [envelope EXCEPT !.content = new]

-----------------------------------------------------------------------------
(* One call of `send`. *)

Init == request = None /\ frame = None /\ reply = None

(* The call ends before a connection is asked for, or it goes on. *)
Refuse(q) ==
  LET verdict == Verdict(PayloadOf(q)) IN
  /\ request = None
  /\ verdict # "forward"
  /\ request' = q
  /\ reply' = IF verdict = "RequestTooLarge" THEN Failure(verdict) ELSE BuildErrorResponse(verdict, q)
  /\ UNCHANGED frame

Forward(q) ==
  /\ request = None
  /\ Verdict(PayloadOf(q)) = "forward"
  /\ request' = q
  /\ UNCHANGED <<frame, reply>>

NodeAnswers ==
  /\ request # None /\ reply = None /\ frame = None
  /\ \E f \in NodeFrames(request) : frame' = f
  /\ UNCHANGED <<request, reply>>

\* Seeded fault: the error is wrapped around the bytes of the node.
AnswerAroundFrame ==
  LET new == RewriteResponseBytes(frame) IN
  /\ frame # None /\ reply = None
  /\ reply' = IF Failed(new) THEN BuildErrorResponse(new.failed, frame.request) ELSE new
  /\ UNCHANGED <<request, frame>>

Answer ==
  LET new == RewriteResponseBytes(frame) IN
  /\ frame # None /\ reply = None
  /\ reply' = IF Failed(new) THEN BuildErrorResponse(new.failed, request) ELSE new
  /\ UNCHANGED <<request, frame>>

(* The next call. *)
Reset ==
  /\ reply # None
  /\ request' = None /\ frame' = None /\ reply' = None

Next ==
  \/ \E q \in ClientRequests : Refuse(q) \/ Forward(q)
  \/ NodeAnswers \/ Answer \/ Reset

Spec == Init /\ [][Next]_vars

-----------------------------------------------------------------------------
(* Properties. *)

Replied == reply # None /\ ~Failed(reply)

(* No reply lists the node's peers: a request for them is not forwarded,   *)
(* and neither their own response nor a node status brings them back.      *)
PeersNeverLeave ==
  Replied => ~reply.content.peers /\ reply.content.tag # "Peers"

(* Rewriting is invisible to a client of a well-behaved node: a whole      *)
(* response in canonical form that has no peers arrives as it was sent.    *)
FaithfulToTheNode ==
  (reply # None /\ frame # None) =>
    LET c == frame.content IN
    (/\ frame.both = "whole" \/ (frame.both = "fails" /\ frame.alone = "whole")
     /\ c.error # "none" \/ (c.tag = None /\ c.payload = "empty")
          \/ (c.tag \in {"value", "opaque", "NodeStatus"} /\ c.payload = "canonical" /\ ~c.peers))
    => reply.content = c /\ reply.request = frame.request

(* A client can tell which of its messages a reply is for: the reply holds *)
(* the request, unless the node left it out of a response that decodes.    *)
RepliesNameTheirRequest ==
  Replied =>
    \/ reply.request = request
    \/ /\ frame # None
       /\ frame.both = "fails" /\ frame.alone = "whole"
       /\ reply.content.error \in {"none", "node's", "FunctionDisabled"}

(* What the pool's model takes a frame to be. *)
BodyOf(f) ==
  LET c == f.content IN
  CASE f.both = "left over" \/ (f.both = "fails" /\ f.alone # "whole") -> "garbled"
    [] OTHER ->
         IF c.error # "none" THEN "decodes" ELSE
         CASE c.tag = "unknown" -> "unknown tag"
           [] c.tag = "Peers" -> "peers"
           [] c.tag = None /\ c.payload # "empty" -> "garbled"
           [] c.payload \in {"fails", "left over"} /\ c.tag # "Peers" -> "garbled"
           [] OTHER -> "decodes"

(* The pool's view of messages is this one: a forwarded request comes back *)
(* with the kind of reply that BinaryMessages gives for its frame.         *)
AgreesWithPool ==
  (reply # None /\ frame # None) =>
    LET kind == Rewritten(BodyOf(frame)) IN
    IF kind = "response" THEN reply.content.error = frame.content.error
    ELSE reply.content = NewError(kind)
=============================================================================
