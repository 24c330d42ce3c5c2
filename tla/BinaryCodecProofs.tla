------------------------- MODULE BinaryCodecProofs -------------------------
(***************************************************************************)
(* Proofs about BinaryCodec: what a client receives from one call of       *)
(* `send`, for every request and every frame of the node.                  *)
(*                                                                         *)
(* The proofs go from the inside out: what Rewrite makes of a response     *)
(* (one lemma per branch of the match), what the whole of                  *)
(* rewrite_response_bytes makes of a frame, and what the caller makes of   *)
(* that.  The invariant then only has to remember which frame a reply was  *)
(* made from.                                                              *)
(***************************************************************************)
EXTENDS BinaryCodec, TLAPS

-----------------------------------------------------------------------------
(* Responses. *)

(* A response that cannot be decoded as what its tag says. *)
Undecodable(c) ==
  /\ c.error = "none"
  /\ \/ c.tag = None /\ c.payload # "empty"
     \/ c.tag \in {"value", "opaque", "NodeStatus"} /\ c.payload \in {"fails", "left over"}

(* A response that reaches the client as it is or rewritten. *)
Passes(c) ==
  \/ c.error # "none"
  \/ c.tag = None /\ c.payload = "empty"
  \/ c.tag \in {"value", "opaque", "NodeStatus"} /\ c.payload \notin {"fails", "left over"}

(* A response that Rewrite must not change. *)
Clean(c) ==
  \/ c.error # "none" \/ (c.tag = None /\ c.payload = "empty")
  \/ c.tag \in {"value", "opaque", "NodeStatus"} /\ c.payload = "canonical" /\ ~c.peers

(* The parts of a response. *)
LEMMA ContentParts ==
  ASSUME NEW c \in NodeContents
  PROVE  /\ c = [error |-> c.error, tag |-> c.tag, payload |-> c.payload, peers |-> c.peers]
         /\ c.tag \in {None} \cup Tags
         /\ c.peers \in BOOLEAN
         /\ c.error = "none" \/ c = NewError("node's")
         /\ c.peers => c.tag \in {"NodeStatus", "Peers"} /\ c.error = "none"
         /\ c.tag = "unknown" => c.payload \notin {"fails", "left over"}
<1>1. CASE c = NewError("node's")
  BY <1>1 DEF NewError
<1>2. CASE c \in Contents /\ c.error = "none"
                /\ (c.peers => c.tag \in {"NodeStatus", "Peers"})
                /\ (c.tag = "unknown" => c.payload \notin {"fails", "left over"})
  BY <1>2 DEF Contents
<1> QED
  BY <1>1, <1>2 DEF NodeContents

LEMMA RewriteUndecodable ==
  ASSUME NEW c \in NodeContents, Undecodable(c)
  PROVE  Rewrite(c) = Failure("InternalError")
<1>1. CASE c.tag = None /\ c.payload # "empty"
  <2>1. Rewrite(c) = Untagged(c)
    BY <1>1, NoneAssumption DEF Rewrite, Undecodable, Tags
  <2> QED
    BY <1>1, <2>1 DEF Untagged
<1>2. CASE c.tag \in {"value", "opaque", "NodeStatus"} /\ c.payload \in {"fails", "left over"}
  <2>1. Roundtrip(c) = Failure("InternalError")
    BY <1>2 DEF Roundtrip
  <2>2. Failed(Failure("InternalError"))
    BY DEF Failed, Failure
  <2>3. SanitizeNodeStatus(c) = Failure("InternalError")
    BY <2>1, <2>2 DEF SanitizeNodeStatus
  <2>4. c.error = "none" /\ c.tag # None
    BY <1>2, NoneAssumption DEF Undecodable, Tags
  <2>5. Rewrite(c) = Roundtrip(c) \/ Rewrite(c) = SanitizeNodeStatus(c)
    BY <1>2, <2>4 DEF Rewrite
  <2> QED
    BY <2>1, <2>3, <2>5
<1> QED
  BY <1>1, <1>2 DEF Undecodable

LEMMA RewriteUnknown ==
  ASSUME NEW c \in NodeContents, c.error = "none", c.tag = "unknown"
  PROVE  Rewrite(c) = Failure("UnsupportedRequest")
  BY NoneAssumption DEF Rewrite, Tags

LEMMA RewritePeers ==
  ASSUME NEW c \in NodeContents, c.error = "none", c.tag = "Peers"
  PROVE  Rewrite(c) = NewError("FunctionDisabled")
  BY NoneAssumption DEF Rewrite, Tags

(* What passes keeps its error code and its tag, loses its peers, and is   *)
(* not changed at all if it is clean.                                      *)
LEMMA RewritePasses ==
  ASSUME NEW c \in NodeContents, Passes(c)
  PROVE  /\ ~Failed(Rewrite(c))
         /\ Rewrite(c).error = c.error
         /\ Rewrite(c).tag = c.tag /\ c.tag # "Peers"
         /\ ~Rewrite(c).peers
         /\ Clean(c) => Rewrite(c) = c
<1> DEFINE new(p, b) == [error |-> c.error, tag |-> c.tag, payload |-> p, peers |-> b]
<1>a. /\ c = new(c.payload, c.peers) /\ c.peers \in BOOLEAN
      /\ c.error = "none" \/ c = NewError("node's")
      /\ c.peers => c.tag \in {"NodeStatus", "Peers"} /\ c.error = "none"
  BY ContentParts
<1>b. ASSUME NEW p, NEW b PROVE ~Failed(new(p, b))
  BY DEF Failed
<1>1. CASE c.error # "none"
  <2>1. Rewrite(c) = c
    BY <1>1 DEF Rewrite
  <2>2. c.tag = None /\ c.peers = FALSE
    BY <1>a, <1>1 DEF NewError
  <2> QED
    BY <1>a, <1>b, <2>1, <2>2, NoneAssumption DEF Tags
<1>2. CASE c.error = "none" /\ c.tag = None /\ c.payload = "empty"
  <2>1. Rewrite(c) = c
    BY <1>2, NoneAssumption DEF Rewrite, Tags, Untagged
  <2>2. ~c.peers /\ c.tag # "Peers"
    BY <1>a, <1>2, NoneAssumption DEF Tags
  <2> QED
    BY <1>a, <1>b, <2>1, <2>2
<1>3. CASE /\ c.error = "none"
           /\ c.tag \in {"value", "opaque"} /\ c.payload \notin {"fails", "left over"}
  <2>1. Rewrite(c) = Roundtrip(c)
    BY <1>3, NoneAssumption DEF Rewrite, Tags
  <2>2. Roundtrip(c) = [c EXCEPT !.payload = "canonical"]
    BY <1>3 DEF Roundtrip
  <2>3. Roundtrip(c) = new("canonical", c.peers)
    BY <1>a, <2>2
  <2>4. ~c.peers /\ c.tag # "Peers"
    BY <1>a, <1>3
  <2>5. Clean(c) => c.payload = "canonical"
    BY <1>3, NoneAssumption DEF Clean, Tags
  <2> QED
    BY <1>a, <1>b, <2>1, <2>3, <2>4, <2>5
<1>4. CASE /\ c.error = "none"
           /\ c.tag = "NodeStatus" /\ c.payload \notin {"fails", "left over"}
  <2>1. Rewrite(c) = SanitizeNodeStatus(c)
    BY <1>4, NoneAssumption DEF Rewrite, Tags
  <2>2. Roundtrip(c) = [c EXCEPT !.payload = "canonical"]
    BY <1>4 DEF Roundtrip
  <2>3. Roundtrip(c) = new("canonical", c.peers)
    BY <1>a, <2>2
  <2>4. SanitizeNodeStatus(c) = new("canonical", FALSE)
    <3>1. SanitizeNodeStatus(c) = [Roundtrip(c) EXCEPT !.peers = FALSE]
      BY <1>b, <2>3 DEF SanitizeNodeStatus
    <3>2. ASSUME NEW d PROVE [new("canonical", c.peers) EXCEPT !.peers = d] = new("canonical", d)
      OBVIOUS
    <3> QED
      BY <2>3, <3>1, <3>2
  <2>5. Clean(c) => c.payload = "canonical" /\ c.peers = FALSE
    BY <1>a, <1>4, NoneAssumption DEF Clean, Tags
  <2>6. Rewrite(c) = new("canonical", FALSE)
    BY <2>1, <2>4
  <2>7. ~Failed(Rewrite(c))
    BY <1>b, <2>6
  <2>8. Rewrite(c).error = c.error /\ Rewrite(c).tag = c.tag /\ ~Rewrite(c).peers
    BY <2>6
  <2>9. Clean(c) => Rewrite(c) = c
    BY <1>a, <2>5, <2>6
  <2> QED
    BY <1>4, <2>7, <2>8, <2>9
<1> QED
  BY <1>a, <1>1, <1>2, <1>3, <1>4 DEF Passes

(* Every response of the node is in one of the branches. *)
LEMMA Branches ==
  ASSUME NEW c \in NodeContents
  PROVE  \/ Undecodable(c) \/ Passes(c)
         \/ c.error = "none" /\ c.tag = "unknown"
         \/ c.error = "none" /\ c.tag = "Peers"
  BY ContentParts DEF Undecodable, Passes, Tags
-----------------------------------------------------------------------------
(* Frames. *)

(* A frame that parse_response_envelope takes apart. *)
Readable(f) == f.both = "whole" \/ (f.both = "fails" /\ f.alone = "whole")

(* What `send` returns for a frame of the node. *)
Answered(q, f) ==
  LET new == RewriteResponseBytes(f) IN
  IF Failed(new) THEN BuildErrorResponse(new.failed, q) ELSE new

LEMMA FrameParts ==
  ASSUME NEW q, NEW f \in NodeFrames(q)
  PROVE  /\ f.content \in NodeContents
         /\ f.both \in {"fails", "left over", "whole"}
         /\ f.alone \in {"fails", "left over", "whole"}
         /\ f.request = IF f.both = "fails" THEN None ELSE q
  BY DEF NodeFrames

LEMMA FailureFails ==
  ASSUME NEW code
  PROVE  Failed(Failure(code)) /\ Failure(code).failed = code
  BY DEF Failed, Failure

(* An error of the proxy is never taken for a failure, names the client's  *)
(* request and holds nothing else.                                         *)
LEMMA ErrorResponse ==
  ASSUME NEW q, NEW code
  PROVE  LET r == BuildErrorResponse(code, q) IN
         /\ ~Failed(r) /\ r.request = q /\ r.content = NewError(code)
         /\ r.content.error = code /\ ~r.content.peers /\ r.content.tag # "Peers"
<1>1. ~Failed(BuildErrorResponse(code, q))
  BY DEF BuildErrorResponse, Wrapped, Failed
<1>2. BuildErrorResponse(code, q).request = q /\ BuildErrorResponse(code, q).content = NewError(code)
  BY DEF BuildErrorResponse, Wrapped
<1>3. NewError(code).error = code /\ NewError(code).tag = None /\ ~NewError(code).peers
  BY DEF NewError
<1>4. None # "Peers"
  BY NoneAssumption DEF Tags
<1> QED
  BY <1>1, <1>2, <1>3, <1>4

LEMMA UnreadableAnswer ==
  ASSUME NEW q, NEW f \in NodeFrames(q), ~Readable(f)
  PROVE  Answered(q, f) = BuildErrorResponse("InternalError", q)
<1>1. ParseResponseEnvelope(f) = Failure("InternalError")
  BY FrameParts DEF ParseResponseEnvelope, Readable
<1>2. RewriteResponseBytes(f) = Failure("InternalError")
  BY <1>1, FailureFails DEF RewriteResponseBytes
<1> QED
  BY <1>2, FailureFails DEF Answered

(* The envelope of a frame that can be read holds its request and its      *)
(* response.                                                               *)
LEMMA Envelope ==
  ASSUME NEW q, NEW f \in NodeFrames(q), Readable(f)
  PROVE  \E b, a : ParseResponseEnvelope(f) =
                     [both |-> b, alone |-> a, request |-> f.request, content |-> f.content]
<1>1. CASE f.both = "whole"
  BY <1>1 DEF ParseResponseEnvelope, Wrapped
<1>2. CASE f.both = "fails" /\ f.alone = "whole"
  <2>1. f.request = None
    BY <1>2, FrameParts
  <2>2. ParseResponseEnvelope(f) = Bare(f.content)
    BY <1>2 DEF ParseResponseEnvelope
  <2> QED
    BY <2>1, <2>2 DEF Bare
<1> QED
  BY <1>1, <1>2 DEF Readable

LEMMA FailedAnswer ==
  ASSUME NEW q, NEW f \in NodeFrames(q), Readable(f),
         NEW code, Rewrite(f.content) = Failure(code)
  PROVE  Answered(q, f) = BuildErrorResponse(code, q)
<1>1. PICK b, a : ParseResponseEnvelope(f) =
                    [both |-> b, alone |-> a, request |-> f.request, content |-> f.content]
  BY Envelope
<1>2. ~Failed(ParseResponseEnvelope(f)) /\ ParseResponseEnvelope(f).content = f.content
  BY <1>1 DEF Failed
<1>3. RewriteResponseBytes(f) = Failure(code)
  BY <1>2, FailureFails DEF RewriteResponseBytes
<1> QED
  BY <1>3, FailureFails DEF Answered

LEMMA PassedAnswer ==
  ASSUME NEW q, NEW f \in NodeFrames(q), Readable(f), ~Failed(Rewrite(f.content))
  PROVE  /\ ~Failed(Answered(q, f))
         /\ Answered(q, f).request = f.request
         /\ Answered(q, f).content = Rewrite(f.content)
<1>1. PICK b, a : ParseResponseEnvelope(f) =
                    [both |-> b, alone |-> a, request |-> f.request, content |-> f.content]
  BY Envelope
<1>2. ~Failed(ParseResponseEnvelope(f)) /\ ParseResponseEnvelope(f).content = f.content
  BY <1>1 DEF Failed
<1>3. RewriteResponseBytes(f) = [ParseResponseEnvelope(f) EXCEPT !.content = Rewrite(f.content)]
  BY <1>2 DEF RewriteResponseBytes
<1>4. RewriteResponseBytes(f) =
        [both |-> b, alone |-> a, request |-> f.request, content |-> Rewrite(f.content)]
  BY <1>1, <1>3
<1>5. ~Failed(RewriteResponseBytes(f))
  BY <1>4 DEF Failed
<1>6. Answered(q, f) = RewriteResponseBytes(f)
  BY <1>5 DEF Answered
<1> QED
  BY <1>4, <1>5, <1>6
-----------------------------------------------------------------------------
(* What a reply to a frame is like. *)

Hides(r) == ~r.content.peers /\ r.content.tag # "Peers"

Unchanged(f, r) ==
  Readable(f) /\ Clean(f.content) => r.content = f.content /\ r.request = f.request

Names(q, f, r) ==
  \/ r.request = q
  \/ /\ f.both = "fails" /\ f.alone = "whole"
     /\ r.content.error \in {"none", "node's", "FunctionDisabled"}

Agrees(f, r) ==
  IF Rewritten(BodyOf(f)) = "response" THEN r.content.error = f.content.error
  ELSE r.content = NewError(Rewritten(BodyOf(f)))

LEMMA BodyUnreadable ==
  ASSUME NEW q, NEW f \in NodeFrames(q), ~Readable(f)
  PROVE  Rewritten(BodyOf(f)) = "InternalError"
<1>1. BodyOf(f) = "garbled"
  BY FrameParts DEF BodyOf, Readable
<1> QED
  BY <1>1 DEF Rewritten

(* The pool's name for the response of a frame that can be read. *)
BodyOfContent(c) ==
  IF c.error # "none" THEN "decodes" ELSE
  CASE c.tag = "unknown" -> "unknown tag"
    [] c.tag = "Peers" -> "peers"
    [] c.tag = None /\ c.payload # "empty" -> "garbled"
    [] c.payload \in {"fails", "left over"} /\ c.tag # "Peers" -> "garbled"
    [] OTHER -> "decodes"

LEMMA BodyReadable ==
  ASSUME NEW q, NEW f \in NodeFrames(q), Readable(f)
  PROVE  BodyOf(f) = BodyOfContent(f.content)
  BY FrameParts DEF BodyOf, BodyOfContent, Readable

LEMMA ReplyToFrame ==
  ASSUME NEW q, NEW f \in NodeFrames(q)
  PROVE  LET r == Answered(q, f) IN Hides(r) /\ Unchanged(f, r) /\ Names(q, f, r) /\ Agrees(f, r)
<1> DEFINE c == f.content
<1> DEFINE r == Answered(q, f)
<1>a. c \in NodeContents
  BY FrameParts
<1>b. ASSUME NEW code, r = BuildErrorResponse(code, q), Rewritten(BodyOf(f)) = code,
             code # "response", ~(Readable(f) /\ Clean(c))
      PROVE  Hides(r) /\ Unchanged(f, r) /\ Names(q, f, r) /\ Agrees(f, r)
  BY <1>b, ErrorResponse DEF Hides, Unchanged, Names, Agrees
<1>1. CASE ~Readable(f)
  BY <1>1, <1>b, UnreadableAnswer, BodyUnreadable
<1>2. CASE Readable(f) /\ Undecodable(c)
  <2>1. BodyOfContent(c) = "garbled"
    BY <1>2, NoneAssumption DEF BodyOfContent, Undecodable, Tags
  <2>2. Rewritten(BodyOf(f)) = "InternalError"
    BY <1>2, <2>1, BodyReadable DEF Rewritten
  <2>3. r = BuildErrorResponse("InternalError", q)
    BY <1>a, <1>2, RewriteUndecodable, FailedAnswer
  <2>4. ~Clean(c)
    BY <1>2, NoneAssumption DEF Clean, Undecodable, Tags
  <2> QED
    BY <1>b, <2>2, <2>3, <2>4
<1>3. CASE Readable(f) /\ c.error = "none" /\ c.tag = "unknown"
  <2>1. BodyOfContent(c) = "unknown tag"
    BY <1>a, <1>3, ContentParts, NoneAssumption DEF BodyOfContent, Tags
  <2>2. Rewritten(BodyOf(f)) = "UnsupportedRequest"
    BY <1>3, <2>1, BodyReadable DEF Rewritten
  <2>3. r = BuildErrorResponse("UnsupportedRequest", q)
    BY <1>a, <1>3, RewriteUnknown, FailedAnswer
  <2>4. ~Clean(c)
    BY <1>3, NoneAssumption DEF Clean, Tags
  <2> QED
    BY <1>b, <2>2, <2>3, <2>4
<1>4. CASE Readable(f) /\ c.error = "none" /\ c.tag = "Peers"
  <2>1. BodyOfContent(c) = "peers"
    BY <1>4, NoneAssumption DEF BodyOfContent, Tags
  <2>2. Rewritten(BodyOf(f)) = "FunctionDisabled"
    BY <1>4, <2>1, BodyReadable DEF Rewritten
  <2>3. Rewrite(c) = NewError("FunctionDisabled")
    BY <1>a, <1>4, RewritePeers
  <2>4. /\ NewError("FunctionDisabled").error = "FunctionDisabled"
        /\ NewError("FunctionDisabled").tag = None /\ ~NewError("FunctionDisabled").peers
    BY DEF NewError
  <2>5. ~Failed(NewError("FunctionDisabled"))
    BY DEF NewError, Failed
  <2>6. r.request = f.request /\ r.content = NewError("FunctionDisabled")
    BY <1>4, <2>3, <2>5, PassedAnswer
  <2>7. Hides(r)
    BY <2>4, <2>6, NoneAssumption DEF Hides, Tags
  <2>8. Unchanged(f, r)
    BY <1>4, NoneAssumption DEF Clean, Unchanged, Tags
  <2>9. Names(q, f, r)
    BY <1>4, <2>4, <2>6, FrameParts DEF Names, Readable
  <2>10. Agrees(f, r)
    BY <2>2, <2>6 DEF Agrees
  <2> QED
    BY <2>7, <2>8, <2>9, <2>10
<1>5. CASE Readable(f) /\ Passes(c)
  <2>1. c.error \in {"none", "node's"}
    BY <1>a, ContentParts DEF NewError
  <2>2. BodyOfContent(c) = "decodes"
    BY <1>5, NoneAssumption DEF BodyOfContent, Passes, Tags
  <2>3. Rewritten(BodyOf(f)) = "response"
    BY <1>5, <2>2, BodyReadable DEF Rewritten
  <2>4. /\ ~Failed(Rewrite(c)) /\ Rewrite(c).error = c.error
        /\ Rewrite(c).tag # "Peers" /\ ~Rewrite(c).peers
        /\ Clean(c) => Rewrite(c) = c
    BY <1>a, <1>5, RewritePasses
  <2>5. r.request = f.request /\ r.content = Rewrite(c)
    BY <1>5, <2>4, PassedAnswer
  <2>6. Names(q, f, r)
    BY <1>5, <2>1, <2>4, <2>5, FrameParts DEF Names, Readable
  <2> QED
    BY <2>3, <2>4, <2>5, <2>6 DEF Hides, Unchanged, Agrees
<1> QED
  BY <1>a, <1>1, <1>2, <1>3, <1>4, <1>5, Branches

-----------------------------------------------------------------------------
(* The invariant: a frame is one the node may send for the request, and a  *)
(* reply is made before any frame or from it.                              *)
CodecInv ==
  /\ request = None => frame = None /\ reply = None
  /\ frame # None => frame \in NodeFrames(request)
  /\ reply # None =>
       IF frame = None
       THEN \E code : reply \in {Failure(code), BuildErrorResponse(code, request)}
       ELSE reply = Answered(request, frame)

LEMMA CodecInvStep ==
  ASSUME CodecInv, [Next]_vars
  PROVE  CodecInv'
<1>1. ASSUME NEW q \in ClientRequests, Refuse(q) PROVE CodecInv'
  <2>1. q # None
    BY NoneAssumption
  <2>2. frame' = None /\ request' = q
    BY <1>1 DEF Refuse, CodecInv
  <2>3. PICK code : reply' \in {Failure(code), BuildErrorResponse(code, q)}
    BY <1>1 DEF Refuse
  <2> QED
    BY <2>1, <2>2, <2>3 DEF CodecInv
<1>2. ASSUME NEW q \in ClientRequests, Forward(q) PROVE CodecInv'
  <2>1. q # None
    BY NoneAssumption
  <2> QED
    BY <1>2, <2>1 DEF Forward, CodecInv
<1>3. CASE NodeAnswers
  BY <1>3 DEF NodeAnswers, CodecInv
<1>4. CASE Answer
  <2>1. reply' = Answered(request, frame)
    BY <1>4 DEF Answer, Answered
  <2> QED
    BY <1>4, <2>1 DEF Answer, CodecInv
<1>5. CASE Reset
  BY <1>5 DEF Reset, CodecInv
<1>6. CASE UNCHANGED vars
  BY <1>6 DEF vars, CodecInv
<1> QED
  BY <1>1, <1>2, <1>3, <1>4, <1>5, <1>6 DEF Next

LEMMA CodecInvariant == Spec => []CodecInv
<1>1. Init => CodecInv
  BY DEF Init, CodecInv
<1> QED
  BY <1>1, CodecInvStep, PTL DEF Spec

LEMMA CodecInvImplies ==
  ASSUME CodecInv
  PROVE  PeersNeverLeave /\ FaithfulToTheNode /\ RepliesNameTheirRequest /\ AgreesWithPool
<1>1. CASE reply = None
  BY <1>1 DEF PeersNeverLeave, FaithfulToTheNode, RepliesNameTheirRequest, AgreesWithPool, Replied
<1>2. CASE reply # None /\ frame = None
  <2>1. PICK code : reply \in {Failure(code), BuildErrorResponse(code, request)}
    BY <1>2 DEF CodecInv
  <2>2. Failed(Failure(code))
    BY FailureFails
  <2>3. CASE Failed(reply)
    BY <1>2, <2>3 DEF PeersNeverLeave, FaithfulToTheNode, RepliesNameTheirRequest,
                      AgreesWithPool, Replied
  <2>4. CASE reply = BuildErrorResponse(code, request)
    <3>1. reply.request = request /\ ~reply.content.peers /\ reply.content.tag # "Peers"
      BY <2>4, ErrorResponse
    <3> QED
      BY <1>2, <3>1 DEF PeersNeverLeave, FaithfulToTheNode, RepliesNameTheirRequest, AgreesWithPool
  <2> QED
    BY <2>1, <2>2, <2>3, <2>4
<1>3. CASE reply # None /\ frame # None
  <2>1. Hides(reply) /\ Unchanged(frame, reply) /\ Names(request, frame, reply) /\ Agrees(frame, reply)
    BY <1>3, ReplyToFrame DEF CodecInv
  <2>2. PeersNeverLeave
    BY <2>1 DEF PeersNeverLeave, Hides
  <2>3. FaithfulToTheNode
    BY <2>1 DEF FaithfulToTheNode, Unchanged, Readable, Clean
  <2>4. RepliesNameTheirRequest
    BY <1>3, <2>1 DEF RepliesNameTheirRequest, Names
  <2>5. AgreesWithPool
    BY <2>1 DEF AgreesWithPool, Agrees
  <2> QED
    BY <2>2, <2>3, <2>4, <2>5
<1> QED
  BY <1>1, <1>2, <1>3

(* Whatever the node sends, no reply of the binary port endpoint lists the *)
(* node's peers (rewrite_response_bytes and the checks before it).         *)
THEOREM NoPeersOverBinaryPort == Spec => []PeersNeverLeave
  BY CodecInvariant, CodecInvImplies, PTL

(* A whole response in canonical form without peers reaches the client as  *)
(* the node sent it: rewrite_response_bytes is the identity on it.         *)
THEOREM RewritingIsInvisible == Spec => []FaithfulToTheNode
  BY CodecInvariant, CodecInvImplies, PTL

(* Every reply holds the client's request unless the node left it out of a *)
(* response that decodes: so do all errors the proxy builds itself.        *)
THEOREM RepliesAreNamed == Spec => []RepliesNameTheirRequest
  BY CodecInvariant, CodecInvImplies, PTL

(* The table of replies that BinaryPool works with, Rewritten, is what     *)
(* rewrite_response_bytes computes from the parts of any frame.            *)
THEOREM PoolViewIsExact == Spec => []AgreesWithPool
  BY CodecInvariant, CodecInvImplies, PTL
=============================================================================
