--------------------------- MODULE BinaryMessages ---------------------------
(***************************************************************************)
(* What the connector of the binary port tells apart in requests, in the   *)
(* node's answers and in its own replies (src/src/binary_proxy.rs).        *)
(* BinaryPool uses no more of a message than this; BinaryCodec decides     *)
(* these cases from the parts of a message.                                *)
(***************************************************************************)

(* What an answer of the node holds, as far as the proxy can tell: a       *)
(* response it can decode and encode again (without its peers if it is a   *)
(* node status), a list of peers, one whose type tag it does not know, or  *)
(* one it cannot decode or that lacks its tag.                             *)
NodeBodies == {"decodes", "peers", "unknown tag", "garbled"}

(* What `send` returns: Ok with the node's response, Ok with an error      *)
(* response the proxy builds around the client's own request, or Err.      *)
ReplyBodies == {"response", "BadRequest", "UnsupportedRequest", "InternalError",
                "FunctionDisabled", "RequestTooLarge", "Io"}

(* What parse_request and the checks after it can tell about a payload.    *)
Payloads == [parse : {"fails", "version", "ok"}, large : BOOLEAN, peers : BOOLEAN]

(* The checks `send` makes before it asks for a connection, in their order *)
(* in the code: an undecodable request is never found too large, a request *)
(* that is too large is never found to ask for peers.                      *)
Verdict(p) ==
  CASE p.parse = "fails"   -> "BadRequest"
    [] p.parse = "version" -> "UnsupportedRequest"
    [] p.parse = "ok" /\ p.large -> "RequestTooLarge"
    [] p.parse = "ok" /\ ~p.large /\ p.peers -> "FunctionDisabled"
    [] OTHER -> "forward"

(* rewrite_response_bytes as the caller sees it: the node's response, or   *)
(* the error response that takes its place.                                *)
Rewritten(body) ==
  CASE body = "decodes"     -> "response"
    [] body = "peers"       -> "FunctionDisabled"
    [] body = "unknown tag" -> "UnsupportedRequest"
    [] body = "garbled"     -> "InternalError"
=============================================================================
