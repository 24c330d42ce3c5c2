------------------------ MODULE BinaryPoolExecutions ------------------------
(***************************************************************************)
(* How often the node executes the request of one call of `send`.  The     *)
(* connector repeats a request when the stream of its first attempt broke  *)
(* (src/src/binary_proxy.rs:149), and it cannot know what the node did     *)
(* with the first one.  A history variable counts executions; it changes   *)
(* nothing of what BinaryPool does.                                        *)
(*                                                                         *)
(* The node executes what it answers.  A request that is lost with its     *)
(* stream, because the node or the proxy gave the stream up, may have been *)
(* executed all the same; it is counted then, or never.                    *)
(***************************************************************************)
EXTENDS BinaryPool

VARIABLE executed   \* executions of the current request of each task

allVars == <<vars, executed>>

CountInit == Init /\ executed = [t \in Tasks |-> 0]

Execute(s) ==
  LET task == Head(outbox[s])[1] IN executed' = [executed EXCEPT ![task] = @ + 1]

(* A stream that goes down with a request unanswered. *)
Lost(s) == outbox[s] # << >> /\ outbox'[s] = << >>

MayExecuteLost ==
  \/ UNCHANGED executed
  \/ \E s \in Streams : Lost(s) /\ Execute(s)

CountSend(t, p) == Send(t, p) /\ executed' = [executed EXCEPT ![t] = 0]

CountTask(t) == (TaskStep(t) \/ ErrorStep(t, ErrorKinds)) /\ MayExecuteLost

CountAnswer(s) == NodeAnswers(s) /\ Execute(s)

CountLoss(s) == (NodeCloses(s) \/ NodeResets(s)) /\ MayExecuteLost

CountNext ==
  \/ \E t \in Tasks : CountTask(t) \/ \E p \in Payloads : CountSend(t, p)
  \/ \E s \in Streams : CountAnswer(s) \/ CountLoss(s)

CountSpec == CountInit /\ [][CountNext]_allVars

-----------------------------------------------------------------------------
(* One call makes the node execute its request at most once per attempt,   *)
(* hence at most twice, and twice only through the one reconnect; a        *)
(* connection taken from the pool never brings along a request of another  *)
(* call that the node has still to execute.                                *)
ExecutedOncePerAttempt == \A t \in Tasks : executed[t] <= attempt[t]

(* What the caller is told agrees with what the node did: a response means *)
(* that this very request was executed, and a request the proxy refused    *)
(* (undecodable or too large) never was.                                   *)
RepliesTellExecution ==
  \A t \in Tasks : phase[t] = "done" =>
    /\ reply[t].body \in {"response", "InternalError"} => executed[t] >= 1
    /\ reply[t].body \in {"BadRequest", "RequestTooLarge"} => executed[t] = 0
=============================================================================
