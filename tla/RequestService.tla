--------------------------- MODULE RequestService ---------------------------
(***************************************************************************)
(* What the connector of the binary port promises the tasks that call      *)
(* `send`, with nothing said of connections, idle or not: at most as many  *)
(* calls as there are permits are with the node at a time, each permit     *)
(* with one of them, and what a call returns is about its own request.     *)
(* Some requests are answered without the node.                            *)
(***************************************************************************)
EXTENDS Naturals

CONSTANTS
  Tasks,         \* the callers, each with at most one call at a time
  Permits,       \* max_connections of them
  CallNumbers,   \* calls of one task are numbered modulo this
  None           \* no permit, no reply

VARIABLES
  state,    \* "idle", "asked", "served" by the node, or "done"
  call,     \* number of the current call of each task
  permit,   \* the permit a served call holds
  reply     \* what the call returned

vars == <<state, call, permit, reply>>

(* Error responses made without the node, and the error that is no response. *)
Refusals == {"BadRequest", "UnsupportedRequest", "FunctionDisabled", "RequestTooLarge"}

(* How a call that was with the node may end. *)
Endings == {[ok |-> TRUE, body |-> b] :
              b \in {"response", "FunctionDisabled", "UnsupportedRequest", "InternalError"}}
           \cup {[ok |-> FALSE, body |-> "Io"]}

Init ==
  /\ state  = [t \in Tasks |-> "idle"]
  /\ call   = [t \in Tasks |-> 0]
  /\ permit = [t \in Tasks |-> None]
  /\ reply  = [t \in Tasks |-> None]

Move(t, from, to) == state[t] = from /\ state' = [state EXCEPT ![t] = to]

NextNumber(t) == IF call[t] + 1 = CallNumbers THEN 0 ELSE call[t] + 1

Ask(t) ==
  /\ Move(t, "idle", "asked")
  /\ call' = [call EXCEPT ![t] = NextNumber(t)]
  /\ UNCHANGED <<permit, reply>>

Refuse(t, b) ==
  /\ Move(t, "idle", "done")
  /\ call' = [call EXCEPT ![t] = NextNumber(t)]
  /\ reply' = [reply EXCEPT ![t] = [ok |-> b # "RequestTooLarge",
                                    req |-> <<t, NextNumber(t)>>, body |-> b]]
  /\ UNCHANGED permit

(* The call gets a permit that no other call has. *)
Serve(t) ==
  /\ Move(t, "asked", "served")
  /\ \E p \in Permits : /\ \A u \in Tasks : permit[u] # p
                        /\ permit' = [permit EXCEPT ![t] = p]
  /\ UNCHANGED <<call, reply>>

Return(t, e) ==
  /\ Move(t, "served", "done")
  /\ permit' = [permit EXCEPT ![t] = None]
  /\ reply' = [reply EXCEPT ![t] = [ok |-> e.ok, req |-> <<t, call[t]>>, body |-> e.body]]
  /\ UNCHANGED call

(* The caller takes the reply. *)
Take(t) ==
  /\ Move(t, "done", "idle")
  /\ reply' = [reply EXCEPT ![t] = None]
  /\ UNCHANGED <<call, permit>>

Next ==
  \E t \in Tasks :
    \/ Ask(t) \/ Serve(t) \/ Take(t)
    \/ \E b \in Refusals : Refuse(t, b)
    \/ \E e \in Endings : Return(t, e)

Spec == Init /\ [][Next]_vars
=============================================================================
