----------------------------- MODULE EventFeed -----------------------------
(***************************************************************************)
(* What the event bus and the handlers of /events promise a client, with   *)
(* nothing said of snapshots, channels and receivers: events are numbered  *)
(* from 1 as they are stored, the latest `Limit` can still be asked for,   *)
(* and a client is sent the event it is due and then one after the other,  *)
(* unless it falls so far behind that it lags.                             *)
(***************************************************************************)
EXTENDS Naturals

CONSTANTS
  Clients,
  Starts,   \* what a client may ask for; None for new events only
  Limit,    \* events that are kept
  None

VARIABLES
  stored,   \* events stored so far
  due,      \* the events one of which a connected client is sent first
  last,     \* the event it was sent last, or 0
  lagged    \* it was overrun at least once

feedVars == <<stored, due, last, lagged>>

Init ==
  /\ stored = 0
  /\ due    = [c \in Clients |-> {}]
  /\ last   = [c \in Clients |-> 0]
  /\ lagged = [c \in Clients |-> FALSE]

Store ==
  /\ stored' = stored + 1
  /\ UNCHANGED <<due, last, lagged>>

\* Seeded fault: start_from is read as the last event the client has.
FirstExclusive(from, next) ==
  CASE from = None -> {next}
    [] from # None /\ from <= next -> {from + 1}
    [] from # None /\ from > next -> {next, from}

(* The first event of a client that subscribes when `next` is the next to  *)
(* be published: that one without start_from; the one it asks for if that  *)
(* is no later; and of a later one either, as the client's snapshot may    *)
(* come before or after it.                                                *)
First(from, next) ==
  CASE from = None -> {next}
    [] from # None /\ from <= next -> {IF from = 0 THEN 1 ELSE from}
    [] from # None /\ from > next -> {next, from}

(* A client connects, perhaps between the storing and the publishing of an *)
(* event.                                                                  *)
Join(c, from) ==
  /\ due[c] = {}
  /\ \E next \in {stored, stored + 1} \ {0} :
       due' = [due EXCEPT ![c] = First(from, next)]
  /\ UNCHANGED <<stored, last, lagged>>

(* It is sent event e: the first is one it is due, or a later one when     *)
(* that is not kept any more; each later one follows on the one before.  A *)
(* client that lagged may miss events, and still sees none twice.          *)
InTurn(c, e) ==
  IF last[c] = 0
    THEN \/ e \in due[c]
         \/ \E d \in due[c] : e > d /\ (d + Limit <= stored \/ lagged[c])
    ELSE e = last[c] + 1 \/ (lagged[c] /\ e > last[c])

Send(c, e) ==
  /\ due[c] # {}
  /\ e <= stored
  /\ InTurn(c, e)
  /\ last' = [last EXCEPT ![c] = e]
  /\ UNCHANGED <<stored, due, lagged>>

Overrun(c) ==
  /\ due[c] # {}
  /\ lagged' = [lagged EXCEPT ![c] = TRUE]
  /\ UNCHANGED <<stored, due, last>>

Leave(c) ==
  /\ due' = [due EXCEPT ![c] = {}]
  /\ last' = [last EXCEPT ![c] = 0]
  /\ lagged' = [lagged EXCEPT ![c] = FALSE]
  /\ UNCHANGED stored

Next ==
  \/ Store
  \/ \E c \in Clients :
       \/ \E from \in Starts : Join(c, from)
       \/ \E e \in 1 .. stored : Send(c, e)
       \/ Overrun(c) \/ Leave(c)

Spec == Init /\ [][Next]_feedVars
=============================================================================
