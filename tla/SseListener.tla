---------------------------- MODULE SseListener ----------------------------
(***************************************************************************)
(* The listener task of one network (src/src/sse.rs): it follows the       *)
(* node's SSE stream, keeps the identifier of the last event it received   *)
(* in memory and in Redis, hands the events to the event bus, and connects *)
(* again when the stream ends.  The process may crash at any point and be  *)
(* started again; memory and event bus are then new, Redis is not.         *)
(*                                                                         *)
(* The node numbers its events 1, 2, ...  On a new stream it sends the     *)
(* ApiVersion event first, which has no number, then the events from       *)
(* start_from on, that one included, or only new ones without start_from.  *)
(* It still has every event it is asked for.                               *)
(***************************************************************************)
EXTENDS Naturals

CONSTANTS
  MaxHead,   \* bound: events the node emits
  Opaque,    \* what sse_to_value cannot serialise, events or ApiVersion
  Api,       \* the ApiVersion event
  None       \* no identifier, no item

Ids == 1 .. MaxHead

ASSUME ListenerAssumption ==
  /\ MaxHead \in Nat
  /\ Opaque \subseteq Ids \cup {Api}
  /\ Api \notin Nat /\ None \notin Nat /\ Api # None

VARIABLES
  head,       \* the last event the node emitted
  cursor,     \* the next event of the open stream
  apiDue,     \* the open stream still has to begin with ApiVersion
  persisted,  \* the Redis key sse_last_id:<network>
  urlValid,   \* REDIS_URL can be parsed: there is a Redis client
  buildable   \* the listener's configuration can be built

VARIABLES
  phase,      \* where the task is; "down" is no process, "dead" a task that gave up
  startFrom,  \* start_from
  conn,       \* redis_conn is there
  item,       \* the envelope received last
  known,      \* the event bus remembers an ApiVersion
  pushed      \* the events this process pushed to its event bus

VARIABLES
  covered,    \* the events any process pushed
  amnesia     \* a process started without the identifier of its predecessor

envVars  == <<head, persisted, urlValid, buildable>>
taskVars == <<phase, startFrom, conn, item, known, pushed>>
vars     == <<head, cursor, apiDue, persisted, urlValid, buildable,
              phase, startFrom, conn, item, known, pushed, covered, amnesia>>

Init ==
  /\ head = 0 /\ cursor = 1 /\ apiDue = FALSE /\ persisted = None
  /\ urlValid \in BOOLEAN /\ buildable \in BOOLEAN
  /\ phase = "down" /\ startFrom = None /\ conn = FALSE /\ item = None
  /\ known = FALSE /\ pushed = {}
  /\ covered = {} /\ amnesia = FALSE

-----------------------------------------------------------------------------
(* The process starts and spawns the task. *)
Start ==
  /\ phase = "down"
  /\ phase' = "redis"
  /\ UNCHANGED <<envVars, cursor, apiDue, startFrom, conn, item, known, pushed, covered, amnesia>>

(* The task goes on with `id` as its start_from. *)
BeginFrom(id) ==
  /\ startFrom' = id
  /\ amnesia' = (amnesia \/ (id = None /\ (covered # {} \/ persisted # None)))
  /\ phase' = "build"

(* No client for an invalid REDIS_URL, no connection when Redis is away:   *)
(* the task starts without an identifier.                                  *)
OpenRedis ==
  /\ phase = "redis"
  /\ \/ /\ urlValid
        /\ conn' = TRUE
        /\ phase' = "load"
        /\ UNCHANGED <<startFrom, amnesia>>
     \/ /\ BeginFrom(None)
        /\ UNCHANGED conn
  /\ UNCHANGED <<envVars, cursor, apiDue, item, known, pushed, covered>>

(* load_last_id; a failed read counts as no identifier and keeps the       *)
(* connection.                                                             *)
LoadLastId ==
  /\ phase = "load"
  /\ \E id \in {persisted, None} : BeginFrom(id)
  /\ UNCHANGED <<envVars, cursor, apiDue, conn, item, known, pushed, covered>>

(* The head of the reconnect loop: a configuration that cannot be built    *)
(* ends the task for good.                                                 *)
Build ==
  /\ phase = "build"
  /\ phase' = IF buildable THEN "connect" ELSE "dead"
  /\ UNCHANGED <<envVars, cursor, apiDue, startFrom, conn, item, known, pushed, covered, amnesia>>

\* Seeded fault: the task asks for the events after the last it received.
ConnectAfterLast ==
  /\ phase = "connect"
  /\ cursor' = IF startFrom = None THEN head + 1 ELSE startFrom + 1
  /\ apiDue' = TRUE
  /\ phase' = "next"
  /\ UNCHANGED <<envVars, startFrom, conn, item, known, pushed, covered, amnesia>>

\* Seeded fault: a reconnect asks for new events only.
ConnectForgetsStart ==
  /\ phase = "connect"
  /\ cursor' = head + 1
  /\ apiDue' = TRUE
  /\ phase' = "next"
  /\ UNCHANGED <<envVars, startFrom, conn, item, known, pushed, covered, amnesia>>

(* The endpoint is asked for the events from start_from on, if there is    *)
(* one.                                                                    *)
ConnectOk ==
  /\ phase = "connect"
  /\ cursor' = IF startFrom = None THEN head + 1 ELSE startFrom
  /\ apiDue' = TRUE
  /\ phase' = "next"
  /\ UNCHANGED <<envVars, startFrom, conn, item, known, pushed, covered, amnesia>>

ConnectFails ==
  /\ phase = "connect"
  /\ phase' = "sleep"
  /\ UNCHANGED <<envVars, cursor, apiDue, startFrom, conn, item, known, pushed, covered, amnesia>>

-----------------------------------------------------------------------------
(* An envelope arrives.  One with an identifier is remembered in memory at *)
(* once, whatever becomes of Redis.                                        *)
ReceiveApiVersion ==
  /\ phase = "next" /\ apiDue
  /\ item' = Api
  /\ apiDue' = FALSE
  /\ phase' = "deliver"
  /\ UNCHANGED <<envVars, cursor, startFrom, conn, known, pushed, covered, amnesia>>

\* Seeded fault: the identifier is remembered only while Redis is connected.
ReceiveTrustsRedis ==
  /\ phase = "next" /\ ~apiDue /\ cursor <= head
  /\ item' = cursor
  /\ cursor' = cursor + 1
  /\ startFrom' = IF conn THEN cursor ELSE startFrom
  /\ phase' = "store"
  /\ UNCHANGED <<envVars, apiDue, conn, known, pushed, covered, amnesia>>

Receive ==
  /\ phase = "next" /\ ~apiDue /\ cursor <= head
  /\ item' = cursor
  /\ cursor' = cursor + 1
  /\ startFrom' = cursor
  /\ phase' = "store"
  /\ UNCHANGED <<envVars, apiDue, conn, known, pushed, covered, amnesia>>

(* The identifier goes to Redis before the event goes to the bus, on a new *)
(* connection if the old one was lost.  A connect that fails leaves        *)
(* everything as it is; a write that fails may still have happened, and    *)
(* costs the connection.                                                   *)
StoreOk ==
  /\ phase = "store" /\ urlValid
  /\ persisted' = item
  /\ conn' = TRUE
  /\ phase' = "deliver"
  /\ UNCHANGED <<head, urlValid, buildable, cursor, apiDue, startFrom, item, known, pushed,
                 covered, amnesia>>

StoreFails ==
  /\ phase = "store"
  /\ persisted' \in IF urlValid THEN {persisted, item} ELSE {persisted}
  /\ conn' = FALSE
  /\ phase' = "deliver"
  /\ UNCHANGED <<head, urlValid, buildable, cursor, apiDue, startFrom, item, known, pushed,
                 covered, amnesia>>

(* ApiVersion is remembered by the bus, once, and not pushed; any other    *)
(* event is pushed; what cannot be serialised is left out.                 *)
Deliver ==
  /\ phase = "deliver"
  /\ known' = (known \/ (item = Api /\ item \notin Opaque))
  /\ LET news == {item} \ (Opaque \cup {Api}) IN
       /\ pushed' = pushed \cup news
       /\ covered' = covered \cup news
  /\ phase' = "next"
  /\ UNCHANGED <<envVars, cursor, apiDue, startFrom, conn, item, amnesia>>

(* The stream ends or yields an error; the task waits and starts over.     *)
StreamEnds ==
  /\ phase = "next"
  /\ phase' = "sleep"
  /\ UNCHANGED <<envVars, cursor, apiDue, startFrom, conn, item, known, pushed, covered, amnesia>>

Sleep ==
  /\ phase = "sleep"
  /\ phase' = "build"
  /\ UNCHANGED <<envVars, cursor, apiDue, startFrom, conn, item, known, pushed, covered, amnesia>>

-----------------------------------------------------------------------------
(* The node emits an event; the process crashes. *)
Emit ==
  /\ head < MaxHead
  /\ head' = head + 1
  /\ UNCHANGED <<cursor, apiDue, persisted, urlValid, buildable, taskVars, covered, amnesia>>

Crash ==
  /\ phase # "down"
  /\ phase' = "down" /\ startFrom' = None /\ conn' = FALSE /\ item' = None
  /\ known' = FALSE /\ pushed' = {}
  /\ UNCHANGED <<envVars, cursor, apiDue, covered, amnesia>>

ListenerStep ==
  \/ OpenRedis \/ LoadLastId \/ Build \/ ConnectOk \/ ConnectFails
  \/ ReceiveApiVersion \/ Receive \/ StoreOk \/ StoreFails \/ Deliver \/ Sleep

Next == ListenerStep \/ StreamEnds \/ Start \/ Emit \/ Crash

Spec == Init /\ [][Next]_vars

(* The task is polled whenever it can go on, and its calls to Redis come   *)
(* back.  Streams need not end, the process need not crash, the node need  *)
(* not emit.                                                               *)
FairSpec == Spec /\ WF_vars(ListenerStep)

-----------------------------------------------------------------------------
(* Properties. *)

Gapless(S) == \A i, j \in S : i .. j \subseteq S \cup Opaque

(* One process pushes the node's events in their order, across any number  *)
(* of reconnects and whatever Redis does: an event never follows a later   *)
(* one.  The inclusive start_from repeats the last event and no other.     *)
NeverStepsBack ==
  phase \in {"store", "deliver"} /\ item # Api => \A i \in pushed : item >= i

(* One process hands the bus events of the node, never ApiVersion or what  *)
(* cannot be serialised, and leaves out no other event between the first   *)
(* and the last of them.                                                   *)
NoGaps == pushed \subseteq Ids \ Opaque /\ Gapless(pushed)

(* Nor do successive processes together, as long as each finds the         *)
(* identifier its predecessor left in Redis: the identifier is written     *)
(* before the event is pushed, and a crash between the two loses nothing   *)
(* because the next process asks for that event again.                     *)
NoGapsAcrossRestarts == amnesia \/ Gapless(covered)

(* Once the task has received an event, every later one reaches the bus,   *)
(* whatever ends the stream, unless streams end for ever or the process    *)
(* crashes.                                                                *)
LaterEventsArrive ==
  <>[](phase # "sleep") =>
    \A i \in Ids \ Opaque :
      (startFrom # None /\ startFrom < i /\ i <= head) ~> (i \in pushed \/ phase = "down")
=============================================================================
