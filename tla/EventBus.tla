------------------------------ MODULE EventBus ------------------------------
(***************************************************************************)
(* The event bus of one network (src/src/state.rs) and the clients of its  *)
(* /events endpoint, by websocket or by SSE (src/src/handlers.rs).         *)
(*                                                                         *)
(* The network's listener task is the only producer.  It numbers an event, *)
(* stores it in the bounded backlog and publishes it on a broadcast        *)
(* channel; clients on other threads run in between.  A client subscribes  *)
(* to the channel, waits for the ApiVersion event, replays what the        *)
(* backlog holds from its start_from on and then follows the channel.  The *)
(* two kinds of client take the snapshot at different moments.             *)
(*                                                                         *)
(* An event is its proxy-assigned identifier: the payload takes no part.   *)
(***************************************************************************)
EXTENDS Naturals, Sequences, FiniteSets, FiniteSetsExt

CONSTANTS
  Clients,        \* client slots; a slot is used again after a disconnect
  Versions,       \* ApiVersion payloads
  BacklogLimit,   \* SSE_BACKLOG_LIMIT, any usize
  RingSize,       \* slots of the broadcast channel: SSE_BROADCAST_CAPACITY,
                  \* at least 1, rounded up to a power of two by tokio
  MaxEvents,      \* bound: events the listener pushes
  MaxStart,       \* bound: the start_from values clients ask for
  None            \* no ApiVersion yet, no start_from

ASSUME BusAssumption ==
  /\ BacklogLimit \in Nat /\ RingSize \in Nat \ {0}
  /\ MaxEvents \in Nat /\ MaxStart \in Nat
  /\ None \notin Versions /\ None \notin Nat

(* `backlog_limit.max(1)` *)
Limit == IF BacklogLimit = 0 THEN 1 ELSE BacklogLimit

VARIABLES
  pc,          \* where the listener is in push or remember_api_version
  nextId,      \* the last identifier given out
  backlog,     \* the latest events, oldest first
  channel,     \* everything ever published; receivers hold a position in it
  apiVersion,  \* the OnceLock
  notices      \* calls of notify_waiters so far

VARIABLES
  phase,       \* where each client is in its handler
  kind,        \* "ws" or "sse"
  startFrom,   \* its start_from parameter
  joined,      \* length of the channel when it subscribed
  rx,          \* position of its receiver in the channel
  ticket,      \* notices when its Notified future was created
  lastSent,    \* last_sent_id
  queue,       \* what is left of its snapshot of the backlog
  out,         \* the events it was sent
  lagged,      \* the channel overran its receiver at least once
  gone         \* it went away, and its handler may not know

busVars    == <<pc, nextId, backlog, channel, apiVersion, notices>>
sentVars   == <<kind, startFrom, joined, rx, ticket, lastSent, queue, out, lagged>>
clientVars == <<phase, sentVars, gone>>
vars       == <<busVars, clientVars>>

-----------------------------------------------------------------------------
Phases  == {"off", "snapshot", "listen", "check", "await", "greet", "replay", "live"}
Waiting == {"listen", "check", "await"}
Starts  == (0 .. MaxStart) \cup {None}

Init ==
  /\ pc = "ready" /\ nextId = 0 /\ backlog = << >> /\ channel = << >>
  /\ apiVersion = None /\ notices = 0
  /\ phase     = [c \in Clients |-> "off"]
  /\ kind      = [c \in Clients |-> "ws"]
  /\ startFrom = [c \in Clients |-> None]
  /\ joined    = [c \in Clients |-> 0]
  /\ rx        = [c \in Clients |-> 0]
  /\ ticket    = [c \in Clients |-> 0]
  /\ lastSent  = [c \in Clients |-> 0]
  /\ queue     = [c \in Clients |-> << >>]
  /\ out       = [c \in Clients |-> << >>]
  /\ lagged    = [c \in Clients |-> FALSE]
  /\ gone      = [c \in Clients |-> FALSE]

-----------------------------------------------------------------------------
(* EventBus::push: the counter, the backlog under its lock, the channel.   *)
(* The backlog grows first and is cut afterwards, by one at most.          *)
Stamp ==
  /\ pc = "ready" /\ nextId < MaxEvents
  /\ nextId' = nextId + 1
  /\ pc' = "store"
  /\ UNCHANGED <<backlog, channel, apiVersion, notices, clientVars>>

\* Seeded fault: the backlog is cut one event too early.
StoreCutsEarly ==
  /\ pc = "store"
  /\ LET grown == Append(backlog, nextId) IN
       backlog' = IF Len(grown) >= Limit THEN Tail(grown) ELSE grown
  /\ pc' = "publish"
  /\ UNCHANGED <<nextId, channel, apiVersion, notices, clientVars>>

Store ==
  /\ pc = "store"
  /\ LET grown == Append(backlog, nextId) IN
       backlog' = IF Len(grown) > Limit THEN Tail(grown) ELSE grown
  /\ pc' = "publish"
  /\ UNCHANGED <<nextId, channel, apiVersion, notices, clientVars>>

Publish ==
  /\ pc = "publish"
  /\ channel' = Append(channel, nextId)
  /\ pc' = "ready"
  /\ UNCHANGED <<nextId, backlog, apiVersion, notices, clientVars>>

(* remember_api_version: the first value stays (a later one changes        *)
(* nothing and wakes nobody), and only then are the waiters notified.      *)
RememberApiVersion(v) ==
  /\ pc = "ready" /\ apiVersion = None
  /\ apiVersion' = v
  /\ pc' = "notify"
  /\ UNCHANGED <<nextId, backlog, channel, notices, clientVars>>

\* Seeded fault: the notification reaches only futures that are polled already,
\* and misses a client that is on its way from the check to the await.
NotifyReachesOnlyPolled ==
  /\ pc = "notify"
  /\ notices' = notices + 1
  /\ \E polled \in SUBSET Clients :
       ticket' = [c \in Clients |-> IF c \in polled THEN ticket[c] ELSE notices + 1]
  /\ pc' = "ready"
  /\ UNCHANGED <<nextId, backlog, channel, apiVersion, phase, kind, startFrom, joined, rx,
                 lastSent, queue, out, lagged, gone>>

NotifyWaiters ==
  /\ pc = "notify"
  /\ notices' = notices + 1
  /\ pc' = "ready"
  /\ UNCHANGED <<nextId, backlog, channel, apiVersion, clientVars>>

-----------------------------------------------------------------------------
Goto(c, p) == phase' = [phase EXCEPT ![c] = p]

(* A client arrives and subscribes.  An SSE client goes on to its snapshot *)
(* at once; a websocket client first waits for the ApiVersion event.       *)
Connect(c, k, from) ==
  /\ phase[c] = "off"
  /\ kind' = [kind EXCEPT ![c] = k]
  /\ startFrom' = [startFrom EXCEPT ![c] = from]
  /\ joined' = [joined EXCEPT ![c] = Len(channel)]
  /\ rx' = [rx EXCEPT ![c] = Len(channel)]
  /\ Goto(c, IF k = "sse" /\ from # None THEN "snapshot" ELSE "listen")
  /\ UNCHANGED <<busVars, ticket, lastSent, queue, out, lagged, gone>>

(* wait_for_api_version: the Notified future exists before the check, so a *)
(* notification between the check and the await still completes it.        *)
Listen(c) ==
  /\ phase[c] = "listen"
  /\ ticket' = [ticket EXCEPT ![c] = notices]
  /\ Goto(c, "check")
  /\ UNCHANGED <<busVars, kind, startFrom, joined, rx, lastSent, queue, out, lagged, gone>>

Check(c) ==
  /\ phase[c] = "check"
  /\ Goto(c, IF apiVersion = None THEN "await" ELSE "greet")
  /\ UNCHANGED <<busVars, sentVars, gone>>

Wake(c) ==
  /\ phase[c] = "await"
  /\ notices > ticket[c]
  /\ Goto(c, "listen")
  /\ UNCHANGED <<busVars, sentVars, gone>>

(* The ApiVersion event is sent, before any other. *)
Greet(c) ==
  /\ phase[c] = "greet"
  /\ Goto(c, CASE kind[c] = "sse" -> "replay"
               [] kind[c] = "ws" /\ startFrom[c] # None -> "snapshot"
               [] kind[c] = "ws" /\ startFrom[c] = None -> "live")
  /\ UNCHANGED <<busVars, sentVars, gone>>

(* snapshot_from keeps the events from start_from on: those positions of   *)
(* the copied backlog.  The client copies it under the lock.  An SSE       *)
(* client counts all of it as sent, a websocket client each event when it  *)
(* is sent.                                                                *)
Kept(q, from) == {i \in 1 .. Len(q) : q[i] >= from}

\* Seeded fault: the SSE client forgets to count its snapshot as sent.
SnapshotNotCounted(c) ==
  /\ phase[c] = "snapshot"
  /\ queue' = [queue EXCEPT ![c] = backlog]
  /\ Goto(c, IF kind[c] = "sse" THEN "listen" ELSE "replay")
  /\ UNCHANGED <<busVars, kind, startFrom, joined, rx, ticket, lastSent, out, lagged, gone>>

Snapshot(c) ==
  /\ phase[c] = "snapshot"
  /\ queue' = [queue EXCEPT ![c] = backlog]
  /\ LET kept == Kept(backlog, startFrom[c]) IN
       lastSent' = IF kind[c] = "sse" /\ kept # {}
                     THEN [lastSent EXCEPT ![c] = backlog[Max(kept)]]
                     ELSE lastSent
  /\ Goto(c, IF kind[c] = "sse" THEN "listen" ELSE "replay")
  /\ UNCHANGED <<busVars, kind, startFrom, joined, rx, ticket, out, lagged, gone>>

(* One event of the snapshot is sent; those before start_from are not in   *)
(* it.                                                                     *)
Replay(c) ==
  /\ phase[c] = "replay"
  /\ LET kept == Kept(queue[c], startFrom[c])
         i == Min(kept)
     IN  /\ kept # {}
         /\ out' = [out EXCEPT ![c] = Append(@, queue[c][i])]
         /\ lastSent' = IF kind[c] = "ws" THEN [lastSent EXCEPT ![c] = queue[c][i]] ELSE lastSent
         /\ queue' = [queue EXCEPT ![c] = SubSeq(@, i + 1, Len(@))]
  /\ UNCHANGED <<busVars, phase, kind, startFrom, joined, rx, ticket, lagged, gone>>

\* Seeded fault: the client subscribes when its replay is over.
ReplayEndsThenSubscribe(c) ==
  /\ phase[c] = "replay"
  /\ Kept(queue[c], startFrom[c]) = {}
  /\ queue' = [queue EXCEPT ![c] = << >>]
  /\ rx' = [rx EXCEPT ![c] = Len(channel)]
  /\ Goto(c, "live")
  /\ UNCHANGED <<busVars, kind, startFrom, joined, ticket, lastSent, out, lagged, gone>>

ReplayEnds(c) ==
  /\ phase[c] = "replay"
  /\ Kept(queue[c], startFrom[c]) = {}
  /\ queue' = [queue EXCEPT ![c] = << >>]
  /\ Goto(c, "live")
  /\ UNCHANGED <<busVars, kind, startFrom, joined, rx, ticket, lastSent, out, lagged, gone>>

-----------------------------------------------------------------------------
(* Live: the next event of the channel is sent unless the replay covered   *)
(* it.  A receiver the channel has overrun is told so once, and goes on    *)
(* with the oldest event still in it.                                      *)
Recv(c) ==
  /\ phase[c] = "live"
  /\ rx[c] < Len(channel) /\ Len(channel) - rx[c] <= RingSize
  /\ LET event == channel[rx[c] + 1] IN
       \/ /\ event > lastSent[c]
          /\ lastSent' = [lastSent EXCEPT ![c] = event]
          /\ out' = [out EXCEPT ![c] = Append(@, event)]
       \/ /\ event <= lastSent[c]
          /\ UNCHANGED <<lastSent, out>>
  /\ rx' = [rx EXCEPT ![c] = @ + 1]
  /\ UNCHANGED <<busVars, phase, kind, startFrom, joined, ticket, queue, lagged, gone>>

\* Seeded fault: an overrun receiver stays where it is.
LagStays(c) ==
  /\ phase[c] = "live"
  /\ Len(channel) - rx[c] > RingSize
  /\ UNCHANGED vars

Lag(c) ==
  /\ phase[c] = "live"
  /\ Len(channel) - rx[c] > RingSize
  /\ rx' = [rx EXCEPT ![c] = Len(channel) - RingSize]
  /\ lagged' = [lagged EXCEPT ![c] = TRUE]
  /\ UNCHANGED <<busVars, phase, kind, startFrom, joined, ticket, lastSent, queue, out, gone>>

(* A client goes away.  Its SSE stream is dropped at any await.  A          *)
(* websocket handler finds out when a send fails or when it reads the      *)
(* close in its live loop, never while it waits for the ApiVersion event.  *)
HangUp(c) ==
  /\ phase[c] # "off" /\ ~gone[c]
  /\ gone' = [gone EXCEPT ![c] = TRUE]
  /\ UNCHANGED <<busVars, phase, sentVars>>

\* Seeded fault: the live loop of a websocket client does not read what it sends.
NoticingOnlySends(c) ==
  IF kind[c] = "ws" THEN {"greet", "replay"} ELSE Phases \ {"off", "snapshot"}

Noticing(c) ==
  IF kind[c] = "ws" THEN {"greet", "replay", "live"} ELSE Phases \ {"off", "snapshot"}

HandlerEnds(c) ==
  /\ gone[c]
  /\ phase[c] \in Noticing(c)
  /\ Goto(c, "off")
  /\ gone' = [gone EXCEPT ![c] = FALSE]
  /\ ticket' = [ticket EXCEPT ![c] = 0]
  /\ lastSent' = [lastSent EXCEPT ![c] = 0]
  /\ queue' = [queue EXCEPT ![c] = << >>]
  /\ out' = [out EXCEPT ![c] = << >>]
  /\ lagged' = [lagged EXCEPT ![c] = FALSE]
  /\ UNCHANGED <<busVars, kind, startFrom, joined, rx>>

-----------------------------------------------------------------------------
BusStep == Stamp \/ Store \/ Publish \/ NotifyWaiters \/ \E v \in Versions : RememberApiVersion(v)

HandlerStep(c) ==
  \/ Listen(c) \/ Check(c) \/ Wake(c) \/ Greet(c) \/ Snapshot(c)
  \/ Replay(c) \/ ReplayEnds(c) \/ Recv(c) \/ Lag(c)

Next ==
  \/ BusStep
  \/ \E c \in Clients :
       \/ HandlerStep(c)
       \/ HangUp(c) \/ HandlerEnds(c)
       \/ \E k \in {"ws", "sse"}, from \in Starts : Connect(c, k, from)

Spec == Init /\ [][Next]_vars

(* Handlers that can run are polled, and a push or a remember once begun   *)
(* runs to its end.  The listener need not get another event, nor an       *)
(* ApiVersion; clients need not come or go.                                *)
FairSpec ==
  /\ Spec
  /\ WF_vars(Store \/ Publish \/ NotifyWaiters)
  /\ \A c \in Clients : WF_vars(HandlerStep(c)) /\ WF_vars(HandlerEnds(c))

-----------------------------------------------------------------------------
(* Properties. *)

(* The identifiers stored so far are 1 .. Stored. *)
Stored == IF pc = "store" THEN nextId - 1 ELSE nextId

(* The backlog is the latest `Limit` events, all of them when there are    *)
(* fewer, without a hole and in order: what start_from can still reach.    *)
BacklogIsLatest ==
  /\ Len(backlog) = IF Stored < Limit THEN Stored ELSE Limit
  /\ \A i \in 1 .. Len(backlog) : backlog[i] = Stored - Len(backlog) + i

(* No client is sent an event twice or out of order, across the switch     *)
(* from its replay to the channel and whatever is pushed meanwhile.        *)
DeliveredIncreasing ==
  \A c \in Clients : \A i, j \in 1 .. Len(out[c]) : i < j => out[c][i] < out[c][j]

(* What a client is sent has no hole, in the replay, in the channel and    *)
(* between the two, unless the channel overran its receiver.               *)
DeliveredWithoutHoles ==
  \A c \in Clients : ~lagged[c] =>
    \A i \in 1 .. Len(out[c]) - 1 : out[c][i + 1] = out[c][i] + 1

(* An event published after a client subscribed, and not before its        *)
(* start_from, has been sent to it once its receiver is past that event,   *)
(* unless the channel overran the receiver.                                *)
NothingMissed ==
  \A c \in Clients : phase[c] = "live" /\ ~lagged[c] =>
    \A i \in joined[c] + 1 .. rx[c] :
      \/ startFrom[c] # None /\ channel[i] < startFrom[c]
      \/ \E n \in 1 .. Len(out[c]) : out[c][n] = channel[i]

(* No wake-up is lost: a client that waits for the ApiVersion event goes   *)
(* on once that event has come, whenever it comes.                         *)
NoLostWakeup ==
  \A c \in Clients : apiVersion # None /\ phase[c] \in Waiting ~> phase[c] \notin Waiting

(* A client in its live loop catches up with the channel, sends every      *)
(* event it has not sent or learns that it lagged, unless it goes away.    *)
LiveClientsCatchUp ==
  \A c \in Clients : \A n \in 1 .. MaxEvents :
    phase[c] = "live" /\ Len(channel) >= n ~> rx[c] >= n \/ phase[c] = "off"

(* The handler of a client that went away ends, and with it the client's   *)
(* share of the connections gauge: it is given up in the replay, in the    *)
(* live loop with nothing to send, or on the way there.  Before the first  *)
(* ApiVersion event that is not promised.                                  *)
HandlersEnd == \A c \in Clients : gone[c] /\ apiVersion # None ~> phase[c] = "off"

-----------------------------------------------------------------------------
(* How the bus and the handlers implement EventFeed.                       *)
FeedDue ==
  [c \in Clients |->
     IF phase[c] = "off" THEN {}
     ELSE CASE startFrom[c] = None -> {joined[c] + 1}
            [] startFrom[c] # None /\ startFrom[c] <= joined[c] + 1 ->
                 {IF startFrom[c] = 0 THEN 1 ELSE startFrom[c]}
            [] startFrom[c] # None /\ startFrom[c] > joined[c] + 1 ->
                 {joined[c] + 1, startFrom[c]}]

FeedLast == [c \in Clients |-> IF out[c] = << >> THEN 0 ELSE out[c][Len(out[c])]]

Feed == INSTANCE EventFeed WITH stored <- Stored, due <- FeedDue, last <- FeedLast

(* Clients of either kind see a numbered feed: each starts with the event  *)
(* it asked for, or the oldest one kept when that is gone, or the first    *)
(* one published after it came, and goes on one by one; snapshot, channel  *)
(* and the moment at which each is looked at stay hidden.                  *)
ImplementsFeed == Feed!Spec
=============================================================================
