--------------------------- MODULE EventPipeline ---------------------------
(***************************************************************************)
(* From the node to the clients: the listener of a network, the event feed *)
(* it fills, and clients that come back after a disconnect.  SseListener   *)
(* says which events of the node are pushed; EventFeed, which EventBus     *)
(* implements, says which of the pushed events a client is sent.  Between  *)
(* them lies the renumbering: the proxy counts pushes from 1 in every      *)
(* process, the node counts its own events.                                *)
(*                                                                         *)
(* A client keeps the last event it was sent.  It resumes with the proxy   *)
(* identifier after that one, or, when the proxy was started anew, asks    *)
(* for all the new process has: its old identifier means nothing there.    *)
(***************************************************************************)
EXTENDS SseListener, Sequences

CONSTANTS
  Clients,     \* client programs, connected at most once at a time
  Limit,       \* the backlog limit
  MaxPushes    \* bound: events one process pushes

ASSUME PipelineAssumption == Limit \in Nat \ {0} /\ MaxPushes \in Nat

VARIABLES
  log,      \* the node's event behind each proxy identifier of this process
  due, last, lagged,   \* the feed, see EventFeed
  heard,    \* the node's event the client was sent last, over all connections
  token,    \* the proxy identifier it had
  fresh,    \* that identifier is of the running process
  skipped   \* the client lagged, or asked for too much, or was not up to date in a crash

Starts == 0 .. MaxPushes + 1 \cup {None}
Feed == INSTANCE EventFeed WITH stored <- Len(log)

clientVars   == <<heard, token, fresh, skipped>>
pipelineVars == <<vars, log, due, last, lagged, clientVars>>

PipelineInit ==
  /\ Init
  /\ log = << >>
  /\ Feed!Init
  /\ heard   = [c \in Clients |-> 0]
  /\ token   = [c \in Clients |-> 0]
  /\ fresh   = [c \in Clients |-> FALSE]
  /\ skipped = [c \in Clients |-> FALSE]

-----------------------------------------------------------------------------
(* The listener: what it pushes is appended to the log, all else leaves    *)
(* the feed alone.                                                         *)
Push ==
  /\ Deliver
  /\ Len(log) < MaxPushes
  /\ log' = IF item \in Opaque \cup {Api} THEN log ELSE Append(log, item)
  /\ UNCHANGED <<due, last, lagged, clientVars>>

Listen ==
  /\ \/ OpenRedis \/ LoadLastId \/ Build \/ ConnectOk \/ ConnectFails
     \/ ReceiveApiVersion \/ Receive \/ StoreOk \/ StoreFails \/ Sleep
     \/ StreamEnds \/ Start \/ Emit
  /\ UNCHANGED <<log, due, last, lagged, clientVars>>

(* The process dies with its bus and its connections.  A client that had   *)
(* not been sent everything this process pushed cannot get the rest any    *)
(* more.                                                                   *)
Die ==
  /\ Crash
  /\ log' = << >>
  /\ due'    = [c \in Clients |-> {}]
  /\ last'   = [c \in Clients |-> 0]
  /\ lagged' = [c \in Clients |-> FALSE]
  /\ fresh'  = [c \in Clients |-> FALSE]
  /\ skipped' = [c \in Clients |-> skipped[c] \/ (log # << >> /\ heard[c] # log[Len(log)])]
  /\ UNCHANGED <<heard, token>>

-----------------------------------------------------------------------------
(* A client comes for the first time, or forgets what it had. *)
Arrive(c) ==
  /\ UNCHANGED <<vars, log, token, fresh>>
  /\ \E from \in {0, None} : Feed!Join(c, from)
  /\ heard' = [heard EXCEPT ![c] = 0]
  /\ skipped' = [skipped EXCEPT ![c] = FALSE]

(* It comes back and asks for what it lacks. *)
Resume(c) ==
  /\ heard[c] # 0
  /\ UNCHANGED <<vars, log, clientVars>>
  /\ Feed!Join(c, IF fresh[c] THEN token[c] + 1 ELSE 0)

(* It is sent an event; it knows that it was not the one it was due when   *)
(* it was told of a lag or when the identifier says so.                    *)
Get(c, e) ==
  /\ UNCHANGED <<vars, log>>
  /\ Feed!Send(c, e)
  /\ heard' = [heard EXCEPT ![c] = log[e]]
  /\ token' = [token EXCEPT ![c] = e]
  /\ fresh' = [fresh EXCEPT ![c] = TRUE]
  /\ skipped' = [skipped EXCEPT ![c] = @ \/ lagged[c] \/ (last[c] = 0 /\ e \notin due[c])]

(* It lags, or its connection ends. *)
Falter(c) ==
  /\ due[c] # {}
  /\ UNCHANGED <<vars, log, clientVars>>
  /\ Feed!Overrun(c) \/ Feed!Leave(c)

PipelineNext ==
  \/ Push \/ Listen \/ Die
  \/ \E c \in Clients :
       \/ Arrive(c) \/ Resume(c) \/ Falter(c)
       \/ \E e \in 1 .. Len(log) : Get(c, e)

PipelineSpec == PipelineInit /\ [][PipelineNext]_pipelineVars

-----------------------------------------------------------------------------
Gets(c) == heard[c] # 0 /\ last'[c] # 0 /\ last'[c] # last[c]

(* End to end, a client that is sent event after event, over any number of *)
(* its own reconnects, reconnects of the listener and restarts of the      *)
(* proxy, misses no event of the node in between, unless it was told so:   *)
(* it lagged, asked for what the backlog had dropped, or was not up to     *)
(* date when the proxy died; or the proxy started without its identifier.  *)
ClientsMissNothing ==
  [][\A c \in Clients :
       Gets(c) /\ ~skipped'[c] /\ ~amnesia =>
         heard[c] + 1 .. heard'[c] - 1 \subseteq Opaque]_pipelineVars

(* Within one process a client never goes back: it may be sent the node's  *)
(* event again that it had last, under a new identifier, when the listener *)
(* reconnected, and no older one.                                          *)
ClientsNeverGoBack ==
  [][\A c \in Clients : Gets(c) /\ fresh[c] => heard'[c] >= heard[c]]_pipelineVars
=============================================================================
