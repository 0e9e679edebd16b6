--------------------------- MODULE SseConnections ---------------------------
(***************************************************************************)
(* The native side of streaming requests (src-tauri/src/sse.rs): the map   *)
(* of active connections, the commands sse_connect, sse_disconnect,        *)
(* sse_disconnect_all and sse_ack, the task that streams a response, and   *)
(* the flow control that bounds the events the webview has not yet         *)
(* acknowledged.                                                           *)
(*                                                                         *)
(* Commands and tasks run on a thread pool; a critical section or a poll   *)
(* of a task between two awaits is one action.  A connection is named by   *)
(* the sse_connect call that made it, which also stands for the generation *)
(* the call drew from NEXT_SSE_GENERATION.                                 *)
(***************************************************************************)
EXTENDS Naturals, FiniteSets, Sequences

CONSTANTS Calls,        \* the sse_connect calls
          Ids,          \* connection ids chosen by the webview
          IdOf,         \* the id each call was made with
          None,
          MaxActive,    \* MAX_ACTIVE_SSE_CONNECTIONS
          MaxInFlight,  \* MAX_SSE_IN_FLIGHT_EVENTS
          MaxChunks     \* chunk events the byte budget of one stream allows

ASSUME SseAssumption ==
  /\ None \notin Calls
  /\ IsFiniteSet(Ids)
  /\ IdOf \in [Calls -> Ids]
  /\ MaxActive \in Nat \ {0}
  /\ MaxInFlight \in Nat \ {0}
  /\ MaxChunks \in Nat

VARIABLES
  connections,   \* id -> the call whose connection is registered, or None
  attached,      \* calls whose connection holds the handle of its task
  call,          \* progress of the sse_connect commands
  task,          \* progress of the spawned tasks
  aborted,       \* calls whose task was told to abort
  nextSequence,  \* per connection: the next sequence number
  permits,       \* per connection: permits left in the semaphore
  inFlight,      \* per connection: sequence numbers not acknowledged
  emitted        \* per connection: the events emitted on its channel

flowVars == <<nextSequence, permits, inFlight>>
vars == <<connections, attached, call, task, aborted, flowVars, emitted>>

CallStages == {"idle", "building", "spawned", "accepted", "rejected"}
TaskStages == {"none", "waiting", "sending", "streaming", "reserving",
               "finishing", "gone"}

Chunk(n)  == [type |-> "Chunk", sequence |-> n]
Connected == [type |-> "Connected", sequence |-> 0]
Done      == [type |-> "Done", sequence |-> 0]
Error     == [type |-> "Error", sequence |-> 0]
Events    == {Connected, Done, Error} \cup {Chunk(n) : n \in 1..MaxChunks}

TypeOK ==
  /\ connections \in [Ids -> Calls \cup {None}]
  /\ attached \subseteq Calls
  /\ call \in [Calls -> CallStages]
  /\ task \in [Calls -> TaskStages]
  /\ aborted \subseteq Calls
  /\ nextSequence \in [Calls -> 1..(MaxChunks + 1)]
  /\ permits \in [Calls -> 0..MaxInFlight]
  /\ inFlight \in [Calls -> SUBSET (1..MaxChunks)]
  /\ emitted \in [Calls -> Seq(Events)]

-----------------------------------------------------------------------------
Registered(c) == connections[IdOf[c]] = c

ActiveIds == {i \in Ids : connections[i] # None}

Emit(c, event) == emitted' = [emitted EXCEPT ![c] = Append(@, event)]

\* remove_sse_connection: only a connection of the caller's own generation.
RemoveSseConnection_anyGeneration(c) ==
  connections' = [connections EXCEPT ![IdOf[c]] = None]
RemoveSseConnection(c) ==
  connections' = [connections EXCEPT ![IdOf[c]] = IF @ = c THEN None ELSE @]

-----------------------------------------------------------------------------
Init ==
  /\ connections = [i \in Ids |-> None]
  /\ attached = {}
  /\ call = [c \in Calls |-> "idle"]
  /\ task = [c \in Calls |-> "none"]
  /\ aborted = {}
  /\ nextSequence = [c \in Calls |-> 1]
  /\ permits = [c \in Calls |-> MaxInFlight]
  /\ inFlight = [c \in Calls |-> {}]
  /\ emitted = [c \in Calls |-> <<>>]

-----------------------------------------------------------------------------
(* sse_connect.                                                             *)

\* The connection is registered without a task before the client, whose
\* address lookup is awaited, is built.
Connect_unlimited(c) ==
  /\ call[c] = "idle"
  /\ IF connections[IdOf[c]] = None
     THEN /\ connections' = [connections EXCEPT ![IdOf[c]] = c]
          /\ call' = [call EXCEPT ![c] = "building"]
     ELSE /\ call' = [call EXCEPT ![c] = "rejected"]
          /\ UNCHANGED connections
  /\ UNCHANGED <<attached, task, aborted, flowVars, emitted>>
Connect(c) ==
  /\ call[c] = "idle"
  /\ IF connections[IdOf[c]] = None /\ Cardinality(ActiveIds) < MaxActive
     THEN /\ connections' = [connections EXCEPT ![IdOf[c]] = c]
          /\ call' = [call EXCEPT ![c] = "building"]
     ELSE /\ call' = [call EXCEPT ![c] = "rejected"]
          /\ UNCHANGED connections
  /\ UNCHANGED <<attached, task, aborted, flowVars, emitted>>

BuildFails(c) ==
  /\ call[c] = "building"
  /\ RemoveSseConnection(c)
  /\ call' = [call EXCEPT ![c] = "rejected"]
  /\ UNCHANGED <<attached, task, aborted, flowVars, emitted>>

\* The task is spawned and waits for the start signal.
SpawnTask(c) ==
  /\ call[c] = "building"
  /\ task' = [task EXCEPT ![c] = "waiting"]
  /\ call' = [call EXCEPT ![c] = "spawned"]
  /\ UNCHANGED <<connections, attached, aborted, flowVars, emitted>>

\* The handle is stored and the start signal sent only if the connection is
\* still the one this call registered.
AttachTask_unchecked(c) ==
  /\ call[c] = "spawned"
  /\ attached' = attached \cup {c}
  /\ call' = [call EXCEPT ![c] = "accepted"]
  /\ task' = [task EXCEPT ![c] = "sending"]
  /\ UNCHANGED <<connections, aborted, flowVars, emitted>>
AttachTask(c) ==
  /\ call[c] = "spawned"
  /\ IF Registered(c)
     THEN /\ attached' = attached \cup {c}
          /\ call' = [call EXCEPT ![c] = "accepted"]
          /\ task' = [task EXCEPT ![c] = "sending"]
          /\ UNCHANGED aborted
     ELSE /\ aborted' = aborted \cup {c}
          /\ call' = [call EXCEPT ![c] = "rejected"]
          /\ UNCHANGED <<attached, task>>
  /\ UNCHANGED <<connections, flowVars, emitted>>

-----------------------------------------------------------------------------
(* sse_disconnect, sse_disconnect_all and sse_ack.                          *)

AbortTasks(removed) == aborted' = aborted \cup (removed \cap attached)

Disconnect_keepsTask(i) ==
  /\ connections[i] # None
  /\ connections' = [connections EXCEPT ![i] = None]
  /\ UNCHANGED <<aborted, attached, call, task, flowVars, emitted>>
Disconnect(i) ==
  /\ connections[i] # None
  /\ connections' = [connections EXCEPT ![i] = None]
  /\ AbortTasks({connections[i]})
  /\ UNCHANGED <<attached, call, task, flowVars, emitted>>

\* cancel_all, also run when the application shuts down.
DisconnectAll ==
  /\ ActiveIds # {}
  /\ connections' = [i \in Ids |-> None]
  /\ AbortTasks({connections[i] : i \in ActiveIds})
  /\ UNCHANGED <<attached, call, task, flowVars, emitted>>

\* acknowledge: a permit comes back for each sequence number, once.
Acknowledge_duplicates(c, n) ==
  /\ inFlight' = [inFlight EXCEPT ![c] = @ \ {n}]
  /\ permits' = [permits EXCEPT ![c] = @ + 1]
Acknowledge(c, n) ==
  IF n \in inFlight[c]
  THEN /\ inFlight' = [inFlight EXCEPT ![c] = @ \ {n}]
       /\ permits' = [permits EXCEPT ![c] = @ + 1]
  ELSE UNCHANGED <<inFlight, permits>>

\* sse_ack reaches whichever connection has the id.
Ack(i, n) ==
  /\ connections[i] # None
  /\ Acknowledge(connections[i], n)
  /\ UNCHANGED <<connections, attached, call, task, aborted, nextSequence,
                 emitted>>

-----------------------------------------------------------------------------
(* The task.  An abort takes effect at an await of the task; until then the *)
(* task goes on.                                                            *)

\* The request is answered with a status and headers.
ResponseArrives(c) ==
  /\ task[c] = "sending"
  /\ task' = [task EXCEPT ![c] = "streaming"]
  /\ Emit(c, Connected)
  /\ UNCHANGED <<connections, attached, call, aborted, flowVars>>

\* Bytes arrive and the budget allows them.
BytesArrive(c) ==
  /\ task[c] = "streaming"
  /\ nextSequence[c] <= MaxChunks
  /\ task' = [task EXCEPT ![c] = "reserving"]
  /\ UNCHANGED <<connections, attached, call, aborted, flowVars, emitted>>

\* emit_chunked: one permit and one sequence number for each event.
EmitChunk(c) ==
  /\ task[c] = "reserving"
  /\ nextSequence[c] <= MaxChunks
  /\ permits[c] > 0
  /\ permits' = [permits EXCEPT ![c] = @ - 1]
  /\ inFlight' = [inFlight EXCEPT ![c] = @ \cup {nextSequence[c]}]
  /\ nextSequence' = [nextSequence EXCEPT ![c] = @ + 1]
  /\ Emit(c, Chunk(nextSequence[c]))
  /\ \/ task' = [task EXCEPT ![c] = "reserving"] /\ nextSequence[c] < MaxChunks
     \/ task' = [task EXCEPT ![c] = "streaming"]
  /\ UNCHANGED <<connections, attached, call, aborted>>

\* The webview is gone: the event is taken back.
EmitFails(c) ==
  /\ task[c] = "reserving"
  /\ nextSequence[c] <= MaxChunks
  /\ permits[c] > 0
  /\ nextSequence' = [nextSequence EXCEPT ![c] = @ + 1]
  /\ task' = [task EXCEPT ![c] = "finishing"]
  /\ UNCHANGED <<connections, attached, call, aborted, permits, inFlight,
                 emitted>>

\* The request fails, the stream breaks off or idles, a budget is exceeded,
\* or no permit came back in time.
StreamFails(c) ==
  /\ \/ task[c] \in {"sending", "streaming"}
     \/ task[c] = "reserving" /\ permits[c] = 0
  /\ task' = [task EXCEPT ![c] = "finishing"]
  /\ Emit(c, Error)
  /\ UNCHANGED <<connections, attached, call, aborted, flowVars>>

StreamCompletes(c) ==
  /\ task[c] = "streaming"
  /\ task' = [task EXCEPT ![c] = "finishing"]
  /\ Emit(c, Done)
  /\ UNCHANGED <<connections, attached, call, aborted, flowVars>>

TaskCleansUp_forgets(c) ==
  /\ task[c] = "finishing"
  /\ task' = [task EXCEPT ![c] = "gone"]
  /\ UNCHANGED <<connections, attached, call, aborted, flowVars, emitted>>
TaskCleansUp(c) ==
  /\ task[c] = "finishing"
  /\ RemoveSseConnection(c)
  /\ task' = [task EXCEPT ![c] = "gone"]
  /\ UNCHANGED <<attached, call, aborted, flowVars, emitted>>

\* An aborted task is dropped at an await.
TaskDropped(c) ==
  /\ c \in aborted
  /\ task[c] \in {"waiting", "sending", "streaming", "reserving"}
  /\ task' = [task EXCEPT ![c] = "gone"]
  /\ UNCHANGED <<connections, attached, call, aborted, flowVars, emitted>>

-----------------------------------------------------------------------------
ConnectStep(c) == BuildFails(c) \/ SpawnTask(c) \/ AttachTask(c)

TaskStep(c) ==
  \/ ResponseArrives(c)
  \/ BytesArrive(c)
  \/ EmitChunk(c)
  \/ EmitFails(c)
  \/ StreamFails(c)
  \/ StreamCompletes(c)
  \/ TaskCleansUp(c)
  \/ TaskDropped(c)

Next ==
  \/ \E c \in Calls : Connect(c) \/ ConnectStep(c) \/ TaskStep(c)
  \/ \E i \in Ids : Disconnect(i) \/ \E n \in 1..MaxChunks : Ack(i, n)
  \/ DisconnectAll

Spec == Init /\ [][Next]_vars

\* The executor polls what is ready; a silent stream and a missing permit time
\* out.  Nothing bounds the wait for the response: the client is built without
\* a timeout.  Nobody owes an acknowledgement.
Fairness ==
  \A c \in Calls : /\ WF_vars(ConnectStep(c))
                   /\ WF_vars(task[c] # "sending" /\ TaskStep(c))
                   /\ WF_vars(TaskDropped(c))

FairSpec == Spec /\ Fairness

-----------------------------------------------------------------------------
Running(c) == task[c] \in {"sending", "streaming", "reserving"}

\* Disconnecting, from one connection to all of them at shutdown, works
\* through the map: a task that talks to the network is registered with its
\* handle, unless it has been told to abort.
RunningTaskIsReachable ==
  \A c \in Calls : Running(c) =>
    c \in aborted \/ (Registered(c) /\ c \in attached)

\* A cancelled setup never reaches the network: the task of a rejected call
\* is aborted while it still waits for its start signal.
RejectedCallsStayDark ==
  \A c \in Calls : call[c] = "rejected" =>
    task[c] = "none" \/ (c \in aborted /\ task[c] \in {"waiting", "gone"})

\* What is on the network can be stopped, and what was stopped is not on it.
TasksAreReachable == RunningTaskIsReachable /\ RejectedCallsStayDark

\* No permit is lost or made up, whatever is acknowledged.
PermitAccounting ==
  \A c \in Calls : permits[c] + Cardinality(inFlight[c]) = MaxInFlight

\* The limit on connections holds although it is checked by each call.
ActiveLimit == Cardinality(ActiveIds) <= MaxActive

\* The two limits of the native side, on events of a connection not yet
\* acknowledged and on connections.
LimitsHold == PermitAccounting /\ ActiveLimit

\* A connection is taken out of the map by its own end or by a disconnect,
\* which stops it; never by the clean-up of an older connection of the id.
RemovalIsOwn ==
  \A c \in Calls :
    Registered(c) /\ connections'[IdOf[c]] # c =>
      \/ c \in aborted'
      \/ task'[c] = "gone"
      \/ call'[c] \in {"building", "spawned", "rejected"}
OnlyOwnRemoval == [][RemovalIsOwn]_vars

\* Once its response has arrived a connection is unregistered in the end, even
\* if the webview never acknowledges and never disconnects.
StreamsEnd ==
  \A c \in Calls : task[c] \in {"streaming", "reserving", "finishing"}
                    ~> ~Registered(c)
=============================================================================
