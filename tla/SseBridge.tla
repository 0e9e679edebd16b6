------------------------------ MODULE SseBridge ------------------------------
(***************************************************************************)
(* Streaming requests end to end: the webview side (src/lib/infra/         *)
(* sse-bridge.ts, with the gate of native-execution-revocation.ts and the  *)
(* clear of src/lib/storage/registry.ts that uses it) composed with the    *)
(* native side (SseConnections).                                           *)
(*                                                                         *)
(* Every request has an id of its own (crypto.randomUUID), so requests,    *)
(* ids and sse_connect calls are the same things here.  Commands travel as *)
(* asynchronous calls; events of one stream arrive in the order they were  *)
(* emitted.                                                                *)
(***************************************************************************)
EXTENDS Naturals, FiniteSets, Sequences

CONSTANTS Requests,         \* calls of createSseResponse
          None,
          MaxActive, MaxInFlight, MaxChunks,   \* as in SseConnections
          HighWater,        \* chunks SSE_BUFFER_HIGH_WATER_BYTES has room for
          MaxClears,        \* how often the user clears all data
          OrderedCommands   \* do commands of a request run in the order sent?

ASSUME BridgeAssumption ==
  /\ None \notin Requests
  /\ IsFiniteSet(Requests)
  /\ MaxActive \in Nat \ {0}
  /\ MaxInFlight \in Nat \ {0}
  /\ MaxChunks \in Nat
  /\ HighWater \in Nat
  /\ MaxClears \in Nat
  /\ OrderedCommands \in BOOLEAN

VARIABLES
  connections, attached, call, task, aborted,   \* the native side
  nextSequence, permits, inFlight, emitted,
  stage,      \* how far the closure of createSseResponse is
  promise,    \* the promise it returned
  body,       \* the ReadableStream of the response
  buffered,   \* chunks enqueued and not read
  received,   \* chunks enqueued in all
  delivered,  \* events handled
  captured,   \* the epoch the request started in
  commands,   \* commands sent and not yet run
  epoch,      \* revocations begun so far
  clearing,   \* progress of clearAllStorageDomains
  cancelling  \* progress of cancelAllNativeSseStreams

nativeVars == <<connections, attached, call, task, aborted,
                nextSequence, permits, inFlight, emitted>>
streamVars == <<stage, promise, body, buffered, received, delivered>>
gateVars   == <<epoch, clearing, cancelling>>
vars       == <<nativeVars, streamVars, captured, commands, gateVars>>

Native == INSTANCE SseConnections
            WITH Calls <- Requests, Ids <- Requests,
                 IdOf <- [r \in Requests |-> r]

ConnectCommand(r)    == [cmd |-> "sse_connect", id |-> r, sequence |-> 0]
DisconnectCommand(r) == [cmd |-> "sse_disconnect", id |-> r, sequence |-> 0]
AckCommand(r, n)     == [cmd |-> "sse_ack", id |-> r, sequence |-> n]
Commands == {ConnectCommand(r) : r \in Requests}
              \cup {DisconnectCommand(r) : r \in Requests}
              \cup {AckCommand(r, n) : r \in Requests, n \in 1..MaxChunks}

Stages == {"idle", "listening", "deaf", "connecting", "live", "over"}

TypeOK ==
  /\ Native!TypeOK
  /\ stage \in [Requests -> Stages]
  /\ promise \in [Requests -> {"none", "pending", "resolved", "rejected"}]
  /\ body \in [Requests -> {"open", "closed", "errored", "cancelled"}]
  /\ buffered \in [Requests -> 0..HighWater]
  /\ received \in [Requests -> 0..MaxChunks]
  /\ delivered \in [Requests -> 0..(MaxChunks + 2)]
  /\ captured \in [Requests -> 0..(2 * MaxClears)]
  /\ commands \subseteq Commands
  /\ epoch \in 0..(2 * MaxClears)
  /\ clearing \in {"no", "gated", "cancelled"}
  /\ cancelling \in {"no", "sent", "done"}

-----------------------------------------------------------------------------
\* Neither clearAllStorageDomains nor cancelAllNativeSseStreams holds the gate.
GateOpen_clearingOnly == clearing = "no"
GateOpen == clearing = "no" /\ cancelling = "no"

\* isCurrent
IsCurrent(r) == GateOpen /\ captured[r] = epoch

Pending(r) == stage[r] \in {"listening", "deaf", "connecting", "live"}

\* The promise is rejected or, once it is resolved, the stream errored; then
\* cleanup: no timer, no listener, no entry in activeSseCancellations.
FailAll(failed) ==
  /\ stage' = [r \in Requests |-> IF r \in failed THEN "over" ELSE stage[r]]
  /\ promise' = [r \in Requests |->
       IF r \in failed /\ stage[r] # "live" THEN "rejected" ELSE promise[r]]
  /\ body' = [r \in Requests |->
       IF r \in failed /\ stage[r] = "live" THEN "errored" ELSE body[r]]
  /\ buffered' = [r \in Requests |-> IF r \in failed THEN 0 ELSE buffered[r]]
  /\ UNCHANGED received

\* cancel, of some requests at once.
CancelAll(cancelled) ==
  /\ FailAll(cancelled)
  /\ commands' = commands \cup {DisconnectCommand(r) : r \in cancelled}
  /\ UNCHANGED delivered

-----------------------------------------------------------------------------
Init ==
  /\ Native!Init
  /\ stage = [r \in Requests |-> "idle"]
  /\ promise = [r \in Requests |-> "none"]
  /\ body = [r \in Requests |-> "open"]
  /\ buffered = [r \in Requests |-> 0]
  /\ received = [r \in Requests |-> 0]
  /\ delivered = [r \in Requests |-> 0]
  /\ captured = [r \in Requests |-> 0]
  /\ commands = {}
  /\ epoch = 0
  /\ clearing = "no"
  /\ cancelling = "no"

-----------------------------------------------------------------------------
(* createSseResponse and the promise of its listen call.                    *)

\* capture throws while a revocation holds the gate.
CreateSseResponse(r) ==
  /\ stage[r] = "idle"
  /\ GateOpen
  /\ stage' = [stage EXCEPT ![r] = "listening"]
  /\ promise' = [promise EXCEPT ![r] = "pending"]
  /\ captured' = [captured EXCEPT ![r] = epoch]
  /\ UNCHANGED <<nativeVars, body, buffered, received, delivered, commands,
                 gateVars>>

\* The connect timer starts and sse_connect is sent once the listener is
\* registered, unless a revocation came in between.
ListenSettles(r) ==
  /\ stage[r] = "listening"
  /\ IF IsCurrent(r)
     THEN /\ stage' = [stage EXCEPT ![r] = "connecting"]
          /\ commands' = commands \cup {ConnectCommand(r)}
          /\ UNCHANGED <<promise, body, buffered, received, delivered>>
     ELSE CancelAll({r})
  /\ UNCHANGED <<nativeVars, captured, gateVars>>

\* Nobody handles a rejection of listen.
ListenFails(r) ==
  /\ stage[r] = "listening"
  /\ stage' = [stage EXCEPT ![r] = "deaf"]
  /\ UNCHANGED <<nativeVars, promise, body, buffered, received, delivered,
                 captured, commands, gateVars>>

\* The signal of the request aborts, or 30 seconds pass without a response.
Abort_silently(r) ==
  /\ Pending(r)
  /\ FailAll({r})
  /\ UNCHANGED <<nativeVars, delivered, commands, captured, gateVars>>
Abort(r) ==
  /\ Pending(r)
  /\ CancelAll({r})
  /\ UNCHANGED <<nativeVars, captured, gateVars>>

ConnectTimesOut(r) ==
  /\ stage[r] = "connecting"
  /\ CancelAll({r})
  /\ UNCHANGED <<nativeVars, captured, gateVars>>

ConnectRejected(r) ==
  /\ stage[r] = "connecting"
  /\ call[r] = "rejected"
  /\ FailAll({r})
  /\ UNCHANGED <<nativeVars, delivered, commands, captured, gateVars>>

-----------------------------------------------------------------------------
(* The event listener and the consumer of the body.                         *)

Handles(r, type) ==
  /\ stage[r] \in {"connecting", "live"}
  /\ delivered[r] < Len(emitted[r])
  /\ emitted[r][delivered[r] + 1].type = type
  /\ delivered' = [delivered EXCEPT ![r] = @ + 1]

OnConnected(r) ==
  /\ Handles(r, "Connected")
  /\ stage' = [stage EXCEPT ![r] = "live"]
  /\ promise' = [promise EXCEPT ![r] = "resolved"]
  /\ UNCHANGED <<nativeVars, body, buffered, received, commands, captured,
                 gateVars>>

OnChunk_unbounded(r) ==
  /\ Handles(r, "Chunk")
  /\ buffered' = [buffered EXCEPT ![r] = @ + 1]
  /\ received' = [received EXCEPT ![r] = @ + 1]
  /\ commands' = commands \cup {AckCommand(r, emitted[r][delivered[r] + 1].sequence)}
  /\ UNCHANGED <<stage, promise, body>>
  /\ UNCHANGED <<nativeVars, captured, gateVars>>
\* Each chunk is acknowledged as soon as it is enqueued; a consumer that is
\* too slow loses the stream.
OnChunk_drops(r) ==
  /\ Handles(r, "Chunk")
  /\ IF buffered[r] < HighWater
     THEN /\ buffered' = [buffered EXCEPT ![r] = @ + 1]
          /\ received' = [received EXCEPT ![r] = @ + 1]
     ELSE UNCHANGED <<buffered, received>>
  /\ commands' = commands \cup {AckCommand(r, emitted[r][delivered[r] + 1].sequence)}
  /\ UNCHANGED <<stage, promise, body>>
  /\ UNCHANGED <<nativeVars, captured, gateVars>>
OnChunk(r) ==
  /\ Handles(r, "Chunk")
  /\ IF buffered[r] < HighWater
     THEN /\ buffered' = [buffered EXCEPT ![r] = @ + 1]
          /\ received' = [received EXCEPT ![r] = @ + 1]
          /\ commands' = commands \cup
               {AckCommand(r, emitted[r][delivered[r] + 1].sequence)}
          /\ UNCHANGED <<stage, promise, body>>
     ELSE /\ FailAll({r})
          /\ commands' = commands \cup {DisconnectCommand(r)}
  /\ UNCHANGED <<nativeVars, captured, gateVars>>

OnDone(r) ==
  /\ Handles(r, "Done")
  /\ stage' = [stage EXCEPT ![r] = "over"]
  /\ body' = [body EXCEPT ![r] = "closed"]
  /\ UNCHANGED <<nativeVars, promise, buffered, received, commands, captured,
                 gateVars>>

OnError(r) ==
  /\ Handles(r, "Error")
  /\ FailAll({r})
  /\ UNCHANGED <<nativeVars, commands, captured, gateVars>>

ConsumerReads(r) ==
  /\ promise[r] = "resolved"
  /\ buffered[r] > 0
  /\ buffered' = [buffered EXCEPT ![r] = @ - 1]
  /\ UNCHANGED <<nativeVars, stage, promise, body, received, delivered,
                 captured, commands, gateVars>>

\* cancel of the ReadableStream, which is possible until its end is read.
ConsumerCancels(r) ==
  /\ promise[r] = "resolved"
  /\ stage[r] = "live" \/ (body[r] = "closed" /\ buffered[r] > 0)
  /\ stage' = [stage EXCEPT ![r] = "over"]
  /\ body' = [body EXCEPT ![r] = "cancelled"]
  /\ buffered' = [buffered EXCEPT ![r] = 0]
  /\ commands' = commands \cup {DisconnectCommand(r)}
  /\ UNCHANGED <<nativeVars, promise, received, delivered, captured, gateVars>>

-----------------------------------------------------------------------------
(* clearAllStorageDomains and cancelAllNativeSseStreams.                    *)

\* The gate closes before the first await.
ClearBegins ==
  /\ GateOpen
  /\ epoch + 1 < 2 * MaxClears
  /\ epoch' = epoch + 1
  /\ clearing' = "gated"
  /\ UNCHANGED <<nativeVars, streamVars, captured, commands, cancelling>>

CancelAllNativeSseStreams_nativeOnly ==
  /\ clearing = "gated"
  /\ epoch' = epoch + 1
  /\ clearing' = "cancelled"
  /\ cancelling' = "sent"
  /\ UNCHANGED <<nativeVars, streamVars, captured, commands>>
CancelAllNativeSseStreams ==
  /\ clearing = "gated"
  /\ epoch' = epoch + 1
  /\ clearing' = "cancelled"
  /\ cancelling' = "sent"
  /\ CancelAll({r \in Requests : Pending(r)})
  /\ UNCHANGED <<nativeVars, captured>>

\* sse_disconnect_all is answered.
CancelAllReturns ==
  /\ cancelling = "done"
  /\ cancelling' = "no"
  /\ UNCHANGED <<nativeVars, streamVars, captured, commands, epoch, clearing>>

\* Everything is cleared, or a part of the clear fails before the streams are
\* cancelled natively.
ClearEnds ==
  /\ clearing = "cancelled"
  /\ clearing' = "no"
  /\ UNCHANGED <<nativeVars, streamVars, captured, commands, epoch, cancelling>>

-----------------------------------------------------------------------------
(* Commands reach the native side; sse_connect and sse_disconnect run on a  *)
(* thread pool, in any order unless OrderedCommands.                        *)

Runs(command) ==
  /\ command \in commands
  /\ commands' = commands \ {command}
  /\ UNCHANGED <<streamVars, captured, gateVars>>

RunConnect(r) == Runs(ConnectCommand(r)) /\ Native!Connect(r)

RunDisconnect(r) ==
  /\ OrderedCommands => ConnectCommand(r) \notin commands
  /\ Runs(DisconnectCommand(r))
  /\ IF connections[r] = None THEN UNCHANGED nativeVars ELSE Native!Disconnect(r)

RunDisconnectAll ==
  /\ cancelling = "sent"
  /\ OrderedCommands => \A r \in Requests : ConnectCommand(r) \notin commands
  /\ cancelling' = "done"
  /\ IF Native!ActiveIds = {} THEN UNCHANGED nativeVars ELSE Native!DisconnectAll
  /\ UNCHANGED <<streamVars, captured, commands, epoch, clearing>>

RunAck(r, n) ==
  /\ Runs(AckCommand(r, n))
  /\ IF connections[r] = None THEN UNCHANGED nativeVars ELSE Native!Ack(r, n)

\* The webview is there, so events are emitted.
NativeTask(r) ==
  \/ Native!ResponseArrives(r)
  \/ Native!BytesArrive(r)
  \/ Native!EmitChunk(r)
  \/ Native!StreamFails(r)
  \/ Native!StreamCompletes(r)
  \/ Native!TaskCleansUp(r)
  \/ Native!TaskDropped(r)

NativeStep(r) ==
  /\ Native!ConnectStep(r) \/ NativeTask(r)
  /\ UNCHANGED <<streamVars, captured, commands, gateVars>>

-----------------------------------------------------------------------------
Receive(r) == OnConnected(r) \/ OnChunk(r) \/ OnDone(r) \/ OnError(r)

CommandStep(r) ==
  RunConnect(r) \/ RunDisconnect(r) \/ \E n \in 1..MaxChunks : RunAck(r, n)

Next ==
  \/ \E r \in Requests :
       \/ CreateSseResponse(r)
       \/ ListenSettles(r)
       \/ ListenFails(r)
       \/ Abort(r)
       \/ ConnectTimesOut(r)
       \/ ConnectRejected(r)
       \/ Receive(r)
       \/ ConsumerReads(r)
       \/ ConsumerCancels(r)
       \/ CommandStep(r)
       \/ NativeStep(r)
  \/ ClearBegins
  \/ CancelAllNativeSseStreams
  \/ RunDisconnectAll
  \/ CancelAllReturns
  \/ ClearEnds

Spec == Init /\ [][Next]_vars

\* Promises of the runtime settle, timers expire, sent commands run, events
\* arrive, and the native executor polls as in SseConnections.  The user and
\* the consumer of a body owe nothing, and neither does the server.
Fairness ==
  /\ \A r \in Requests :
       /\ WF_vars(ListenSettles(r) \/ ListenFails(r))
       /\ WF_vars(ConnectTimesOut(r))
       /\ WF_vars(ConnectRejected(r))
       /\ WF_vars(Receive(r))
       /\ WF_vars(RunConnect(r))
       /\ WF_vars(RunDisconnect(r))
       /\ \A n \in 1..MaxChunks : WF_vars(RunAck(r, n))
       /\ WF_vars(Native!ConnectStep(r) /\ NativeStep(r))
       /\ WF_vars(task[r] # "sending" /\ NativeTask(r) /\ NativeStep(r))
       /\ WF_vars(Native!TaskDropped(r) /\ NativeStep(r))
  /\ WF_vars(CancelAllNativeSseStreams)
  /\ WF_vars(RunDisconnectAll)
  /\ WF_vars(CancelAllReturns)
  /\ WF_vars(ClearEnds)

FairSpec == Spec /\ Fairness

-----------------------------------------------------------------------------
\* A body that ends cleanly is complete: every chunk the native side emitted
\* was enqueued.
CleanEndIsComplete ==
  \A r \in Requests : body[r] = "closed" => received[r] = nextSequence[r] - 1

\* A full clear leaves no stream of an earlier epoch on the network, wherever
\* its setup was when the clear began.
RevocationIsComplete ==
  GateOpen => \A r \in Requests :
    Native!Running(r) /\ captured[r] < epoch => r \in aborted

\* The native side of a clear cuts off no stream that started after it.
RevocationSparesNewStreams ==
  [][\A r \in Requests :
       cancelling = "sent" /\ cancelling' = "done" /\ Native!Registered(r)
         => captured[r] < epoch]_vars

\* Every request comes to its end, even if the server never answers, unless
\* the listener could not be registered: its promise is rejected or its body
\* is closed, cancelled or errored.
RequestsSettle ==
  \A r \in Requests : stage[r] = "listening" ~> stage[r] \in {"over", "deaf"}

\* Once the webview is done with a request, and be it by an abort, the native
\* side ends its connection.
CancelledStreamsEnd ==
  \A r \in Requests : stage[r] = "over" ~> ~Native!Registered(r) /\ ~Native!Running(r)
=============================================================================
