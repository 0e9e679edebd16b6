--------------------------- MODULE SseBridge_proof ---------------------------
(***************************************************************************)
(* Proofs about SseBridge, for any number of requests and clears and any   *)
(* limits.  The native side of the composition takes only steps of         *)
(* SseConnections, so what SseConnections_proof proves holds here too      *)
(* (NativeFacts); the invariants of the webview side are proved on top.    *)
(***************************************************************************)
EXTENDS SseBridge, TLAPS

NativeProof == INSTANCE SseConnections_proof
                 WITH Calls <- Requests, Ids <- Requests,
                      IdOf <- [r \in Requests |-> r]

\* What the proofs use of the native side.
NativeFacts ==
  /\ Native!TypeOK
  /\ \A r \in Requests :
       /\ connections[r] \in {r, None}
       /\ call[r] \in {"idle", "building"} => task[r] = "none"
       /\ call[r] = "spawned" => task[r] = "waiting"
       /\ connections[r] = r => call[r] \notin {"idle", "rejected"}
       /\ task[r] \in {"sending", "streaming", "reserving"} =>
            r \in aborted \/ (connections[r] = r /\ r \in attached)

\* Events are the head of the response, the chunks in order, and an end.
OrderAt(r) ==
  /\ Len(emitted[r]) <= nextSequence[r] + 1
  /\ task[r] \in {"none", "waiting", "sending"} =>
       emitted[r] = <<>> /\ nextSequence[r] = 1
  /\ task[r] \in {"streaming", "reserving"} => Len(emitted[r]) = nextSequence[r]
  /\ \A i \in 1..Len(emitted[r]) :
       /\ emitted[r][i].type = "Connected" => i = 1
       /\ emitted[r][i].type = "Chunk" =>
            i > 1 /\ i <= nextSequence[r] /\ emitted[r][i].sequence = i - 1
       /\ emitted[r][i].type = "Done" =>
            /\ i > 1
            /\ i = nextSequence[r] + 1
            /\ task[r] \in {"finishing", "gone"}

EventOrder == \A r \in Requests : OrderAt(r)

\* Until a request is over the webview has enqueued every chunk it handled.
ProgressAt(r) ==
  /\ delivered[r] <= Len(emitted[r])
  /\ stage[r] \in {"idle", "listening", "deaf", "connecting"} =>
       delivered[r] = 0 /\ received[r] = 0
  /\ stage[r] = "live" => delivered[r] = received[r] + 1
  /\ body[r] = "closed" =>
       /\ stage[r] = "over"
       /\ received[r] = nextSequence[r] - 1
       /\ task[r] \in {"finishing", "gone"}

Progress == \A r \in Requests : ProgressAt(r)

\* sse_connect is sent once, after the listener is registered.
ConnectsOnce ==
  \A r \in Requests :
    /\ stage[r] \in {"idle", "listening", "deaf"} =>
         call[r] = "idle" /\ ConnectCommand(r) \notin commands
    /\ ConnectCommand(r) \in commands => call[r] = "idle"

\* No request starts while the gate is closed, and none is left when the
\* native side is told.
Gate ==
  /\ clearing = "gated" => epoch < 2 * MaxClears /\ cancelling = "no"
  /\ \A r \in Requests : captured[r] <= epoch
  /\ \A r \in Requests :
       stage[r] # "idle" /\ ~GateOpen => captured[r] < epoch
  /\ \A r \in Requests :
       clearing = "cancelled" \/ cancelling # "no" => stage[r] \in {"idle", "over"}

\* The native side was told of the latest revocation.
Told == GateOpen \/ cancelling = "done" \/ (clearing = "cancelled" /\ cancelling = "no")

\* After that nothing of an older epoch connects any more.
Purged ==
  OrderedCommands /\ Told =>
    \A r \in Requests : captured[r] < epoch /\ stage[r] # "idle" =>
      /\ ConnectCommand(r) \notin commands
      /\ connections[r] # r
      /\ stage[r] = "over"

BridgeType ==
  /\ stage \in [Requests -> Stages]
  /\ promise \in [Requests -> {"none", "pending", "resolved", "rejected"}]
  /\ body \in [Requests -> {"open", "closed", "errored", "cancelled"}]
  /\ buffered \in [Requests -> 0..HighWater]
  /\ received \in [Requests -> 0..MaxChunks]
  /\ delivered \in [Requests -> 0..(MaxChunks + 2)]
  /\ captured \in [Requests -> 0..(2 * MaxClears)]
  /\ commands \subseteq Commands
  /\ epoch \in 0..(2 * MaxClears)
  /\ clearing \in {"no", "gated", "cancelled"}
  /\ cancelling \in {"no", "sent", "done"}

BridgeInv ==
  BridgeType /\ EventOrder /\ Progress /\ ConnectsOnce /\ Gate /\ Purged

-----------------------------------------------------------------------------
(* The native side.                                                         *)

LEMMA NativeFinite == NativeProof!IsFiniteSet(Requests)
BY BridgeAssumption DEF NativeProof!IsFiniteSet, IsFiniteSet

LEMMA NativeAssumption == NativeProof!SseAssumption
BY BridgeAssumption, NativeFinite DEF NativeProof!SseAssumption

\* The steps of the composition by what they may change.
WebviewStep(r) ==
  \/ CreateSseResponse(r)
  \/ ListenSettles(r)
  \/ ListenFails(r)
  \/ Abort(r)
  \/ ConnectTimesOut(r)
  \/ ConnectRejected(r)
  \/ Receive(r)
  \/ ConsumerReads(r)
  \/ ConsumerCancels(r)

ClearStep ==
  ClearBegins \/ CancelAllNativeSseStreams \/ CancelAllReturns \/ ClearEnds

LEMMA StepKinds ==
  [Next]_vars =>
    \/ \E r \in Requests : WebviewStep(r) \/ CommandStep(r) \/ NativeStep(r)
    \/ ClearStep
    \/ RunDisconnectAll
    \/ UNCHANGED vars
BY DEF Next, WebviewStep, ClearStep

LEMMA WebviewQuiet ==
  (\E r \in Requests : WebviewStep(r)) \/ ClearStep => UNCHANGED nativeVars
BY DEF WebviewStep, CreateSseResponse, ListenSettles, ListenFails, Abort,
       ConnectTimesOut, ConnectRejected, Receive, OnConnected, OnChunk, OnDone,
       OnError, ConsumerReads, ConsumerCancels, ClearStep, ClearBegins,
       CancelAllNativeSseStreams, CancelAllReturns, ClearEnds

LEMMA NativeQuiet ==
  /\ (\E r \in Requests : CommandStep(r) \/ NativeStep(r)) =>
       UNCHANGED <<streamVars, captured, gateVars>>
  /\ RunDisconnectAll =>
       /\ UNCHANGED <<streamVars, captured, commands, epoch, clearing>>
       /\ cancelling = "sent" /\ cancelling' = "done"
BY DEF CommandStep, NativeStep, RunConnect, RunDisconnect, RunAck, Runs,
       RunDisconnectAll

\* A step of the composition is a step of the native side or leaves it alone.
LEMMA NativeNext == [Next]_vars => [Native!Next]_nativeVars
<1>1. ASSUME NEW r \in Requests, CommandStep(r)
      PROVE  Native!Next \/ UNCHANGED nativeVars
  BY <1>1 DEF CommandStep, RunConnect, RunDisconnect, RunAck, Native!Next
<1>2. ASSUME RunDisconnectAll PROVE Native!Next \/ UNCHANGED nativeVars
  BY <1>2 DEF RunDisconnectAll, Native!Next
<1>3. ASSUME NEW r \in Requests, NativeStep(r) PROVE Native!Next
  BY <1>3 DEF NativeStep, NativeTask, Native!TaskStep, Native!Next
<1>4. UNCHANGED vars => UNCHANGED nativeVars
  BY DEF vars
<1> QED
  BY <1>1, <1>2, <1>3, <1>4, StepKinds, WebviewQuiet

\* The composition implements the specification of the native side.
THEOREM ImplementsNative == Spec => Native!Spec
<1>1. Init => Native!Init
  BY DEF Init
<1>2. [Next]_vars => [Native!Next]_(Native!vars)
  BY NativeNext DEF nativeVars, Native!vars, Native!flowVars
<1> QED
  BY <1>1, <1>2, PTL DEF Spec, Native!Spec

\* SseBridge and SseConnections_proof instantiate SseConnections alike.
LEMMA SameConnect ==
  ASSUME NEW r \in Requests, Native!Connect(r)
  PROVE  NativeProof!Connect(r)
<1>1. Native!Cardinality(Native!ActiveIds) =
        NativeProof!Cardinality(NativeProof!ActiveIds)
  BY DEF Native!Cardinality, NativeProof!Cardinality,
         Native!IsFiniteSet, NativeProof!IsFiniteSet,
         Native!ActiveIds, NativeProof!ActiveIds
<1> QED
  BY <1>1 DEF Native!Connect, NativeProof!Connect, Native!flowVars, NativeProof!flowVars

LEMMA SameNext == [Native!Next]_(Native!vars) => [NativeProof!Next]_(NativeProof!vars)
<1>1. ASSUME NEW r \in Requests, Native!ConnectStep(r)
      PROVE  NativeProof!ConnectStep(r)
  BY <1>1
  DEF Native!ConnectStep, NativeProof!ConnectStep, Native!BuildFails, NativeProof!BuildFails,
            Native!SpawnTask, NativeProof!SpawnTask, Native!AttachTask, NativeProof!AttachTask,
            Native!RemoveSseConnection, NativeProof!RemoveSseConnection, Native!Registered, NativeProof!Registered,
            Native!flowVars, NativeProof!flowVars
<1>2. ASSUME NEW r \in Requests, Native!TaskStep(r)
      PROVE  NativeProof!TaskStep(r)
  BY <1>2
  DEF Native!TaskStep, NativeProof!TaskStep, Native!ResponseArrives, NativeProof!ResponseArrives,
            Native!BytesArrive, NativeProof!BytesArrive, Native!EmitChunk, NativeProof!EmitChunk,
            Native!EmitFails, NativeProof!EmitFails, Native!StreamFails, NativeProof!StreamFails,
            Native!StreamCompletes, NativeProof!StreamCompletes, Native!TaskCleansUp, NativeProof!TaskCleansUp,
            Native!TaskDropped, NativeProof!TaskDropped, Native!RemoveSseConnection, NativeProof!RemoveSseConnection,
            Native!Emit, NativeProof!Emit, Native!Connected, NativeProof!Connected,
            Native!Chunk, NativeProof!Chunk, Native!Error, NativeProof!Error,
            Native!Done, NativeProof!Done, Native!flowVars, NativeProof!flowVars
<1>3. ASSUME NEW r \in Requests, Native!Disconnect(r)
      PROVE  NativeProof!Disconnect(r)
  BY <1>3
  DEF Native!Disconnect, NativeProof!Disconnect, Native!AbortTasks, NativeProof!AbortTasks,
            Native!flowVars, NativeProof!flowVars
<1>4. ASSUME NEW r \in Requests, NEW n \in 1..MaxChunks, Native!Ack(r, n)
      PROVE  NativeProof!Ack(r, n)
  BY <1>4
  DEF Native!Ack, NativeProof!Ack, Native!Acknowledge, NativeProof!Acknowledge
<1>5. Native!DisconnectAll => NativeProof!DisconnectAll
  BY DEF Native!DisconnectAll, NativeProof!DisconnectAll, Native!ActiveIds, NativeProof!ActiveIds,
            Native!AbortTasks, NativeProof!AbortTasks, Native!flowVars, NativeProof!flowVars
<1>6. UNCHANGED Native!vars => UNCHANGED NativeProof!vars
  BY DEF Native!vars, NativeProof!vars, Native!flowVars, NativeProof!flowVars
<1> QED
  BY <1>1, <1>2, <1>3, <1>4, <1>5, <1>6, SameConnect
  DEF Native!Next, NativeProof!Next

LEMMA SameNative == Native!Spec => NativeProof!Spec
<1>1. Native!Init => NativeProof!Init
  BY DEF Native!Init, NativeProof!Init
<1> QED
  BY <1>1, SameNext, PTL DEF Native!Spec, NativeProof!Spec

LEMMA NativeFactsHold == Spec => []NativeFacts
<1>1. NativeProof!Spec => []NativeProof!SseInv
  BY NativeProof!Invariance, NativeAssumption
<1>2. NativeProof!SseInv => NativeFacts
  <2> SUFFICES ASSUME NativeProof!SseInv PROVE NativeFacts
    OBVIOUS
  <2> USE DEF NativeProof!SseInv
  <2>1. NativeProof!TypeOK
    BY DEF NativeProof!FlowInv
  <2>2. Native!TypeOK
    BY <2>1 DEF Native!TypeOK, NativeProof!TypeOK, Native!CallStages,
       NativeProof!CallStages, Native!TaskStages, NativeProof!TaskStages,
       Native!Events, NativeProof!Events, Native!Chunk, NativeProof!Chunk,
       Native!Connected, NativeProof!Connected, Native!Done, NativeProof!Done,
       Native!Error, NativeProof!Error
  <2>3. \A r \in Requests : connections[r] \in {r, None}
    BY <2>2 DEF NativeProof!KeyedById, Native!TypeOK
  <2>4. ASSUME NEW r \in Requests
        PROVE  /\ call[r] \in {"idle", "building"} => task[r] = "none"
               /\ call[r] = "spawned" => task[r] = "waiting"
               /\ connections[r] = r => call[r] \notin {"idle", "rejected"}
    BY DEF NativeProof!ReachInv, NativeProof!StageCoupling, NativeProof!Registered
  <2>5. ASSUME NEW r \in Requests,
               task[r] \in {"sending", "streaming", "reserving"}
        PROVE  r \in aborted \/ (connections[r] = r /\ r \in attached)
    BY <2>5 DEF NativeProof!ReachInv, NativeProof!RunningTaskIsReachable,
                NativeProof!Running, NativeProof!Registered
  <2> QED
    BY <2>2, <2>3, <2>4, <2>5 DEF NativeFacts
<1> QED
  BY <1>1, <1>2, ImplementsNative, SameNative, PTL

-----------------------------------------------------------------------------
(* What the native side does to one request.                                *)

LEMMA EmitAppends ==
  ASSUME emitted \in [Requests -> Seq(Native!Events)],
         NEW r \in Requests, NEW e \in Native!Events, Native!Emit(r, e)
  PROVE  /\ Len(emitted'[r]) = Len(emitted[r]) + 1
         /\ Len(emitted[r]) \in Nat
         /\ \A i \in 1..Len(emitted[r]) : emitted'[r][i] = emitted[r][i]
         /\ emitted'[r][Len(emitted[r]) + 1] = e
         /\ \A q \in Requests \ {r} : emitted'[q] = emitted[q]
<1>1. /\ emitted'[r] = Append(emitted[r], e)
      /\ \A q \in Requests \ {r} : emitted'[q] = emitted[q]
  BY DEF Native!Emit
<1>2. emitted[r] \in Seq(Native!Events)
  OBVIOUS
<1> HIDE DEF Native!Events
<1> QED
  BY <1>1, <1>2

LEMMA EventMembers ==
  /\ Native!Connected \in Native!Events
  /\ Native!Done \in Native!Events
  /\ Native!Error \in Native!Events
  /\ \A n \in 1..MaxChunks : Native!Chunk(n) \in Native!Events
BY DEF Native!Events

LEMMA OrderSame ==
  ASSUME NEW q \in Requests, OrderAt(q), emitted'[q] = emitted[q],
         task'[q] = task[q], nextSequence'[q] = nextSequence[q]
  PROVE  OrderAt(q)'
BY DEF OrderAt

\* One more event at the end of an orderly sequence.
LEMMA OrderExtended ==
  ASSUME NativeFacts, NEW r \in Requests, OrderAt(r),
         NEW e \in Native!Events, Native!Emit(r, e),
         nextSequence'[r] \in Nat, nextSequence'[r] >= nextSequence[r],
         Len(emitted[r]) <= nextSequence[r],
         task[r] \notin {"finishing", "gone"},
         task'[r] \in {"streaming", "reserving"} =>
           nextSequence'[r] = Len(emitted[r]) + 1,
         task'[r] \notin {"none", "waiting", "sending"},
         e.type = "Connected" => Len(emitted[r]) = 0,
         e.type = "Chunk" =>
           /\ Len(emitted[r]) > 0
           /\ nextSequence'[r] = Len(emitted[r]) + 1
           /\ e.sequence = Len(emitted[r]),
         e.type = "Done" =>
           /\ Len(emitted[r]) > 0
           /\ nextSequence'[r] = Len(emitted[r])
           /\ task'[r] \in {"finishing", "gone"}
  PROVE  OrderAt(r)'
<1>1. emitted \in [Requests -> Seq(Native!Events)]
  BY DEF NativeFacts, Native!TypeOK
<1>2. /\ Len(emitted'[r]) = Len(emitted[r]) + 1
      /\ Len(emitted[r]) \in Nat
      /\ \A i \in 1..Len(emitted[r]) : emitted'[r][i] = emitted[r][i]
      /\ emitted'[r][Len(emitted[r]) + 1] = e
  BY <1>1, EmitAppends
<1>3. nextSequence[r] \in Nat
  BY BridgeAssumption DEF NativeFacts, Native!TypeOK
<1>4. ASSUME NEW i \in 1..Len(emitted'[r])
      PROVE  /\ emitted'[r][i].type = "Connected" => i = 1
             /\ emitted'[r][i].type = "Chunk" =>
                  /\ i > 1
                  /\ i <= nextSequence'[r]
                  /\ emitted'[r][i].sequence = i - 1
             /\ emitted'[r][i].type = "Done" =>
                  /\ i > 1
                  /\ i = nextSequence'[r] + 1
                  /\ task'[r] \in {"finishing", "gone"}
  <2>1. CASE i <= Len(emitted[r])
    <3>1. i \in 1..Len(emitted[r]) /\ emitted'[r][i] = emitted[r][i]
      BY <1>2, <2>1
    <3> QED
      BY <1>2, <1>3, <3>1 DEF OrderAt
  <2>2. CASE i = Len(emitted[r]) + 1
    BY <1>2, <2>2
  <2> QED
    BY <1>2, <2>1, <2>2
<1>5. Len(emitted'[r]) <= nextSequence'[r] + 1
  BY <1>2, <1>3
<1>6. task'[r] \in {"streaming", "reserving"} => Len(emitted'[r]) = nextSequence'[r]
  BY <1>2
<1> QED
  BY <1>4, <1>5, <1>6 DEF OrderAt

LEMMA NativeStepOrder ==
  ASSUME NativeFacts, NEW r \in Requests, NativeStep(r), EventOrder
  PROVE  EventOrder'
<1> SUFFICES ASSUME NEW q \in Requests PROVE OrderAt(q)'
  BY DEF EventOrder
<1> USE BridgeAssumption DEF NativeFacts, Native!TypeOK
<1>0. OrderAt(q)
  BY DEF EventOrder
<1>1. ASSUME Native!ConnectStep(r) PROVE OrderAt(q)'
  BY <1>0, <1>1, SMTT(60)
  DEF OrderAt, Native!ConnectStep, Native!BuildFails, Native!SpawnTask,
      Native!AttachTask, Native!flowVars
<1>2. ASSUME Native!ResponseArrives(r) PROVE OrderAt(q)'
  <2>1. Native!Emit(r, Native!Connected) /\ Native!Connected \in Native!Events
    BY <1>2, EventMembers DEF Native!ResponseArrives
  <2>2. CASE q = r
    <3>1. OrderAt(r)
      BY DEF EventOrder
    <3>2. /\ task[r] \in {"sending"}
          /\ task'[r] \in {"streaming"}
          /\ nextSequence'[r] = nextSequence[r]
      BY <1>2 DEF Native!ResponseArrives, Native!flowVars
    <3>3. Native!Connected.type = "Connected"
      BY DEF Native!Connected
    <3>4. /\ Len(emitted[r]) <= nextSequence[r]
          /\ task[r] = "sending" => Len(emitted[r]) = 0 /\ nextSequence[r] = 1
          /\ task[r] # "sending" => Len(emitted[r]) = nextSequence[r]
          /\ nextSequence[r] \in Nat \ {0}
      BY <3>1, <3>2 DEF OrderAt
    <3>5. OrderAt(r)'
      <4> HIDE DEF NativeFacts
      <4> QED
        BY <2>1, <3>1, <3>2, <3>3, <3>4, OrderExtended
    <3> QED
      BY <2>2, <3>5 DEF OrderAt
  <2>3. CASE q # r
    BY <1>0, <1>2, <2>1, <2>3, EmitAppends, OrderSame DEF Native!ResponseArrives, Native!flowVars
  <2> QED
    BY <2>2, <2>3
<1>3. ASSUME Native!BytesArrive(r) PROVE OrderAt(q)'
  BY <1>0, <1>3 DEF OrderAt, Native!BytesArrive, Native!flowVars
<1>4. ASSUME Native!EmitChunk(r) PROVE OrderAt(q)'
  <2>1. Native!Emit(r, Native!Chunk(nextSequence[r])) /\ Native!Chunk(nextSequence[r]) \in Native!Events
    BY <1>4, EventMembers DEF Native!EmitChunk
  <2>2. CASE q = r
    <3>1. OrderAt(r)
      BY DEF EventOrder
    <3>2. /\ task[r] \in {"reserving"}
          /\ task'[r] \in {"streaming", "reserving"}
          /\ nextSequence'[r] = nextSequence[r] + 1
      BY <1>4 DEF Native!EmitChunk
    <3>3. /\ Native!Chunk(nextSequence[r]).type = "Chunk"
          /\ Native!Chunk(nextSequence[r]).sequence = nextSequence[r]
      BY DEF Native!Chunk
    <3>4. /\ Len(emitted[r]) <= nextSequence[r]
          /\ task[r] = "sending" => Len(emitted[r]) = 0 /\ nextSequence[r] = 1
          /\ task[r] # "sending" => Len(emitted[r]) = nextSequence[r]
          /\ nextSequence[r] \in Nat \ {0}
      BY <3>1, <3>2 DEF OrderAt
    <3>5. OrderAt(r)'
      <4> HIDE DEF NativeFacts
      <4> QED
        BY <2>1, <3>1, <3>2, <3>3, <3>4, OrderExtended
    <3> QED
      BY <2>2, <3>5 DEF OrderAt
  <2>3. CASE q # r
    BY <1>0, <1>4, <2>1, <2>3, EmitAppends, OrderSame DEF Native!EmitChunk
  <2> QED
    BY <2>2, <2>3
<1>5. ASSUME Native!StreamFails(r) PROVE OrderAt(q)'
  <2>1. Native!Emit(r, Native!Error) /\ Native!Error \in Native!Events
    BY <1>5, EventMembers DEF Native!StreamFails
  <2>2. CASE q = r
    <3>1. OrderAt(r)
      BY DEF EventOrder
    <3>2. /\ task[r] \in {"sending", "streaming", "reserving"}
          /\ task'[r] \in {"finishing"}
          /\ nextSequence'[r] = nextSequence[r]
      BY <1>5 DEF Native!StreamFails, Native!flowVars
    <3>3. Native!Error.type = "Error"
      BY DEF Native!Error
    <3>4. /\ Len(emitted[r]) <= nextSequence[r]
          /\ task[r] = "sending" => Len(emitted[r]) = 0 /\ nextSequence[r] = 1
          /\ task[r] # "sending" => Len(emitted[r]) = nextSequence[r]
          /\ nextSequence[r] \in Nat \ {0}
      BY <3>1, <3>2 DEF OrderAt
    <3>5. OrderAt(r)'
      <4> HIDE DEF NativeFacts
      <4> QED
        BY <2>1, <3>1, <3>2, <3>3, <3>4, OrderExtended
    <3> QED
      BY <2>2, <3>5 DEF OrderAt
  <2>3. CASE q # r
    BY <1>0, <1>5, <2>1, <2>3, EmitAppends, OrderSame DEF Native!StreamFails, Native!flowVars
  <2> QED
    BY <2>2, <2>3
<1>6. ASSUME Native!StreamCompletes(r) PROVE OrderAt(q)'
  <2>1. Native!Emit(r, Native!Done) /\ Native!Done \in Native!Events
    BY <1>6, EventMembers DEF Native!StreamCompletes
  <2>2. CASE q = r
    <3>1. OrderAt(r)
      BY DEF EventOrder
    <3>2. /\ task[r] \in {"streaming"}
          /\ task'[r] \in {"finishing"}
          /\ nextSequence'[r] = nextSequence[r]
      BY <1>6 DEF Native!StreamCompletes, Native!flowVars
    <3>3. Native!Done.type = "Done"
      BY DEF Native!Done
    <3>4. /\ Len(emitted[r]) <= nextSequence[r]
          /\ task[r] = "sending" => Len(emitted[r]) = 0 /\ nextSequence[r] = 1
          /\ task[r] # "sending" => Len(emitted[r]) = nextSequence[r]
          /\ nextSequence[r] \in Nat \ {0}
      BY <3>1, <3>2 DEF OrderAt
    <3>5. OrderAt(r)'
      <4> HIDE DEF NativeFacts
      <4> QED
        BY <2>1, <3>1, <3>2, <3>3, <3>4, OrderExtended
    <3> QED
      BY <2>2, <3>5 DEF OrderAt
  <2>3. CASE q # r
    BY <1>0, <1>6, <2>1, <2>3, EmitAppends, OrderSame DEF Native!StreamCompletes, Native!flowVars
  <2> QED
    BY <2>2, <2>3
<1>7. ASSUME Native!TaskCleansUp(r) \/ Native!TaskDropped(r) PROVE OrderAt(q)'
  BY <1>0, <1>7 DEF OrderAt, Native!TaskCleansUp, Native!TaskDropped,
                    Native!flowVars
<1> QED
  BY <1>1, <1>2, <1>3, <1>4, <1>5, <1>6, <1>7 DEF NativeStep, NativeTask

\* Events are only added, an ended stream stays as it is, and nothing but
\* sse_connect registers a connection.
NativeFrame(q) ==
  /\ Len(emitted'[q]) >= Len(emitted[q])
  /\ \A i \in 1..Len(emitted[q]) : emitted'[q][i] = emitted[q][i]
  /\ task[q] \in {"finishing", "gone"} =>
       /\ task'[q] \in {"finishing", "gone"}
       /\ nextSequence'[q] = nextSequence[q]
  /\ call[q] = "idle" => call'[q] = "idle" \/ RunConnect(q)
  /\ connections'[q] = q => connections[q] = q \/ RunConnect(q)

LEMMA NativeStepFrame ==
  ASSUME NativeFacts, NEW r \in Requests, NativeStep(r), NEW q \in Requests
  PROVE  NativeFrame(q)
<1> USE BridgeAssumption DEF NativeFacts, Native!TypeOK, NativeFrame
<1>1. ASSUME Native!ConnectStep(r) PROVE NativeFrame(q)
  BY <1>1 DEF Native!ConnectStep, Native!BuildFails, Native!SpawnTask,
      Native!AttachTask, Native!RemoveSseConnection, Native!flowVars
<1>2. ASSUME Native!ResponseArrives(r) \/ Native!StreamFails(r)
             \/ Native!StreamCompletes(r)
      PROVE NativeFrame(q)
  <2>1. PICK e \in Native!Events : Native!Emit(r, e)
    BY <1>2, EventMembers
    DEF Native!ResponseArrives, Native!StreamFails, Native!StreamCompletes
  <2>2. UNCHANGED <<call, connections, nextSequence>>
    BY <1>2 DEF Native!ResponseArrives, Native!StreamFails,
                Native!StreamCompletes, Native!flowVars
  <2>3. task[q] \in {"finishing", "gone"} => task'[q] = task[q]
    BY <1>2 DEF Native!ResponseArrives, Native!StreamFails, Native!StreamCompletes
  <2>4. /\ Len(emitted'[q]) >= Len(emitted[q])
        /\ \A i \in 1..Len(emitted[q]) : emitted'[q][i] = emitted[q][i]
    <3> HIDE DEF NativeFrame
    <3>1. CASE q = r
      BY <2>1, <3>1, EmitAppends
    <3>2. CASE q # r
      BY <2>1, <3>2, EmitAppends
    <3> QED
      BY <3>1, <3>2
  <2> QED
    BY <2>2, <2>3, <2>4
<1>3. ASSUME Native!EmitChunk(r) PROVE NativeFrame(q)
  <2>1. Native!Emit(r, Native!Chunk(nextSequence[r]))
    BY <1>3 DEF Native!EmitChunk
  <2>2. nextSequence[r] \in 1..MaxChunks
    BY <1>3 DEF Native!EmitChunk
  <2> QED
    BY <1>3, <2>1, <2>2, EmitAppends, EventMembers DEF Native!EmitChunk
<1>4. ASSUME Native!BytesArrive(r) \/ Native!TaskCleansUp(r)
             \/ Native!TaskDropped(r)
      PROVE NativeFrame(q)
  BY <1>4 DEF Native!BytesArrive, Native!TaskCleansUp, Native!TaskDropped,
      Native!RemoveSseConnection, Native!flowVars
<1> QED
  BY <1>1, <1>2, <1>3, <1>4 DEF NativeStep, NativeTask

LEMMA CommandFrame ==
  ASSUME NativeFacts, NEW q \in Requests,
         \/ \E r \in Requests : CommandStep(r)
         \/ RunDisconnectAll
  PROVE  NativeFrame(q) /\ UNCHANGED <<task, emitted, nextSequence>>
<1> USE BridgeAssumption DEF NativeFacts, Native!TypeOK, NativeFrame
<1>1. ASSUME NEW r \in Requests, RunConnect(r)
      PROVE  NativeFrame(q) /\ UNCHANGED <<task, emitted, nextSequence>>
  BY <1>1 DEF RunConnect, Native!Connect, Native!flowVars
<1>2. ASSUME NEW r \in Requests, RunDisconnect(r)
      PROVE  NativeFrame(q) /\ UNCHANGED <<task, emitted, nextSequence>>
  BY <1>2 DEF RunDisconnect, Native!Disconnect, Native!flowVars, nativeVars
<1>3. ASSUME NEW r \in Requests, NEW n \in 1..MaxChunks, RunAck(r, n)
      PROVE  NativeFrame(q) /\ UNCHANGED <<task, emitted, nextSequence>>
  BY <1>3 DEF RunAck, Native!Ack, nativeVars
<1>4. ASSUME RunDisconnectAll
      PROVE  NativeFrame(q) /\ UNCHANGED <<task, emitted, nextSequence>>
  BY <1>4 DEF RunDisconnectAll, Native!DisconnectAll, Native!flowVars, nativeVars
<1> QED
  BY <1>1, <1>2, <1>3, <1>4 DEF CommandStep

-----------------------------------------------------------------------------
(* The invariants of the webview side.                                      *)

LEMMA OrderStep == NativeFacts /\ EventOrder /\ [Next]_vars => EventOrder'
<1> SUFFICES ASSUME NativeFacts, EventOrder, [Next]_vars PROVE EventOrder'
  OBVIOUS
<1>1. ASSUME NEW r \in Requests, NativeStep(r) PROVE EventOrder'
  BY <1>1, NativeStepOrder
<1>2. ASSUME UNCHANGED <<task, emitted, nextSequence>> PROVE EventOrder'
  BY <1>2 DEF EventOrder, OrderAt
<1>3. ASSUME UNCHANGED nativeVars PROVE EventOrder'
  BY <1>2, <1>3 DEF nativeVars
<1>4. ASSUME \/ \E r \in Requests : CommandStep(r)
             \/ RunDisconnectAll
      PROVE  EventOrder'
  <2>1. CASE Requests = {}
    BY <2>1 DEF EventOrder
  <2>2. CASE Requests # {}
    BY <1>2, <1>4, <2>2, CommandFrame
  <2> QED
    BY <2>1, <2>2
<1> QED
  BY <1>1, <1>3, <1>4, StepKinds, WebviewQuiet DEF vars, nativeVars

LEMMA NativeKeepsProgress ==
  ASSUME BridgeType, NativeFacts, NativeFacts', Progress,
         UNCHANGED <<stage, body, received, delivered>>,
         \A q \in Requests : NativeFrame(q)
  PROVE  Progress'
<1> SUFFICES ASSUME NEW q \in Requests PROVE ProgressAt(q)'
  BY DEF Progress
<1>1. ProgressAt(q) /\ NativeFrame(q)
  BY DEF Progress
<1>2. /\ emitted[q] \in Seq(Native!Events)
      /\ emitted'[q] \in Seq(Native!Events)
      /\ delivered[q] \in Nat
  BY DEF NativeFacts, Native!TypeOK, BridgeType, Native!Events, Native!Chunk,
         Native!Connected, Native!Done, Native!Error
<1>3. Len(emitted[q]) \in Nat /\ Len(emitted'[q]) \in Nat
  BY <1>2
<1> QED
  BY <1>1, <1>2, <1>3 DEF ProgressAt, NativeFrame

LEMMA ProgressStep ==
  BridgeInv /\ NativeFacts /\ NativeFacts' /\ [Next]_vars => Progress'
<1> SUFFICES ASSUME BridgeInv, NativeFacts, NativeFacts', [Next]_vars
             PROVE  Progress'
  OBVIOUS
<1> USE DEF BridgeInv
<1>1. ASSUME NEW r \in Requests, CommandStep(r) \/ NativeStep(r) PROVE Progress'
  BY <1>1, NativeQuiet, NativeStepFrame, CommandFrame, NativeKeepsProgress
  DEF streamVars
<1>2. ASSUME RunDisconnectAll PROVE Progress'
  BY <1>2, NativeQuiet, CommandFrame, NativeKeepsProgress DEF streamVars
<1>3. ASSUME UNCHANGED nativeVars, NEW r \in Requests, WebviewStep(r),
             NEW q \in Requests
      PROVE  ProgressAt(q)'
  <2>0. /\ delivered[q] \in Nat
        /\ received[q] \in Nat
        /\ nextSequence[q] \in Nat
        /\ Len(emitted[q]) \in Nat
    <3>1. emitted[q] \in Seq(Native!Events)
      BY DEF NativeFacts, Native!TypeOK
    <3>2. nextSequence[q] \in 1..(MaxChunks + 1)
      BY DEF NativeFacts, Native!TypeOK
    <3>3. delivered[q] \in Nat /\ received[q] \in Nat
      BY DEF BridgeType
    <3>4. nextSequence[q] \in Nat
      BY <3>2, BridgeAssumption
    <3>5. Len(emitted[q]) \in Nat
      BY <3>1
    <3> QED
      BY <3>3, <3>4, <3>5
  <2>1. /\ ProgressAt(q) /\ OrderAt(q)
        /\ delivered[q] \in Nat
        /\ received[q] \in Nat
        /\ nextSequence[q] \in Nat
        /\ Len(emitted[q]) \in Nat
    BY <2>0 DEF Progress, EventOrder
  <2>2. UNCHANGED <<emitted, nextSequence, task>>
    BY <1>3 DEF nativeVars
  <2> USE DEF BridgeType
  <2>3. CASE CreateSseResponse(r) \/ ListenSettles(r) \/ ListenFails(r)
             \/ Abort(r) \/ ConnectTimesOut(r) \/ ConnectRejected(r)
    <3>1. \/ stage'[q] = stage[q] /\ body'[q] = body[q]
          \/ /\ stage[q] \in {"idle", "listening"}
             /\ stage'[q] \in {"listening", "deaf", "connecting"}
             /\ body'[q] = body[q]
          \/ /\ stage[q] # "over"
             /\ stage'[q] = "over"
             /\ body'[q] \in {body[q], "errored"}
      BY <2>3
      DEF CreateSseResponse, ListenSettles, ListenFails, Abort,
          ConnectTimesOut, ConnectRejected, FailAll, CancelAll, Pending
    <3>2. UNCHANGED <<received, delivered>>
      BY <2>3
      DEF CreateSseResponse, ListenSettles, ListenFails, Abort,
          ConnectTimesOut, ConnectRejected, FailAll, CancelAll
    <3> QED
      BY <2>1, <2>2, <3>1, <3>2 DEF ProgressAt
  <2>4. CASE OnConnected(r)
    <3>1. q = r => /\ delivered[q] + 1 \in 1..Len(emitted[q])
                   /\ emitted[q][delivered[q] + 1].type = "Connected"
                   /\ stage[q] \in {"connecting", "live"}
                   /\ delivered'[q] = delivered[q] + 1
                   /\ stage'[q] = "live"
      BY <2>1, <2>4 DEF OnConnected, Handles
    <3>2. q = r => delivered[q] = 0 /\ stage[q] = "connecting"
      BY <2>1, <3>1 DEF ProgressAt, OrderAt
    <3>3. /\ UNCHANGED <<received, body>>
          /\ q # r => UNCHANGED <<stage[q], delivered[q]>>
      BY <2>4 DEF OnConnected, Handles
    <3> QED
      BY <2>1, <2>2, <3>1, <3>2, <3>3 DEF ProgressAt
  <2>5. CASE OnChunk(r)
    <3>1. q = r => delivered[q] + 1 \in 1..Len(emitted[q])
      BY <2>1, <2>5 DEF OnChunk, Handles
    <3>2. q = r => stage[q] = "live"
      BY <2>1, <2>5, <3>1 DEF ProgressAt, OrderAt, OnChunk, Handles
    <3>3. q = r => delivered'[q] = delivered[q] + 1
      BY <2>5 DEF OnChunk, Handles
    <3>4. q # r => UNCHANGED <<stage[q], body[q], received[q], delivered[q]>>
      BY <2>5 DEF OnChunk, Handles, FailAll
    <3>5. q = r => \/ /\ received'[q] = received[q] + 1
                      /\ UNCHANGED <<stage, body>>
                   \/ stage'[q] = "over" /\ body'[q] = "errored"
      BY <2>5, <3>2 DEF OnChunk, FailAll
    <3> QED
      BY <2>1, <2>2, <3>1, <3>2, <3>3, <3>4, <3>5, SMTT(60) DEF ProgressAt
  <2>6. CASE OnDone(r)
    <3>1. q = r => /\ delivered[q] + 1 \in 1..Len(emitted[q])
                   /\ emitted[q][delivered[q] + 1].type = "Done"
                   /\ stage[q] \in {"connecting", "live"}
      BY <2>1, <2>6 DEF OnDone, Handles
    <3>2. q = r => /\ delivered[q] = nextSequence[q]
                   /\ stage[q] = "live"
                   /\ task[q] \in {"finishing", "gone"}
      BY <2>1, <3>1 DEF ProgressAt, OrderAt
    <3>3. q = r => /\ delivered'[q] = delivered[q] + 1
                   /\ stage'[q] = "over"
      BY <2>6 DEF OnDone, Handles
    <3>4. /\ received'[q] = received[q]
          /\ q # r => UNCHANGED <<stage[q], body[q], delivered[q]>>
      BY <2>6 DEF OnDone, Handles
    <3> QED
      BY <2>1, <2>2, <3>1, <3>2, <3>3, <3>4 DEF ProgressAt
  <2>7. CASE OnError(r)
    BY <2>1, <2>2, <2>7 DEF ProgressAt, OnError, Handles, FailAll
  <2>8. CASE ConsumerReads(r) \/ ConsumerCancels(r)
    BY <2>1, <2>2, <2>8 DEF ProgressAt, ConsumerReads, ConsumerCancels
  <2> QED
    BY <1>3, <2>3, <2>4, <2>5, <2>6, <2>7, <2>8 DEF WebviewStep, Receive
<1>4. ASSUME UNCHANGED nativeVars, ClearStep, NEW q \in Requests
      PROVE  ProgressAt(q)'
  <2>1. ProgressAt(q) /\ UNCHANGED <<emitted, nextSequence, task>>
    BY <1>4 DEF Progress, nativeVars
  <2> QED
    BY <1>4, <2>1, SMTT(60)
    DEF ClearStep, ClearBegins, CancelAllNativeSseStreams, CancelAllReturns,
        ClearEnds, ProgressAt, CancelAll, FailAll, Pending, streamVars, BridgeType
<1>5. ASSUME UNCHANGED vars PROVE Progress'
  BY <1>5 DEF vars, streamVars, nativeVars, Progress, ProgressAt
<1> QED
  BY <1>1, <1>2, <1>3, <1>4, <1>5, StepKinds, WebviewQuiet DEF Progress

LEMMA CommandsDiffer ==
  ASSUME NEW q \in Requests, NEW r \in Requests, NEW n
  PROVE  /\ ConnectCommand(q) = ConnectCommand(r) => q = r
         /\ ConnectCommand(q) # DisconnectCommand(r)
         /\ ConnectCommand(q) # AckCommand(r, n)
<1>1. /\ ConnectCommand(q).cmd = "sse_connect"
      /\ DisconnectCommand(r).cmd = "sse_disconnect"
      /\ AckCommand(r, n).cmd = "sse_ack"
      /\ ConnectCommand(q).id = q /\ ConnectCommand(r).id = r
  BY DEF ConnectCommand, DisconnectCommand, AckCommand
<1> QED
  BY <1>1

\* sse_connect is sent by ListenSettles, and only for a current request.
Sends(q) == ListenSettles(q) /\ IsCurrent(q)

LEMMA NewCommands ==
  ASSUME [Next]_vars, NEW q \in Requests, ConnectCommand(q) \in commands'
  PROVE  (ConnectCommand(q) \in commands /\ ~RunConnect(q)) \/ Sends(q)
<1>1. ~RunConnect(q)
  BY DEF RunConnect, Runs
<1>2. ASSUME NEW r \in Requests, CommandStep(r) \/ NativeStep(r)
      PROVE  ConnectCommand(q) \in commands
  BY <1>2 DEF CommandStep, RunConnect, RunDisconnect, RunAck, Runs, NativeStep
<1>3. ASSUME NEW r \in Requests, WebviewStep(r)
      PROVE  ConnectCommand(q) \in commands \/ Sends(q)
  <2>1. CASE ListenSettles(r)
    <3>1. IsCurrent(r) => ConnectCommand(q) \in commands \/ q = r
      BY <2>1, CommandsDiffer DEF ListenSettles
    <3>2. ~IsCurrent(r) => ConnectCommand(q) \in commands
      BY <2>1, CommandsDiffer DEF ListenSettles, CancelAll
    <3> QED
      BY <2>1, <3>1, <3>2 DEF Sends
  <2>2. CASE OnChunk(r)
    BY <2>2, CommandsDiffer DEF OnChunk
  <2>3. CASE \/ CreateSseResponse(r) \/ ListenFails(r) \/ Abort(r)
             \/ ConnectTimesOut(r) \/ ConnectRejected(r) \/ OnConnected(r)
             \/ OnDone(r) \/ OnError(r) \/ ConsumerReads(r) \/ ConsumerCancels(r)
    BY <2>3, CommandsDiffer
    DEF CreateSseResponse, ListenFails, Abort, ConnectTimesOut, ConnectRejected,
        OnConnected, OnDone, OnError, ConsumerReads, ConsumerCancels, CancelAll
  <2> QED
    BY <1>3, <2>1, <2>2, <2>3 DEF WebviewStep, Receive
<1>4. ASSUME ClearStep \/ RunDisconnectAll PROVE ConnectCommand(q) \in commands
  BY <1>4, CommandsDiffer
  DEF ClearStep, ClearBegins, CancelAllNativeSseStreams, CancelAllReturns,
      ClearEnds, RunDisconnectAll, CancelAll
<1> QED
  BY <1>1, <1>2, <1>3, <1>4, StepKinds DEF vars

\* A request leaves "idle" by being created, "over" never, and no stage that
\* precedes sse_connect is entered from a later one.
StageMoves(q) ==
  /\ stage[q] = "idle" => stage'[q] = "idle" \/ CreateSseResponse(q)
  /\ stage[q] # "idle" => stage'[q] # "idle"
  /\ stage[q] = "over" => stage'[q] = "over"
  /\ stage'[q] \in {"idle", "listening", "deaf"} =>
       stage[q] \in {"idle", "listening", "deaf"}

LEMMA StageStep ==
  ASSUME BridgeInv, [Next]_vars, NEW q \in Requests
  PROVE  StageMoves(q)
<1>0. stage \in [Requests -> Stages]
  BY DEF BridgeInv, BridgeType
<1> USE <1>0 DEF StageMoves
<1>1. ASSUME UNCHANGED stage PROVE StageMoves(q)
  BY <1>1
<1>2. ASSUME NEW r \in Requests, WebviewStep(r) PROVE StageMoves(q)
  <2>1. CASE CreateSseResponse(r)
    BY <2>1 DEF CreateSseResponse
  <2>2. CASE \/ ListenSettles(r) \/ ListenFails(r) \/ Abort(r)
             \/ ConnectTimesOut(r) \/ ConnectRejected(r)
    BY <2>2 DEF ListenSettles, ListenFails, Abort, ConnectTimesOut,
                ConnectRejected, CancelAll, FailAll, Pending
  <2>3. CASE Receive(r)
    BY <2>3 DEF Receive, OnConnected, OnChunk, OnDone, OnError, Handles, FailAll
  <2>4. CASE ConsumerReads(r) \/ ConsumerCancels(r)
    <3>1. body[r] = "closed" => stage[r] = "over"
      BY DEF BridgeInv, Progress, ProgressAt
    <3> QED
      BY <2>4, <3>1 DEF ConsumerReads, ConsumerCancels
  <2> QED
    BY <1>2, <2>1, <2>2, <2>3, <2>4 DEF WebviewStep
<1>3. ASSUME ClearStep PROVE StageMoves(q)
  BY <1>3 DEF ClearStep, ClearBegins, CancelAllNativeSseStreams,
              CancelAllReturns, ClearEnds, CancelAll, FailAll, Pending, streamVars
<1> QED
  BY <1>1, <1>2, <1>3, StepKinds, NativeQuiet DEF vars, streamVars

\* CommandFrame and NativeStepFrame, for every step.
LEMMA FrameStep ==
  ASSUME NativeFacts, [Next]_vars, NEW q \in Requests
  PROVE  NativeFrame(q)
<1>1. ASSUME UNCHANGED nativeVars PROVE NativeFrame(q)
  <2>1. emitted[q] \in Seq(Native!Events)
    BY DEF NativeFacts, Native!TypeOK
  <2>2. Len(emitted[q]) \in Nat
    BY <2>1
  <2> QED
    BY <1>1, <2>2 DEF NativeFrame, nativeVars
<1> QED
  BY <1>1, StepKinds, WebviewQuiet, NativeStepFrame, CommandFrame DEF vars

LEMMA ConnectsOnceStep ==
  BridgeInv /\ NativeFacts /\ [Next]_vars => ConnectsOnce'
<1> SUFFICES ASSUME BridgeInv, NativeFacts, [Next]_vars, NEW q \in Requests
             PROVE  /\ stage'[q] \in {"idle", "listening", "deaf"} =>
                         call'[q] = "idle" /\ ConnectCommand(q) \notin commands'
                    /\ ConnectCommand(q) \in commands' => call'[q] = "idle"
  BY DEF ConnectsOnce, ConnectCommand
<1>1. StageMoves(q) /\ NativeFrame(q)
  BY StageStep, FrameStep
<1>2. /\ stage[q] \in {"idle", "listening", "deaf"} =>
           call[q] = "idle" /\ ConnectCommand(q) \notin commands
      /\ ConnectCommand(q) \in commands => call[q] = "idle"
  BY DEF BridgeInv, ConnectsOnce
<1>3. RunConnect(q) => ConnectCommand(q) \in commands
  BY DEF RunConnect, Runs
<1>4. Sends(q) => /\ stage[q] = "listening"
                  /\ stage'[q] = "connecting"
                  /\ UNCHANGED nativeVars
  BY DEF Sends, ListenSettles, BridgeInv, BridgeType
<1>5. CASE stage'[q] \in {"idle", "listening", "deaf"}
  <2>1. call'[q] = "idle"
    BY <1>1, <1>2, <1>3, <1>5 DEF StageMoves, NativeFrame
  <2>2. ConnectCommand(q) \notin commands'
    BY <1>1, <1>2, <1>4, <1>5, NewCommands DEF StageMoves
  <2> QED
    BY <2>1, <2>2
<1>6. CASE ConnectCommand(q) \in commands'
  <2>1. Sends(q) => call'[q] = "idle"
    BY <1>2, <1>4 DEF nativeVars
  <2>2. ConnectCommand(q) \in commands /\ ~RunConnect(q) => call'[q] = "idle"
    BY <1>1, <1>2 DEF NativeFrame
  <2>3. call'[q] = "idle"
    BY <1>6, <2>1, <2>2, NewCommands
  <2>4. stage'[q] \notin {"idle", "listening", "deaf"}
    BY <1>5, <1>6
  <2> QED
    BY <2>3, <2>4
<1> QED
  BY <1>5, <1>6

\* Only the clear moves the gate, and only a new request captures an epoch.
LEMMA GateMoves ==
  ASSUME BridgeType, [Next]_vars
  PROVE  \/ /\ UNCHANGED gateVars
            /\ \A q \in Requests :
                 captured'[q] = captured[q] \/ CreateSseResponse(q)
         \/ /\ ClearStep \/ RunDisconnectAll
            /\ UNCHANGED captured
<1>1. ASSUME NEW r \in Requests, WebviewStep(r)
      PROVE  /\ UNCHANGED gateVars
             /\ \A q \in Requests :
                  captured'[q] = captured[q] \/ CreateSseResponse(q)
  BY <1>1
  DEF WebviewStep, CreateSseResponse, ListenSettles, ListenFails, Abort,
      ConnectTimesOut, ConnectRejected, Receive, OnConnected, OnChunk, OnDone,
      OnError, ConsumerReads, ConsumerCancels, BridgeType
<1>2. ClearStep => UNCHANGED captured
  BY DEF ClearStep, ClearBegins, CancelAllNativeSseStreams, CancelAllReturns,
         ClearEnds
<1> QED
  BY <1>1, <1>2, StepKinds, NativeQuiet DEF vars

LEMMA GateStep == BridgeInv /\ [Next]_vars => Gate'
<1> SUFFICES ASSUME BridgeInv, [Next]_vars PROVE Gate'
  OBVIOUS
<1>0. /\ epoch \in Nat
      /\ MaxClears \in Nat
      /\ captured \in [Requests -> Nat]
      /\ stage \in [Requests -> Stages]
  BY BridgeAssumption DEF BridgeInv, BridgeType
<1>1. Gate /\ \A q \in Requests : StageMoves(q)
  BY StageStep DEF BridgeInv
<1>2. ASSUME UNCHANGED gateVars,
             \A q \in Requests :
               captured'[q] = captured[q] \/ CreateSseResponse(q)
      PROVE  Gate'
  <2>1. \A q \in Requests :
          CreateSseResponse(q) => GateOpen /\ captured'[q] = epoch
    BY <1>0 DEF CreateSseResponse
  <2>2. UNCHANGED <<epoch, clearing, cancelling>> /\ (GateOpen <=> GateOpen')
    BY <1>2 DEF gateVars, GateOpen
  <2>3. \A q \in Requests : captured'[q] <= epoch
    BY <1>0, <1>1, <1>2, <2>1 DEF Gate
  <2>4. ASSUME NEW q \in Requests, stage'[q] # "idle", ~GateOpen
        PROVE  captured'[q] < epoch
    BY <1>1, <1>2, <2>1, <2>4 DEF Gate, StageMoves
  <2>5. ASSUME NEW q \in Requests, clearing = "cancelled" \/ cancelling # "no"
        PROVE  stage'[q] \in {"idle", "over"}
    <3>1. ~GateOpen /\ stage[q] \in {"idle", "over"}
      BY <1>1, <2>5 DEF Gate, GateOpen
    <3> QED
      BY <1>1, <2>1, <3>1 DEF StageMoves
  <2> QED
    BY <1>1, <2>2, <2>3, <2>4, <2>5 DEF Gate
<1>3. ASSUME ClearBegins PROVE Gate'
  BY <1>0, <1>1, <1>3 DEF ClearBegins, Gate, GateOpen, streamVars
<1>4. ASSUME CancelAllNativeSseStreams PROVE Gate'
  <2>1. \A q \in Requests : stage'[q] \in {"idle", "over"}
    BY <1>0, <1>4
    DEF CancelAllNativeSseStreams, CancelAll, FailAll, Pending, Stages
  <2> QED
    BY <1>0, <1>1, <1>4, <2>1 DEF CancelAllNativeSseStreams, Gate
<1>5. ASSUME CancelAllReturns \/ ClearEnds PROVE Gate'
  BY <1>1, <1>5 DEF CancelAllReturns, ClearEnds, Gate, GateOpen, streamVars
<1>6. ASSUME RunDisconnectAll PROVE Gate'
  BY <1>1, <1>6, NativeQuiet DEF Gate, GateOpen, streamVars
<1> QED
  BY <1>2, <1>3, <1>4, <1>5, <1>6, GateMoves DEF ClearStep, BridgeInv

LEMMA PurgedStep == BridgeInv /\ NativeFacts /\ [Next]_vars => Purged'
<1> SUFFICES ASSUME BridgeInv, NativeFacts, [Next]_vars, OrderedCommands, Told',
                    NEW q \in Requests, captured'[q] < epoch', stage'[q] # "idle"
             PROVE  /\ ConnectCommand(q) \notin commands'
                    /\ connections'[q] # q
                    /\ stage'[q] = "over"
  BY DEF Purged, ConnectCommand
<1>1. /\ epoch \in Nat
      /\ captured \in [Requests -> Nat]
      /\ Gate
      /\ StageMoves(q)
      /\ NativeFrame(q)
  BY StageStep, FrameStep, BridgeAssumption DEF BridgeInv, BridgeType
<1>2. ASSUME Told, captured[q] < epoch, stage[q] # "idle"
      PROVE  /\ ConnectCommand(q) \notin commands'
             /\ connections'[q] # q
             /\ stage'[q] = "over"
  <2>1. /\ ConnectCommand(q) \notin commands
        /\ connections[q] # q
        /\ stage[q] = "over"
    BY <1>2 DEF BridgeInv, Purged
  <2>2. ~RunConnect(q) /\ ~Sends(q)
    BY <2>1 DEF RunConnect, Runs, Sends, ListenSettles
  <2> QED
    BY <1>1, <2>1, <2>2, NewCommands DEF StageMoves, NativeFrame
<1>3. ASSUME UNCHANGED gateVars, captured'[q] = captured[q] \/ CreateSseResponse(q)
      PROVE  Told /\ captured[q] < epoch /\ stage[q] # "idle"
  <2>1. ~CreateSseResponse(q)
    BY <1>1, <1>3 DEF CreateSseResponse, gateVars
  <2> QED
    BY <1>1, <1>3, <2>1 DEF gateVars, Told, GateOpen, StageMoves
<1>4. ~ClearBegins /\ ~CancelAllNativeSseStreams
  BY DEF ClearBegins, CancelAllNativeSseStreams, Told, GateOpen
<1>5. ASSUME CancelAllReturns \/ ClearEnds
      PROVE  Told /\ captured[q] < epoch /\ stage[q] # "idle"
  BY <1>5 DEF CancelAllReturns, ClearEnds, Told, GateOpen, streamVars
<1>6. ASSUME RunDisconnectAll
      PROVE  /\ ConnectCommand(q) \notin commands'
             /\ connections'[q] # q
             /\ stage'[q] = "over"
  <2>1. UNCHANGED <<stage, commands>> /\ cancelling = "sent"
    BY <1>6, NativeQuiet DEF streamVars
  <2>2. stage[q] \in {"idle", "over"}
    BY <1>1, <2>1 DEF Gate
  <2>3. ConnectCommand(q) \notin commands
    BY <1>6 DEF RunDisconnectAll
  <2>4. connections'[q] = None
    BY <1>6
    DEF RunDisconnectAll, Native!ActiveIds, Native!DisconnectAll, nativeVars
  <2> QED
    BY <2>1, <2>2, <2>3, <2>4, BridgeAssumption
<1> QED
  BY <1>2, <1>3, <1>4, <1>5, <1>6, GateMoves DEF ClearStep, BridgeInv

\* A chunk that is handled fits into what the native side may send.
LEMMA ChunkBounds ==
  ASSUME BridgeInv, NativeFacts, NEW r \in Requests, Handles(r, "Chunk")
  PROVE  /\ stage[r] = "live"
         /\ received[r] + 1 \in 0..MaxChunks
         /\ emitted[r][delivered[r] + 1].sequence \in 1..MaxChunks
<1>1. emitted[r] \in Seq(Native!Events) /\ nextSequence[r] \in 1..(MaxChunks + 1)
  BY DEF NativeFacts, Native!TypeOK
<1>2. delivered[r] \in Nat /\ received[r] \in Nat
  BY DEF BridgeInv, BridgeType
<1>3. /\ Len(emitted[r]) \in Nat
      /\ nextSequence[r] \in Nat
      /\ nextSequence[r] <= MaxChunks + 1
      /\ MaxChunks \in Nat
  BY <1>1, BridgeAssumption
<1> DEFINE i == delivered[r] + 1
<1>4. i \in 1..Len(emitted[r]) /\ emitted[r][i].type = "Chunk"
  BY <1>2, <1>3 DEF Handles
<1>5. i > 1 /\ i <= nextSequence[r] /\ emitted[r][i].sequence = i - 1
  BY <1>4 DEF BridgeInv, EventOrder, OrderAt
<1>6. stage[r] = "live" /\ delivered[r] = received[r] + 1
  BY <1>2, <1>5 DEF Handles, BridgeInv, Progress, ProgressAt
<1> QED
  BY <1>2, <1>3, <1>5, <1>6

LEMMA DeliveredBound ==
  ASSUME BridgeInv, NativeFacts, NEW r \in Requests,
         delivered[r] < Len(emitted[r])
  PROVE  delivered[r] + 1 \in 0..(MaxChunks + 2)
<1>1. emitted[r] \in Seq(Native!Events) /\ nextSequence[r] \in 1..(MaxChunks + 1)
  BY DEF NativeFacts, Native!TypeOK
<1>2. delivered[r] \in Nat
  BY DEF BridgeInv, BridgeType
<1>3. /\ Len(emitted[r]) \in Nat
      /\ nextSequence[r] \in Nat
      /\ nextSequence[r] <= MaxChunks + 1
      /\ MaxChunks \in Nat
  BY <1>1, BridgeAssumption
<1>4. Len(emitted[r]) <= nextSequence[r] + 1
  BY DEF BridgeInv, EventOrder, OrderAt
<1> QED
  BY <1>2, <1>3, <1>4

LEMMA TypeStep == BridgeInv /\ NativeFacts /\ [Next]_vars => BridgeType'
<1> SUFFICES ASSUME BridgeInv, NativeFacts, [Next]_vars PROVE BridgeType'
  OBVIOUS
<1>0. BridgeType /\ Gate
  BY DEF BridgeInv
<1>1. /\ \A r \in Requests : ConnectCommand(r) \in Commands
      /\ \A r \in Requests : DisconnectCommand(r) \in Commands
      /\ \A r \in Requests : \A n \in 1..MaxChunks : AckCommand(r, n) \in Commands
  BY DEF Commands
<1>2. HighWater \in Nat /\ MaxChunks \in Nat /\ MaxClears \in Nat
  BY BridgeAssumption
<1> USE <1>0, <1>2 DEF BridgeType, Stages
<1>3. ASSUME NEW r \in Requests, CommandStep(r) PROVE BridgeType'
  <2>1. commands' \subseteq commands
    BY <1>3 DEF CommandStep, RunConnect, RunDisconnect, RunAck, Runs
  <2> QED
    BY <1>3, <2>1, NativeQuiet DEF streamVars, gateVars
<1>4. ASSUME NEW r \in Requests, NativeStep(r) PROVE BridgeType'
  BY <1>4 DEF NativeStep, streamVars, gateVars
<1>5. ASSUME RunDisconnectAll PROVE BridgeType'
  BY <1>5, NativeQuiet DEF streamVars
<1>6. ASSUME NEW r \in Requests, WebviewStep(r) PROVE BridgeType'
  <2>1. CASE CreateSseResponse(r) \/ ListenFails(r)
    BY <2>1 DEF CreateSseResponse, ListenFails, gateVars
  <2>2. CASE \/ ListenSettles(r) \/ Abort(r)
             \/ ConnectTimesOut(r) \/ ConnectRejected(r)
    BY <1>1, <2>2 DEF ListenSettles, Abort, ConnectTimesOut, ConnectRejected,
                      CancelAll, FailAll, gateVars
  <2>3. CASE OnConnected(r) \/ OnDone(r) \/ OnError(r)
    <3>1. delivered[r] + 1 \in 0..(MaxChunks + 2)
      BY <2>3, DeliveredBound DEF OnConnected, OnDone, OnError, Handles
    <3>2. delivered' \in [Requests -> 0..(MaxChunks + 2)]
      BY <2>3, <3>1 DEF OnConnected, OnDone, OnError, Handles
    <3>3. CASE OnConnected(r) \/ OnDone(r)
      BY <3>2, <3>3 DEF OnConnected, OnDone, gateVars
    <3>4. CASE OnError(r)
      BY <3>2, <3>4 DEF OnError, FailAll, gateVars
    <3> QED
      BY <2>3, <3>3, <3>4
  <2>4. CASE OnChunk(r)
    <3>1. delivered[r] + 1 \in 0..(MaxChunks + 2)
      BY <2>4, DeliveredBound DEF OnChunk, Handles
    <3>2. /\ received[r] + 1 \in 0..MaxChunks
          /\ emitted[r][delivered[r] + 1].sequence \in 1..MaxChunks
      BY <2>4, ChunkBounds DEF OnChunk
    <3>3. AckCommand(r, emitted[r][delivered[r] + 1].sequence) \in Commands
      BY <1>1, <3>2
    <3>4. delivered' \in [Requests -> 0..(MaxChunks + 2)]
      BY <2>4, <3>1 DEF OnChunk, Handles
    <3>5. UNCHANGED <<captured, gateVars>>
      BY <2>4 DEF OnChunk
    <3>6. CASE buffered[r] < HighWater
      <4>1. buffered[r] + 1 \in 0..HighWater
        BY <3>6
      <4> QED
        BY <2>4, <3>2, <3>3, <3>4, <3>5, <3>6, <4>1 DEF OnChunk, gateVars
    <3>7. CASE ~(buffered[r] < HighWater)
      BY <1>1, <2>4, <3>4, <3>5, <3>7 DEF OnChunk, FailAll, gateVars
    <3> QED
      BY <3>6, <3>7
  <2>5. CASE ConsumerReads(r) \/ ConsumerCancels(r)
    BY <1>1, <2>5 DEF ConsumerReads, ConsumerCancels, gateVars
  <2> QED
    BY <1>6, <2>1, <2>2, <2>3, <2>4, <2>5 DEF WebviewStep, Receive
<1>7. ASSUME ClearBegins \/ CancelAllReturns \/ ClearEnds PROVE BridgeType'
  BY <1>7 DEF ClearBegins, CancelAllReturns, ClearEnds, streamVars
<1>8. ASSUME CancelAllNativeSseStreams PROVE BridgeType'
  <2>1. epoch < 2 * MaxClears
    BY <1>8 DEF CancelAllNativeSseStreams, Gate
  <2> QED
    BY <1>1, <1>8, <2>1 DEF CancelAllNativeSseStreams, CancelAll, FailAll
<1>9. ASSUME UNCHANGED vars PROVE BridgeType'
  BY <1>9 DEF vars, streamVars, gateVars
<1> QED
  BY <1>3, <1>4, <1>5, <1>6, <1>7, <1>8, <1>9, StepKinds DEF ClearStep

LEMMA InitBridge == Init => BridgeInv
<1> SUFFICES ASSUME Init PROVE BridgeInv
  OBVIOUS
<1> USE BridgeAssumption DEF Init, Native!Init
<1>1. BridgeType
  BY DEF BridgeType, Stages
<1>2. EventOrder
  BY DEF EventOrder, OrderAt
<1>3. Progress
  BY DEF Progress, ProgressAt
<1>4. ConnectsOnce /\ Gate /\ Purged
  BY DEF ConnectsOnce, Gate, GateOpen, Purged
<1> QED
  BY <1>1, <1>2, <1>3, <1>4 DEF BridgeInv

-----------------------------------------------------------------------------
(* What follows of every behaviour.                                         *)

\* The invariants of the webview side hold together with those of the native
\* side, which the composition inherits: events of a stream are in order,
\* every request connects at most once and after it listens, and the gate of
\* native-execution-revocation.ts keeps the epochs of the live requests apart.
THEOREM Invariance == Spec => []BridgeInv
<1>1. BridgeInv /\ NativeFacts /\ NativeFacts' /\ [Next]_vars => BridgeInv'
  <2> SUFFICES ASSUME BridgeInv, NativeFacts, NativeFacts', [Next]_vars
               PROVE  BridgeInv'
    OBVIOUS
  <2>1. BridgeType' /\ EventOrder' /\ Progress'
    BY TypeStep, OrderStep, ProgressStep DEF BridgeInv
  <2>2. ConnectsOnce' /\ Gate' /\ Purged'
    BY ConnectsOnceStep, GateStep, PurgedStep
  <2> QED
    BY <2>1, <2>2 DEF BridgeInv
<1> QED
  BY <1>1, InitBridge, NativeFactsHold, PTL DEF Spec

\* Both sides keep their types, and with them the bounds of the buffer, of
\* the chunks and of the epochs.
THEOREM TypeCorrect == Spec => []TypeOK
<1>1. BridgeInv /\ NativeFacts => TypeOK
  BY DEF BridgeInv, NativeFacts, BridgeType, TypeOK
<1> QED
  BY <1>1, Invariance, NativeFactsHold, PTL

\* A response body that ends cleanly holds every chunk the native side sent:
\* createSseResponse closes it on Done alone, which comes after all chunks.
THEOREM CleanEnds == Spec => []CleanEndIsComplete
<1>1. BridgeInv => CleanEndIsComplete
  BY DEF BridgeInv, Progress, ProgressAt, CleanEndIsComplete
<1> QED
  BY <1>1, Invariance, PTL

\* If the commands of a request ran in the order they were sent, a clear would
\* leave no stream of an earlier epoch on the network.
THEOREM OrderedClear == Spec => [](OrderedCommands => RevocationIsComplete)
<1>1. BridgeInv /\ NativeFacts => (OrderedCommands => RevocationIsComplete)
  <2> SUFFICES ASSUME BridgeInv, NativeFacts, OrderedCommands, GateOpen,
                      NEW r \in Requests, Native!Running(r), captured[r] < epoch
               PROVE  r \in aborted
    BY DEF RevocationIsComplete
  <2>1. task[r] \in {"sending", "streaming", "reserving"}
    BY DEF Native!Running
  <2>2. r \in aborted \/ connections[r] = r
    BY <2>1 DEF NativeFacts
  <2>3. stage[r] # "idle"
    BY <2>1 DEF NativeFacts, BridgeInv, ConnectsOnce
  <2>4. connections[r] # r
    BY <2>3 DEF BridgeInv, Purged, Told
  <2> QED
    BY <2>2, <2>4
<1> QED
  BY <1>1, Invariance, NativeFactsHold, PTL

\* sse_disconnect_all cuts off no stream that started after the clear it
\* belongs to: none starts while cancelAllNativeSseStreams waits for it.
THEOREM SparesNewStreams == Spec => RevocationSparesNewStreams
<1>1. BridgeInv /\ NativeFacts /\ [Next]_vars =>
        [\A r \in Requests :
           cancelling = "sent" /\ cancelling' = "done" /\ Native!Registered(r)
             => captured[r] < epoch]_vars
  <2> SUFFICES ASSUME BridgeInv, NativeFacts, cancelling = "sent",
                      NEW r \in Requests, Native!Registered(r)
               PROVE  captured[r] < epoch
    OBVIOUS
  <2>1. stage[r] # "idle"
    BY BridgeAssumption
    DEF NativeFacts, BridgeInv, ConnectsOnce, Native!Registered
  <2> QED
    BY <2>1 DEF BridgeInv, Gate, GateOpen
<1> QED
  BY <1>1, Invariance, NativeFactsHold, PTL DEF Spec, RevocationSparesNewStreams
=============================================================================
