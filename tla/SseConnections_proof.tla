------------------------ MODULE SseConnections_proof ------------------------
(***************************************************************************)
(* Proofs about SseConnections, for any number of calls and ids and any    *)
(* limits.  The types of the flow-control variables need the accounting of *)
(* permits (a returned permit stays below the limit) and the accounting    *)
(* needs that sequence numbers are fresh; the reachability of tasks needs  *)
(* the coupling of the stages of a call with those of its task.            *)
(***************************************************************************)
EXTENDS SseConnections, FiniteSetTheorems, TLAPS

\* Sequence numbers in flight were drawn before.
NumbersAreDrawn ==
  \A c \in Calls : \A n \in inFlight[c] : n < nextSequence[c]

FlowInv == TypeOK /\ PermitAccounting /\ NumbersAreDrawn

\* How far a call got says what its task may do, and a connection in the map
\* belongs to a call that has not been rejected.
StageCoupling ==
  \A c \in Calls :
    /\ call[c] \in {"idle", "building"} => task[c] = "none"
    /\ call[c] = "spawned" => task[c] = "waiting"
    /\ task[c] \notin {"none", "waiting"} => call[c] \in {"accepted", "rejected"}
    /\ Registered(c) => call[c] \notin {"idle", "rejected"}
    /\ c \in attached <=> call[c] = "accepted"
    /\ c \in aborted => call[c] \in {"accepted", "rejected"}

\* A connection is registered under the id of its call.
KeyedById ==
  \A i \in Ids : connections[i] # None => IdOf[connections[i]] = i

ReachInv == StageCoupling /\ RunningTaskIsReachable /\ RejectedCallsStayDark

SseInv == FlowInv /\ KeyedById /\ ReachInv

-----------------------------------------------------------------------------
LEMMA InFlightFinite ==
  ASSUME TypeOK, NEW c \in Calls
  PROVE  IsFiniteSet(inFlight[c]) /\ Cardinality(inFlight[c]) \in Nat
<1>1. inFlight[c] \subseteq 1..MaxChunks
  BY DEF TypeOK
<1>2. IsFiniteSet(1..MaxChunks)
  BY SseAssumption, FS_Interval
<1> QED
  BY <1>1, <1>2, FS_Subset, FS_CardinalityType

\* An acknowledgement keeps the sum of permits and events in flight.
LEMMA AcknowledgeKeepsSum ==
  ASSUME FlowInv, NEW c \in Calls, NEW n \in 1..MaxChunks, Acknowledge(c, n)
  PROVE  /\ permits' \in [Calls -> 0..MaxInFlight]
         /\ inFlight' \in [Calls -> SUBSET (1..MaxChunks)]
         /\ PermitAccounting'
         /\ \A d \in Calls : inFlight'[d] \subseteq inFlight[d]
<1> USE SseAssumption DEF FlowInv, TypeOK
<1>1. CASE n \notin inFlight[c]
  BY <1>1 DEF Acknowledge, PermitAccounting
<1>2. CASE n \in inFlight[c]
  <2>1. /\ IsFiniteSet(inFlight[c])
        /\ Cardinality(inFlight[c]) \in Nat
    BY InFlightFinite
  <2>2. Cardinality(inFlight[c] \ {n}) = Cardinality(inFlight[c]) - 1
    BY <1>2, <2>1, FS_RemoveElement
  <2>3. Cardinality(inFlight[c] \ {n}) \in Nat
    BY <2>1, FS_RemoveElement, FS_CardinalityType
  <2>4. permits[c] + Cardinality(inFlight[c]) = MaxInFlight
    BY DEF PermitAccounting
  <2>5. permits[c] + 1 \in 0..MaxInFlight
    BY <2>1, <2>2, <2>3, <2>4
  <2>6. /\ permits' = [permits EXCEPT ![c] = @ + 1]
        /\ inFlight' = [inFlight EXCEPT ![c] = @ \ {n}]
    BY <1>2 DEF Acknowledge
  <2>7. permits'[c] + Cardinality(inFlight'[c]) = MaxInFlight
    BY <2>1, <2>2, <2>4, <2>6
  <2>8. \A d \in Calls \ {c} : permits'[d] = permits[d] /\ inFlight'[d] = inFlight[d]
    BY <2>6
  <2>9. PermitAccounting'
    BY <2>7, <2>8 DEF PermitAccounting
  <2> QED
    BY <2>5, <2>6, <2>9
<1> QED
  BY <1>1, <1>2

\* An event takes a permit and enters its number.
LEMMA EmitChunkKeepsSum ==
  ASSUME FlowInv, NEW c \in Calls, EmitChunk(c)
  PROVE  /\ permits' \in [Calls -> 0..MaxInFlight]
         /\ inFlight' \in [Calls -> SUBSET (1..MaxChunks)]
         /\ nextSequence' \in [Calls -> 1..(MaxChunks + 1)]
         /\ PermitAccounting'
         /\ NumbersAreDrawn'
<1> USE SseAssumption DEF FlowInv, TypeOK
<1> DEFINE n == nextSequence[c]
<1>1. n \in 1..MaxChunks /\ permits[c] \in 1..MaxInFlight
  BY DEF EmitChunk
<1>2. /\ permits' = [permits EXCEPT ![c] = @ - 1]
      /\ inFlight' = [inFlight EXCEPT ![c] = @ \cup {n}]
      /\ nextSequence' = [nextSequence EXCEPT ![c] = @ + 1]
  BY DEF EmitChunk
<1>3. n \notin inFlight[c]
  BY <1>1 DEF NumbersAreDrawn
<1>4. /\ Cardinality(inFlight[c]) \in Nat
      /\ Cardinality(inFlight[c] \cup {n}) = Cardinality(inFlight[c]) + 1
  BY <1>3, InFlightFinite, FS_AddElement
<1>5. permits[c] + Cardinality(inFlight[c]) = MaxInFlight
  BY DEF PermitAccounting
<1>6. permits'[c] + Cardinality(inFlight'[c]) = MaxInFlight
  BY <1>1, <1>2, <1>4, <1>5
<1>7. \A d \in Calls \ {c} : /\ permits'[d] = permits[d]
                             /\ inFlight'[d] = inFlight[d]
                             /\ nextSequence'[d] = nextSequence[d]
  BY <1>2
<1>8. PermitAccounting'
  BY <1>6, <1>7 DEF PermitAccounting
<1>9. nextSequence'[c] = n + 1 /\ inFlight'[c] = inFlight[c] \cup {n}
  BY <1>2
<1>10. \A m \in inFlight[c] : m < n + 1
  BY <1>1 DEF NumbersAreDrawn
<1>11. NumbersAreDrawn'
  <2> SUFFICES ASSUME NEW d \in Calls, NEW m \in inFlight'[d]
               PROVE  m < nextSequence'[d]
    BY DEF NumbersAreDrawn
  <2>1. CASE d = c
    BY <2>1, <1>1, <1>9, <1>10
  <2>2. CASE d # c
    BY <2>2, <1>7 DEF NumbersAreDrawn
  <2> QED
    BY <2>1, <2>2
<1>12. permits' \in [Calls -> 0..MaxInFlight]
  BY <1>1, <1>2
<1>13. inFlight' \in [Calls -> SUBSET (1..MaxChunks)]
  BY <1>1, <1>2
<1>14. nextSequence' \in [Calls -> 1..(MaxChunks + 1)]
  BY <1>1, <1>2
<1> QED
  BY <1>8, <1>11, <1>12, <1>13, <1>14

-----------------------------------------------------------------------------
LEMMA FlowInit == Init => FlowInv
<1> SUFFICES ASSUME Init PROVE FlowInv
  OBVIOUS
<1> USE SseAssumption
<1>1. TypeOK
  BY DEF Init, TypeOK, CallStages, TaskStages
<1>2. PermitAccounting
  BY FS_EmptySet DEF Init, PermitAccounting
<1>3. NumbersAreDrawn
  BY DEF Init, NumbersAreDrawn
<1> QED
  BY <1>1, <1>2, <1>3 DEF FlowInv

\* The flow-control variables of a step that leaves them alone.
LEMMA FlowUnchanged ==
  ASSUME FlowInv, UNCHANGED flowVars
  PROVE  PermitAccounting' /\ NumbersAreDrawn'
BY DEF FlowInv, PermitAccounting, NumbersAreDrawn, flowVars

LEMMA EmitType ==
  ASSUME TypeOK, NEW c \in Calls, NEW e \in Events, Emit(c, e)
  PROVE  emitted' \in [Calls -> Seq(Events)]
BY DEF Emit, TypeOK

LEMMA EventTypes ==
  /\ Connected \in Events /\ Done \in Events /\ Error \in Events
  /\ \A n \in 1..MaxChunks : Chunk(n) \in Events
BY DEF Events

LEMMA TaskStepKeepsFlow ==
  ASSUME FlowInv, NEW c \in Calls, TaskStep(c)
  PROVE  FlowInv'
<1> USE SseAssumption DEF TypeOK, CallStages, TaskStages
<1> TypeOK
  BY DEF FlowInv
<1>1. CASE ResponseArrives(c)
  <2>1. emitted' \in [Calls -> Seq(Events)]
    BY <1>1, EmitType, EventTypes DEF ResponseArrives
  <2> QED
    BY <2>1, <1>1, FlowUnchanged DEF ResponseArrives, FlowInv, flowVars
<1>2. CASE BytesArrive(c)
  BY <1>2, FlowUnchanged DEF BytesArrive, FlowInv, flowVars
<1>3. CASE EmitChunk(c)
  <2>1. nextSequence[c] \in 1..MaxChunks
    BY <1>3 DEF EmitChunk
  <2>2. emitted' \in [Calls -> Seq(Events)]
    BY <2>1, <1>3, EmitType, EventTypes DEF EmitChunk
  <2>3. task' \in [Calls -> TaskStages]
    BY <1>3 DEF EmitChunk
  <2> QED
    BY <2>2, <2>3, <1>3, EmitChunkKeepsSum DEF EmitChunk, FlowInv
<1>4. CASE EmitFails(c)
  <2>1. nextSequence' \in [Calls -> 1..(MaxChunks + 1)]
    BY <1>4 DEF EmitFails
  <2>2. NumbersAreDrawn'
    BY <1>4 DEF EmitFails, FlowInv, NumbersAreDrawn
  <2>3. PermitAccounting'
    BY <1>4 DEF EmitFails, FlowInv, PermitAccounting
  <2> QED
    BY <2>1, <2>2, <2>3, <1>4 DEF EmitFails, FlowInv
<1>5. CASE StreamFails(c)
  <2>1. emitted' \in [Calls -> Seq(Events)]
    BY <1>5, EmitType, EventTypes DEF StreamFails
  <2> QED
    BY <2>1, <1>5, FlowUnchanged DEF StreamFails, FlowInv, flowVars
<1>6. CASE StreamCompletes(c)
  <2>1. emitted' \in [Calls -> Seq(Events)]
    BY <1>6, EmitType, EventTypes DEF StreamCompletes
  <2> QED
    BY <2>1, <1>6, FlowUnchanged DEF StreamCompletes, FlowInv, flowVars
<1>7. CASE TaskCleansUp(c)
  <2>1. connections' \in [Ids -> Calls \cup {None}]
    BY <1>7 DEF TaskCleansUp, RemoveSseConnection
  <2> QED
    BY <2>1, <1>7, FlowUnchanged DEF TaskCleansUp, FlowInv, flowVars
<1>8. CASE TaskDropped(c)
  BY <1>8, FlowUnchanged DEF TaskDropped, FlowInv, flowVars
<1> QED
  BY <1>1, <1>2, <1>3, <1>4, <1>5, <1>6, <1>7, <1>8 DEF TaskStep

LEMMA FlowStep == FlowInv /\ [Next]_vars => FlowInv'
<1> SUFFICES ASSUME FlowInv, [Next]_vars PROVE FlowInv'
  OBVIOUS
<1> USE SseAssumption DEF TypeOK, CallStages, TaskStages
<1> TypeOK
  BY DEF FlowInv
<1>1. ASSUME NEW c \in Calls, Connect(c) PROVE FlowInv'
  <2>1. connections' \in [Ids -> Calls \cup {None}]
    <3>1. \/ connections' = [connections EXCEPT ![IdOf[c]] = c]
          \/ connections' = connections
      BY <1>1 DEF Connect
    <3> QED
      BY <3>1
  <2>2. call' \in [Calls -> CallStages]
    BY <1>1 DEF Connect
  <2> QED
    BY <2>1, <2>2, <1>1, FlowUnchanged DEF Connect, FlowInv, flowVars
<1>2. ASSUME NEW c \in Calls, BuildFails(c) PROVE FlowInv'
  <2>1. connections' \in [Ids -> Calls \cup {None}]
    BY <1>2 DEF BuildFails, RemoveSseConnection
  <2> QED
    BY <2>1, <1>2, FlowUnchanged DEF BuildFails, FlowInv, flowVars
<1>3. ASSUME NEW c \in Calls, SpawnTask(c) PROVE FlowInv'
  BY <1>3, FlowUnchanged DEF SpawnTask, FlowInv, flowVars
<1>4. ASSUME NEW c \in Calls, AttachTask(c) PROVE FlowInv'
  <2>1. attached' \subseteq Calls /\ aborted' \subseteq Calls
    BY <1>4 DEF AttachTask
  <2>2. /\ call' \in [Calls -> CallStages]
        /\ task' \in [Calls -> TaskStages]
    BY <1>4 DEF AttachTask
  <2> QED
    BY <2>1, <2>2, <1>4, FlowUnchanged DEF AttachTask, FlowInv, flowVars
<1>5. ASSUME NEW c \in Calls, TaskStep(c) PROVE FlowInv'
  BY <1>5, TaskStepKeepsFlow
<1>6. ASSUME NEW i \in Ids, Disconnect(i) PROVE FlowInv'
  BY <1>6, FlowUnchanged DEF Disconnect, AbortTasks, FlowInv, flowVars
<1>7. ASSUME NEW i \in Ids, NEW n \in 1..MaxChunks, Ack(i, n) PROVE FlowInv'
  <2>1. connections[i] \in Calls /\ Acknowledge(connections[i], n)
    BY <1>7 DEF Ack
  <2>2. /\ permits' \in [Calls -> 0..MaxInFlight]
        /\ inFlight' \in [Calls -> SUBSET (1..MaxChunks)]
        /\ PermitAccounting'
        /\ \A d \in Calls : inFlight'[d] \subseteq inFlight[d]
    BY <2>1, AcknowledgeKeepsSum
  <2>3. NumbersAreDrawn'
    BY <2>2, <1>7 DEF Ack, FlowInv, NumbersAreDrawn
  <2> QED
    BY <2>2, <2>3, <1>7 DEF Ack, FlowInv
<1>8. CASE DisconnectAll
  <2>1. connections' \in [Ids -> Calls \cup {None}] /\ aborted' \subseteq Calls
    BY <1>8 DEF DisconnectAll, AbortTasks
  <2> QED
    BY <2>1, <1>8, FlowUnchanged DEF DisconnectAll, FlowInv, flowVars
<1>9. CASE UNCHANGED vars
  BY <1>9, FlowUnchanged DEF vars, FlowInv, flowVars
<1> QED
  BY <1>1, <1>2, <1>3, <1>4, <1>5, <1>6, <1>7, <1>8, <1>9
  DEF Next, ConnectStep

\* Every variable keeps its type: permits never exceed the limit and sequence
\* numbers stay within the budget.
THEOREM TypeCorrect == Spec => []TypeOK
<1>1. FlowInv => TypeOK
  BY DEF FlowInv
<1> QED
  BY <1>1, FlowInit, FlowStep, PTL DEF Spec

\* For every connection the permits and the events in flight add up to the
\* limit, so the webview never has more than the limit unacknowledged and a
\* consumer that acknowledges always gets its permits back.
THEOREM PermitsAccounted == Spec => []PermitAccounting
<1>1. FlowInv => PermitAccounting
  BY DEF FlowInv
<1> QED
  BY <1>1, FlowInit, FlowStep, PTL DEF Spec

-----------------------------------------------------------------------------
LEMMA ReachInit == Init => ReachInv
BY SseAssumption
   DEF Init, ReachInv, StageCoupling, RunningTaskIsReachable,
       RejectedCallsStayDark, Registered, Running

\* A task that runs or is told to abort moves on, to the network or away.
LEMMA TaskMoves ==
  ASSUME TypeOK, ReachInv, NEW c \in Calls,
         NEW s \in {"streaming", "reserving", "finishing", "gone"},
         Running(c) \/ (s = "gone" /\ task[c] = "waiting" /\ c \in aborted),
         task' = [task EXCEPT ![c] = s],
         UNCHANGED <<connections, attached, call, aborted>>
  PROVE  ReachInv'
<1>1. /\ task'[c] = s
      /\ \A d \in Calls \ {c} : task'[d] = task[d]
  BY DEF TypeOK
<1>2. \A d \in Calls : Registered(d)' <=> Registered(d)
  BY DEF Registered
<1>3. Running(c)' => Running(c)
  BY <1>1 DEF Running
<1>4. StageCoupling'
  <2>1. call[c] \in {"accepted", "rejected"}
    BY DEF ReachInv, StageCoupling, Running
  <2> QED
    BY <1>1, <1>2, <2>1 DEF ReachInv, StageCoupling, Running
<1>5. RunningTaskIsReachable'
  BY <1>1, <1>2, <1>3 DEF ReachInv, RunningTaskIsReachable, Running
<1>6. RejectedCallsStayDark'
  BY <1>1 DEF ReachInv, RejectedCallsStayDark, StageCoupling, Running
<1> QED
  BY <1>4, <1>5, <1>6 DEF ReachInv

LEMMA TaskStepKeepsReach ==
  ASSUME TypeOK, ReachInv, NEW c \in Calls, TaskStep(c)
  PROVE  ReachInv'
<1> USE SseAssumption
<1>1. CASE ResponseArrives(c)
  BY <1>1, TaskMoves DEF ResponseArrives, Running
<1>2. CASE BytesArrive(c)
  BY <1>2, TaskMoves DEF BytesArrive, Running
<1>3. CASE EmitChunk(c)
  <2>1. PICK s \in {"streaming", "reserving"} : task' = [task EXCEPT ![c] = s]
    BY <1>3 DEF EmitChunk
  <2> QED
    BY <1>3, <2>1, TaskMoves DEF EmitChunk, Running
<1>4. CASE EmitFails(c)
  BY <1>4, TaskMoves DEF EmitFails, Running
<1>5. CASE StreamFails(c)
  BY <1>5, TaskMoves DEF StreamFails, Running
<1>6. CASE StreamCompletes(c)
  BY <1>6, TaskMoves DEF StreamCompletes, Running
<1>8. CASE TaskDropped(c)
  BY <1>8, TaskMoves DEF TaskDropped, Running
<1> USE DEF TypeOK, ReachInv, StageCoupling, RunningTaskIsReachable,
        RejectedCallsStayDark, Registered, Running
<1>7. CASE TaskCleansUp(c)
  <2>1. \A d \in Calls \ {c} : Registered(d)' <=> Registered(d)
    BY <1>7 DEF TaskCleansUp, RemoveSseConnection
  <2>2. ~Registered(c)'
    BY <1>7 DEF TaskCleansUp, RemoveSseConnection
  <2>3. /\ task' = [task EXCEPT ![c] = "gone"]
        /\ UNCHANGED <<attached, call, aborted>>
        /\ task[c] = "finishing"
    BY <1>7 DEF TaskCleansUp
  <2> HIDE DEF Registered
  <2> QED
    BY <2>1, <2>2, <2>3
<1> QED
  BY <1>1, <1>2, <1>3, <1>4, <1>5, <1>6, <1>7, <1>8 DEF TaskStep

\* Taking connections out of the map while their attached tasks are told to
\* abort leaves no running task behind.
LEMMA RemovalKeepsReach ==
  ASSUME TypeOK, ReachInv, NEW removed \in SUBSET Calls,
         AbortTasks(removed), UNCHANGED <<attached, call, task>>,
         \A c \in Calls : Registered(c)' <=> Registered(c) /\ c \notin removed
  PROVE  ReachInv'
<1> aborted' = aborted \cup (removed \cap attached)
  BY DEF AbortTasks
<1> QED
  BY DEF ReachInv, StageCoupling, RunningTaskIsReachable,
         RejectedCallsStayDark, Running

LEMMA KeyedStep == TypeOK /\ KeyedById /\ [Next]_vars => KeyedById'
<1> SUFFICES ASSUME TypeOK, KeyedById, [Next]_vars PROVE KeyedById'
  OBVIOUS
<1> USE SseAssumption
<1> DEFINE KeptOrKeyed(i) == connections'[i] \in {connections[i], None}
                               \/ IdOf[connections'[i]] = i
<1>1. ASSUME NEW i \in Ids PROVE KeptOrKeyed(i)
  <2>1. ASSUME NEW c \in Calls, Connect(c) \/ ConnectStep(c) PROVE KeptOrKeyed(i)
    BY <2>1 DEF ConnectStep, Connect, BuildFails, SpawnTask, AttachTask,
                RemoveSseConnection, TypeOK
  <2>2. ASSUME NEW c \in Calls, TaskStep(c) PROVE KeptOrKeyed(i)
    BY <2>2 DEF TaskStep, ResponseArrives, BytesArrive, EmitChunk, EmitFails,
                StreamFails, StreamCompletes, TaskCleansUp, TaskDropped,
                RemoveSseConnection, TypeOK
  <2>3. ASSUME NEW j \in Ids, Disconnect(j) PROVE KeptOrKeyed(i)
    BY <2>3 DEF Disconnect, TypeOK
  <2>4. ASSUME NEW j \in Ids, NEW n \in 1..MaxChunks, Ack(j, n) PROVE KeptOrKeyed(i)
    BY <2>4 DEF Ack
  <2>5. CASE DisconnectAll
    BY <2>5 DEF DisconnectAll
  <2>6. CASE UNCHANGED vars
    BY <2>6 DEF vars
  <2> QED
    BY <2>1, <2>2, <2>3, <2>4, <2>5, <2>6 DEF Next
<1> QED
  BY <1>1 DEF KeyedById

LEMMA ReachStep == TypeOK /\ KeyedById /\ ReachInv /\ [Next]_vars => ReachInv'
<1> SUFFICES ASSUME TypeOK, KeyedById, ReachInv, [Next]_vars PROVE ReachInv'
  OBVIOUS
<1> USE SseAssumption
    DEF ReachInv, StageCoupling, RunningTaskIsReachable, RejectedCallsStayDark,
        Running
<1>1. ASSUME NEW c \in Calls, Connect(c) PROVE ReachInv'
  <2>1. CASE connections[IdOf[c]] = None /\ Cardinality(ActiveIds) < MaxActive
    <3>1. /\ connections' = [connections EXCEPT ![IdOf[c]] = c]
          /\ call' = [call EXCEPT ![c] = "building"]
          /\ UNCHANGED <<attached, task, aborted>>
          /\ call[c] = "idle"
      BY <1>1, <2>1 DEF Connect
    <3>2. \A d \in Calls \ {c} : Registered(d)' <=> Registered(d)
      BY <2>1, <3>1 DEF Registered, TypeOK
    <3> QED
      BY <3>1, <3>2 DEF TypeOK
  <2>2. CASE ~(connections[IdOf[c]] = None /\ Cardinality(ActiveIds) < MaxActive)
    BY <1>1, <2>2 DEF Connect, Registered, TypeOK
  <2> QED
    BY <2>1, <2>2
<1>2. ASSUME NEW c \in Calls, BuildFails(c) PROVE ReachInv'
  <2>1. /\ ~Registered(c)'
        /\ \A d \in Calls \ {c} : Registered(d)' <=> Registered(d)
    BY <1>2 DEF BuildFails, RemoveSseConnection, Registered, TypeOK
  <2> QED
    BY <2>1, <1>2 DEF BuildFails, TypeOK
<1>3. ASSUME NEW c \in Calls, SpawnTask(c) PROVE ReachInv'
  BY <1>3 DEF SpawnTask, Registered, TypeOK
<1>4. ASSUME NEW c \in Calls, AttachTask(c) PROVE ReachInv'
  <2>1. \A d \in Calls : Registered(d)' <=> Registered(d)
    BY <1>4 DEF AttachTask, Registered
  <2> QED
    <3>1. CASE Registered(c)
      <4>1. /\ attached' = attached \cup {c}
            /\ call' = [call EXCEPT ![c] = "accepted"]
            /\ task' = [task EXCEPT ![c] = "sending"]
            /\ aborted' = aborted
        BY <3>1, <1>4 DEF AttachTask
      <4>2. StageCoupling'
        BY <2>1, <4>1 DEF TypeOK
      <4>3. RunningTaskIsReachable'
        BY <2>1, <3>1, <4>1 DEF TypeOK
      <4>4. RejectedCallsStayDark'
        BY <4>1 DEF TypeOK
      <4> QED
        BY <4>2, <4>3, <4>4
    <3>2. CASE ~Registered(c)
      BY <2>1, <3>2, <1>4 DEF AttachTask, TypeOK
    <3> QED
      BY <3>1, <3>2
<1>5. ASSUME NEW c \in Calls, TaskStep(c) PROVE ReachInv'
  BY <1>5, TaskStepKeepsReach
<1>6. ASSUME NEW i \in Ids, Disconnect(i) PROVE ReachInv'
  <2> DEFINE removed == {connections[i]}
  <2>1. removed \in SUBSET Calls
    BY <1>6 DEF Disconnect, TypeOK
  <2>2. ASSUME NEW c \in Calls
        PROVE  Registered(c)' <=> Registered(c) /\ c \notin removed
    <3>1. connections' = [connections EXCEPT ![i] = None] /\ IdOf[c] \in Ids
      BY <1>6 DEF Disconnect
    <3>2. CASE IdOf[c] = i
      BY <3>1, <3>2 DEF Registered, TypeOK
    <3>3. CASE IdOf[c] # i
      <4>1. connections'[IdOf[c]] = connections[IdOf[c]]
        BY <3>1, <3>3 DEF TypeOK
      <4>2. connections[IdOf[c]] = c => c # connections[i]
        BY <1>6, <3>1, <3>3 DEF Disconnect, KeyedById
      <4> QED
        BY <4>1, <4>2 DEF Registered
    <3> QED
      BY <3>2, <3>3
  <2>3. AbortTasks(removed) /\ UNCHANGED <<attached, call, task>>
    BY <1>6 DEF Disconnect
  <2> HIDE DEF removed
  <2> QED
    BY <2>1, <2>2, <2>3, RemovalKeepsReach
<1>7. ASSUME NEW i \in Ids, NEW n \in 1..MaxChunks, Ack(i, n) PROVE ReachInv'
  BY <1>7 DEF Ack, Registered
<1>8. CASE DisconnectAll
  <2> DEFINE removed == {connections[i] : i \in ActiveIds}
  <2>1. removed \in SUBSET Calls
    BY DEF ActiveIds, TypeOK
  <2>2. \A c \in Calls : Registered(c)' <=> Registered(c) /\ c \notin removed
    BY <1>8 DEF DisconnectAll, Registered, ActiveIds, TypeOK
  <2>3. AbortTasks(removed) /\ UNCHANGED <<attached, call, task>>
    BY <1>8 DEF DisconnectAll
  <2> HIDE DEF removed
  <2> QED
    BY <2>1, <2>2, <2>3, RemovalKeepsReach
<1>9. CASE UNCHANGED vars
  BY <1>9 DEF vars, Registered
<1> QED
  BY <1>1, <1>2, <1>3, <1>4, <1>5, <1>6, <1>7, <1>8, <1>9
  DEF Next, ConnectStep

\* The flow control and the coupling of calls, tasks and the map hold in every
\* reachable state of the native side.
THEOREM Invariance == Spec => []SseInv
<1>1. Init => KeyedById
  BY DEF Init, KeyedById
<1>2. FlowInv => TypeOK
  BY DEF FlowInv
<1> QED
  BY <1>1, <1>2, FlowInit, FlowStep, KeyedStep, ReachInit, ReachStep, PTL
  DEF Spec, SseInv

\* Disconnecting and shutting down reach every task that talks to the network.
THEOREM RunningTasksReachable == Spec => []RunningTaskIsReachable
<1>1. SseInv => RunningTaskIsReachable
  BY DEF SseInv, ReachInv
<1> QED
  BY <1>1, Invariance, PTL

\* A call that was cancelled during its setup never sends its request.
THEOREM RejectedCallsDark == Spec => []RejectedCallsStayDark
<1>1. SseInv => RejectedCallsStayDark
  BY DEF SseInv, ReachInv
<1> QED
  BY <1>1, Invariance, PTL

\* Both at once, as the run checks them.
THEOREM TasksReachable == Spec => []TasksAreReachable
<1>1. RunningTaskIsReachable /\ RejectedCallsStayDark => TasksAreReachable
  BY DEF TasksAreReachable
<1> QED
  BY <1>1, RunningTasksReachable, RejectedCallsDark, PTL

-----------------------------------------------------------------------------
\* The number of active ids grows only when a call finds room for its own.
LEMMA LimitStep == TypeOK /\ ActiveLimit /\ [Next]_vars => ActiveLimit'
<1> SUFFICES ASSUME TypeOK, ActiveLimit, [Next]_vars PROVE ActiveLimit'
  OBVIOUS
<1> USE SseAssumption
<1>1. IsFiniteSet(ActiveIds) /\ Cardinality(ActiveIds) \in Nat
  BY FS_Subset, FS_CardinalityType DEF ActiveIds
<1>2. ASSUME ActiveIds' \subseteq ActiveIds PROVE ActiveLimit'
  <2>1. Cardinality(ActiveIds') \in Nat /\ Cardinality(ActiveIds') <= Cardinality(ActiveIds)
    BY <1>1, <1>2, FS_Subset, FS_CardinalityType
  <2> QED
    BY <1>1, <2>1 DEF ActiveLimit
<1>3. ASSUME NEW c \in Calls, Connect(c) PROVE ActiveLimit'
  <2>1. CASE connections[IdOf[c]] = None /\ Cardinality(ActiveIds) < MaxActive
    <3>1. ActiveIds' = ActiveIds \cup {IdOf[c]} /\ IdOf[c] \notin ActiveIds
      BY <1>3, <2>1 DEF Connect, ActiveIds, TypeOK
    <3>2. Cardinality(ActiveIds') = Cardinality(ActiveIds) + 1
      BY <1>1, <3>1, FS_AddElement
    <3> QED
      BY <1>1, <2>1, <3>2 DEF ActiveLimit
  <2>2. CASE ~(connections[IdOf[c]] = None /\ Cardinality(ActiveIds) < MaxActive)
    <3>1. ActiveIds' \subseteq ActiveIds
      BY <1>3, <2>2 DEF Connect, ActiveIds
    <3> QED
      BY <1>2, <3>1
  <2> QED
    BY <2>1, <2>2
<1>4. ASSUME NEW c \in Calls, ConnectStep(c) PROVE ActiveIds' \subseteq ActiveIds
  BY <1>4 DEF ConnectStep, BuildFails, SpawnTask, AttachTask,
              RemoveSseConnection, ActiveIds, TypeOK
<1>5. ASSUME NEW c \in Calls, TaskStep(c) PROVE ActiveIds' \subseteq ActiveIds
  BY <1>5 DEF TaskStep, ResponseArrives, BytesArrive, EmitChunk, EmitFails,
              StreamFails, StreamCompletes, TaskCleansUp, TaskDropped,
              RemoveSseConnection, ActiveIds, TypeOK
<1>6. ASSUME NEW i \in Ids, Disconnect(i) PROVE ActiveIds' \subseteq ActiveIds
  BY <1>6 DEF Disconnect, ActiveIds, TypeOK
<1>7. ASSUME NEW i \in Ids, NEW n \in 1..MaxChunks, Ack(i, n)
      PROVE  ActiveIds' \subseteq ActiveIds
  BY <1>7 DEF Ack, ActiveIds
<1>8. DisconnectAll => ActiveIds' \subseteq ActiveIds
  BY DEF DisconnectAll, ActiveIds
<1>9. UNCHANGED vars => ActiveIds' \subseteq ActiveIds
  BY DEF vars, ActiveIds
<1> QED
  BY <1>2, <1>3, <1>4, <1>5, <1>6, <1>7, <1>8, <1>9 DEF Next

\* There are never more active connections than the limit.
THEOREM LimitHolds == Spec => []ActiveLimit
<1>1. Init => ActiveLimit
  <2>1. Init => ActiveIds = {}
    BY DEF Init, ActiveIds
  <2> QED
    BY <2>1, FS_EmptySet, SseAssumption DEF ActiveLimit
<1>2. FlowInv => TypeOK
  BY DEF FlowInv
<1> QED
  BY <1>1, <1>2, FlowInit, FlowStep, LimitStep, PTL DEF Spec

\* Both limits at once, as the run checks them.
THEOREM BothLimits == Spec => []LimitsHold
<1>1. PermitAccounting /\ ActiveLimit => LimitsHold
  BY DEF LimitsHold
<1> QED
  BY <1>1, PermitsAccounted, LimitHolds, PTL

-----------------------------------------------------------------------------
\* A step that unregisters a connection finds it not attached yet, tells its
\* task to abort, or is the clean-up of that very connection.
LEMMA RemovalStep ==
  TypeOK /\ KeyedById /\ ReachInv /\ [Next]_vars => [RemovalIsOwn]_vars
<1> SUFFICES ASSUME TypeOK, KeyedById, ReachInv, Next PROVE RemovalIsOwn
  BY DEF RemovalIsOwn
<1> USE SseAssumption
<1>1. ASSUME NEW c \in Calls, Registered(c), connections' = connections
      PROVE  connections'[IdOf[c]] = c
  BY <1>1 DEF Registered
<1>2. ASSUME NEW d \in Calls, Connect(d) PROVE RemovalIsOwn
  BY <1>2 DEF Connect, RemovalIsOwn, Registered, TypeOK
<1>3. ASSUME NEW d \in Calls, ConnectStep(d) PROVE RemovalIsOwn
  BY <1>3 DEF ConnectStep, BuildFails, SpawnTask, AttachTask,
              RemoveSseConnection, RemovalIsOwn, Registered, TypeOK
<1>4. ASSUME NEW d \in Calls, TaskStep(d) PROVE RemovalIsOwn
  <2>1. CASE TaskCleansUp(d)
    BY <2>1 DEF TaskCleansUp, RemoveSseConnection, RemovalIsOwn, Registered,
                TypeOK
  <2>2. CASE ~TaskCleansUp(d)
    <3>1. connections' = connections
      BY <1>4, <2>2 DEF TaskStep, ResponseArrives, BytesArrive, EmitChunk,
         EmitFails, StreamFails, StreamCompletes, TaskDropped
    <3> QED
      BY <1>1, <3>1 DEF RemovalIsOwn
  <2> QED
    BY <2>1, <2>2
<1>5. ASSUME AbortTasks({connections[i] : i \in ActiveIds}), call' = call,
             NEW c \in Calls, Registered(c)
      PROVE  c \in aborted' \/ call'[c] \in {"building", "spawned", "rejected"}
  <2>1. c \in {connections[i] : i \in ActiveIds}
    BY <1>5 DEF Registered, ActiveIds
  <2>2. c \in attached \/ call[c] \in {"building", "spawned"}
    BY <1>5 DEF ReachInv, StageCoupling, TypeOK, CallStages
  <2> QED
    BY <1>5, <2>1, <2>2 DEF AbortTasks
<1>6. ASSUME NEW i \in Ids, Disconnect(i) PROVE RemovalIsOwn
  <2> SUFFICES ASSUME NEW c \in Calls, Registered(c), connections'[IdOf[c]] # c
               PROVE  c \in aborted' \/ call'[c] \in {"building", "spawned", "rejected"}
    BY DEF RemovalIsOwn
  <2>1. c = connections[i]
    BY <1>6 DEF Disconnect, Registered, TypeOK
  <2>2. c \in attached \/ call[c] \in {"building", "spawned"}
    BY DEF ReachInv, StageCoupling, TypeOK, CallStages
  <2> QED
    BY <1>6, <2>1, <2>2 DEF Disconnect, AbortTasks
<1>7. ASSUME NEW i \in Ids, NEW n \in 1..MaxChunks, Ack(i, n) PROVE RemovalIsOwn
  BY <1>7, <1>1 DEF Ack, RemovalIsOwn
<1>8. CASE DisconnectAll
  BY <1>8, <1>5 DEF DisconnectAll, RemovalIsOwn
<1> QED
  BY <1>2, <1>3, <1>4, <1>6, <1>7, <1>8 DEF Next

\* The clean-up of an older connection never takes a newer one of the same id
\* out of the map.
THEOREM RemovalOwn == Spec => OnlyOwnRemoval
<1>0. Init => KeyedById
  BY DEF Init, KeyedById
<1>1. FlowInv => TypeOK
  BY DEF FlowInv
<1> QED
  BY <1>0, <1>1, FlowInit, FlowStep, KeyedStep, ReachInit, ReachStep,
     RemovalStep, PTL
  DEF Spec, OnlyOwnRemoval
=============================================================================
