-------------------------- MODULE RemoteMcp_proof --------------------------
(***************************************************************************)
(* Proofs about RemoteMcp, for any tests, requests, origins and bounds.    *)
(* What a request may hold on the native side follows from where its call  *)
(* of fetch is; where that is follows from the queue, in which a request   *)
(* that waits for an approval has exactly one operation.                   *)
(***************************************************************************)
EXTENDS RemoteMcp, TLAPS

RequestType ==
  [pc : {"idle", "approving", "widening", "listening", "opening", "sent",
         "accepted", "live", "over"},
   client : Tests \cup {None}, origin : Origins \cup {None}, abortable : BOOLEAN,
   aborted : BOOLEAN, expected : Nat]

TestType ==
  [pc : {"idle", "closing", "policy", "granted", "connecting", "failing", "over"},
   config : Configs \cup {None}, version : 0..MaxEdits, epoch : 0..MaxClears,
   approved : SUBSET Origins, client : {"none", "open", "closed"}]

\* The operations of requests, which wait for them.
Awaited(op) == op.kind \in {"approve", "widen"}

Owned(op, req) ==
  /\ op.kind = "grant" => op.owner \in Tests
  /\ op.kind = "reset" => op.owner \in Actors
  /\ op.kind = "approve" => op.owner \in Requests /\ req[op.owner].pc = "approving"
  /\ op.kind = "widen" => op.owner \in Requests /\ req[op.owner].pc = "widening"

QueueOwned == \A i \in 1..Len(queue) : Owned(queue[i], request)

OneAwaited == \A i, j \in 1..Len(queue) :
  Awaited(queue[i]) /\ Awaited(queue[j]) /\ queue[i].owner = queue[j].owner => i = j

QueueInv == queue \in Seq(Operation) /\ QueueOwned /\ OneAwaited

\* A connection belongs to a connect on its way or to a response, unless its
\* disconnect is on its way.
Coupling == \A r \in Requests :
  /\ request[r].pc # "idle" => request[r].client \in Tests /\ request[r].origin \in Origins
  /\ connection[r] # "none" =>
       \/ request[r].pc \in {"accepted", "live"}
       \/ request[r].pc = "over" /\ r \in disconnects
  /\ request[r].pc = "live" => ~request[r].aborted

SavesInBounds == saving # None => edits < MaxEdits

TestsConfigured == \A t \in Tests : test[t].pc = "closing" => test[t].config \in Configs

IInv == TypeOK /\ QueueInv /\ Coupling /\ SavesInBounds /\ TestsConfigured
          /\ ActiveAreAuthorized

-----------------------------------------------------------------------------
(* The queue.                                                               *)

\* The place of a request that waits for its operation is not touched.
Waits(r) == request[r].pc \in {"approving", "widening"}

\* Nothing happens to the queue.
LEMMA SameQueue ==
  ASSUME QueueInv, queue' = queue,
         \A r \in Requests : Waits(r) => request'[r].pc = request[r].pc
  PROVE  QueueInv'
<1>1. \A i \in 1..Len(queue) : Owned(queue[i], request')
  BY DEF QueueInv, QueueOwned, Owned, Waits
<1> QED
  BY <1>1 DEF QueueInv, QueueOwned, OneAwaited

\* The first operation leaves the queue; only its owner may go on.
LEMMA FirstLeaves ==
  ASSUME QueueInv, queue # <<>>, queue' = Tail(queue),
         \A r \in Requests : Waits(r) /\ ~(Awaited(Head(queue)) /\ Head(queue).owner = r) =>
           request'[r].pc = request[r].pc
  PROVE  QueueInv'
<1>1. /\ Tail(queue) \in Seq(Operation) /\ Len(queue) \in Nat \ {0}
      /\ Len(Tail(queue)) = Len(queue) - 1
      /\ \A i \in 1..Len(Tail(queue)) : Tail(queue)[i] = queue[i + 1]
      /\ Head(queue) = queue[1]
  BY DEF QueueInv
<1>2. \A i \in 1..Len(queue') :
         i + 1 \in 1..Len(queue) /\ i + 1 # 1 /\ queue'[i] = queue[i + 1]
  BY <1>1
<1>3. ASSUME NEW i \in 1..Len(queue') PROVE Owned(queue'[i], request')
  <2>1. i + 1 \in 1..Len(queue) /\ 1 \in 1..Len(queue) /\ i + 1 # 1 /\ queue'[i] = queue[i + 1]
    BY <1>1, <1>2
  <2>2. Owned(queue[i + 1], request)
    BY <2>1 DEF QueueInv, QueueOwned
  <2>3. Awaited(queue[i + 1]) => ~(Awaited(Head(queue)) /\ Head(queue).owner = queue[i + 1].owner)
    BY <2>1, <1>1 DEF QueueInv, OneAwaited
  <2> QED
    BY <2>1, <2>2, <2>3 DEF Owned, Awaited, Waits
<1>4. ASSUME NEW i \in 1..Len(queue'), NEW j \in 1..Len(queue'),
             Awaited(queue'[i]), Awaited(queue'[j]), queue'[i].owner = queue'[j].owner
      PROVE  i = j
  <2>1. /\ i + 1 \in 1..Len(queue) /\ queue'[i] = queue[i + 1]
        /\ j + 1 \in 1..Len(queue) /\ queue'[j] = queue[j + 1]
    BY <1>2
  <2>2. i + 1 = j + 1
    BY <2>1, <1>4 DEF QueueInv, OneAwaited
  <2> QED
    BY <2>2
<1> QED
  BY <1>1, <1>3, <1>4 DEF QueueInv, QueueOwned, OneAwaited

\* An operation joins the queue; a request that owns it owned none before.
LEMMA OneJoins ==
  ASSUME QueueInv, NEW op \in Operation, queue' = Append(queue, op), Owned(op, request'),
         \A r \in Requests : Waits(r) => request'[r].pc = request[r].pc,
         Awaited(op) => ~Waits(op.owner)
  PROVE  QueueInv'
<1>1. /\ queue' \in Seq(Operation) /\ Len(queue) \in Nat
      /\ Len(queue') = Len(queue) + 1
      /\ \A i \in 1..Len(queue) : queue'[i] = queue[i]
      /\ queue'[Len(queue) + 1] = op
  BY DEF QueueInv
<1>2. \A i \in 1..Len(queue) : Owned(queue[i], request')
  BY DEF QueueInv, QueueOwned, Owned, Waits
<1>3. \A i \in 1..Len(queue') : i \in 1..Len(queue) \/ i = Len(queue) + 1
  BY <1>1
<1>4. \A i \in 1..Len(queue') : Owned(queue'[i], request')
  BY <1>1, <1>2, <1>3
<1>5. ASSUME NEW i \in 1..Len(queue), Awaited(op), Awaited(queue[i])
      PROVE  queue[i].owner # op.owner
  BY <1>5 DEF QueueInv, QueueOwned, Owned, Awaited, Waits
<1>6. ASSUME NEW i \in 1..Len(queue'), NEW j \in 1..Len(queue'),
             Awaited(queue'[i]), Awaited(queue'[j]), queue'[i].owner = queue'[j].owner
      PROVE  i = j
  <2>1. CASE i \in 1..Len(queue) /\ j \in 1..Len(queue)
    BY <2>1, <1>1, <1>6 DEF QueueInv, OneAwaited
  <2>2. CASE i = Len(queue) + 1 /\ j \in 1..Len(queue)
    BY <2>2, <1>1, <1>5, <1>6
  <2>3. CASE j = Len(queue) + 1 /\ i \in 1..Len(queue)
    BY <2>3, <1>1, <1>5, <1>6
  <2>4. CASE i = Len(queue) + 1 /\ j = Len(queue) + 1
    BY <2>4
  <2> QED
    BY <1>3, <2>1, <2>2, <2>3, <2>4
<1> QED
  BY <1>1, <1>4, <1>6 DEF QueueInv, QueueOwned, OneAwaited

\* The owner of the first operation queues for another one.
LEMMA OwnerQueuesAgain ==
  ASSUME QueueInv, queue # <<>>, NEW op \in Operation, queue' = Tail(Append(queue, op)),
         Awaited(Head(queue)), op.kind = "widen", op.owner = Head(queue).owner,
         op.owner \in Requests, request'[op.owner].pc = "widening",
         \A r \in Requests : Waits(r) /\ r # op.owner => request'[r].pc = request[r].pc
  PROVE  QueueInv'
<1> DEFINE n == Len(queue)
<1>1. /\ queue' \in Seq(Operation) /\ n \in Nat \ {0}
      /\ Len(queue') = n
      /\ Head(queue) = queue[1]
  BY DEF QueueInv
<1>a. /\ Append(queue, op) \in Seq(Operation) /\ Len(Append(queue, op)) = n + 1
      /\ \A i \in 1..n : Append(queue, op)[i] = queue[i]
      /\ Append(queue, op)[n + 1] = op
  BY <1>1 DEF QueueInv
<1>b. \A i \in 1..n : queue'[i] = Append(queue, op)[i + 1]
  BY <1>a, <1>1
<1>2. \A i \in 1..n : i # n => i + 1 \in 1..n /\ i + 1 # 1 /\ queue'[i] = queue[i + 1]
  BY <1>a, <1>b, <1>1
<1>3. queue'[n] = op
  BY <1>a, <1>b, <1>1
<1> HIDE DEF n
<1>4. ASSUME NEW i \in 1..n, i # 1, Awaited(queue[i]) PROVE queue[i].owner # op.owner
  BY <1>1, <1>4 DEF QueueInv, OneAwaited, n
<1>5. ASSUME NEW i \in 1..n PROVE Owned(queue'[i], request')
  <2>1. CASE i = n
    BY <2>1, <1>3 DEF Owned
  <2>2. CASE i # n
    <3>1. i + 1 \in 1..n /\ i + 1 # 1 /\ queue'[i] = queue[i + 1]
      BY <2>2, <1>2
    <3>2. Owned(queue[i + 1], request)
      BY <3>1 DEF QueueInv, QueueOwned, n
    <3>3. Awaited(queue[i + 1]) => queue[i + 1].owner # op.owner
      BY <3>1, <1>4
    <3> QED
      BY <3>1, <3>2, <3>3 DEF Owned, Awaited, Waits
  <2> QED
    BY <2>1, <2>2
<1>6. ASSUME NEW i \in 1..n, NEW j \in 1..n,
             Awaited(queue'[i]), Awaited(queue'[j]), queue'[i].owner = queue'[j].owner
      PROVE  i = j
  <2>1. CASE i # n /\ j # n
    <3>1. i + 1 \in 1..n /\ queue'[i] = queue[i + 1] /\ j + 1 \in 1..n /\ queue'[j] = queue[j + 1]
      BY <2>1, <1>2
    <3>2. i + 1 = j + 1
      BY <3>1, <1>6 DEF QueueInv, OneAwaited, n
    <3> QED
      BY <3>2
  <2>2. CASE i = n /\ j # n
    <3>1. j + 1 \in 1..n /\ j + 1 # 1 /\ queue'[j] = queue[j + 1]
      BY <2>2, <1>2
    <3>2. queue[j + 1].owner # op.owner
      BY <3>1, <1>4, <1>6 DEF Awaited
    <3> QED
      BY <3>1, <3>2, <2>2, <1>3, <1>6
  <2>3. CASE j = n /\ i # n
    <3>1. i + 1 \in 1..n /\ i + 1 # 1 /\ queue'[i] = queue[i + 1]
      BY <2>3, <1>2
    <3>2. queue[i + 1].owner # op.owner
      BY <3>1, <1>4, <1>6 DEF Awaited
    <3> QED
      BY <3>1, <3>2, <2>3, <1>3, <1>6
  <2>4. CASE i = n /\ j = n
    BY <2>4
  <2> QED
    BY <2>1, <2>2, <2>3, <2>4
<1> QED
  BY <1>1, <1>5, <1>6 DEF QueueInv, QueueOwned, OneAwaited

-----------------------------------------------------------------------------
(* What the steps have in common.                                           *)

\* A test, or a request, goes on to a place.
LEMMA TestMoves ==
  ASSUME NEW f \in [Tests -> TestType], NEW t \in Tests,
         NEW p \in {"idle", "closing", "policy", "granted", "connecting", "failing", "over"},
         NEW g, g = [f EXCEPT ![t].pc = p]
  PROVE  /\ g \in [Tests -> TestType]
         /\ g[t].pc = p
         /\ \A u \in Tests \ {t} : g[u] = f[u]
<1>1. f[t] \in TestType
  OBVIOUS
<1>2. [f[t] EXCEPT !.pc = p] \in TestType /\ [f[t] EXCEPT !.pc = p].pc = p
  BY <1>1 DEF TestType
<1>3. g = [f EXCEPT ![t] = [f[t] EXCEPT !.pc = p]]
  OBVIOUS
<1> QED
  BY <1>2, <1>3

Moved(f, g, r, p) ==
  /\ g \in [Requests -> RequestType]
  /\ g[r].pc = p
  /\ g[r].client = f[r].client
  /\ g[r].origin = f[r].origin
  /\ g[r].aborted = f[r].aborted
  /\ \A q \in Requests \ {r} : g[q] = f[q]

LEMMA RequestMoves ==
  ASSUME NEW f \in [Requests -> RequestType], NEW r \in Requests,
         NEW p \in {"idle", "approving", "widening", "listening", "opening", "sent",
                    "accepted", "live", "over"},
         NEW g, g = [f EXCEPT ![r].pc = p]
  PROVE  Moved(f, g, r, p)
<1>1. f[r] \in RequestType
  OBVIOUS
<1>2. /\ [f[r] EXCEPT !.pc = p] \in RequestType
      /\ [f[r] EXCEPT !.pc = p].pc = p
      /\ [f[r] EXCEPT !.pc = p].client = f[r].client
      /\ [f[r] EXCEPT !.pc = p].origin = f[r].origin
      /\ [f[r] EXCEPT !.pc = p].aborted = f[r].aborted
  BY <1>1 DEF RequestType
<1>3. g = [f EXCEPT ![r] = [f[r] EXCEPT !.pc = p]]
  OBVIOUS
<1> QED
  BY <1>2, <1>3 DEF Moved

LEMMA Typed ==
  ASSUME TypeOK PROVE test \in [Tests -> TestType] /\ request \in [Requests -> RequestType]
BY DEF TypeOK, TestType, RequestType

\* A connection that r may have rests on the policy.
Allowed(r) ==
  /\ policy # None
  /\ request[r].origin \in policy.origins
  /\ ~(request[r].origin \in Insecure /\ policy.credentials)

LEMMA AuthorizedMeansAllowed ==
  ActiveAreAuthorized <=> \A r \in Requests : connection[r] # "none" => Allowed(r)
BY DEF ActiveAreAuthorized, Active, Allowed

\* A new policy ends every connection it does not allow.
LEMMA PolicySet ==
  ASSUME TypeOK, ActiveAreAuthorized, NEW op \in Operation, SetPolicy(op),
         \A r \in Requests : request'[r].origin = request[r].origin
  PROVE  /\ policy' = None \/ policy' \in [origins : (SUBSET Origins) \ {{}}, credentials : BOOLEAN]
         /\ connection' \in [Requests -> {"none", "reserved", "running"}]
         /\ \A r \in Requests : connection'[r] # "none" => connection'[r] = connection[r]
         /\ ActiveAreAuthorized'
<1>1. policy' = None \/ policy' \in [origins : (SUBSET Origins) \ {{}}, credentials : BOOLEAN]
  <2>1. op.origins \in SUBSET Origins /\ op.credentials \in BOOLEAN
    BY DEF Operation
  <2>2. policy' = IF op.origins = {} THEN None
                  ELSE [origins |-> op.origins, credentials |-> op.credentials]
    BY DEF SetPolicy
  <2> QED
    BY <2>1, <2>2
<1>2. connection' \in [Requests -> {"none", "reserved", "running"}]
  BY DEF SetPolicy, TypeOK
<1>3. \A r \in Requests : connection'[r] # "none" => connection'[r] = connection[r]
  <2>1. connection' = [r \in Requests |-> "none"] \/ connection' = connection
    BY DEF SetPolicy
  <2> QED
    BY <2>1
<1>4. ASSUME NEW r \in Requests, connection'[r] # "none" PROVE Allowed(r)'
  <2>1. connection[r] # "none" /\ Allowed(r)
    BY <1>3, <1>4 DEF ActiveAreAuthorized, Active, Allowed
  <2>2. policy # None /\ policy \in [origins : (SUBSET Origins) \ {{}}, credentials : BOOLEAN]
    BY <2>1 DEF Allowed, TypeOK
  <2>3. policy.origins \subseteq op.origins /\ policy.credentials = op.credentials
    BY <1>4, <2>2 DEF SetPolicy
  <2>4. request[r].origin \in op.origins
    BY <2>1, <2>3 DEF Allowed
  <2>5. op.origins \in SUBSET Origins /\ op.credentials \in BOOLEAN
    BY DEF Operation
  <2>6. policy' = [origins |-> op.origins, credentials |-> op.credentials]
    BY <2>4 DEF SetPolicy
  <2>7. policy' # None /\ policy'.origins = op.origins /\ policy'.credentials = op.credentials
    BY <2>5, <2>6, RemoteMcpAssumption
  <2>8. request'[r].origin = request[r].origin
    OBVIOUS
  <2> QED
    BY <2>1, <2>3, <2>4, <2>7, <2>8 DEF Allowed
<1> QED
  BY <1>1, <1>2, <1>3, <1>4 DEF ActiveAreAuthorized, Active, Allowed

\* An abort keeps what the connections of requests rest on.
LEMMA AbortKeeps ==
  ASSUME TypeOK, Coupling, NEW rs \in SUBSET Requests, Abort(rs)
  PROVE  /\ request' \in [Requests -> RequestType]
         /\ disconnects' \in SUBSET Requests
         /\ \A r \in Requests : /\ request'[r].origin = request[r].origin
                                /\ Waits(r) => request'[r].pc = request[r].pc
         /\ connection' = connection => Coupling'
<1>1. ASSUME NEW r \in Requests
      PROVE  /\ request'[r] \in RequestType
             /\ request'[r].origin = request[r].origin
             /\ request'[r].client = request[r].client
             /\ \/ request'[r] = request[r]
                \/ /\ r \in rs
                   /\ request'[r].pc = IF request[r].pc = "live" THEN "over" ELSE request[r].pc
                   /\ request[r].pc # "idle"
                   /\ request'[r].pc # "live"
  <2>1. request[r] \in RequestType
    BY DEF TypeOK, RequestType
  <2>2. CASE r \notin rs \/ request[r].pc \in {"idle", "over"}
    <3>1. request'[r] = request[r]
      BY <2>2 DEF Abort
    <3> QED
      BY <2>1, <3>1 DEF RequestType
  <2>3. CASE ~(r \notin rs \/ request[r].pc \in {"idle", "over"})
    <3>1. request'[r] = [request[r] EXCEPT !.aborted = TRUE,
                                           !.pc = IF @ = "live" THEN "over" ELSE @]
      BY <2>3 DEF Abort
    <3> QED
      BY <2>1, <2>3, <3>1 DEF RequestType
  <2> QED
    BY <2>2, <2>3
<1>2. request' \in [Requests -> RequestType]
  BY <1>1 DEF Abort
<1>3. disconnects' \in SUBSET Requests
  BY DEF Abort, TypeOK
<1>4. \A r \in Requests : Waits(r) => request'[r].pc = request[r].pc
  BY <1>1 DEF Waits
<1>5. ASSUME connection' = connection PROVE Coupling'
  <2> SUFFICES ASSUME NEW r \in Requests
               PROVE  /\ request'[r].pc # "idle" => request'[r].client \in Tests
                                                    /\ request'[r].origin \in Origins
                      /\ connection'[r] # "none" =>
                           \/ request'[r].pc \in {"accepted", "live"}
                           \/ request'[r].pc = "over" /\ r \in disconnects'
                      /\ request'[r].pc = "live" => ~request'[r].aborted
    BY DEF Coupling
  <2>1. disconnects \subseteq disconnects'
    BY DEF Abort
  <2>2. CASE request'[r] = request[r]
    BY <2>1, <2>2, <1>5 DEF Coupling
  <2>3. CASE request'[r] # request[r]
    <3>1. request[r].pc = "live" => r \in disconnects'
      BY <1>1, <2>3 DEF Abort, Listening, Coupling
    <3> QED
      BY <3>1, <2>1, <2>3, <1>1, <1>5 DEF Coupling
  <2> QED
    BY <2>2, <2>3
<1> QED
  BY <1>1, <1>2, <1>3, <1>4, <1>5

\* The first operation, when there is one.
LEMMA FirstOperation ==
  ASSUME QueueInv, queue # <<>>
  PROVE  Head(queue) \in Operation /\ Owned(Head(queue), request)
BY DEF QueueInv, QueueOwned

\* Requests and connections stay as they are.
LEMMA NativeKept ==
  ASSUME Coupling, ActiveAreAuthorized,
         UNCHANGED <<request, connection, disconnects, policy>>
  PROVE  Coupling' /\ ActiveAreAuthorized'
BY DEF Coupling, ActiveAreAuthorized, Active

\* One request goes on, outside the queue.
LEMMA RequestGoesOn ==
  ASSUME IInv, NEW r \in Requests, ~Waits(r),
         UNCHANGED <<queue, policy>>,
         \A q \in Requests \ {r} :
           /\ request'[q] = request[q] /\ connection'[q] = connection[q]
           /\ q \in disconnects => q \in disconnects',
         request'[r].pc # "idle" => request'[r].client \in Tests /\ request'[r].origin \in Origins,
         request'[r].pc = "live" => ~request'[r].aborted,
         connection'[r] # "none" => Allowed(r)',
         connection'[r] # "none" =>
           \/ request'[r].pc \in {"accepted", "live"}
           \/ request'[r].pc = "over" /\ r \in disconnects'
  PROVE  QueueInv' /\ Coupling' /\ ActiveAreAuthorized'
<1>1. QueueInv'
  BY SameQueue DEF IInv, Waits
<1>2. Coupling'
  BY DEF IInv, Coupling
<1>3. ActiveAreAuthorized'
  BY DEF IInv, ActiveAreAuthorized, Active, Allowed
<1> QED
  BY <1>1, <1>2, <1>3

\* A close queues its operation.
LEMMA CloseStarts ==
  ASSUME TypeOK, QueueInv, NEW a \in Actors, StartClose(a), request' = request
  PROVE  /\ closing' \in [Actors -> [stage : {"none", "policy", "client"},
                                     client : Tests \cup {None}]]
         /\ live' = None
         /\ QueueInv'
<1> DEFINE op == [kind |-> "reset", owner |-> a, origins |-> {}, credentials |-> FALSE,
                  epoch |-> 0]
<1>1. closing' \in [Actors -> [stage : {"none", "policy", "client"}, client : Tests \cup {None}]]
  BY DEF StartClose, TypeOK
<1>2. op \in Operation /\ queue' = Append(queue, op)
  BY RemoteMcpAssumption DEF Operation, StartClose, Operate
<1>3. Owned(op, request') /\ ~Awaited(op)
  BY DEF Owned, Awaited
<1>4. QueueInv'
  BY <1>2, <1>3, OneJoins
<1> QED
  BY <1>1, <1>4 DEF StartClose

-----------------------------------------------------------------------------
(* The steps of the queue.                                                  *)

LEMMA RejectedKeeps ==
  ASSUME IInv, OperationRejected PROVE IInv'
<1> DEFINE op == Head(queue)
<1>1. op \in Operation /\ Owned(op, request) /\ queue # <<>>
  BY FirstOperation DEF IInv, OperationRejected
<1>2. TypeOK'
  <2>1. queue' \in Seq(Operation)
    BY <1>1 DEF IInv, TypeOK, OperationRejected
  <2>2. test' \in [Tests -> TestType]
    <3>1. test \in [Tests -> TestType]
      BY Typed DEF IInv
    <3>2. CASE op.kind = "grant"
      <4>1. op.owner \in Tests
        BY <1>1, <3>2 DEF Owned
      <4>2. test' = [test EXCEPT ![op.owner].pc = "over"]
        BY <3>2 DEF OperationRejected
      <4> QED
        BY <3>1, <4>1, <4>2, TestMoves
    <3>3. CASE op.kind # "grant"
      BY <3>1, <3>3 DEF OperationRejected
    <3> QED
      BY <3>2, <3>3
  <2>3. request' \in [Requests -> RequestType]
    <3>1. request \in [Requests -> RequestType]
      BY Typed DEF IInv
    <3>2. CASE op.kind \in {"approve", "widen"}
      <4>1. op.owner \in Requests
        BY <1>1, <3>2 DEF Owned
      <4>2. request' = [request EXCEPT ![op.owner].pc = "over"]
        BY <3>2 DEF OperationRejected
      <4> QED
        BY <3>1, <4>1, <4>2, RequestMoves DEF Moved
    <3>3. CASE op.kind \notin {"approve", "widen"}
      BY <3>1, <3>3 DEF OperationRejected
    <3> QED
      BY <3>2, <3>3
  <2> QED
    BY <2>1, <2>2, <2>3 DEF IInv, TypeOK, OperationRejected, TestType, RequestType,
       storeVars, gateVars, nativeVars
<1>3. QueueInv'
  <2>1. \A r \in Requests : ~(Awaited(op) /\ op.owner = r) => request'[r] = request[r]
    BY DEF IInv, TypeOK, OperationRejected, Awaited
  <2> QED
    BY <1>1, <2>1, FirstLeaves DEF IInv, OperationRejected
<1>4. ASSUME NEW r \in Requests
      PROVE  /\ request'[r].origin = request[r].origin /\ request'[r].client = request[r].client
             /\ \/ request'[r] = request[r]
                \/ Waits(r) /\ request'[r].pc = "over"
  BY <1>1 DEF IInv, TypeOK, OperationRejected, Owned, Waits
<1>5. UNCHANGED <<connection, policy, disconnects>>
  BY DEF OperationRejected, nativeVars
<1>a. Coupling'
  BY <1>4, <1>5 DEF IInv, Coupling, Waits
<1>b. ActiveAreAuthorized'
  BY <1>4, <1>5 DEF IInv, ActiveAreAuthorized, Active
<1>6. SavesInBounds' /\ TestsConfigured'
  BY <1>1 DEF IInv, TypeOK, SavesInBounds, TestsConfigured, OperationRejected, storeVars, Owned
<1> QED
  BY <1>2, <1>3, <1>6, <1>a, <1>b DEF IInv

LEMMA GrantKeeps ==
  ASSUME IInv, GrantRuns PROVE IInv'
<1> DEFINE op == Head(queue)
<1>1. op \in Operation /\ Owned(op, request) /\ queue # <<>> /\ op.kind = "grant"
  BY FirstOperation DEF IInv, GrantRuns, Runs
<1>2. op.owner \in Tests
  BY <1>1 DEF Owned
<1>3. /\ policy' = None \/ policy' \in [origins : (SUBSET Origins) \ {{}}, credentials : BOOLEAN]
      /\ connection' \in [Requests -> {"none", "reserved", "running"}]
      /\ \A r \in Requests : connection'[r] # "none" => connection'[r] = connection[r]
      /\ ActiveAreAuthorized'
  BY <1>1, PolicySet DEF IInv, GrantRuns
<1>4. TypeOK'
  <2>1. queue' \in Seq(Operation)
    BY <1>1 DEF IInv, TypeOK, GrantRuns
  <2>2. test' \in [Tests -> TestType]
    <3>1. test \in [Tests -> TestType] /\ test' = [test EXCEPT ![op.owner].pc = "granted"]
      BY Typed DEF IInv, GrantRuns
    <3> QED
      BY <1>2, <3>1, TestMoves
  <2> QED
    BY <1>3, <2>1, <2>2 DEF IInv, TypeOK, GrantRuns, TestType, storeVars, gateVars
<1>5. QueueInv'
  BY <1>1, FirstLeaves DEF IInv, GrantRuns
<1>6. Coupling'
  BY <1>3 DEF IInv, Coupling, GrantRuns
<1>7. SavesInBounds' /\ TestsConfigured'
  BY <1>2 DEF IInv, TypeOK, SavesInBounds, TestsConfigured, GrantRuns, storeVars
<1> QED
  BY <1>3, <1>4, <1>5, <1>6, <1>7 DEF IInv

LEMMA WidenKeeps ==
  ASSUME IInv, WidenRuns PROVE IInv'
<1> DEFINE op == Head(queue)
<1>1. op \in Operation /\ Owned(op, request) /\ queue # <<>> /\ op.kind = "widen"
  BY FirstOperation DEF IInv, WidenRuns, Runs
<1>2. op.owner \in Requests /\ request[op.owner].pc = "widening"
  BY <1>1 DEF Owned
<1>3. request' \in [Requests -> RequestType]
  <2>1. /\ request \in [Requests -> RequestType]
        /\ request' = [request EXCEPT ![op.owner].pc = "listening"]
    BY Typed DEF IInv, WidenRuns
  <2> QED
    BY <1>2, <2>1, RequestMoves DEF Moved
<1>4. ASSUME NEW r \in Requests
      PROVE  /\ request'[r].origin = request[r].origin /\ request'[r].client = request[r].client
             /\ r # op.owner => request'[r] = request[r]
             /\ r = op.owner => request'[r].pc = "listening"
  BY <1>2 DEF IInv, TypeOK, WidenRuns
<1>5. /\ policy' = None \/ policy' \in [origins : (SUBSET Origins) \ {{}}, credentials : BOOLEAN]
      /\ connection' \in [Requests -> {"none", "reserved", "running"}]
      /\ \A r \in Requests : connection'[r] # "none" => connection'[r] = connection[r]
      /\ ActiveAreAuthorized'
  BY <1>1, <1>4, PolicySet DEF IInv, WidenRuns
<1>6. TypeOK'
  <2>1. queue' \in Seq(Operation)
    BY <1>1 DEF IInv, TypeOK, WidenRuns
  <2> QED
    BY <1>3, <1>5, <2>1 DEF IInv, TypeOK, WidenRuns, RequestType, storeVars, managerVars,
       gateVars
<1>7. QueueInv'
  BY <1>1, <1>4, FirstLeaves DEF IInv, WidenRuns, Awaited
<1>8. Coupling'
  BY <1>2, <1>4, <1>5 DEF IInv, Coupling, WidenRuns
<1>9. SavesInBounds' /\ TestsConfigured'
  BY DEF IInv, SavesInBounds, TestsConfigured, WidenRuns, storeVars, managerVars
<1> QED
  BY <1>5, <1>6, <1>7, <1>8, <1>9 DEF IInv

LEMMA ApproveKeeps ==
  ASSUME IInv, ApproveRuns PROVE IInv'
<1> DEFINE r == Head(queue).owner
           t == request[r].client
           op == [kind |-> "widen", owner |-> r, origins |-> test[t].approved,
                  credentials |-> test[t].config \in Secret, epoch |-> test[t].epoch]
<1>1. /\ Head(queue) \in Operation /\ Owned(Head(queue), request) /\ queue # <<>>
      /\ Head(queue).kind = "approve"
  BY FirstOperation DEF IInv, ApproveRuns, Runs
<1>2. r \in Requests /\ request[r].pc = "approving"
  BY <1>1 DEF Owned
<1>3. t \in Tests
  BY <1>2 DEF IInv, Coupling
<1>4. op \in Operation
  <2>1. test[t] \in TestType
    BY <1>3, Typed DEF IInv
  <2>2. test[t].approved \in SUBSET Origins /\ test[t].epoch \in 0..MaxClears
    BY <2>1 DEF TestType
  <2> QED
    BY <1>2, <2>2 DEF Operation
<1>5. queue' = Tail(Append(queue, op)) /\ request' = [request EXCEPT ![r].pc = "widening"]
  BY DEF ApproveRuns, Grant, Operate
<1>6. /\ request' \in [Requests -> RequestType]
      /\ \A q \in Requests : request'[q].origin = request[q].origin
                             /\ request'[q].client = request[q].client
      /\ \A q \in Requests \ {r} : request'[q] = request[q]
      /\ request'[r].pc = "widening"
  <2>1. request \in [Requests -> RequestType]
    BY Typed DEF IInv
  <2>2. Moved(request, request', r, "widening")
    <3> HIDE DEF r
    <3> QED
      BY <1>2, <1>5, <2>1, RequestMoves
  <2> QED
    BY <2>2 DEF Moved
<1>7. /\ policy' = None \/ policy' \in [origins : (SUBSET Origins) \ {{}}, credentials : BOOLEAN]
      /\ connection' \in [Requests -> {"none", "reserved", "running"}]
      /\ \A q \in Requests : connection'[q] # "none" => connection'[q] = connection[q]
      /\ ActiveAreAuthorized'
  BY <1>1, <1>6, PolicySet DEF IInv, ApproveRuns
<1>8. QueueInv'
  BY <1>1, <1>2, <1>4, <1>5, <1>6, OwnerQueuesAgain DEF IInv, Awaited
<1>9. TypeOK'
  BY <1>6, <1>7, <1>8 DEF IInv, TypeOK, QueueInv, ApproveRuns, RequestType, storeVars,
     managerVars, gateVars
<1>a. Coupling'
  BY <1>2, <1>6, <1>7 DEF IInv, Coupling, ApproveRuns
<1>b. SavesInBounds' /\ TestsConfigured'
  BY DEF IInv, SavesInBounds, TestsConfigured, ApproveRuns, storeVars, managerVars
<1> QED
  BY <1>7, <1>8, <1>9, <1>a, <1>b DEF IInv

LEMMA ResetKeeps ==
  ASSUME IInv, ResetRuns PROVE IInv'
<1> DEFINE op == Head(queue)
<1>1. op \in Operation /\ Owned(op, request) /\ queue # <<>> /\ op.kind = "reset"
  BY FirstOperation DEF IInv, ResetRuns, Runs
<1>2. op.owner \in Actors
  BY <1>1 DEF Owned
<1>3. closing' \in [Actors -> [stage : {"none", "policy", "client"}, client : Tests \cup {None}]]
  <2>1. closing \in [Actors -> [stage : {"none", "policy", "client"}, client : Tests \cup {None}]]
    BY DEF IInv, TypeOK
  <2>2. closing' = [closing EXCEPT ![op.owner] = [closing[op.owner] EXCEPT !.stage = "client"]]
    BY DEF ResetRuns
  <2>3. [closing[op.owner] EXCEPT !.stage = "client"] \in
          [stage : {"none", "policy", "client"}, client : Tests \cup {None}]
    BY <1>2, <2>1
  <2> QED
    BY <1>2, <2>1, <2>2, <2>3
<1>4. /\ policy' = None \/ policy' \in [origins : (SUBSET Origins) \ {{}}, credentials : BOOLEAN]
      /\ connection' \in [Requests -> {"none", "reserved", "running"}]
      /\ \A r \in Requests : connection'[r] # "none" => connection'[r] = connection[r]
      /\ ActiveAreAuthorized'
  BY <1>1, PolicySet DEF IInv, ResetRuns
<1>5. QueueInv'
  BY <1>1, FirstLeaves DEF IInv, ResetRuns
<1>6. TypeOK'
  BY <1>3, <1>4, <1>5 DEF IInv, TypeOK, QueueInv, ResetRuns, storeVars, gateVars
<1>7. Coupling'
  BY <1>4 DEF IInv, Coupling, ResetRuns
<1>8. SavesInBounds' /\ TestsConfigured'
  BY DEF IInv, SavesInBounds, TestsConfigured, ResetRuns, storeVars
<1> QED
  BY <1>4, <1>5, <1>6, <1>7, <1>8 DEF IInv

LEMMA ClearRunsKeeps ==
  ASSUME IInv, ClearRuns PROVE IInv'
<1>1. Head(queue) \in Operation /\ queue # <<>> /\ Head(queue).kind = "clear"
  BY FirstOperation DEF IInv, ClearRuns, Runs
<1>2. QueueInv'
  BY <1>1, FirstLeaves DEF IInv, ClearRuns
<1>3. \A r \in Requests : connection'[r] = "none"
  BY DEF ClearRuns
<1>4. connection' \in [Requests -> {"none", "reserved", "running"}] /\ nativeEpoch' \in Nat
  BY DEF IInv, TypeOK, ClearRuns
<1>5. TypeOK'
  BY <1>2, <1>4 DEF IInv, TypeOK, QueueInv, ClearRuns, storeVars, managerVars
<1>6. Coupling' /\ ActiveAreAuthorized'
  BY <1>3 DEF IInv, Coupling, ActiveAreAuthorized, Active, ClearRuns
<1>7. SavesInBounds' /\ TestsConfigured'
  BY DEF IInv, SavesInBounds, TestsConfigured, ClearRuns, storeVars, managerVars
<1> QED
  BY <1>2, <1>5, <1>6, <1>7 DEF IInv

-----------------------------------------------------------------------------
(* The steps of a request.                                                  *)

\* What a step of one request leaves alone.
RequestFrame == UNCHANGED <<storeVars, managerVars, queue, gateVars, policy, nativeEpoch>>

\* Such a step has to keep the types of what it changes, and RequestGoesOn.
LEMMA FrameKeeps ==
  ASSUME IInv, RequestFrame, QueueInv', Coupling', ActiveAreAuthorized',
         request' \in [Requests -> RequestType], disconnects' \subseteq Requests,
         connection' \in [Requests -> {"none", "reserved", "running"}]
  PROVE  IInv'
<1>1. TypeOK'
  BY DEF IInv, TypeOK, RequestType, RequestFrame, storeVars, managerVars, gateVars
<1>2. SavesInBounds' /\ TestsConfigured'
  BY DEF IInv, SavesInBounds, TestsConfigured, RequestFrame, storeVars, managerVars
<1> QED
  BY <1>1, <1>2 DEF IInv

\* The place of one request and its connection change.
LEMMA PlaceChanges ==
  ASSUME IInv, RequestFrame, NEW r \in Requests,
         NEW p \in {"listening", "opening", "sent", "accepted", "live", "over"},
         NEW c \in {"none", "reserved", "running"},
         request' = [request EXCEPT ![r].pc = p], connection' = [connection EXCEPT ![r] = c],
         disconnects \subseteq disconnects', disconnects' \subseteq Requests,
         request[r].pc \notin {"idle", "approving", "widening"},
         p = "live" => ~request[r].aborted,
         c # "none" => Allowed(r),
         c # "none" => p \in {"accepted", "live"} \/ (p = "over" /\ r \in disconnects')
  PROVE  IInv'
<1>1. /\ request' \in [Requests -> RequestType]
      /\ request'[r].pc = p
      /\ request'[r].client = request[r].client
      /\ request'[r].origin = request[r].origin
      /\ request'[r].aborted = request[r].aborted
      /\ \A q \in Requests \ {r} : request'[q] = request[q]
  <2>1. request \in [Requests -> RequestType]
    BY Typed DEF IInv
  <2>2. p \in {"idle", "approving", "widening", "listening", "opening", "sent",
               "accepted", "live", "over"}
    OBVIOUS
  <2>3. Moved(request, request', r, p)
    BY <2>1, <2>2, RequestMoves
  <2> QED
    BY <2>3 DEF Moved
<1>2. /\ connection' \in [Requests -> {"none", "reserved", "running"}]
      /\ connection'[r] = c
      /\ \A q \in Requests \ {r} : connection'[q] = connection[q]
  BY DEF IInv, TypeOK
<1>3. UNCHANGED <<queue, policy>>
  BY DEF RequestFrame
<1>4. c # "none" => Allowed(r)'
  BY <1>1, <1>3 DEF Allowed
<1>5. request[r].client \in Tests /\ request[r].origin \in Origins /\ ~Waits(r)
  BY DEF IInv, Coupling, Waits
<1>6. QueueInv' /\ Coupling' /\ ActiveAreAuthorized'
  BY <1>1, <1>2, <1>3, <1>4, <1>5, RequestGoesOn
<1> QED
  BY <1>1, <1>2, <1>6, FrameKeeps

LEMMA ReserveKeeps ==
  ASSUME IInv, NEW r \in Requests, Reserve(r) PROVE IInv'
<1>1. Allowed(r) /\ RequestFrame /\ disconnects' = disconnects
  BY DEF Reserve, Allowed, RequestFrame
<1>2. disconnects \subseteq Requests
  BY DEF IInv, TypeOK
<1>3. /\ request' = [request EXCEPT ![r].pc = "accepted"]
      /\ connection' = [connection EXCEPT ![r] = "reserved"] /\ request[r].pc = "sent"
  BY DEF Reserve
<1> QED
  BY <1>1, <1>2, <1>3, PlaceChanges

LEMMA ConnectFailsKeeps ==
  ASSUME IInv, NEW r \in Requests, ConnectFails(r) PROVE IInv'
<1>1. RequestFrame /\ disconnects' = disconnects /\ disconnects \subseteq Requests
  BY DEF ConnectFails, RequestFrame, IInv, TypeOK
<1>2. /\ request' = [request EXCEPT ![r].pc = "over"]
      /\ connection' = [connection EXCEPT ![r] = "none"]
      /\ request[r].pc \notin {"idle", "approving", "widening"}
  BY DEF ConnectFails
<1> QED
  BY <1>1, <1>2, PlaceChanges

LEMMA TaskEndsKeeps ==
  ASSUME IInv, NEW r \in Requests, TaskEnds(r) PROVE IInv'
<1>1. RequestFrame /\ disconnects' = disconnects /\ disconnects \subseteq Requests
  BY DEF TaskEnds, RequestFrame, IInv, TypeOK
<1>2. /\ request' = [request EXCEPT ![r].pc = "over"]
      /\ connection' = [connection EXCEPT ![r] = "none"]
  BY DEF TaskEnds
<1>3. request[r].pc \notin {"idle", "approving", "widening"}
  BY DEF TaskEnds, IInv, Coupling
<1> QED
  BY <1>1, <1>2, <1>3, PlaceChanges

LEMMA ConnectReturnsKeeps ==
  ASSUME IInv, NEW r \in Requests, ConnectReturns(r) PROVE IInv'
<1> DEFINE p == IF connection[r] = "none" \/ request[r].aborted THEN "over" ELSE "live"
           c == IF connection[r] = "reserved" THEN "running" ELSE connection[r]
<1>1. RequestFrame /\ disconnects \subseteq disconnects' /\ disconnects' \subseteq Requests
  BY DEF ConnectReturns, RequestFrame, IInv, TypeOK
<1>2. connection[r] \in {"none", "reserved", "running"} /\ request[r].pc = "accepted"
  BY DEF ConnectReturns, IInv, TypeOK
<1>3. /\ request' = [request EXCEPT ![r].pc = p]
      /\ connection' = [connection EXCEPT ![r] = c]
  BY DEF ConnectReturns
<1>4. p \in {"listening", "opening", "sent", "accepted", "live", "over"}
      /\ c \in {"none", "reserved", "running"}
  BY <1>2
<1>5. c # "none" => connection[r] # "none"
  OBVIOUS
<1>6. c # "none" => Allowed(r)
  BY <1>5, AuthorizedMeansAllowed DEF IInv
<1>7. c # "none" => p \in {"accepted", "live"} \/ (p = "over" /\ r \in disconnects')
  BY <1>5 DEF ConnectReturns
<1>8. p = "live" => ~request[r].aborted
  OBVIOUS
<1> HIDE DEF p, c
<1> QED
  BY <1>1, <1>2, <1>3, <1>4, <1>6, <1>7, <1>8, PlaceChanges

\* The place of a request changes that has no connection.
LEMMA ListensKeeps ==
  ASSUME IInv, NEW r \in Requests, Listens(r) PROVE IInv'
<1> DEFINE p == IF request[r].aborted THEN "over" ELSE "opening"
<1>1. RequestFrame /\ disconnects \subseteq disconnects' /\ disconnects' \subseteq Requests
  BY DEF Listens, RequestFrame, nativeVars, IInv, TypeOK
<1>2. connection[r] = "none" /\ request[r].pc = "listening"
  BY DEF Listens, IInv, Coupling
<1>3. connection' = [connection EXCEPT ![r] = "none"] /\ request' = [request EXCEPT ![r].pc = p]
  BY <1>2 DEF Listens, nativeVars, IInv, TypeOK
<1>4. p \in {"listening", "opening", "sent", "accepted", "live", "over"} /\ p # "live"
  OBVIOUS
<1> HIDE DEF p
<1> QED
  BY <1>1, <1>2, <1>3, <1>4, PlaceChanges

LEMMA EpochAnsweredKeeps ==
  ASSUME IInv, NEW r \in Requests, EpochAnswered(r) PROVE IInv'
<1>1. RequestFrame /\ disconnects' = disconnects /\ disconnects \subseteq Requests
      /\ connection' = connection /\ queue' = queue /\ policy' = policy
  BY DEF EpochAnswered, RequestFrame, nativeVars, IInv, TypeOK
<1>2. /\ connection[r] = "none" /\ request[r].pc = "opening"
      /\ request[r].client \in Tests /\ request[r].origin \in Origins
  BY DEF EpochAnswered, IInv, Coupling
<1>3. request \in [Requests -> RequestType] /\ request[r] \in RequestType
  BY Typed DEF IInv
<1> DEFINE rec == IF IsCurrent(test[request[r].client].epoch)
                  THEN [request[r] EXCEPT !.pc = "sent", !.expected = nativeEpoch]
                  ELSE [request[r] EXCEPT !.pc = "over"]
<1>4. request' = [request EXCEPT ![r] = rec]
  BY DEF EpochAnswered
<1>5. nativeEpoch \in Nat
  BY DEF IInv, TypeOK
<1>6. /\ rec \in RequestType /\ rec.client = request[r].client
      /\ rec.origin = request[r].origin /\ rec.pc \in {"sent", "over"}
  BY <1>3, <1>5 DEF RequestType
<1> HIDE DEF rec
<1>7. /\ request' \in [Requests -> RequestType] /\ request'[r] = rec
      /\ \A q \in Requests \ {r} : request'[q] = request[q]
  BY <1>3, <1>4, <1>6
<1>8. QueueInv' /\ Coupling' /\ ActiveAreAuthorized'
  BY <1>1, <1>2, <1>6, <1>7, RequestGoesOn DEF Waits
<1>9. connection' \in [Requests -> {"none", "reserved", "running"}]
  BY <1>1 DEF IInv, TypeOK
<1> QED
  BY <1>1, <1>7, <1>8, <1>9, FrameKeeps

LEMMA DisconnectKeeps ==
  ASSUME IInv, NEW r \in Requests, DisconnectRuns(r) PROVE IInv'
<1>1. /\ RequestFrame /\ request' = request /\ queue' = queue /\ policy' = policy
      /\ disconnects' = disconnects \ {r} /\ disconnects \subseteq Requests
  BY DEF DisconnectRuns, RequestFrame, IInv, TypeOK
<1>2. /\ connection' \in [Requests -> {"none", "reserved", "running"}]
      /\ connection'[r] = "none"
      /\ \A q \in Requests \ {r} : connection'[q] = connection[q]
  BY DEF DisconnectRuns, IInv, TypeOK
<1>3. QueueInv'
  BY <1>1, SameQueue DEF IInv
<1>4. Coupling' /\ ActiveAreAuthorized'
  BY <1>1, <1>2 DEF IInv, Coupling, ActiveAreAuthorized, Active
<1>5. request' \in [Requests -> RequestType]
  BY <1>1, Typed DEF IInv
<1> QED
  BY <1>1, <1>2, <1>3, <1>4, <1>5, FrameKeeps

LEMMA RequestAbortedKeeps ==
  ASSUME IInv, NEW r \in Requests, RequestAborted(r) PROVE IInv'
<1>1. Abort({r}) /\ RequestFrame /\ connection' = connection /\ queue' = queue
      /\ policy' = policy
  BY DEF RequestAborted, RequestFrame, nativeVars
<1>2. {r} \in SUBSET Requests
  OBVIOUS
<1>3. /\ request' \in [Requests -> RequestType] /\ disconnects' \in SUBSET Requests
      /\ \A q \in Requests : /\ request'[q].origin = request[q].origin
                             /\ Waits(q) => request'[q].pc = request[q].pc
      /\ Coupling'
  BY <1>1, <1>2, AbortKeeps DEF IInv
<1>4. QueueInv'
  BY <1>1, <1>3, SameQueue DEF IInv
<1>5. ActiveAreAuthorized'
  BY <1>1, <1>3 DEF IInv, ActiveAreAuthorized, Active
<1>6. connection' \in [Requests -> {"none", "reserved", "running"}]
  BY <1>1 DEF IInv, TypeOK
<1> QED
  BY <1>1, <1>3, <1>4, <1>5, <1>6, FrameKeeps

-----------------------------------------------------------------------------
(* The steps of the tests, the closes, the panel and the clear.             *)

\* What these steps change, the requests apart.
HostTyped ==
  /\ entry \in Entry \cup {None}
  /\ edits \in 0..MaxEdits
  /\ saving \in Configs \cup {None}
  /\ live \in [by : Tests, version : 0..MaxEdits] \cup {None}
  /\ test \in [Tests -> TestType]
  /\ closing \in [Actors -> [stage : {"none", "policy", "client"}, client : Tests \cup {None}]]
  /\ epoch \in 0..MaxClears
  /\ clear \in {"none", "begun", "revoking", "revoked", "closing", "emptied"}

HostInv == HostTyped /\ SavesInBounds /\ TestsConfigured

LEMMA HostHolds ==
  ASSUME IInv PROVE HostInv
BY DEF IInv, TypeOK, HostInv, HostTyped, TestType

\* They leave the requests alone ...
LEMMA HostKeeps ==
  ASSUME IInv, HostInv', QueueInv', UNCHANGED <<request, disconnects, nativeVars>>
  PROVE  IInv'
<1>1. TypeOK'
  BY DEF IInv, TypeOK, HostInv, HostTyped, TestType, QueueInv, nativeVars
<1>2. Coupling' /\ ActiveAreAuthorized'
  BY NativeKept DEF IInv, nativeVars
<1> QED
  BY <1>1, <1>2 DEF IInv, HostInv

\* ... or abort some.
LEMMA AbortingKeeps ==
  ASSUME IInv, HostInv', NEW rs \in SUBSET Requests, Abort(rs), UNCHANGED <<queue, nativeVars>>
  PROVE  IInv'
<1>1. connection' = connection /\ queue' = queue /\ policy' = policy
      /\ nativeEpoch' = nativeEpoch
  BY DEF nativeVars
<1>2. /\ request' \in [Requests -> RequestType] /\ disconnects' \in SUBSET Requests
      /\ \A q \in Requests : /\ request'[q].origin = request[q].origin
                             /\ Waits(q) => request'[q].pc = request[q].pc
      /\ Coupling'
  BY <1>1, AbortKeeps DEF IInv
<1>3. QueueInv'
  BY <1>1, <1>2, SameQueue DEF IInv
<1>4. ActiveAreAuthorized'
  BY <1>1, <1>2 DEF IInv, ActiveAreAuthorized, Active
<1>5. TypeOK'
  BY <1>1, <1>2 DEF IInv, TypeOK, HostInv, HostTyped, TestType, RequestType
<1> QED
  BY <1>2, <1>3, <1>4, <1>5 DEF IInv, HostInv

LEMMA CloseEndsKeeps ==
  ASSUME IInv, NEW a \in Actors, CloseEnds(a) PROVE IInv'
<1> DEFINE t == closing[a].client
<1>1. HostInv
  BY HostHolds
<1>2. closing' = [closing EXCEPT ![a] = NoClose] /\ t \in Tests \cup {None}
  BY <1>1 DEF CloseEnds, HostInv, HostTyped
<1>3. closing' \in [Actors -> [stage : {"none", "policy", "client"}, client : Tests \cup {None}]]
  BY <1>1, <1>2 DEF HostInv, HostTyped, NoClose
<1>4. UNCHANGED <<storeVars, live, queue, gateVars, nativeVars>>
  BY DEF CloseEnds
<1>5. CASE t = None
  <2>1. UNCHANGED <<test, request, disconnects>>
    BY <1>5 DEF CloseEnds
  <2>2. HostInv'
    BY <1>1, <1>3, <1>4, <2>1 DEF HostInv, HostTyped, SavesInBounds, TestsConfigured,
       storeVars, gateVars
  <2>3. QueueInv'
    BY <1>4, <2>1, SameQueue DEF IInv
  <2> QED
    BY <1>4, <2>1, <2>2, <2>3, HostKeeps
<1>6. CASE t # None
  <2>1. test' = [test EXCEPT ![t].client = "closed"] /\ CloseClient(t)
    BY <1>6 DEF CloseEnds
  <2>2. t \in Tests /\ test \in [Tests -> TestType] /\ test[t] \in TestType
    BY <1>1, <1>2, <1>6 DEF HostInv, HostTyped
  <2> DEFINE rec == [test[t] EXCEPT !.client = "closed"]
  <2>3. rec \in TestType /\ rec.pc = test[t].pc /\ rec.config = test[t].config
    BY <2>2 DEF TestType
  <2>4. test' = [test EXCEPT ![t] = rec]
    BY <2>1
  <2> HIDE DEF rec, t
  <2>5. /\ test' \in [Tests -> TestType] /\ test'[t] = rec
        /\ \A u \in Tests \ {t} : test'[u] = test[u]
    BY <2>2, <2>3, <2>4
  <2>6. HostInv'
    BY <1>1, <1>3, <1>4, <2>2, <2>3, <2>5 DEF HostInv, HostTyped, SavesInBounds,
       TestsConfigured, storeVars, gateVars
  <2> QED
    BY <1>4, <2>1, <2>6, AbortingKeeps DEF CloseClient
<1> QED
  BY <1>5, <1>6

LEMMA FetchKeeps ==
  ASSUME IInv, NEW r \in Requests, NEW t \in Tests, NEW o \in Origins, NEW b \in BOOLEAN,
         Fetch(r, t, o, b)
  PROVE  IInv'
<1> DEFINE known == o \in test[t].approved
           rec == [NoRequest EXCEPT !.pc = IF known THEN "listening" ELSE "approving",
                                    !.client = t, !.origin = o, !.abortable = b]
           op == [kind |-> "approve", owner |-> r, origins |-> test[t].approved \cup {o},
                  credentials |-> test[t].config \in Secret, epoch |-> test[t].epoch]
           tested == [test[t] EXCEPT !.approved = @ \cup {o}]
<1>1. HostInv /\ request \in [Requests -> RequestType] /\ request[r].pc = "idle"
  BY HostHolds, Typed DEF Fetch, IInv
<1>2. /\ rec \in RequestType /\ rec.client = t /\ rec.origin = o /\ ~rec.aborted
      /\ rec.pc = IF known THEN "listening" ELSE "approving"
  BY RemoteMcpAssumption DEF RequestType, NoRequest
<1>3. test[t] \in TestType /\ test \in [Tests -> TestType]
  BY <1>1 DEF HostInv, HostTyped
<1>4. tested \in TestType /\ tested.pc = test[t].pc /\ tested.config = test[t].config
  BY <1>3 DEF TestType
<1>5. /\ request' = [request EXCEPT ![r] = rec]
      /\ test' = [test EXCEPT ![t] = tested]
      /\ known => queue' = queue
      /\ ~known => queue' = Append(queue, op)
      /\ UNCHANGED <<storeVars, live, closing, disconnects, gateVars, nativeVars>>
  BY DEF Fetch, Grant, Operate
<1>6. op \in Operation
  <2>1. test[t].approved \in SUBSET Origins /\ test[t].epoch \in 0..MaxClears
    BY <1>3 DEF TestType
  <2> QED
    BY <2>1 DEF Operation
<1>7. Owned(op, request') <=> request'[r].pc = "approving"
  BY DEF Owned
<1>8. op.owner = r
  OBVIOUS
<1> HIDE DEF rec, tested, op
<1>9. /\ request' \in [Requests -> RequestType] /\ request'[r] = rec
      /\ \A q \in Requests \ {r} : request'[q] = request[q]
  BY <1>1, <1>2, <1>5
<1>10. ~Waits(r) /\ \A q \in Requests : Waits(q) => request'[q].pc = request[q].pc
  BY <1>1, <1>9 DEF Waits
<1>11. QueueInv'
  <2>1. CASE known
    BY <2>1, <1>5, <1>10, SameQueue DEF IInv
  <2>2. CASE ~known
    BY <2>2, <1>2, <1>5, <1>6, <1>7, <1>8, <1>9, <1>10, OneJoins DEF IInv
  <2> QED
    BY <2>1, <2>2
<1>12. UNCHANGED <<connection, policy, disconnects, nativeEpoch>>
  BY <1>5 DEF nativeVars
<1>13. connection[r] = "none"
  BY <1>1 DEF IInv, Coupling, TypeOK
<1>14. Coupling' /\ ActiveAreAuthorized'
  BY <1>2, <1>9, <1>12, <1>13 DEF IInv, Coupling, ActiveAreAuthorized, Active
<1>15. /\ test' \in [Tests -> TestType] /\ test'[t] = tested
       /\ \A u \in Tests \ {t} : test'[u] = test[u]
  BY <1>3, <1>4, <1>5
<1>16. HostInv'
  BY <1>1, <1>4, <1>5, <1>15 DEF HostInv, HostTyped, SavesInBounds, TestsConfigured,
     storeVars, gateVars
<1>17. TypeOK'
  BY <1>9, <1>11, <1>12, <1>16 DEF IInv, TypeOK, HostInv, HostTyped, TestType, RequestType,
     QueueInv
<1> QED
  BY <1>11, <1>14, <1>16, <1>17 DEF IInv, HostInv

\* A test changes its record, or its place.
LEMMA TestSet ==
  ASSUME HostInv, NEW t \in Tests, NEW rec \in TestType, test' = [test EXCEPT ![t] = rec],
         rec.pc = "closing" => rec.config \in Configs
  PROVE  test' \in [Tests -> TestType] /\ TestsConfigured'
<1>1. /\ test' \in [Tests -> TestType] /\ test'[t] = rec
      /\ \A u \in Tests \ {t} : test'[u] = test[u]
  BY DEF HostInv, HostTyped
<1> QED
  BY <1>1 DEF HostInv, TestsConfigured

LEMMA TestPlaced ==
  ASSUME HostInv, NEW t \in Tests,
         NEW p \in {"policy", "connecting", "failing", "over"}, test' = [test EXCEPT ![t].pc = p]
  PROVE  test' \in [Tests -> TestType] /\ TestsConfigured'
<1> DEFINE rec == [test[t] EXCEPT !.pc = p]
<1>1. test[t] \in TestType /\ test' = [test EXCEPT ![t] = rec]
  BY DEF HostInv, HostTyped
<1>2. rec \in TestType /\ rec.pc = p
  BY <1>1 DEF TestType
<1> HIDE DEF rec
<1> QED
  BY <1>1, <1>2, TestSet

\* The operation of a test joins the queue.
LEMMA GrantJoins ==
  ASSUME IInv, NEW t \in Tests, NEW origins \in SUBSET Origins, NEW k,
         NEW e \in 0..MaxClears, queue' = Operate("grant", t, origins, k \in Secret, e),
         request' = request
  PROVE  QueueInv'
<1> DEFINE op == [kind |-> "grant", owner |-> t, origins |-> origins,
                  credentials |-> k \in Secret, epoch |-> e]
<1>1. op \in Operation /\ queue' = Append(queue, op)
  BY DEF Operation, Operate, Actors
<1>2. Owned(op, request') /\ ~Awaited(op)
  BY DEF Owned, Awaited
<1> HIDE DEF op
<1> QED
  BY <1>1, <1>2, OneJoins DEF IInv

LEMMA BeginTestKeeps ==
  ASSUME IInv, NEW t \in Tests, BeginTest(t) PROVE IInv'
<1> DEFINE begun == [NoTest EXCEPT !.config = entry.config, !.version = entry.version,
                                   !.epoch = epoch]
<1>1. HostInv /\ entry \in Entry /\ epoch \in 0..MaxClears /\ t \in Actors
  BY HostHolds DEF BeginTest, HostInv, HostTyped, Actors
<1>2. OriginOf[entry.config] \in Origins /\ entry.config \in Configs
      /\ entry.version \in 0..MaxEdits
  BY <1>1, RemoteMcpAssumption DEF Entry
<1>3. begun \in TestType /\ begun.config = entry.config
  BY <1>1, <1>2 DEF NoTest, TestType
<1>4. UNCHANGED <<storeVars, request, disconnects, gateVars, nativeVars>>
  BY DEF BeginTest
<1>5. CASE live # None
  <2> DEFINE rec == [begun EXCEPT !.pc = "closing"]
  <2>1. rec \in TestType /\ rec.config = entry.config
    BY <1>3 DEF TestType
  <2>2. test' = [test EXCEPT ![t] = rec] /\ StartClose(t)
    BY <1>5 DEF BeginTest
  <2> HIDE DEF rec
  <2>3. test' \in [Tests -> TestType] /\ TestsConfigured'
    BY <1>1, <1>2, <2>1, <2>2, TestSet
  <2>4. /\ closing' \in [Actors -> [stage : {"none", "policy", "client"},
                                    client : Tests \cup {None}]]
        /\ live' = None /\ QueueInv'
    BY <1>1, <1>4, <2>2, CloseStarts DEF IInv
  <2>5. HostInv'
    BY <1>1, <1>4, <2>3, <2>4 DEF HostInv, HostTyped, SavesInBounds, storeVars, gateVars
  <2> QED
    BY <1>4, <2>4, <2>5, HostKeeps
<1>6. CASE live = None
  <2> DEFINE rec == [begun EXCEPT !.pc = "policy", !.approved = {OriginOf[entry.config]}]
  <2>1. rec \in TestType /\ rec.pc = "policy"
    BY <1>2, <1>3 DEF TestType
  <2>2. /\ test' = [test EXCEPT ![t] = rec]
        /\ queue' = Operate("grant", t, {OriginOf[entry.config]}, entry.config \in Secret, epoch)
        /\ UNCHANGED <<live, closing>>
    BY <1>6 DEF BeginTest
  <2> HIDE DEF rec
  <2>3. test' \in [Tests -> TestType] /\ TestsConfigured'
    BY <1>1, <2>1, <2>2, TestSet
  <2>4. QueueInv'
    <3>1. {OriginOf[entry.config]} \in SUBSET Origins /\ request' = request
      BY <1>2, <1>4
    <3> QED
      BY <1>1, <2>2, <3>1, GrantJoins
  <2>5. HostInv'
    BY <1>1, <1>4, <2>2, <2>3 DEF HostInv, HostTyped, SavesInBounds, storeVars, gateVars
  <2> QED
    BY <1>4, <2>4, <2>5, HostKeeps
<1> QED
  BY <1>5, <1>6

LEMMA CreatesRemoteKeeps ==
  ASSUME IInv, NEW t \in Tests, CreatesRemote(t) PROVE IInv'
<1> DEFINE own == {OriginOf[test[t].config]}
<1>1. HostInv /\ test[t] \in TestType /\ test[t].config \in Configs
  BY HostHolds DEF CreatesRemote, HostInv, HostTyped, TestsConfigured
<1>2. own \in SUBSET Origins
  BY <1>1, RemoteMcpAssumption
<1>3. UNCHANGED <<storeVars, live, closing, request, disconnects, gateVars, nativeVars>>
  BY DEF CreatesRemote
<1>4. CASE IsCurrent(test[t].epoch) /\ live = None
  <2> DEFINE rec == [test[t] EXCEPT !.pc = "policy", !.approved = own]
  <2>1. rec \in TestType /\ rec.pc = "policy"
    BY <1>1, <1>2 DEF TestType
  <2>2. /\ test' = [test EXCEPT ![t] = rec]
        /\ queue' = Operate("grant", t, own, test[t].config \in Secret, test[t].epoch)
    BY <1>4 DEF CreatesRemote, Grant
  <2> HIDE DEF rec, own
  <2>3. test' \in [Tests -> TestType] /\ TestsConfigured'
    BY <1>1, <2>1, <2>2, TestSet
  <2>4. test[t].epoch \in 0..MaxClears
    BY <1>1 DEF TestType
  <2>5. QueueInv'
    <3>1. request' = request
      BY <1>3
    <3> QED
      BY <1>2, <2>2, <2>4, <3>1, GrantJoins DEF own
  <2>6. HostInv'
    BY <1>1, <1>3, <2>3 DEF HostInv, HostTyped, SavesInBounds, storeVars, gateVars
  <2> QED
    BY <1>3, <2>5, <2>6, HostKeeps
<1>5. CASE ~(IsCurrent(test[t].epoch) /\ live = None)
  <2>1. test' = [test EXCEPT ![t].pc = "over"] /\ queue' = queue
    BY <1>5 DEF CreatesRemote
  <2>2. test' \in [Tests -> TestType] /\ TestsConfigured'
    BY <1>1, <2>1, TestPlaced
  <2>3. QueueInv'
    BY <1>3, <2>1, SameQueue DEF IInv
  <2>4. HostInv'
    BY <1>1, <1>3, <2>2 DEF HostInv, HostTyped, SavesInBounds, storeVars, gateVars
  <2> QED
    BY <1>3, <2>3, <2>4, HostKeeps
<1> QED
  BY <1>4, <1>5

LEMMA ClientCreatedKeeps ==
  ASSUME IInv, NEW t \in Tests, ClientCreated(t) PROVE IInv'
<1>1. HostInv /\ test[t] \in TestType
  BY HostHolds DEF HostInv, HostTyped
<1>2. UNCHANGED <<storeVars, closing, request, queue, disconnects, gateVars, nativeVars>>
  BY DEF ClientCreated
<1>3. QueueInv'
  BY <1>2, SameQueue DEF IInv
<1>4. /\ test' \in [Tests -> TestType] /\ TestsConfigured'
      /\ live' \in [by : Tests, version : 0..MaxEdits] \cup {None}
  <2>1. CASE IsCurrent(test[t].epoch)
    <3> DEFINE rec == [test[t] EXCEPT !.pc = "connecting", !.client = "open"]
    <3>1. rec \in TestType /\ rec.pc = "connecting"
      BY <1>1 DEF TestType
    <3>2. test' = [test EXCEPT ![t] = rec] /\ live' = [by |-> t, version |-> test[t].version]
      BY <2>1 DEF ClientCreated
    <3> HIDE DEF rec
    <3>3. test' \in [Tests -> TestType] /\ TestsConfigured'
      BY <1>1, <3>1, <3>2, TestSet
    <3>4. test[t].version \in 0..MaxEdits
      BY <1>1 DEF TestType
    <3> QED
      BY <3>2, <3>3, <3>4
  <2>2. CASE ~IsCurrent(test[t].epoch)
    <3>1. test' = [test EXCEPT ![t].pc = "over"] /\ live' = live
      BY <2>2 DEF ClientCreated
    <3>2. test' \in [Tests -> TestType] /\ TestsConfigured'
      BY <1>1, <3>1, TestPlaced
    <3> QED
      BY <1>1, <3>1, <3>2 DEF HostInv, HostTyped
  <2> QED
    BY <2>1, <2>2
<1>5. HostInv'
  BY <1>1, <1>2, <1>4 DEF HostInv, HostTyped, SavesInBounds, storeVars, gateVars
<1> QED
  BY <1>2, <1>3, <1>5, HostKeeps

LEMMA ClientConnectedKeeps ==
  ASSUME IInv, NEW t \in Tests, ClientConnected(t) PROVE IInv'
<1>1. HostInv /\ test[t] \in TestType
  BY HostHolds DEF HostInv, HostTyped
<1>2. UNCHANGED <<storeVars, closing, queue, gateVars, nativeVars>>
  BY DEF ClientConnected
<1>3. CASE IsCurrent(test[t].epoch)
  <2>1. test' = [test EXCEPT ![t].pc = "over"] /\ UNCHANGED <<live, request, disconnects>>
    BY <1>3 DEF ClientConnected
  <2>2. test' \in [Tests -> TestType] /\ TestsConfigured'
    BY <1>1, <2>1, TestPlaced
  <2>3. QueueInv'
    BY <1>2, <2>1, SameQueue DEF IInv
  <2>4. HostInv'
    BY <1>1, <1>2, <2>1, <2>2 DEF HostInv, HostTyped, SavesInBounds, storeVars, gateVars
  <2> QED
    BY <1>2, <2>1, <2>3, <2>4, HostKeeps
<1>4. CASE ~IsCurrent(test[t].epoch)
  <2> DEFINE rec == [test[t] EXCEPT !.pc = "over", !.client = "closed"]
  <2>1. rec \in TestType /\ rec.pc = "over"
    BY <1>1 DEF TestType
  <2>2. /\ test' = [test EXCEPT ![t] = rec] /\ CloseClient(t)
        /\ live' \in {live, None}
    BY <1>4 DEF ClientConnected
  <2> HIDE DEF rec
  <2>3. test' \in [Tests -> TestType] /\ TestsConfigured'
    BY <1>1, <2>1, <2>2, TestSet
  <2>4. HostInv'
    BY <1>1, <1>2, <2>2, <2>3 DEF HostInv, HostTyped, SavesInBounds, storeVars, gateVars
  <2> QED
    BY <1>2, <2>2, <2>4, AbortingKeeps DEF CloseClient
<1> QED
  BY <1>3, <1>4

LEMMA ClientFailsKeeps ==
  ASSUME IInv, NEW t \in Tests, ClientFails(t) PROVE IInv'
<1>1. HostInv /\ t \in Actors
  BY HostHolds DEF Actors
<1>2. UNCHANGED <<storeVars, request, disconnects, gateVars, nativeVars>>
  BY DEF ClientFails
<1>3. CASE IsCurrent(test[t].epoch)
  <2>1. test' = [test EXCEPT ![t].pc = "failing"] /\ StartClose(t)
    BY <1>3 DEF ClientFails
  <2>2. test' \in [Tests -> TestType] /\ TestsConfigured'
    BY <1>1, <2>1, TestPlaced
  <2>3. /\ closing' \in [Actors -> [stage : {"none", "policy", "client"},
                                    client : Tests \cup {None}]]
        /\ live' = None /\ QueueInv'
    BY <1>1, <1>2, <2>1, CloseStarts DEF IInv
  <2>4. HostInv'
    BY <1>1, <1>2, <2>2, <2>3 DEF HostInv, HostTyped, SavesInBounds, storeVars, gateVars
  <2> QED
    BY <1>2, <2>3, <2>4, HostKeeps
<1>4. CASE ~IsCurrent(test[t].epoch)
  <2>1. test' = [test EXCEPT ![t].pc = "over"] /\ UNCHANGED <<live, closing, queue>>
    BY <1>4 DEF ClientFails
  <2>2. test' \in [Tests -> TestType] /\ TestsConfigured'
    BY <1>1, <2>1, TestPlaced
  <2>3. QueueInv'
    BY <1>2, <2>1, SameQueue DEF IInv
  <2>4. HostInv'
    BY <1>1, <1>2, <2>1, <2>2 DEF HostInv, HostTyped, SavesInBounds, storeVars, gateVars
  <2> QED
    BY <1>2, <2>3, <2>4, HostKeeps
<1> QED
  BY <1>3, <1>4

LEMMA FailureClosedKeeps ==
  ASSUME IInv, NEW t \in Tests, FailureClosed(t) PROVE IInv'
<1>1. HostInv
  BY HostHolds
<1>2. /\ test' = [test EXCEPT ![t].pc = "over"]
      /\ UNCHANGED <<storeVars, live, closing, request, queue, disconnects, gateVars, nativeVars>>
  BY DEF FailureClosed
<1>3. test' \in [Tests -> TestType] /\ TestsConfigured'
  BY <1>1, <1>2, TestPlaced
<1>4. QueueInv'
  BY <1>2, SameQueue DEF IInv
<1>5. HostInv'
  BY <1>1, <1>2, <1>3 DEF HostInv, HostTyped, SavesInBounds, storeVars, gateVars
<1> QED
  BY <1>2, <1>4, <1>5, HostKeeps

LEMMA PanelKeeps ==
  ASSUME IInv, CloseServer \/ DeleteServer \/ \E k \in Configs : SaveServer(k)
  PROVE  IInv'
<1>1. HostInv /\ Panel \in Actors /\ edits < MaxEdits /\ saving = None /\ MaxEdits \in Nat
  BY HostHolds, RemoteMcpAssumption DEF CloseServer, DeleteServer, SaveServer, MayEdit, Actors
<1>2. StartClose(Panel) /\ UNCHANGED <<test, request, disconnects, gateVars, nativeVars>>
  BY DEF CloseServer, DeleteServer, SaveServer
<1>3. /\ entry' \in {entry, None}
      /\ \/ edits' = edits + 1 /\ saving' = saving
         \/ edits' = edits /\ saving' \in Configs
  BY DEF CloseServer, DeleteServer, SaveServer
<1>4. edits + 1 \in 0..MaxEdits
  BY <1>1 DEF HostInv, HostTyped
<1>5. /\ closing' \in [Actors -> [stage : {"none", "policy", "client"}, client : Tests \cup {None}]]
      /\ live' = None /\ QueueInv'
  BY <1>1, <1>2, CloseStarts DEF IInv
<1>6. HostTyped'
  BY <1>1, <1>2, <1>3, <1>4, <1>5 DEF HostInv, HostTyped, gateVars
<1>7. SavesInBounds' /\ TestsConfigured'
  BY <1>1, <1>2, <1>3 DEF HostInv, SavesInBounds, TestsConfigured
<1> QED
  BY <1>2, <1>5, <1>6, <1>7, HostKeeps DEF HostInv

LEMMA ReplaceKeeps ==
  ASSUME IInv, ReplaceServers PROVE IInv'
<1>1. HostInv /\ saving \in Configs /\ edits < MaxEdits /\ MaxEdits \in Nat
  BY HostHolds, RemoteMcpAssumption DEF ReplaceServers, HostInv, HostTyped, SavesInBounds
<1>2. /\ entry' = [config |-> saving, version |-> edits + 1] /\ edits' = edits + 1
      /\ saving' = None
      /\ UNCHANGED <<managerVars, request, queue, disconnects, gateVars, nativeVars>>
  BY DEF ReplaceServers
<1>3. edits + 1 \in 0..MaxEdits
  BY <1>1 DEF HostInv, HostTyped
<1>4. entry' \in Entry
  BY <1>1, <1>2, <1>3 DEF Entry
<1>5. HostInv'
  BY <1>1, <1>2, <1>3, <1>4 DEF HostInv, HostTyped, SavesInBounds, TestsConfigured,
     managerVars, gateVars
<1>6. QueueInv'
  BY <1>2, SameQueue DEF IInv
<1> QED
  BY <1>2, <1>5, <1>6, HostKeeps

LEMMA ClearKeeps ==
  ASSUME IInv, ClearBegins \/ ClearRevokes \/ ClearCloses \/ ClearStores \/ ClearEnds
  PROVE  IInv'
<1>1. HostInv /\ Clear \in Actors /\ MaxClears \in Nat
  BY HostHolds, RemoteMcpAssumption DEF Actors
<1>2. CASE ClearBegins
  <2>1. epoch + 1 \in 0..MaxClears
    BY <1>1, <1>2 DEF ClearBegins, HostInv, HostTyped
  <2>2. HostInv'
    BY <1>1, <1>2, <2>1 DEF ClearBegins, HostInv, HostTyped, SavesInBounds, TestsConfigured,
       storeVars, managerVars
  <2>3. QueueInv'
    BY <1>2, SameQueue DEF IInv, ClearBegins
  <2> QED
    BY <1>2, <2>2, <2>3, HostKeeps DEF ClearBegins
<1>3. CASE ClearRevokes
  <2> DEFINE op == [kind |-> "clear", owner |-> Clear, origins |-> {}, credentials |-> FALSE,
                    epoch |-> 0]
  <2>1. op \in Operation /\ queue' = Append(queue, op) /\ request' = request
    BY <1>1, <1>3 DEF ClearRevokes, Operation, Operate
  <2>2. Owned(op, request') /\ ~Awaited(op)
    BY DEF Owned, Awaited
  <2> HIDE DEF op
  <2>3. QueueInv'
    BY <2>1, <2>2, OneJoins DEF IInv
  <2>4. HostInv'
    BY <1>1, <1>3 DEF ClearRevokes, HostInv, HostTyped, SavesInBounds, TestsConfigured,
       storeVars, managerVars
  <2> QED
    BY <1>3, <2>3, <2>4, HostKeeps DEF ClearRevokes
<1>4. CASE ClearCloses
  <2>1. UNCHANGED <<storeVars, test, request, disconnects, epoch, nativeVars>>
        /\ clear' = "closing"
    BY <1>4 DEF ClearCloses
  <2>2. /\ closing' \in [Actors -> [stage : {"none", "policy", "client"},
                                    client : Tests \cup {None}]]
        /\ live' \in [by : Tests, version : 0..MaxEdits] \cup {None}
        /\ QueueInv'
    <3>1. CASE UNCHANGED <<live, closing, queue>>
      BY <1>1, <2>1, <3>1, SameQueue DEF IInv, HostInv, HostTyped
    <3>2. CASE StartClose(Clear)
      BY <1>1, <2>1, <3>2, CloseStarts DEF IInv
    <3> QED
      BY <1>4, <3>1, <3>2 DEF ClearCloses
  <2>3. HostInv'
    BY <1>1, <2>1, <2>2 DEF HostInv, HostTyped, SavesInBounds, TestsConfigured, storeVars
  <2> QED
    BY <2>1, <2>2, <2>3, HostKeeps
<1>5. CASE ClearStores
  <2>1. HostInv'
    BY <1>1, <1>5 DEF ClearStores, HostInv, HostTyped, SavesInBounds, TestsConfigured,
       managerVars
  <2>2. QueueInv'
    BY <1>5, SameQueue DEF IInv, ClearStores
  <2> QED
    BY <1>5, <2>1, <2>2, HostKeeps DEF ClearStores
<1>6. CASE ClearEnds
  <2>1. HostInv'
    BY <1>1, <1>6 DEF ClearEnds, HostInv, HostTyped, SavesInBounds, TestsConfigured,
       storeVars, managerVars
  <2>2. QueueInv'
    BY <1>6, SameQueue DEF IInv, ClearEnds
  <2> QED
    BY <1>6, <2>1, <2>2, HostKeeps DEF ClearEnds
<1> QED
  BY <1>2, <1>3, <1>4, <1>5, <1>6

-----------------------------------------------------------------------------
(* The invariant and what it implies.                                       *)

LEMMA InitIInv == Init => IInv
<1> SUFFICES ASSUME Init PROVE IInv
  OBVIOUS
<1>1. entry \in Entry /\ edits = 0 /\ MaxEdits \in Nat /\ MaxClears \in Nat
  BY RemoteMcpAssumption DEF Init, Entry
<1>2. NoTest \in TestType /\ NoTest.pc = "idle"
  BY <1>1 DEF NoTest, TestType
<1>3. NoRequest \in RequestType /\ NoRequest.pc = "idle"
  BY DEF NoRequest, RequestType
<1>4. /\ test = [t \in Tests |-> NoTest] /\ test \in [Tests -> TestType]
      /\ request = [r \in Requests |-> NoRequest] /\ request \in [Requests -> RequestType]
  BY <1>2, <1>3 DEF Init
<1>5. queue = <<>> /\ queue \in Seq(Operation)
  BY DEF Init
<1>6. TypeOK
  BY <1>1, <1>4, <1>5 DEF Init, TypeOK, TestType, RequestType, NoClose
<1>7. QueueInv
  BY <1>5 DEF QueueInv, QueueOwned, OneAwaited
<1>8. Coupling
  BY <1>3, <1>4 DEF Coupling, Init
<1>9. SavesInBounds /\ TestsConfigured
  BY <1>2, <1>4 DEF Init, SavesInBounds, TestsConfigured
<1>10. ActiveAreAuthorized
  BY DEF Init, ActiveAreAuthorized, Active
<1> QED
  BY <1>6, <1>7, <1>8, <1>9, <1>10 DEF IInv

LEMMA NextIInv == IInv /\ [Next]_vars => IInv'
<1> SUFFICES ASSUME IInv, [Next]_vars PROVE IInv'
  OBVIOUS
<1>1. CASE QueueStep
  BY <1>1, RejectedKeeps, GrantKeeps, ApproveKeeps, WidenKeeps, ResetKeeps, ClearRunsKeeps
     DEF QueueStep
<1>2. CASE UserStep \/ ReplaceServers
  BY <1>2, PanelKeeps, ClearKeeps, ReplaceKeeps DEF UserStep
<1>3. CASE ClearRevokes \/ ClearCloses \/ ClearStores \/ ClearEnds
  BY <1>3, ClearKeeps
<1>4. CASE \E a \in Actors : CloseEnds(a)
  BY <1>4, CloseEndsKeeps
<1>5. CASE \E t \in Tests : BeginTest(t) \/ TestStep(t) \/ ClientStep(t)
  BY <1>5, BeginTestKeeps, CreatesRemoteKeeps, ClientCreatedKeeps, ClientConnectedKeeps,
     ClientFailsKeeps, FailureClosedKeeps, FetchKeeps DEF TestStep, ClientStep
<1>6. CASE \E r \in Requests : \/ ConnectStep(r) \/ WebviewStep(r) \/ TaskEnds(r)
                               \/ DisconnectRuns(r) \/ RequestAborted(r)
  BY <1>6, ReserveKeeps, ConnectFailsKeeps, ConnectReturnsKeeps, ListensKeeps,
     EpochAnsweredKeeps, TaskEndsKeeps, DisconnectKeeps, RequestAbortedKeeps
     DEF ConnectStep, WebviewStep
<1>7. CASE UNCHANGED vars
  <2>1. UNCHANGED <<request, disconnects, nativeVars, queue>>
    BY <1>7 DEF vars
  <2>2. QueueInv'
    BY <2>1, SameQueue DEF IInv
  <2>3. HostInv'
    BY <1>7, HostHolds DEF vars, HostInv, HostTyped, SavesInBounds, TestsConfigured,
       storeVars, managerVars, gateVars
  <2> QED
    BY <2>1, <2>2, <2>3, HostKeeps
<1> QED
  BY <1>1, <1>2, <1>3, <1>4, <1>5, <1>6, <1>7 DEF Next

LEMMA Invariance == Spec => []IInv
BY InitIInv, NextIInv, PTL DEF Spec

\* Every variable keeps its type: what the queue's operations and the requests
\* hold when they go on is what set_remote_policy and mcp_remote_connect expect.
THEOREM TypeCorrect == Spec => []TypeOK
<1>1. IInv => TypeOK
  BY DEF IInv
<1> QED
  BY <1>1, Invariance, PTL

\* No connection of the native side outlives the approval it rests on, whatever
\* the queue of policy operations and the connects interleave
\* (set_remote_policy, reserve_connection).
THEOREM ActiveAuthorized == Spec => []ActiveAreAuthorized
<1>1. IInv => ActiveAreAuthorized
  BY DEF IInv
<1> QED
  BY <1>1, Invariance, PTL

\* An aborted request that is over has no connection left unless a disconnect
\* is on its way, in whatever order abort, disconnect and connect happen
\* (createTauriMcpFetch).
THEOREM AbortedDisconnected == Spec => []AbortedAreDisconnected
<1>1. IInv => AbortedAreDisconnected
  BY DEF IInv, Coupling, AbortedAreDisconnected
<1> QED
  BY <1>1, Invariance, PTL

-----------------------------------------------------------------------------
(***************************************************************************)
(* What a full clear does to a remote server.  Until the native side is    *)
(* told of a clear it belongs to the epoch before it: FromEpoch.  An       *)
(* operation of the queue speaks for a test of its own epoch, so that one  *)
(* that passes the gate sets a policy of the current epoch.                *)
(***************************************************************************)

FromEpoch(e, c, n) == IF c \in {"begun", "revoking"} THEN e + 1 = n ELSE e = n

\* A test that has been begun keeps its epoch, and loses no approval.
Begun(rec) == rec.pc \notin {"idle", "closing"}

TestsBegun == \A t \in Tests :
  /\ ~Begun(test[t]) => test[t].approved = {}
  /\ test[t].client # "none" => Begun(test[t])

RequestsBegun == \A r \in Requests :
  /\ request[r].pc # "idle" => test[request[r].client].client # "none"
  /\ request[r].pc = "sent" => request[r].expected <= nativeEpoch
  /\ request[r].pc = "sent" /\ request[r].expected = nativeEpoch =>
       FromEpoch(test[request[r].client].epoch, clear, epoch)

SpeaksFor(op, rec) ==
  Begun(rec) /\ rec.epoch = op.epoch /\ op.origins \subseteq rec.approved

OpSound(op, tst, req) ==
  /\ op.kind = "grant" => SpeaksFor(op, tst[op.owner])
  /\ Awaited(op) => req[op.owner].pc # "idle" /\ SpeaksFor(op, tst[req[op.owner].client])
  /\ op.kind = "reset" => op.origins = {}

QueueSound == \A i \in 1..Len(queue) : OpSound(queue[i], test, request)

OneClear == \A i, j \in 1..Len(queue) : queue[i].kind = "clear" =>
  clear = "revoking" /\ (queue[j].kind = "clear" => i = j)

ActiveSound == \A r \in Requests :
  connection[r] # "none" => FromEpoch(test[request[r].client].epoch, clear, epoch)

PolicySound == policy # None => \E t \in Tests :
  /\ Begun(test[t]) /\ FromEpoch(test[t].epoch, clear, epoch)
  /\ policy.origins \subseteq test[t].approved

ClearSound ==
  /\ clear \in {"revoked", "closing", "emptied"} =>
       policy = None /\ \A r \in Requests : connection[r] = "none"
  /\ clear \in {"closing", "emptied"} => live = None

\* Only a client that was made is connected, or being closed.
ClientsMade ==
  /\ live # None => test[live.by].client # "none"
  /\ \A a \in Actors : closing[a].client # None => test[closing[a].client].client # "none"

EpochInv == /\ TestsBegun /\ RequestsBegun /\ QueueSound /\ OneClear
            /\ ActiveSound /\ PolicySound /\ ClearSound /\ ClientsMade

-----------------------------------------------------------------------------
(* What never goes back.                                                    *)

TestsGoOn == \A t \in Tests :
  /\ Begun(test[t]) => /\ Begun(test'[t]) /\ test'[t].epoch = test[t].epoch
                       /\ test[t].approved \subseteq test'[t].approved
  /\ test[t].client # "none" => test'[t].client # "none"

RequestsGoOn == \A r \in Requests : request[r].pc # "idle" =>
  request'[r].pc # "idle" /\ request'[r].client = request[r].client

\* No test changes, or one does.
LEMMA SameTests ==
  ASSUME TestsBegun, test' = test PROVE TestsGoOn /\ TestsBegun'
BY DEF TestsGoOn, TestsBegun

LEMMA OneTest ==
  ASSUME TestsBegun, NEW t \in Tests, NEW rec, test \in [Tests -> TestType],
         test' = [test EXCEPT ![t] = rec],
         Begun(test[t]) => /\ Begun(rec) /\ rec.epoch = test[t].epoch
                           /\ test[t].approved \subseteq rec.approved,
         test[t].client # "none" => rec.client # "none",
         ~Begun(rec) => rec.approved = {},
         rec.client # "none" => Begun(rec)
  PROVE  TestsGoOn /\ TestsBegun'
<1>1. test'[t] = rec /\ \A u \in Tests \ {t} : test'[u] = test[u]
  OBVIOUS
<1>2. TestsGoOn
  BY <1>1 DEF TestsGoOn
<1>3. TestsBegun'
  BY <1>1 DEF TestsBegun
<1> QED
  BY <1>2, <1>3

LEMMA TestGoesTo ==
  ASSUME IInv, TestsBegun, NEW t \in Tests, NEW p \in {"granted", "failing", "over"},
         test' = [test EXCEPT ![t].pc = p]
  PROVE  TestsGoOn /\ TestsBegun'
<1> DEFINE rec == [test[t] EXCEPT !.pc = p]
<1>1. /\ test \in [Tests -> TestType] /\ test[t] \in TestType
      /\ test' = [test EXCEPT ![t] = rec]
  BY Typed DEF IInv
<1>2. /\ Begun(rec) /\ rec.epoch = test[t].epoch /\ rec.approved = test[t].approved
      /\ rec.client = test[t].client
  BY <1>1 DEF TestType, Begun
<1> HIDE DEF rec
<1> QED
  BY <1>1, <1>2, OneTest

LEMMA ClientsStayMade ==
  ASSUME IInv, ClientsMade, TestsGoOn,
         live' # None => live' = live \/ test'[live'.by].client # "none",
         \A a \in Actors : closing'[a].client # None =>
           \/ closing'[a].client = closing[a].client
           \/ live # None /\ closing'[a].client = live.by
  PROVE  ClientsMade'
<1>1. live # None => live.by \in Tests
  BY DEF IInv, TypeOK
<1>2. \A a \in Actors : closing[a].client # None => closing[a].client \in Tests
  BY HostHolds DEF HostInv, HostTyped
<1>3. live' # None => test'[live'.by].client # "none"
  BY <1>1 DEF ClientsMade, TestsGoOn
<1>4. ASSUME NEW a \in Actors, closing'[a].client # None
      PROVE  test'[closing'[a].client].client # "none"
  BY <1>1, <1>2, <1>4 DEF ClientsMade, TestsGoOn
<1> QED
  BY <1>3, <1>4 DEF ClientsMade

\* An operation that is queued stays sound.
LEMMA StaysSound ==
  ASSUME IInv, EpochInv, TestsGoOn, RequestsGoOn, NEW i \in 1..Len(queue)
  PROVE  OpSound(queue[i], test', request')
<1> DEFINE op == queue[i]
<1>1. OpSound(op, test, request) /\ Owned(op, request)
  BY DEF EpochInv, QueueSound, IInv, QueueInv, QueueOwned
<1>2. CASE op.kind = "grant"
  <2>1. op.owner \in Tests /\ SpeaksFor(op, test[op.owner])
    BY <1>1, <1>2 DEF OpSound, Owned
  <2>2. SpeaksFor(op, test'[op.owner])
    BY <2>1 DEF TestsGoOn, SpeaksFor
  <2> QED
    BY <1>2, <2>2 DEF OpSound, Awaited
<1>3. CASE Awaited(op)
  <2> DEFINE r == op.owner
  <2>1. /\ r \in Requests /\ request[r].pc # "idle"
        /\ SpeaksFor(op, test[request[r].client])
    BY <1>1, <1>3 DEF OpSound, Owned, Awaited
  <2>2. request[r].client \in Tests
    BY <2>1 DEF IInv, Coupling
  <2>3. request'[r].pc # "idle" /\ request'[r].client = request[r].client
    BY <2>1 DEF RequestsGoOn
  <2>4. SpeaksFor(op, test'[request[r].client])
    BY <2>1, <2>2 DEF TestsGoOn, SpeaksFor
  <2> QED
    BY <1>3, <2>3, <2>4 DEF OpSound, Awaited
<1>4. CASE op.kind # "grant" /\ ~Awaited(op)
  BY <1>1, <1>4 DEF OpSound
<1> QED
  BY <1>2, <1>3, <1>4

-----------------------------------------------------------------------------
(* The queue.                                                               *)

LEMMA SameOperations ==
  ASSUME IInv, EpochInv, TestsGoOn, RequestsGoOn, queue' = queue, clear' = clear
  PROVE  QueueSound' /\ OneClear'
<1>1. \A i \in 1..Len(queue) : OpSound(queue[i], test', request')
  BY StaysSound
<1> QED
  BY <1>1 DEF EpochInv, QueueSound, OneClear

LEMMA FirstGoes ==
  ASSUME IInv, EpochInv, TestsGoOn, RequestsGoOn, queue # <<>>, queue' = Tail(queue),
         clear' = clear \/ Head(queue).kind = "clear"
  PROVE  QueueSound' /\ OneClear'
<1>1. /\ Len(queue) \in Nat \ {0} /\ Len(queue') = Len(queue) - 1 /\ Head(queue) = queue[1]
      /\ \A i \in 1..Len(queue') : queue'[i] = queue[i + 1]
  BY DEF IInv, QueueInv
<1>2. \A i \in 1..Len(queue') : i + 1 \in 1..Len(queue) /\ i + 1 # 1 /\ queue'[i] = queue[i + 1]
  BY <1>1
<1>3. QueueSound'
  <2>1. \A i \in 1..Len(queue) : OpSound(queue[i], test', request')
    BY StaysSound
  <2> QED
    BY <1>2, <2>1 DEF QueueSound
<1>4. ASSUME NEW i \in 1..Len(queue'), NEW j \in 1..Len(queue'), queue'[i].kind = "clear"
      PROVE  clear' = "revoking" /\ (queue'[j].kind = "clear" => i = j)
  <2>1. /\ i + 1 \in 1..Len(queue) /\ j + 1 \in 1..Len(queue) /\ 1 \in 1..Len(queue)
        /\ i + 1 # 1 /\ queue[i + 1].kind = "clear" /\ queue'[j] = queue[j + 1]
    BY <1>1, <1>2, <1>4
  <2>2. queue[1].kind # "clear" /\ clear = "revoking"
    BY <2>1 DEF EpochInv, OneClear
  <2>3. queue[j + 1].kind = "clear" => i + 1 = j + 1
    BY <2>1 DEF EpochInv, OneClear
  <2> QED
    BY <1>1, <2>1, <2>2, <2>3
<1>5. OneClear'
  BY <1>4 DEF OneClear
<1> QED
  BY <1>3, <1>5

LEMMA OperationJoins ==
  ASSUME IInv, EpochInv, TestsGoOn, RequestsGoOn, NEW op, queue' = Append(queue, op),
         OpSound(op, test', request'), op \in Operation,
         \/ op.kind # "clear" /\ clear' = clear
         \/ clear # "revoking" /\ clear' = "revoking"
  PROVE  QueueSound' /\ OneClear'
<1>1. /\ Len(queue) \in Nat /\ Len(queue') = Len(queue) + 1
      /\ \A i \in 1..Len(queue) : queue'[i] = queue[i]
      /\ queue'[Len(queue) + 1] = op
  BY DEF IInv, QueueInv
<1>2. \A i \in 1..Len(queue') : i \in 1..Len(queue) \/ i = Len(queue) + 1
  BY <1>1
<1>3. QueueSound'
  <2>1. \A i \in 1..Len(queue) : OpSound(queue[i], test', request')
    BY StaysSound
  <2> QED
    BY <1>1, <1>2, <2>1 DEF QueueSound
<1>4. ASSUME NEW i \in 1..Len(queue'), NEW j \in 1..Len(queue'), queue'[i].kind = "clear"
      PROVE  clear' = "revoking" /\ (queue'[j].kind = "clear" => i = j)
  <2>1. CASE op.kind # "clear" /\ clear' = clear
    <3>1. i \in 1..Len(queue) /\ queue[i].kind = "clear"
      BY <1>1, <1>2, <1>4, <2>1
    <3>2. queue'[j].kind = "clear" => j \in 1..Len(queue) /\ queue[j].kind = "clear"
      BY <1>1, <1>2, <2>1
    <3> QED
      BY <2>1, <3>1, <3>2 DEF EpochInv, OneClear
  <2>2. CASE clear # "revoking" /\ clear' = "revoking"
    <3>1. \A k \in 1..Len(queue) : queue[k].kind # "clear"
      BY <2>2 DEF EpochInv, OneClear
    <3>2. \A k \in 1..Len(queue') : queue'[k].kind = "clear" => k = Len(queue) + 1
      BY <1>1, <1>2, <3>1
    <3> QED
      BY <2>2, <3>2, <1>4
  <2> QED
    BY <2>1, <2>2
<1>5. OneClear'
  BY <1>4 DEF OneClear
<1> QED
  BY <1>3, <1>5

LEMMA OwnerJoinsAgain ==
  ASSUME IInv, EpochInv, TestsGoOn, RequestsGoOn, NEW op, queue # <<>>,
         queue' = Tail(Append(queue, op)), OpSound(op, test', request'), op \in Operation,
         op.kind # "clear", clear' = clear
  PROVE  QueueSound' /\ OneClear'
<1> DEFINE n == Len(queue)
<1>1. n \in Nat \ {0} /\ Len(queue') = n
  BY DEF IInv, QueueInv
<1>2. /\ Append(queue, op) \in Seq(Operation) /\ Len(Append(queue, op)) = n + 1
      /\ \A i \in 1..n : Append(queue, op)[i] = queue[i]
      /\ Append(queue, op)[n + 1] = op
  BY <1>1 DEF IInv, QueueInv
<1>3. \A i \in 1..n : queue'[i] = Append(queue, op)[i + 1]
  BY <1>1, <1>2
<1>4. \A i \in 1..n : i # n => i + 1 \in 1..n /\ queue'[i] = queue[i + 1]
  BY <1>1, <1>2, <1>3
<1>5. queue'[n] = op
  BY <1>1, <1>2, <1>3
<1> HIDE DEF n
<1>6. QueueSound'
  <2>1. \A i \in 1..n : OpSound(queue[i], test', request')
    BY StaysSound DEF n
  <2>2. ASSUME NEW i \in 1..n PROVE OpSound(queue'[i], test', request')
    <3>1. CASE i = n
      BY <3>1, <1>5
    <3>2. CASE i # n
      BY <3>2, <1>4, <2>1
    <3> QED
      BY <3>1, <3>2
  <2> QED
    BY <1>1, <2>2 DEF QueueSound
<1>7. ASSUME NEW i \in 1..n, NEW j \in 1..n, queue'[i].kind = "clear"
      PROVE  clear' = "revoking" /\ (queue'[j].kind = "clear" => i = j)
  <2>1. i # n
    BY <1>5, <1>7
  <2>2. i + 1 \in 1..n /\ queue[i + 1].kind = "clear"
    BY <1>4, <1>7, <2>1
  <2>3. clear = "revoking"
    BY <2>2 DEF EpochInv, OneClear, n
  <2>4. ASSUME queue'[j].kind = "clear" PROVE i = j
    <3>1. j # n
      BY <1>5, <2>4
    <3>2. j + 1 \in 1..n /\ queue[j + 1].kind = "clear"
      BY <1>4, <2>4, <3>1
    <3>3. i + 1 = j + 1
      BY <2>2, <3>2 DEF EpochInv, OneClear, n
    <3> QED
      BY <3>3
  <2> QED
    BY <2>3, <2>4
<1>8. OneClear'
  BY <1>1, <1>7 DEF OneClear
<1> QED
  BY <1>6, <1>8

-----------------------------------------------------------------------------
(* The native side.                                                         *)

\* Clients stay with their epoch.
LEMMA ClientsStay ==
  ASSUME IInv, EpochInv, TestsGoOn, RequestsGoOn, NEW r \in Requests, request[r].pc # "idle"
  PROVE  /\ request'[r].pc # "idle" /\ request'[r].client = request[r].client
         /\ request[r].client \in Tests
         /\ test'[request[r].client].epoch = test[request[r].client].epoch
         /\ test'[request[r].client].client # "none"
<1>1. request'[r].pc # "idle" /\ request'[r].client = request[r].client
  BY DEF RequestsGoOn
<1>2. request[r].client \in Tests
  BY DEF IInv, Coupling
<1>3. test[request[r].client].client # "none" /\ Begun(test[request[r].client])
  BY <1>2 DEF EpochInv, RequestsBegun, TestsBegun
<1> QED
  BY <1>1, <1>2, <1>3 DEF TestsGoOn

\* A connection belongs to a request that has begun.
LEMMA ActiveBegan ==
  ASSUME IInv, NEW r \in Requests, connection[r] # "none"
  PROVE  request[r].pc # "idle"
BY DEF IInv, Coupling

\* No connect is sent, no connection added; the gate stays as it is.
LEMMA ActiveStays ==
  ASSUME IInv, EpochInv, TestsGoOn, RequestsGoOn, UNCHANGED <<gateVars>>,
         \A r \in Requests : connection'[r] # "none" => connection[r] # "none"
  PROVE  ActiveSound'
<1> SUFFICES ASSUME NEW r \in Requests, connection'[r] # "none"
             PROVE  FromEpoch(test'[request'[r].client].epoch, clear', epoch')
  BY DEF ActiveSound
<1>1. connection[r] # "none" /\ request[r].pc # "idle"
  BY ActiveBegan
<1>2. FromEpoch(test[request[r].client].epoch, clear, epoch)
  BY <1>1 DEF EpochInv, ActiveSound
<1>3. request'[r].client = request[r].client
      /\ test'[request[r].client].epoch = test[request[r].client].epoch
  BY <1>1, ClientsStay
<1> QED
  BY <1>2, <1>3 DEF FromEpoch, gateVars

LEMMA RequestsStay ==
  ASSUME IInv, EpochInv, TestsGoOn, RequestsGoOn, UNCHANGED <<gateVars, nativeEpoch>>,
         \A r \in Requests : request[r].pc = "idle" /\ request'[r].pc \notin {"idle", "sent"} =>
             request'[r].client \in Tests /\ test'[request'[r].client].client # "none",
         \A r \in Requests : request'[r].pc = "sent" =>
           request[r].pc = "sent" /\ request'[r].expected = request[r].expected
  PROVE  RequestsBegun'
<1> SUFFICES ASSUME NEW r \in Requests, request'[r].pc # "idle"
             PROVE  /\ test'[request'[r].client].client # "none"
                    /\ request'[r].pc = "sent" => request'[r].expected <= nativeEpoch'
                    /\ request'[r].pc = "sent" /\ request'[r].expected = nativeEpoch' =>
                         FromEpoch(test'[request'[r].client].epoch, clear', epoch')
  BY DEF RequestsBegun
<1>1. CASE request[r].pc = "idle"
  BY <1>1
<1>2. CASE request[r].pc # "idle"
  <2>1. /\ request'[r].client = request[r].client
        /\ test'[request[r].client].epoch = test[request[r].client].epoch
        /\ test'[request[r].client].client # "none"
    BY <1>2, ClientsStay
  <2> QED
    BY <2>1 DEF EpochInv, RequestsBegun, FromEpoch, gateVars
<1> QED
  BY <1>1, <1>2

LEMMA PolicyStays ==
  ASSUME EpochInv, TestsGoOn, UNCHANGED <<gateVars, policy>>
  PROVE  PolicySound'
<1> SUFFICES ASSUME policy # None
             PROVE  \E t \in Tests : Begun(test'[t]) /\ FromEpoch(test'[t].epoch, clear', epoch')
                                       /\ policy.origins \subseteq test'[t].approved
  BY DEF PolicySound
<1>1. PICK t \in Tests : Begun(test[t]) /\ FromEpoch(test[t].epoch, clear, epoch)
                           /\ policy.origins \subseteq test[t].approved
  BY DEF EpochInv, PolicySound
<1>2. /\ Begun(test'[t]) /\ test'[t].epoch = test[t].epoch
      /\ test[t].approved \subseteq test'[t].approved
  BY <1>1 DEF TestsGoOn
<1> QED
  BY <1>1, <1>2 DEF FromEpoch, gateVars

\* All of these at once: the step leaves policy and gate alone.
LEMMA EpochStays ==
  ASSUME IInv, EpochInv, TestsGoOn, TestsBegun', ClientsMade', RequestsGoOn, QueueSound', OneClear',
         UNCHANGED <<gateVars, policy, nativeEpoch>>,
         live' \in {live, None} \/ clear = "none",
         \A r \in Requests : connection'[r] # "none" => connection[r] # "none",
         \A r \in Requests : request[r].pc = "idle" /\ request'[r].pc \notin {"idle", "sent"} =>
             request'[r].client \in Tests /\ test'[request'[r].client].client # "none",
         \A r \in Requests : request'[r].pc = "sent" =>
           request[r].pc = "sent" /\ request'[r].expected = request[r].expected
  PROVE  EpochInv'
<1>1. RequestsBegun' /\ ActiveSound' /\ PolicySound'
  BY RequestsStay, ActiveStays, PolicyStays
<1>2. ClearSound'
  BY DEF EpochInv, ClearSound, gateVars
<1> QED
  BY <1>1, <1>2 DEF EpochInv

\* The queue sets a policy of the current epoch, or none.
LEMMA PolicySetSound ==
  ASSUME IInv, EpochInv, TestsGoOn, TestsBegun', ClientsMade', RequestsGoOn, QueueSound', OneClear',
         UNCHANGED <<gateVars, nativeEpoch, live>>, NEW op \in Operation, SetPolicy(op),
         op.origins = {} \/ (IsCurrent(op.epoch) /\ \E t \in Tests : SpeaksFor(op, test[t])),
         \A r \in Requests : request[r].pc = "idle" => request'[r].pc = "idle",
         \A r \in Requests : request'[r].pc = "sent" =>
           request[r].pc = "sent" /\ request'[r].expected = request[r].expected
  PROVE  EpochInv'
<1>1. connection' = [r \in Requests |-> "none"] \/ connection' = connection
  BY DEF SetPolicy
<1>2. \A r \in Requests : connection'[r] # "none" => connection[r] # "none"
  BY <1>1
<1>3. policy' = IF op.origins = {} THEN None
                ELSE [origins |-> op.origins, credentials |-> op.credentials]
  BY DEF SetPolicy
<1>4. RequestsBegun' /\ ActiveSound'
  BY <1>2, RequestsStay, ActiveStays
<1>5. PolicySound'
  <2>1. CASE op.origins = {}
    BY <2>1, <1>3 DEF PolicySound
  <2>2. CASE op.origins # {}
    <3>1. PICK t \in Tests : SpeaksFor(op, test[t])
      BY <2>2
    <3>2. /\ Begun(test'[t]) /\ test'[t].epoch = op.epoch /\ op.origins \subseteq test'[t].approved
      BY <3>1 DEF TestsGoOn, SpeaksFor
    <3>3. clear' = "none" /\ epoch' = op.epoch
      BY <2>2 DEF IsCurrent, GateOpen, gateVars
    <3>4. policy'.origins = op.origins
      BY <2>2, <1>3
    <3> QED
      BY <3>2, <3>3, <3>4 DEF PolicySound, FromEpoch
  <2> QED
    BY <2>1, <2>2
<1>6. ClearSound'
  <2>1. clear \notin {"revoked", "closing", "emptied"} \/ policy' = None
    BY <1>3 DEF IsCurrent, GateOpen
  <2> QED
    BY <2>1, <1>2 DEF EpochInv, ClearSound, gateVars
<1> QED
  BY <1>4, <1>5, <1>6 DEF EpochInv

-----------------------------------------------------------------------------
(* The requests.                                                            *)

\* No request starts, none sends its connect.
NoneStarts ==
  /\ \A r \in Requests : request[r].pc = "idle" => request'[r].pc = "idle"
  /\ \A r \in Requests : request'[r].pc = "sent" =>
       request[r].pc = "sent" /\ request'[r].expected = request[r].expected

LEMMA SameRequests ==
  ASSUME request' = request PROVE RequestsGoOn /\ NoneStarts
BY DEF RequestsGoOn, NoneStarts

LEMMA PlaceGoesOn ==
  ASSUME IInv, NEW r \in Requests, request[r].pc # "idle",
         NEW p \in {"approving", "widening", "listening", "opening", "accepted", "live", "over"},
         request' = [request EXCEPT ![r].pc = p]
  PROVE  RequestsGoOn /\ NoneStarts
<1>1. request \in [Requests -> RequestType]
  BY Typed DEF IInv
<1>2. p \in {"idle", "approving", "widening", "listening", "opening", "sent",
             "accepted", "live", "over"}
  OBVIOUS
<1>3. Moved(request, request', r, p)
  BY <1>1, <1>2, RequestMoves
<1>4. p # "idle" /\ p # "sent"
  OBVIOUS
<1>5. /\ request'[r].pc = p /\ request'[r].client = request[r].client
      /\ \A q \in Requests \ {r} : request'[q] = request[q]
  BY <1>3 DEF Moved
<1> QED
  BY <1>4, <1>5 DEF RequestsGoOn, NoneStarts

LEMMA AbortsGoOn ==
  ASSUME IInv, NEW rs \in SUBSET Requests, Abort(rs)
  PROVE  RequestsGoOn /\ NoneStarts
<1>1. ASSUME NEW r \in Requests
      PROVE  /\ request'[r].client = request[r].client
             /\ request'[r].expected = request[r].expected
             /\ \/ request'[r].pc = request[r].pc
                \/ request[r].pc = "live" /\ request'[r].pc = "over"
  <2>1. request[r] \in RequestType
    BY Typed DEF IInv
  <2>2. CASE r \notin rs \/ request[r].pc \in {"idle", "over"}
    BY <2>2 DEF Abort
  <2>3. CASE ~(r \notin rs \/ request[r].pc \in {"idle", "over"})
    <3>1. request'[r] = [request[r] EXCEPT !.aborted = TRUE,
                                           !.pc = IF @ = "live" THEN "over" ELSE @]
      BY <2>3 DEF Abort
    <3> QED
      BY <2>1, <3>1 DEF RequestType
  <2> QED
    BY <2>2, <2>3
<1> QED
  BY <1>1 DEF RequestsGoOn, NoneStarts

\* A step after which only places in calls and among tests have changed.
LEMMA QuietStep ==
  ASSUME IInv, EpochInv, TestsGoOn, TestsBegun', ClientsMade', RequestsGoOn, NoneStarts,
         QueueSound', OneClear',
         UNCHANGED <<gateVars, policy, nativeEpoch>>,
         live' \in {live, None} \/ clear = "none",
         \A r \in Requests : connection'[r] # "none" => connection[r] # "none"
  PROVE  EpochInv'
BY EpochStays DEF NoneStarts

\* A step of one request.
LEMMA FrameEpochs ==
  ASSUME IInv, EpochInv, RequestFrame, RequestsGoOn, NoneStarts,
         \A r \in Requests : connection'[r] # "none" => connection[r] # "none"
  PROVE  EpochInv'
<1>1. UNCHANGED <<gateVars, policy, nativeEpoch, test, live, closing, queue, clear>>
  BY DEF RequestFrame, managerVars, gateVars
<1>2. TestsGoOn /\ TestsBegun'
  BY <1>1, SameTests DEF EpochInv
<1>3. QueueSound' /\ OneClear'
  BY <1>1, <1>2, SameOperations
<1>4. ClientsMade'
  BY <1>1 DEF EpochInv, ClientsMade
<1> QED
  BY <1>1, <1>2, <1>3, <1>4, QuietStep

LEMMA RequestStepEpochs ==
  ASSUME IInv, EpochInv, NEW r \in Requests,
         ConnectFails(r) \/ ConnectReturns(r) \/ TaskEnds(r) \/ Listens(r)
  PROVE  EpochInv'
<1>1. RequestFrame
  BY DEF ConnectFails, ConnectReturns, TaskEnds, Listens, RequestFrame, nativeVars
<1>2. \A q \in Requests : connection'[q] # "none" => connection[q] # "none"
  BY DEF ConnectFails, ConnectReturns, TaskEnds, Listens, nativeVars, IInv, TypeOK
<1>3. request[r].pc # "idle"
  BY DEF ConnectFails, ConnectReturns, TaskEnds, Listens, IInv, Coupling
<1>4. \E p \in {"opening", "live", "over"} : request' = [request EXCEPT ![r].pc = p]
  BY DEF ConnectFails, ConnectReturns, TaskEnds, Listens
<1>5. RequestsGoOn /\ NoneStarts
  <2>1. PICK p \in {"opening", "live", "over"} : request' = [request EXCEPT ![r].pc = p]
    BY <1>4
  <2>2. p \in {"approving", "widening", "listening", "opening", "accepted", "live", "over"}
    OBVIOUS
  <2> QED
    BY <1>3, <2>1, <2>2, PlaceGoesOn
<1> QED
  BY <1>1, <1>2, <1>5, FrameEpochs

LEMMA DisconnectEpochs ==
  ASSUME IInv, EpochInv, NEW r \in Requests, DisconnectRuns(r) PROVE EpochInv'
<1>1. RequestFrame /\ request' = request
  BY DEF DisconnectRuns, RequestFrame
<1>2. \A q \in Requests : connection'[q] # "none" => connection[q] # "none"
  BY DEF DisconnectRuns, IInv, TypeOK
<1> QED
  BY <1>1, <1>2, SameRequests, FrameEpochs

LEMMA RequestAbortedEpochs ==
  ASSUME IInv, EpochInv, NEW r \in Requests, RequestAborted(r) PROVE EpochInv'
<1>1. RequestFrame /\ Abort({r}) /\ connection' = connection /\ {r} \in SUBSET Requests
  BY DEF RequestAborted, RequestFrame, nativeVars
<1>2. RequestsGoOn /\ NoneStarts
  BY <1>1, AbortsGoOn
<1> QED
  BY <1>1, <1>2, FrameEpochs

\* The connect is sent with the epoch of the moment, while the gate is open.
LEMMA EpochAnsweredEpochs ==
  ASSUME IInv, EpochInv, NEW r \in Requests, EpochAnswered(r) PROVE EpochInv'
<1> DEFINE t == request[r].client
           rec == IF IsCurrent(test[t].epoch)
                  THEN [request[r] EXCEPT !.pc = "sent", !.expected = nativeEpoch]
                  ELSE [request[r] EXCEPT !.pc = "over"]
<1>1. /\ request' = [request EXCEPT ![r] = rec] /\ request[r].pc = "opening"
      /\ UNCHANGED <<storeVars, managerVars, queue, disconnects, gateVars, nativeVars>>
  BY DEF EpochAnswered
<1>2. request \in [Requests -> RequestType] /\ request[r] \in RequestType
  BY Typed DEF IInv
<1>3. /\ rec.client = t /\ rec.pc \in {"sent", "over"}
      /\ rec.pc = "sent" => rec.expected = nativeEpoch /\ IsCurrent(test[t].epoch)
  BY <1>2 DEF RequestType
<1> HIDE DEF rec
<1>4. request'[r] = rec /\ \A q \in Requests \ {r} : request'[q] = request[q]
  BY <1>1, <1>2
<1>5. RequestsGoOn
  BY <1>3, <1>4 DEF RequestsGoOn
<1>6. UNCHANGED <<test, live, closing, queue, clear, epoch, policy, connection, nativeEpoch>>
  BY <1>1 DEF managerVars, gateVars, nativeVars
<1>7. TestsGoOn /\ TestsBegun'
  BY <1>6, SameTests DEF EpochInv
<1>8. QueueSound' /\ OneClear'
  BY <1>5, <1>6, <1>7, SameOperations
<1>9. nativeEpoch \in Nat /\ test[t].client # "none"
  BY <1>1 DEF IInv, TypeOK, EpochInv, RequestsBegun
<1>10. RequestsBegun'
  <2>1. ASSUME NEW q \in Requests \ {r}
        PROVE  /\ request'[q].pc # "idle" => test'[request'[q].client].client # "none"
               /\ request'[q].pc = "sent" => request'[q].expected <= nativeEpoch'
               /\ request'[q].pc = "sent" /\ request'[q].expected = nativeEpoch' =>
                    FromEpoch(test'[request'[q].client].epoch, clear', epoch')
    BY <1>4, <1>6 DEF EpochInv, RequestsBegun
  <2>2. /\ test'[request'[r].client].client # "none"
        /\ request'[r].pc = "sent" => request'[r].expected <= nativeEpoch'
        /\ request'[r].pc = "sent" => FromEpoch(test'[request'[r].client].epoch, clear', epoch')
    BY <1>3, <1>4, <1>6, <1>9 DEF FromEpoch, IsCurrent, GateOpen
  <2> QED
    BY <2>1, <2>2 DEF RequestsBegun
<1>11. UNCHANGED gateVars
  BY <1>1
<1>12. ActiveSound' /\ PolicySound'
  BY <1>5, <1>6, <1>7, <1>11, ActiveStays, PolicyStays
<1>13. ClearSound' /\ ClientsMade'
  BY <1>6 DEF EpochInv, ClearSound, ClientsMade
<1> QED
  BY <1>7, <1>8, <1>10, <1>12, <1>13 DEF EpochInv

\* The connect is registered in the epoch it was sent in.
LEMMA ReserveEpochs ==
  ASSUME IInv, EpochInv, NEW r \in Requests, Reserve(r) PROVE EpochInv'
<1>1. /\ RequestFrame /\ request' = [request EXCEPT ![r].pc = "accepted"]
      /\ request[r].pc = "sent" /\ request[r].expected = nativeEpoch /\ policy # None
      /\ connection' = [connection EXCEPT ![r] = "reserved"]
  BY DEF Reserve, RequestFrame
<1>2. RequestsGoOn /\ NoneStarts
  BY <1>1, PlaceGoesOn
<1>3. UNCHANGED <<gateVars, policy, nativeEpoch, test, live, closing, queue, clear, epoch>>
  BY <1>1 DEF RequestFrame, managerVars, gateVars
<1>4. TestsGoOn /\ TestsBegun'
  BY <1>3, SameTests DEF EpochInv
<1>5. QueueSound' /\ OneClear'
  BY <1>2, <1>3, <1>4, SameOperations
<1>6. RequestsBegun' /\ PolicySound'
  BY <1>2, <1>3, <1>4, RequestsStay, PolicyStays DEF NoneStarts
<1>7. ActiveSound'
  <2>1. FromEpoch(test[request[r].client].epoch, clear, epoch)
    BY <1>1 DEF EpochInv, RequestsBegun
  <2>2. request'[r].client = request[r].client
    BY <1>1, <1>2 DEF RequestsGoOn
  <2>3. ASSUME NEW q \in Requests \ {r}, connection'[q] # "none"
        PROVE  FromEpoch(test'[request'[q].client].epoch, clear', epoch')
    <3>1. connection[q] # "none" /\ request[q].pc # "idle"
      BY <1>1, <2>3, ActiveBegan DEF IInv, TypeOK
    <3>2. FromEpoch(test[request[q].client].epoch, clear, epoch)
      BY <3>1 DEF EpochInv, ActiveSound
    <3>3. request'[q].client = request[q].client
      BY <3>1, <1>2 DEF RequestsGoOn
    <3> QED
      BY <1>3, <3>2, <3>3
  <2> QED
    BY <1>3, <2>1, <2>2, <2>3 DEF ActiveSound
<1>8. ClearSound' /\ ClientsMade'
  BY <1>1, <1>3 DEF EpochInv, ClearSound, ClientsMade
<1> QED
  BY <1>4, <1>5, <1>6, <1>7, <1>8 DEF EpochInv

-----------------------------------------------------------------------------
(* The steps of the queue.                                                  *)

\* Whom the first operation speaks for.
LEMMA FirstSpeaks ==
  ASSUME IInv, EpochInv, queue # <<>>
  PROVE  /\ Head(queue) \in Operation
         /\ Owned(Head(queue), request) /\ OpSound(Head(queue), test, request)
BY FirstOperation DEF IInv, QueueInv, EpochInv, QueueSound

LEMMA RejectedEpochs ==
  ASSUME IInv, EpochInv, OperationRejected PROVE EpochInv'
<1> DEFINE op == Head(queue)
<1>1. /\ op \in Operation /\ Owned(op, request) /\ queue # <<>> /\ queue' = Tail(queue)
      /\ UNCHANGED <<live, closing, clear, gateVars, policy, nativeEpoch, connection>>
  BY FirstSpeaks DEF OperationRejected, gateVars, nativeVars
<1>2. TestsGoOn /\ TestsBegun'
  <2>1. CASE op.kind = "grant"
    <3>1. op.owner \in Tests /\ test' = [test EXCEPT ![op.owner].pc = "over"]
      BY <1>1, <2>1 DEF Owned, OperationRejected
    <3> QED
      BY <3>1, TestGoesTo DEF EpochInv
  <2>2. CASE op.kind # "grant"
    <3>1. test' = test
      BY <2>2 DEF OperationRejected
    <3> QED
      BY <3>1, SameTests DEF EpochInv
  <2> QED
    BY <2>1, <2>2
<1>3. RequestsGoOn /\ NoneStarts
  <2>1. CASE op.kind \in {"approve", "widen"}
    <3>1. /\ op.owner \in Requests /\ request[op.owner].pc # "idle"
          /\ request' = [request EXCEPT ![op.owner].pc = "over"]
      BY <1>1, <2>1 DEF Owned, OperationRejected
    <3> QED
      BY <3>1, PlaceGoesOn
  <2>2. CASE op.kind \notin {"approve", "widen"}
    <3>1. request' = request
      BY <2>2 DEF OperationRejected
    <3> QED
      BY <3>1, SameRequests
  <2> QED
    BY <2>1, <2>2
<1>4. QueueSound' /\ OneClear'
  BY <1>1, <1>2, <1>3, FirstGoes
<1>5. ClientsMade'
  BY <1>1, <1>2, ClientsStayMade DEF EpochInv
<1> QED
  BY <1>1, <1>2, <1>3, <1>4, <1>5, QuietStep

LEMMA GrantEpochs ==
  ASSUME IInv, EpochInv, GrantRuns PROVE EpochInv'
<1> DEFINE op == Head(queue)
<1>1. /\ op \in Operation /\ Owned(op, request) /\ OpSound(op, test, request)
      /\ queue # <<>> /\ queue' = Tail(queue) /\ op.kind = "grant" /\ Passes(op)
      /\ SetPolicy(op) /\ test' = [test EXCEPT ![op.owner].pc = "granted"]
      /\ UNCHANGED <<live, closing, clear, gateVars, nativeEpoch, request>>
  BY FirstSpeaks DEF GrantRuns, Runs, gateVars
<1>2. op.owner \in Tests /\ SpeaksFor(op, test[op.owner]) /\ IsCurrent(op.epoch)
  BY <1>1 DEF Owned, OpSound, Passes, Guarded
<1>3. TestsGoOn /\ TestsBegun'
  BY <1>1, <1>2, TestGoesTo DEF EpochInv
<1>4. RequestsGoOn /\ NoneStarts
  BY <1>1, SameRequests
<1>5. QueueSound' /\ OneClear'
  BY <1>1, <1>3, <1>4, FirstGoes
<1>6. ClientsMade'
  BY <1>1, <1>3, ClientsStayMade DEF EpochInv
<1> QED
  BY <1>1, <1>2, <1>3, <1>4, <1>5, <1>6, PolicySetSound DEF NoneStarts

LEMMA WidenEpochs ==
  ASSUME IInv, EpochInv, WidenRuns PROVE EpochInv'
<1> DEFINE op == Head(queue)
           r == op.owner
<1>1. /\ op \in Operation /\ Owned(op, request) /\ OpSound(op, test, request)
      /\ queue # <<>> /\ queue' = Tail(queue) /\ op.kind = "widen" /\ Passes(op)
      /\ SetPolicy(op) /\ request' = [request EXCEPT ![r].pc = "listening"]
      /\ UNCHANGED <<live, closing, clear, gateVars, nativeEpoch, test>>
  BY FirstSpeaks DEF WidenRuns, Runs, gateVars, managerVars
<1>2. /\ r \in Requests /\ request[r].pc # "idle" /\ IsCurrent(op.epoch)
      /\ SpeaksFor(op, test[request[r].client])
  BY <1>1 DEF Owned, OpSound, Passes, Guarded, Awaited
<1>3. request[r].client \in Tests
  BY <1>2 DEF IInv, Coupling
<1>4. TestsGoOn /\ TestsBegun'
  BY <1>1, SameTests DEF EpochInv
<1>5. RequestsGoOn /\ NoneStarts
  BY <1>1, <1>2, PlaceGoesOn
<1>6. QueueSound' /\ OneClear'
  BY <1>1, <1>4, <1>5, FirstGoes
<1>7. ClientsMade'
  BY <1>1 DEF EpochInv, ClientsMade
<1> QED
  BY <1>1, <1>2, <1>3, <1>4, <1>5, <1>6, <1>7, PolicySetSound DEF NoneStarts

LEMMA OperationMade ==
  ASSUME NEW k \in {"grant", "approve", "widen", "reset", "clear"},
         NEW o \in Requests \cup Actors, NEW origins \in SUBSET Origins,
         NEW credentials \in BOOLEAN, NEW e \in 0..MaxClears
  PROVE  [kind |-> k, owner |-> o, origins |-> origins, credentials |-> credentials,
          epoch |-> e] \in Operation
BY DEF Operation

LEMMA ApproveEpochs ==
  ASSUME IInv, EpochInv, ApproveRuns PROVE EpochInv'
<1> DEFINE first == Head(queue)
           r == first.owner
           t == request[r].client
           op == [kind |-> "widen", owner |-> r, origins |-> test[t].approved,
                  credentials |-> test[t].config \in Secret, epoch |-> test[t].epoch]
<1>1. /\ first \in Operation /\ Owned(first, request) /\ OpSound(first, test, request)
      /\ queue # <<>> /\ first.kind = "approve" /\ Passes(first)
      /\ SetPolicy(first) /\ request' = [request EXCEPT ![r].pc = "widening"]
      /\ queue' = Tail(Append(queue, op))
      /\ UNCHANGED <<live, closing, clear, gateVars, nativeEpoch, test>>
  BY FirstSpeaks DEF ApproveRuns, Runs, gateVars, managerVars, Grant, Operate
<1>2. /\ r \in Requests /\ request[r].pc # "idle" /\ IsCurrent(first.epoch)
      /\ SpeaksFor(first, test[t])
  BY <1>1 DEF Owned, OpSound, Passes, Guarded, Awaited
<1>3. t \in Tests
  BY <1>2 DEF IInv, Coupling
<1>4. TestsGoOn /\ TestsBegun'
  BY <1>1, SameTests DEF EpochInv
<1>5. RequestsGoOn /\ NoneStarts
  BY <1>1, <1>2, PlaceGoesOn
<1>6. op \in Operation /\ op.kind = "widen"
  <2>1. test[t] \in TestType
    BY <1>3, Typed DEF IInv
  <2>2. test[t].approved \in SUBSET Origins /\ test[t].epoch \in 0..MaxClears
    BY <2>1 DEF TestType
  <2> QED
    <3>1. (test[t].config \in Secret) \in BOOLEAN
      OBVIOUS
    <3> QED
      BY <1>2, <2>2, <3>1, OperationMade, Zenon
<1>7. OpSound(op, test', request')
  <2>1. request'[r].pc # "idle" /\ request'[r].client = t
    BY <1>2, <1>5 DEF RequestsGoOn
  <2>2. SpeaksFor(op, test[t])
    BY <1>2 DEF SpeaksFor
  <2> QED
    BY <1>1, <2>1, <2>2 DEF OpSound
<1>8. QueueSound' /\ OneClear'
  <2> HIDE DEF op
  <2> QED
    BY <1>1, <1>4, <1>5, <1>6, <1>7, OwnerJoinsAgain
<1>9. ClientsMade'
  BY <1>1 DEF EpochInv, ClientsMade
<1> QED
  BY <1>1, <1>2, <1>3, <1>4, <1>5, <1>8, <1>9, PolicySetSound DEF NoneStarts

LEMMA ResetEpochs ==
  ASSUME IInv, EpochInv, ResetRuns PROVE EpochInv'
<1> DEFINE op == Head(queue)
<1>1. /\ op \in Operation /\ OpSound(op, test, request)
      /\ queue # <<>> /\ queue' = Tail(queue) /\ op.kind = "reset" /\ SetPolicy(op)
      /\ UNCHANGED <<live, clear, gateVars, nativeEpoch, test, request>>
  BY FirstSpeaks DEF ResetRuns, Runs, gateVars
<1>2. op.origins = {}
  BY <1>1 DEF OpSound
<1>3. TestsGoOn /\ TestsBegun' /\ RequestsGoOn /\ NoneStarts
  BY <1>1, SameTests, SameRequests DEF EpochInv
<1>4. QueueSound' /\ OneClear'
  BY <1>1, <1>3, FirstGoes
<1>5. ClientsMade'
  <2>1. op.owner \in Actors
    BY <1>1, FirstOperation DEF Owned, IInv
  <2>2. \A a \in Actors : closing'[a].client = closing[a].client
    BY <2>1, HostHolds DEF ResetRuns, HostInv, HostTyped
  <2> QED
    BY <1>1, <2>2 DEF EpochInv, ClientsMade
<1> QED
  BY <1>1, <1>2, <1>3, <1>4, <1>5, PolicySetSound DEF NoneStarts

\* Requests that were sent before expect an older native epoch from now on.
LEMMA ClearRunsEpochs ==
  ASSUME IInv, EpochInv, ClearRuns PROVE EpochInv'
<1>1. /\ queue # <<>> /\ Head(queue).kind = "clear" /\ queue' = Tail(queue)
      /\ policy' = None /\ nativeEpoch' = nativeEpoch + 1 /\ clear' = "revoked"
      /\ \A r \in Requests : connection'[r] = "none"
      /\ UNCHANGED <<live, closing, test, request, epoch>>
  BY DEF ClearRuns, Runs, managerVars
<1>2. TestsGoOn /\ TestsBegun' /\ RequestsGoOn
  BY <1>1, SameTests, SameRequests DEF EpochInv
<1>3. QueueSound' /\ OneClear'
  BY <1>1, <1>2, FirstGoes
<1>4. RequestsBegun'
  <2>1. ASSUME NEW r \in Requests, request[r].pc = "sent"
        PROVE  request[r].expected <= nativeEpoch' /\ request[r].expected # nativeEpoch'
    <3>1. request[r] \in RequestType /\ nativeEpoch \in Nat
      BY Typed DEF IInv, TypeOK
    <3>2. request[r].expected \in Nat /\ request[r].expected <= nativeEpoch
      BY <2>1, <3>1 DEF RequestType, EpochInv, RequestsBegun
    <3> QED
      BY <1>1, <3>1, <3>2
  <2> QED
    BY <1>1, <2>1 DEF EpochInv, RequestsBegun
<1>5. ActiveSound' /\ PolicySound' /\ ClearSound' /\ ClientsMade'
  BY <1>1 DEF ActiveSound, PolicySound, ClearSound, ClientsMade, EpochInv
<1> QED
  BY <1>2, <1>3, <1>4, <1>5 DEF EpochInv

-----------------------------------------------------------------------------
(* The steps of the tests, the closes, the panel and the clear.             *)

LEMMA HostEpochs ==
  ASSUME IInv, EpochInv, TestsGoOn, TestsBegun', ClientsMade',
         UNCHANGED <<request, nativeVars, gateVars>>,
         live' \in {live, None} \/ clear = "none",
         \/ queue' = queue
         \/ \E op \in Operation : /\ queue' = Append(queue, op) /\ op.kind # "clear"
                                  /\ OpSound(op, test', request')
  PROVE  EpochInv'
<1>1. RequestsGoOn /\ NoneStarts /\ clear' = clear
  BY SameRequests DEF gateVars
<1>2. QueueSound' /\ OneClear'
  <2>1. CASE queue' = queue
    BY <2>1, <1>1, SameOperations
  <2>2. CASE queue' # queue
    <3>1. PICK op \in Operation : /\ queue' = Append(queue, op) /\ op.kind # "clear"
                                  /\ OpSound(op, test', request')
      BY <2>2
    <3> QED
      BY <3>1, <1>1, OperationJoins
  <2> QED
    BY <2>1, <2>2
<1>3. policy' = policy /\ nativeEpoch' = nativeEpoch /\ connection' = connection
  BY DEF nativeVars
<1> QED
  BY <1>1, <1>2, <1>3, QuietStep

\* A close queues the withdrawal of the policy.
LEMMA CloseSound ==
  ASSUME NEW a \in Actors, StartClose(a)
  PROVE  /\ live' = None
         /\ \E op \in Operation : /\ queue' = Append(queue, op) /\ op.kind # "clear"
                                  /\ OpSound(op, test', request')
<1> DEFINE op == [kind |-> "reset", owner |-> a, origins |-> {}, credentials |-> FALSE,
                  epoch |-> 0]
<1>1. op \in Operation /\ queue' = Append(queue, op)
  BY RemoteMcpAssumption DEF Operation, StartClose, Operate
<1>2. op.kind # "clear" /\ OpSound(op, test', request')
  BY DEF OpSound, Awaited
<1> HIDE DEF op
<1> QED
  BY <1>1, <1>2 DEF StartClose

\* A test queues the policy of its client.
LEMMA GrantSound ==
  ASSUME NEW t \in Tests, NEW rec \in TestType, Begun(rec), NEW k, test'[t] = rec,
         queue' = Operate("grant", t, rec.approved, k \in Secret, rec.epoch)
  PROVE  \E op \in Operation : /\ queue' = Append(queue, op) /\ op.kind # "clear"
                               /\ OpSound(op, test', request')
<1> DEFINE op == [kind |-> "grant", owner |-> t, origins |-> rec.approved,
                  credentials |-> k \in Secret, epoch |-> rec.epoch]
<1>1. rec.approved \in SUBSET Origins /\ rec.epoch \in 0..MaxClears
  BY DEF TestType
<1>2. op \in Operation /\ queue' = Append(queue, op)
  BY <1>1 DEF Operation, Operate, Actors
<1>3. op.kind # "clear" /\ OpSound(op, test', request')
  BY DEF OpSound, Awaited, SpeaksFor
<1> HIDE DEF op
<1> QED
  BY <1>2, <1>3

LEMMA CloseEndsEpochs ==
  ASSUME IInv, EpochInv, NEW a \in Actors, CloseEnds(a) PROVE EpochInv'
<1> DEFINE t == closing[a].client
<1>1. /\ UNCHANGED <<live, queue, clear, gateVars, policy, connection, nativeEpoch>>
      /\ UNCHANGED nativeVars
  BY DEF CloseEnds, gateVars, nativeVars
<1>2. t \in Tests \cup {None}
  BY HostHolds DEF HostInv, HostTyped
<1>3. \A b \in Actors : closing'[b].client # None => closing'[b].client = closing[b].client
  <2>1. closing' = [closing EXCEPT ![a] = NoClose] /\ NoClose.client = None
    BY DEF CloseEnds, NoClose
  <2> QED
    BY <2>1, HostHolds DEF HostInv, HostTyped
<1>4. CASE t = None
  <2>1. test' = test /\ request' = request
    BY <1>4 DEF CloseEnds
  <2>2. TestsGoOn /\ TestsBegun'
    BY <2>1, SameTests DEF EpochInv
  <2>3. ClientsMade'
    BY <1>1, <1>3, <2>2, ClientsStayMade DEF EpochInv
  <2> QED
    BY <1>1, <2>1, <2>2, <2>3, HostEpochs
<1>5. CASE t # None
  <2> DEFINE rec == [test[t] EXCEPT !.client = "closed"]
             rs == {r \in Requests : request[r].client = t /\ request[r].abortable}
  <2>1. test' = [test EXCEPT ![t] = rec] /\ Abort(rs) /\ rs \in SUBSET Requests
    BY <1>5 DEF CloseEnds, CloseClient
  <2>2. t \in Tests /\ test \in [Tests -> TestType] /\ test[t] \in TestType
    BY <1>2, <1>5, Typed DEF IInv
  <2>3. /\ rec.pc = test[t].pc /\ rec.epoch = test[t].epoch /\ rec.approved = test[t].approved
        /\ rec.client = "closed"
    BY <2>2 DEF TestType
  <2>4. Begun(test[t])
    BY <1>5, <2>2 DEF EpochInv, ClientsMade, TestsBegun
  <2> HIDE DEF rec, rs, t
  <2>5. TestsGoOn /\ TestsBegun'
    BY <2>1, <2>2, <2>3, <2>4, OneTest DEF EpochInv, Begun
  <2>6. RequestsGoOn /\ NoneStarts
    BY <2>1, AbortsGoOn
  <2>7. QueueSound' /\ OneClear'
    BY <1>1, <2>5, <2>6, SameOperations
  <2>8. ClientsMade'
    BY <1>1, <1>3, <2>5, ClientsStayMade DEF EpochInv
  <2> QED
    BY <1>1, <2>5, <2>6, <2>7, <2>8, QuietStep
<1> QED
  BY <1>4, <1>5

\* A fetch approves its origin for the client, and may queue the policy.
LEMMA FetchEpochs ==
  ASSUME IInv, EpochInv, NEW r \in Requests, NEW t \in Tests, NEW o \in Origins,
         NEW b \in BOOLEAN, Fetch(r, t, o, b)
  PROVE  EpochInv'
<1> DEFINE known == o \in test[t].approved
           rec == [NoRequest EXCEPT !.pc = IF known THEN "listening" ELSE "approving",
                                    !.client = t, !.origin = o, !.abortable = b]
           op == [kind |-> "approve", owner |-> r, origins |-> test[t].approved \cup {o},
                  credentials |-> test[t].config \in Secret, epoch |-> test[t].epoch]
           tested == [test[t] EXCEPT !.approved = @ \cup {o}]
<1>1. /\ request[r].pc = "idle" /\ test[t].client # "none"
      /\ request' = [request EXCEPT ![r] = rec]
      /\ test' = [test EXCEPT ![t] = tested]
      /\ known => queue' = queue
      /\ ~known => queue' = Append(queue, op)
      /\ UNCHANGED <<live, closing, clear, gateVars, connection, policy, nativeEpoch>>
  BY DEF Fetch, MayFetch, Grant, Operate, gateVars, nativeVars
<1>2. /\ request \in [Requests -> RequestType]
      /\ test \in [Tests -> TestType] /\ test[t] \in TestType
  BY Typed DEF IInv
<1>3. /\ tested.pc = test[t].pc /\ tested.epoch = test[t].epoch /\ tested.client = test[t].client
      /\ tested.approved = test[t].approved \cup {o}
  BY <1>2 DEF TestType
<1>4. rec.client = t /\ rec.pc \in {"listening", "approving"}
  BY DEF NoRequest
<1>5. op \in Operation /\ op.kind # "clear"
  <2>1. test[t].approved \in SUBSET Origins /\ test[t].epoch \in 0..MaxClears
    BY <1>2 DEF TestType
  <2> QED
    BY <2>1 DEF Operation
<1>6. Begun(test[t])
  BY <1>1 DEF EpochInv, TestsBegun
<1>7. /\ op.kind = "approve" /\ op.owner = r /\ op.epoch = test[t].epoch
      /\ op.origins = test[t].approved \cup {o}
  OBVIOUS
<1> HIDE DEF rec, tested, op, known
<1>8. /\ request'[r] = rec /\ \A q \in Requests \ {r} : request'[q] = request[q]
      /\ test'[t] = tested
  BY <1>1, <1>2
<1>9. TestsGoOn /\ TestsBegun'
  BY <1>1, <1>2, <1>3, <1>6, OneTest DEF EpochInv, Begun
<1>10. RequestsGoOn
  BY <1>1, <1>8 DEF RequestsGoOn
<1>11. OpSound(op, test', request')
  <2>1. SpeaksFor(op, tested)
    BY <1>3, <1>6, <1>7 DEF SpeaksFor, Begun
  <2>2. request'[r].pc # "idle" /\ request'[r].client = t
    BY <1>4, <1>8
  <2> QED
    BY <2>1, <2>2, <1>7, <1>8 DEF OpSound
<1>12. QueueSound' /\ OneClear'
  <2>1. CASE known
    BY <2>1, <1>1, <1>9, <1>10, SameOperations
  <2>2. CASE ~known
    BY <2>2, <1>1, <1>5, <1>9, <1>10, <1>11, OperationJoins
  <2> QED
    BY <2>1, <2>2
<1>13. ClientsMade'
  BY <1>1, <1>9, ClientsStayMade DEF EpochInv
<1>14. /\ \A q \in Requests : request'[q].pc = "sent" =>
            request[q].pc = "sent" /\ request'[q].expected = request[q].expected
       /\ \A q \in Requests : request[q].pc = "idle" /\ request'[q].pc \notin {"idle", "sent"} =>
              request'[q].client \in Tests /\ test'[request'[q].client].client # "none"
  BY <1>1, <1>3, <1>4, <1>8
<1> QED
  BY <1>1, <1>9, <1>10, <1>12, <1>13, <1>14, EpochStays

LEMMA BeginTestEpochs ==
  ASSUME IInv, EpochInv, NEW t \in Tests, BeginTest(t) PROVE EpochInv'
<1> DEFINE begun == [NoTest EXCEPT !.config = entry.config, !.version = entry.version,
                                   !.epoch = epoch]
<1>1. /\ HostInv /\ entry \in Entry /\ epoch \in 0..MaxClears /\ t \in Actors
      /\ test \in [Tests -> TestType] /\ clear = "none" /\ test[t].pc = "idle"
  BY HostHolds DEF BeginTest, HostInv, HostTyped, Actors, GateOpen
<1>2. OriginOf[entry.config] \in Origins /\ entry.config \in Configs
      /\ entry.version \in 0..MaxEdits
  BY <1>1, RemoteMcpAssumption DEF Entry
<1>3. /\ begun \in TestType /\ begun.epoch = epoch /\ begun.client = "none"
      /\ begun.approved = {}
  BY <1>1, <1>2 DEF NoTest, TestType
<1>4. ~Begun(test[t]) /\ test[t].client = "none"
  BY <1>1 DEF Begun, EpochInv, TestsBegun
<1>5. UNCHANGED <<request, nativeVars, gateVars>>
  BY DEF BeginTest
<1>6. CASE live # None
  <2> DEFINE rec == [begun EXCEPT !.pc = "closing"]
  <2>1. rec \in TestType /\ rec.client = "none" /\ rec.approved = {}
    BY <1>3 DEF TestType
  <2>2. test' = [test EXCEPT ![t] = rec] /\ StartClose(t)
    BY <1>6 DEF BeginTest
  <2> HIDE DEF rec, begun
  <2>3. TestsGoOn /\ TestsBegun'
    BY <1>1, <1>4, <2>1, <2>2, OneTest DEF EpochInv
  <2>4. /\ live' = None
        /\ \A a \in Actors : closing'[a].client # None =>
             \/ closing'[a].client = closing[a].client
             \/ live # None /\ closing'[a].client = live.by
    BY <1>1, <2>2 DEF StartClose, HostInv, HostTyped
  <2>5. ClientsMade'
    BY <2>3, <2>4, ClientsStayMade DEF EpochInv
  <2> QED
    BY <1>1, <1>5, <2>2, <2>3, <2>5, CloseSound, HostEpochs
<1>7. CASE live = None
  <2> DEFINE rec == [begun EXCEPT !.pc = "policy", !.approved = {OriginOf[entry.config]}]
  <2>1. /\ rec \in TestType /\ Begun(rec) /\ rec.client = "none" /\ rec.epoch = epoch
        /\ rec.approved = {OriginOf[entry.config]}
    BY <1>2, <1>3 DEF TestType, Begun
  <2>2. /\ test' = [test EXCEPT ![t] = rec]
        /\ queue' = Operate("grant", t, {OriginOf[entry.config]}, entry.config \in Secret, epoch)
        /\ live' = live /\ closing' = closing
    BY <1>7 DEF BeginTest
  <2> HIDE DEF rec, begun
  <2>3. TestsGoOn /\ TestsBegun'
    BY <1>1, <1>4, <2>1, <2>2, OneTest DEF EpochInv
  <2>4. ClientsMade'
    BY <2>2, <2>3, ClientsStayMade DEF EpochInv
  <2>5. test'[t] = rec
        /\ queue' = Operate("grant", t, rec.approved, entry.config \in Secret, rec.epoch)
    BY <1>1, <2>1, <2>2
  <2>6. \E op \in Operation : /\ queue' = Append(queue, op) /\ op.kind # "clear"
                              /\ OpSound(op, test', request')
    BY <2>1, <2>5, GrantSound
  <2> QED
    BY <1>1, <1>5, <2>3, <2>4, <2>6, HostEpochs
<1> QED
  BY <1>6, <1>7

LEMMA CreatesRemoteEpochs ==
  ASSUME IInv, EpochInv, NEW t \in Tests, CreatesRemote(t) PROVE EpochInv'
<1> DEFINE own == {OriginOf[test[t].config]}
<1>1. /\ HostInv /\ test \in [Tests -> TestType] /\ test[t] \in TestType
      /\ test[t].config \in Configs /\ ~Begun(test[t])
  BY HostHolds DEF CreatesRemote, HostInv, HostTyped, TestsConfigured, Begun
<1>2. own \in SUBSET Origins /\ test[t].client = "none"
  BY <1>1, RemoteMcpAssumption DEF EpochInv, TestsBegun
<1>3. /\ UNCHANGED <<request, nativeVars, gateVars>> /\ live' = live /\ closing' = closing
  BY DEF CreatesRemote
<1>4. CASE IsCurrent(test[t].epoch) /\ live = None
  <2> DEFINE rec == [test[t] EXCEPT !.pc = "policy", !.approved = own]
  <2>1. /\ rec \in TestType /\ Begun(rec) /\ rec.client = "none" /\ rec.epoch = test[t].epoch
        /\ rec.approved = own
    BY <1>1, <1>2 DEF TestType, Begun
  <2>2. /\ test' = [test EXCEPT ![t] = rec]
        /\ queue' = Operate("grant", t, own, test[t].config \in Secret, test[t].epoch)
    BY <1>4 DEF CreatesRemote, Grant
  <2> HIDE DEF rec, own
  <2>3. TestsGoOn /\ TestsBegun'
    BY <1>1, <1>2, <2>1, <2>2, OneTest DEF EpochInv
  <2>4. ClientsMade'
    BY <1>3, <2>3, ClientsStayMade DEF EpochInv
  <2>5. test'[t] = rec
        /\ queue' = Operate("grant", t, rec.approved, test[t].config \in Secret, rec.epoch)
    BY <1>1, <2>1, <2>2
  <2>6. \E op \in Operation : /\ queue' = Append(queue, op) /\ op.kind # "clear"
                              /\ OpSound(op, test', request')
    BY <2>1, <2>5, GrantSound
  <2> QED
    BY <1>3, <2>3, <2>4, <2>6, HostEpochs
<1>5. CASE ~(IsCurrent(test[t].epoch) /\ live = None)
  <2>1. test' = [test EXCEPT ![t].pc = "over"] /\ queue' = queue
    BY <1>5 DEF CreatesRemote
  <2>2. TestsGoOn /\ TestsBegun'
    BY <2>1, TestGoesTo DEF EpochInv
  <2>3. ClientsMade'
    BY <1>3, <2>2, ClientsStayMade DEF EpochInv
  <2> QED
    BY <1>3, <2>1, <2>2, <2>3, HostEpochs
<1> QED
  BY <1>4, <1>5

LEMMA ClientCreatedEpochs ==
  ASSUME IInv, EpochInv, NEW t \in Tests, ClientCreated(t) PROVE EpochInv'
<1>1. /\ test \in [Tests -> TestType] /\ test[t] \in TestType
      /\ test[t].pc = "granted" /\ Begun(test[t])
  BY Typed DEF IInv, ClientCreated, Begun
<1>2. UNCHANGED <<request, nativeVars, gateVars>> /\ closing' = closing /\ queue' = queue
  BY DEF ClientCreated
<1>3. CASE IsCurrent(test[t].epoch)
  <2> DEFINE rec == [test[t] EXCEPT !.pc = "connecting", !.client = "open"]
  <2>1. /\ Begun(rec) /\ rec.client = "open" /\ rec.epoch = test[t].epoch
        /\ rec.approved = test[t].approved
    BY <1>1 DEF TestType, Begun
  <2>2. /\ test' = [test EXCEPT ![t] = rec] /\ live' = [by |-> t, version |-> test[t].version]
        /\ clear = "none"
    BY <1>3 DEF ClientCreated, IsCurrent, GateOpen
  <2> HIDE DEF rec
  <2>3. TestsGoOn /\ TestsBegun'
    BY <1>1, <2>1, <2>2, OneTest DEF EpochInv
  <2>4. test'[live'.by].client # "none"
    BY <1>1, <2>1, <2>2
  <2>5. ClientsMade'
    BY <1>2, <2>3, <2>4, ClientsStayMade DEF EpochInv
  <2> QED
    BY <1>2, <2>2, <2>3, <2>5, HostEpochs
<1>4. CASE ~IsCurrent(test[t].epoch)
  <2>1. test' = [test EXCEPT ![t].pc = "over"] /\ live' = live
    BY <1>4 DEF ClientCreated
  <2>2. TestsGoOn /\ TestsBegun'
    BY <2>1, TestGoesTo DEF EpochInv
  <2>3. ClientsMade'
    BY <1>2, <2>1, <2>2, ClientsStayMade DEF EpochInv
  <2> QED
    BY <1>2, <2>1, <2>2, <2>3, HostEpochs
<1> QED
  BY <1>3, <1>4

LEMMA ClientConnectedEpochs ==
  ASSUME IInv, EpochInv, NEW t \in Tests, ClientConnected(t) PROVE EpochInv'
<1>1. /\ test \in [Tests -> TestType] /\ test[t] \in TestType
      /\ test[t].pc = "connecting" /\ Begun(test[t])
  BY Typed DEF IInv, ClientConnected, Begun
<1>2. /\ UNCHANGED <<nativeVars, gateVars, policy, nativeEpoch, connection>>
      /\ closing' = closing /\ queue' = queue /\ clear' = clear
  BY DEF ClientConnected, nativeVars, gateVars
<1>3. CASE IsCurrent(test[t].epoch)
  <2>1. test' = [test EXCEPT ![t].pc = "over"] /\ live' = live /\ request' = request
    BY <1>3 DEF ClientConnected
  <2>2. TestsGoOn /\ TestsBegun'
    BY <2>1, TestGoesTo DEF EpochInv
  <2>3. ClientsMade'
    BY <1>2, <2>1, <2>2, ClientsStayMade DEF EpochInv
  <2> QED
    BY <1>2, <2>1, <2>2, <2>3, HostEpochs
<1>4. CASE ~IsCurrent(test[t].epoch)
  <2> DEFINE rec == [test[t] EXCEPT !.pc = "over", !.client = "closed"]
             rs == {r \in Requests : request[r].client = t /\ request[r].abortable}
  <2>1. /\ Begun(rec) /\ rec.client = "closed" /\ rec.epoch = test[t].epoch
        /\ rec.approved = test[t].approved
    BY <1>1 DEF TestType, Begun
  <2>2. /\ test' = [test EXCEPT ![t] = rec] /\ Abort(rs) /\ rs \in SUBSET Requests
        /\ live' \in {live, None}
    BY <1>4 DEF ClientConnected, CloseClient
  <2> HIDE DEF rec, rs
  <2>3. TestsGoOn /\ TestsBegun'
    BY <1>1, <2>1, <2>2, OneTest DEF EpochInv
  <2>4. RequestsGoOn /\ NoneStarts
    BY <2>2, AbortsGoOn
  <2>5. QueueSound' /\ OneClear'
    BY <1>2, <2>3, <2>4, SameOperations
  <2>6. ClientsMade'
    BY <1>2, <2>2, <2>3, ClientsStayMade DEF EpochInv
  <2> QED
    BY <1>2, <2>2, <2>3, <2>4, <2>5, <2>6, QuietStep
<1> QED
  BY <1>3, <1>4

\* Whoever begins a close takes the client that is connected.
LEMMA CloseTakes ==
  ASSUME HostInv, NEW a \in Actors, StartClose(a)
  PROVE  /\ live' = None
         /\ \A b \in Actors : closing'[b].client # None =>
              \/ closing'[b].client = closing[b].client
              \/ live # None /\ closing'[b].client = live.by
BY DEF StartClose, HostInv, HostTyped

LEMMA ClientFailsEpochs ==
  ASSUME IInv, EpochInv, NEW t \in Tests, ClientFails(t) PROVE EpochInv'
<1>1. HostInv /\ t \in Actors /\ UNCHANGED <<request, nativeVars, gateVars>>
  BY HostHolds DEF Actors, ClientFails
<1>2. CASE IsCurrent(test[t].epoch)
  <2>1. test' = [test EXCEPT ![t].pc = "failing"] /\ StartClose(t)
    BY <1>2 DEF ClientFails
  <2>2. TestsGoOn /\ TestsBegun'
    BY <2>1, TestGoesTo DEF EpochInv
  <2>3. ClientsMade'
    BY <1>1, <2>1, <2>2, CloseTakes, ClientsStayMade DEF EpochInv
  <2> QED
    BY <1>1, <2>1, <2>2, <2>3, CloseSound, HostEpochs
<1>3. CASE ~IsCurrent(test[t].epoch)
  <2>1. /\ test' = [test EXCEPT ![t].pc = "over"]
        /\ live' = live /\ closing' = closing /\ queue' = queue
    BY <1>3 DEF ClientFails
  <2>2. TestsGoOn /\ TestsBegun'
    BY <2>1, TestGoesTo DEF EpochInv
  <2>3. ClientsMade'
    BY <2>1, <2>2, ClientsStayMade DEF EpochInv
  <2> QED
    BY <1>1, <2>1, <2>2, <2>3, HostEpochs
<1> QED
  BY <1>2, <1>3

LEMMA FailureClosedEpochs ==
  ASSUME IInv, EpochInv, NEW t \in Tests, FailureClosed(t) PROVE EpochInv'
<1>1. /\ test' = [test EXCEPT ![t].pc = "over"]
      /\ live' = live /\ closing' = closing /\ queue' = queue
      /\ UNCHANGED <<request, nativeVars, gateVars>>
  BY DEF FailureClosed
<1>2. TestsGoOn /\ TestsBegun'
  BY <1>1, TestGoesTo DEF EpochInv
<1>3. ClientsMade'
  BY <1>1, <1>2, ClientsStayMade DEF EpochInv
<1> QED
  BY <1>1, <1>2, <1>3, HostEpochs

LEMMA PanelEpochs ==
  ASSUME IInv, EpochInv,
         CloseServer \/ DeleteServer \/ ReplaceServers \/ \E k \in Configs : SaveServer(k)
  PROVE  EpochInv'
<1>1. HostInv /\ Panel \in Actors /\ test' = test /\ UNCHANGED <<request, nativeVars, gateVars>>
  BY HostHolds DEF Actors, CloseServer, DeleteServer, ReplaceServers, SaveServer, managerVars
<1>2. TestsGoOn /\ TestsBegun'
  BY <1>1, SameTests DEF EpochInv
<1>3. CASE ReplaceServers
  <2>1. live' = live /\ closing' = closing /\ queue' = queue
    BY <1>3 DEF ReplaceServers, managerVars
  <2>2. ClientsMade'
    BY <2>1, <1>2, ClientsStayMade DEF EpochInv
  <2> QED
    BY <1>1, <1>2, <2>1, <2>2, HostEpochs
<1>4. CASE CloseServer \/ DeleteServer \/ \E k \in Configs : SaveServer(k)
  <2>1. StartClose(Panel)
    BY <1>4 DEF CloseServer, DeleteServer, SaveServer
  <2>2. ClientsMade'
    BY <1>1, <1>2, <2>1, CloseTakes, ClientsStayMade DEF EpochInv
  <2> QED
    BY <1>1, <1>2, <2>1, <2>2, CloseSound, HostEpochs
<1> QED
  BY <1>3, <1>4

\* The gate moves; nothing else of the epochs does.
LEMMA GateMoves ==
  ASSUME IInv, EpochInv, UNCHANGED <<test, request, nativeVars, closing>>,
         QueueSound', OneClear', ClearSound', live' = live,
         \A e \in 0..MaxClears : FromEpoch(e, clear, epoch) => FromEpoch(e, clear', epoch')
  PROVE  EpochInv'
<1>1. \A t \in Tests : test[t].epoch \in 0..MaxClears
  BY DEF IInv, TypeOK
<1>2. UNCHANGED <<connection, policy, nativeEpoch>>
  BY DEF nativeVars
<1>3. \A r \in Requests : request[r].pc # "idle" => request[r].client \in Tests
  BY DEF IInv, Coupling
<1>4. TestsBegun' /\ ClientsMade'
  BY DEF EpochInv, TestsBegun, ClientsMade
<1>5. RequestsBegun'
  BY <1>1, <1>2, <1>3 DEF EpochInv, RequestsBegun
<1>6. ActiveSound'
  BY <1>1, <1>2, <1>3, ActiveBegan DEF EpochInv, ActiveSound
<1>7. PolicySound'
  BY <1>1, <1>2 DEF EpochInv, PolicySound
<1> QED
  BY <1>4, <1>5, <1>6, <1>7 DEF EpochInv

LEMMA ClearEpochs ==
  ASSUME IInv, EpochInv,
         ClearBegins \/ ClearRevokes \/ ClearCloses \/ ClearStores \/ ClearEnds
  PROVE  EpochInv'
<1>1. HostInv /\ Clear \in Actors /\ epoch \in 0..MaxClears /\ MaxClears \in Nat
  BY HostHolds, RemoteMcpAssumption DEF Actors, HostInv, HostTyped
<1>2. test' = test /\ request' = request /\ UNCHANGED nativeVars
  BY DEF ClearBegins, ClearRevokes, ClearCloses, ClearStores, ClearEnds, managerVars
<1>3. TestsGoOn /\ TestsBegun' /\ RequestsGoOn /\ NoneStarts
  BY <1>2, SameTests, SameRequests DEF EpochInv
<1>4. UNCHANGED <<connection, policy, nativeEpoch>>
  BY <1>2 DEF nativeVars
<1>5. CASE ClearBegins
  <2>1. clear = "none" /\ clear' = "begun" /\ epoch' = epoch + 1 /\ queue' = queue
        /\ live' = live /\ closing' = closing
    BY <1>5 DEF ClearBegins, GateOpen, managerVars
  <2>2. QueueSound' /\ OneClear'
    BY <1>2, <2>1 DEF EpochInv, QueueSound, OneClear
  <2>3. \A e \in 0..MaxClears : FromEpoch(e, clear, epoch) => FromEpoch(e, clear', epoch')
    BY <1>1, <2>1 DEF FromEpoch
  <2>4. ClearSound'
    BY <2>1 DEF ClearSound
  <2> QED
    BY <1>2, <2>1, <2>2, <2>3, <2>4, GateMoves
<1>6. CASE ClearRevokes
  <2> DEFINE op == [kind |-> "clear", owner |-> Clear, origins |-> {}, credentials |-> FALSE,
                    epoch |-> 0]
  <2>1. op \in Operation /\ OpSound(op, test', request')
    BY <1>1 DEF Operation, OpSound, Awaited
  <2>2. clear = "begun" /\ clear' = "revoking" /\ epoch' = epoch
        /\ queue' = Append(queue, op) /\ live' = live /\ closing' = closing
    BY <1>6 DEF ClearRevokes, Operate, managerVars
  <2> HIDE DEF op
  <2>3. QueueSound' /\ OneClear'
    BY <1>3, <2>1, <2>2, OperationJoins
  <2>4. ClearSound'
    BY <2>2 DEF ClearSound
  <2>5. \A e \in 0..MaxClears : FromEpoch(e, clear, epoch) => FromEpoch(e, clear', epoch')
    BY <2>2 DEF FromEpoch
  <2> QED
    BY <1>2, <2>2, <2>3, <2>4, <2>5, GateMoves
<1>7. CASE ClearCloses
  <2>1. clear = "revoked" /\ clear' = "closing" /\ epoch' = epoch
    BY <1>7 DEF ClearCloses
  <2>2. \/ live = None /\ UNCHANGED <<live, closing, queue>>
        \/ StartClose(Clear)
    BY <1>7 DEF ClearCloses
  <2>3. /\ live' = None
        /\ \A b \in Actors : closing'[b].client # None =>
             \/ closing'[b].client = closing[b].client
             \/ live # None /\ closing'[b].client = live.by
    BY <1>1, <2>2, CloseTakes
  <2>4. \/ queue' = queue
        \/ \E op \in Operation : /\ queue' = Append(queue, op) /\ op.kind # "clear"
                                 /\ OpSound(op, test', request')
    BY <1>1, <2>2, CloseSound
  <2>5. \A i \in 1..Len(queue) : queue[i].kind # "clear"
    BY <2>1 DEF EpochInv, OneClear
  <2>6. QueueSound' /\ OneClear'
    <3>1. CASE queue' = queue
      <4>1. QueueSound'
        BY <1>2, <3>1 DEF EpochInv, QueueSound
      <4>2. OneClear'
        BY <2>5, <3>1 DEF OneClear
      <4> QED
        BY <4>1, <4>2
    <3>2. CASE queue' # queue
      <4>1. PICK op \in Operation : /\ queue' = Append(queue, op) /\ op.kind # "clear"
                                    /\ OpSound(op, test', request')
        BY <2>4, <3>2
      <4>2. /\ Len(queue) \in Nat /\ Len(queue') = Len(queue) + 1
            /\ \A i \in 1..Len(queue) : queue'[i] = queue[i]
            /\ queue'[Len(queue) + 1] = op
        BY <4>1 DEF IInv, QueueInv
      <4>3. \A i \in 1..Len(queue') : i \in 1..Len(queue) \/ i = Len(queue) + 1
        BY <4>2
      <4>4. \A i \in 1..Len(queue) : OpSound(queue[i], test', request')
        BY <1>3, StaysSound
      <4>5. \A i \in 1..Len(queue') : OpSound(queue'[i], test', request')
        BY <4>1, <4>2, <4>3, <4>4
      <4>6. \A i \in 1..Len(queue') : queue'[i].kind # "clear"
        BY <2>5, <4>1, <4>2, <4>3
      <4> QED
        BY <4>5, <4>6 DEF QueueSound, OneClear
    <3> QED
      BY <3>1, <3>2
  <2>7. ClientsMade'
    BY <1>3, <2>3, ClientsStayMade DEF EpochInv
  <2>8. /\ policy = None /\ \A r \in Requests : connection[r] = "none"
    BY <2>1 DEF EpochInv, ClearSound
  <2>9. ActiveSound' /\ PolicySound' /\ ClearSound'
    BY <1>4, <2>1, <2>3, <2>8 DEF ActiveSound, PolicySound, ClearSound
  <2>10. RequestsBegun'
    BY <1>2, <1>4, <2>1 DEF EpochInv, RequestsBegun, FromEpoch
  <2> QED
    BY <1>3, <2>6, <2>7, <2>9, <2>10 DEF EpochInv
<1>8. CASE ClearStores
  <2>1. clear = "closing" /\ clear' = "emptied" /\ epoch' = epoch /\ queue' = queue
        /\ live' = live /\ closing' = closing
    BY <1>8 DEF ClearStores, managerVars
  <2>2. QueueSound' /\ OneClear'
    BY <1>2, <2>1 DEF EpochInv, QueueSound, OneClear
  <2>3. ClearSound'
    BY <1>4, <2>1 DEF EpochInv, ClearSound
  <2>4. \A e \in 0..MaxClears : FromEpoch(e, clear, epoch) => FromEpoch(e, clear', epoch')
    BY <2>1 DEF FromEpoch
  <2> QED
    BY <1>2, <2>1, <2>2, <2>3, <2>4, GateMoves
<1>9. CASE ClearEnds
  <2>1. clear \in {"revoked", "emptied"} /\ clear' = "none" /\ epoch' = epoch /\ queue' = queue
        /\ live' = live /\ closing' = closing
    BY <1>9 DEF ClearEnds, managerVars
  <2>2. QueueSound' /\ OneClear'
    BY <1>2, <2>1 DEF EpochInv, QueueSound, OneClear
  <2>3. ClearSound'
    BY <2>1 DEF ClearSound
  <2>4. \A e \in 0..MaxClears : FromEpoch(e, clear, epoch) => FromEpoch(e, clear', epoch')
    BY <2>1 DEF FromEpoch
  <2> QED
    BY <1>2, <2>1, <2>2, <2>3, <2>4, GateMoves
<1> QED
  BY <1>5, <1>6, <1>7, <1>8, <1>9

-----------------------------------------------------------------------------
(* The invariant and what it implies.                                       *)

LEMMA InitEpochs == Init => EpochInv
<1> SUFFICES ASSUME Init PROVE EpochInv
  OBVIOUS
<1>1. /\ \A t \in Tests : test[t].pc = "idle" /\ test[t].approved = {} /\ test[t].client = "none"
      /\ \A r \in Requests : request[r].pc = "idle" /\ connection[r] = "none"
      /\ \A a \in Actors : closing[a].client = None
      /\ queue = <<>> /\ live = None /\ policy = None /\ clear = "none"
  BY DEF Init, NoTest, NoRequest, NoClose
<1>2. TestsBegun /\ ClientsMade /\ RequestsBegun
  BY <1>1 DEF TestsBegun, ClientsMade, RequestsBegun, Begun
<1>3. QueueSound /\ OneClear
  BY <1>1 DEF QueueSound, OneClear
<1>4. ActiveSound /\ PolicySound /\ ClearSound
  BY <1>1 DEF ActiveSound, PolicySound, ClearSound
<1> QED
  BY <1>2, <1>3, <1>4 DEF EpochInv

LEMMA NextEpochs == IInv /\ EpochInv /\ [Next]_vars => EpochInv'
<1> SUFFICES ASSUME IInv, EpochInv, [Next]_vars PROVE EpochInv'
  OBVIOUS
<1>1. CASE QueueStep
  BY <1>1, RejectedEpochs, GrantEpochs, ApproveEpochs, WidenEpochs, ResetEpochs,
     ClearRunsEpochs DEF QueueStep
<1>2. CASE UserStep \/ ReplaceServers
  BY <1>2, PanelEpochs, ClearEpochs DEF UserStep
<1>3. CASE ClearRevokes \/ ClearCloses \/ ClearStores \/ ClearEnds
  BY <1>3, ClearEpochs
<1>4. CASE \E a \in Actors : CloseEnds(a)
  BY <1>4, CloseEndsEpochs
<1>5. CASE \E t \in Tests : BeginTest(t) \/ TestStep(t) \/ ClientStep(t)
  BY <1>5, BeginTestEpochs, CreatesRemoteEpochs, ClientCreatedEpochs, ClientConnectedEpochs,
     ClientFailsEpochs, FailureClosedEpochs, FetchEpochs DEF TestStep, ClientStep
<1>6. CASE \E r \in Requests : \/ ConnectStep(r) \/ WebviewStep(r) \/ TaskEnds(r)
                               \/ DisconnectRuns(r) \/ RequestAborted(r)
  BY <1>6, ReserveEpochs, RequestStepEpochs, EpochAnsweredEpochs, DisconnectEpochs,
     RequestAbortedEpochs DEF ConnectStep, WebviewStep
<1>7. CASE UNCHANGED vars
  <2>1. UNCHANGED <<test, request, queue, live, closing, nativeVars, gateVars>>
    BY <1>7 DEF vars, managerVars
  <2>2. TestsGoOn /\ TestsBegun'
    BY <2>1, SameTests DEF EpochInv
  <2>3. ClientsMade'
    BY <2>1, <2>2, ClientsStayMade DEF EpochInv
  <2> QED
    BY <2>1, <2>2, <2>3, HostEpochs
<1> QED
  BY <1>1, <1>2, <1>3, <1>4, <1>5, <1>6, <1>7 DEF Next

\* A full clear leaves no policy, connection or client of the server when it has
\* emptied the store, and once the gate is open again the native side holds
\* nothing of an earlier epoch, wherever the requests and operations were when
\* the gate closed (clearTauriMcpRemotePolicies, mcp_remote_clear_policies).
THEOREM ClearIsComplete == Spec => []ClearRevokesRemote
<1>1. IInv /\ EpochInv => ClearRevokesRemote
  <2> SUFFICES ASSUME EpochInv PROVE ClearRevokesRemote
    OBVIOUS
  <2>1. clear = "emptied" => policy = None /\ Active = {} /\ live = None
    BY DEF EpochInv, ClearSound, Active
  <2>2. GateOpen => \A r \in Active : test[request[r].client].epoch = epoch
    BY DEF EpochInv, ActiveSound, Active, GateOpen, FromEpoch
  <2>3. GateOpen /\ policy # None => \E t \in Tests :
          test[t].epoch = epoch /\ policy.origins \subseteq test[t].approved
    BY DEF EpochInv, PolicySound, GateOpen, FromEpoch
  <2> QED
    BY <2>1, <2>2, <2>3 DEF ClearRevokesRemote
<1> QED
  BY <1>1, Invariance, InitEpochs, NextEpochs, PTL DEF Spec
=============================================================================
