----------------------------- MODULE RemoteMcp -----------------------------
(***************************************************************************)
(* A remote MCP server on the desktop: how the connection manager of the   *)
(* webview makes and closes its clients (lib/mcp/connection-manager.ts,    *)
(* remote-client.ts), the requests of a client through the native side     *)
(* (createTauriMcpFetch in lib/mcp/tauri-host.ts), the queue of policy     *)
(* operations there, and the policies and connections of mcp_remote.rs,    *)
(* with the gate of a full clear (lib/mcp/revocation.ts).                  *)
(*                                                                         *)
(* There is one server: servers share nothing but the limits, and the      *)
(* queue, which only delays them.  A test is a call that connects the      *)
(* server (testServer, authorizeServer, finishAuthorization); it makes at  *)
(* most one client, which carries its name.  A request is one call of the  *)
(* client's fetch.  The update time of an entry is the number of the edit  *)
(* that set it.  What a stream carries is left out, the native limits (a   *)
(* connect may fail for any reason), what OAuth stores in the entry, and   *)
(* the runtime state of the server, which McpConnections has.              *)
(***************************************************************************)
EXTENDS Naturals, Sequences, FiniteSets

CONSTANTS Tests, Requests,
          Origins,
          Configs,      \* what the user can configure
          OriginOf,     \* the origin of the URL of a configuration
          Secret,       \* configurations with headers or OAuth
          Insecure,     \* loopback origins without TLS
          None, Panel, Clear,
          MaxEdits,     \* bound on what the user does with the entry
          MaxClears     \* bound on full clears

Actors == Tests \cup {Panel, Clear}

\* validateMcpServerEntry: credentials need TLS.
ASSUME RemoteMcpAssumption ==
  /\ None \notin Tests \cup Requests
  /\ None \notin [origins : SUBSET Origins, credentials : BOOLEAN]
  /\ Panel \notin Tests /\ Clear \notin Tests /\ Panel # Clear
  /\ OriginOf \in [Configs -> Origins]
  /\ Secret \subseteq Configs
  /\ Insecure \subseteq Origins
  /\ \A k \in Secret : OriginOf[k] \notin Insecure
  /\ MaxEdits \in Nat /\ MaxClears \in Nat

VARIABLES
  entry,        \* the store's entry of the server, or None
  edits,
  saving,       \* the configuration a save will store once its close is over, or None
  live,         \* the manager's connection: its client and version, or None
  test,
  closing,      \* per actor: a close in progress
  request,
  queue,        \* mcpPolicySync: operations not yet done
  disconnects,  \* requests whose mcp_remote_disconnect is on its way
  epoch,        \* the webview's lifecycle epoch
  clear,        \* progress of a full clear
  policy,       \* native: the policy of the server, or None
  connection,   \* native: per request its entry in the map of connections
  nativeEpoch   \* native: policy_epoch

storeVars == <<entry, edits, saving>>
managerVars == <<live, test, closing>>
gateVars == <<epoch, clear>>
nativeVars == <<policy, connection, nativeEpoch>>
vars == <<storeVars, managerVars, request, queue, disconnects, gateVars, nativeVars>>

Entry == [config : Configs, version : 0..MaxEdits]
Operation == [kind : {"grant", "approve", "widen", "reset", "clear"},
              owner : Requests \cup Actors,
              origins : SUBSET Origins, credentials : BOOLEAN, epoch : 0..MaxClears]
NoTest == [pc |-> "idle", config |-> None, version |-> 0, epoch |-> 0,
           approved |-> {}, client |-> "none"]
NoClose == [stage |-> "none", client |-> None]
NoRequest == [pc |-> "idle", client |-> None, origin |-> None, abortable |-> FALSE,
              aborted |-> FALSE, expected |-> 0]

TypeOK ==
  /\ entry \in Entry \cup {None}
  /\ edits \in 0..MaxEdits
  /\ saving \in Configs \cup {None}
  /\ live \in [by : Tests, version : 0..MaxEdits] \cup {None}
  /\ test \in [Tests -> [pc : {"idle", "closing", "policy", "granted", "connecting",
                               "failing", "over"},
                         config : Configs \cup {None}, version : 0..MaxEdits,
                         epoch : 0..MaxClears, approved : SUBSET Origins,
                         client : {"none", "open", "closed"}]]
  /\ closing \in [Actors -> [stage : {"none", "policy", "client"},
                             client : Tests \cup {None}]]
  /\ request \in [Requests ->
       [pc : {"idle", "approving", "widening", "listening", "opening", "sent",
              "accepted", "live", "over"},
        client : Tests \cup {None}, origin : Origins \cup {None}, abortable : BOOLEAN,
        aborted : BOOLEAN, expected : Nat]]
  /\ queue \in Seq(Operation)
  /\ disconnects \subseteq Requests
  /\ epoch \in 0..MaxClears /\ nativeEpoch \in Nat
  /\ clear \in {"none", "begun", "revoking", "revoked", "closing", "emptied"}
  /\ policy = None \/ policy \in [origins : (SUBSET Origins) \ {{}}, credentials : BOOLEAN]
  /\ connection \in [Requests -> {"none", "reserved", "running"}]

Init ==
  /\ \E k \in Configs : entry = [config |-> k, version |-> 0]
  /\ edits = 0 /\ saving = None
  /\ live = None
  /\ test = [t \in Tests |-> NoTest]
  /\ closing = [a \in Actors |-> NoClose]
  /\ request = [r \in Requests |-> NoRequest]
  /\ queue = <<>>
  /\ disconnects = {}
  /\ epoch = 0 /\ clear = "none"
  /\ policy = None
  /\ connection = [r \in Requests |-> "none"]
  /\ nativeEpoch = 0

\* The gate of revocation.ts.
GateOpen == clear = "none"
IsCurrent(e) == GateOpen /\ epoch = e

-----------------------------------------------------------------------------
(* enqueueMcpPolicyOperation: one operation at a time, in order.            *)

Operate(kind, owner, origins, credentials, e) ==
  Append(queue, [kind |-> kind, owner |-> owner, origins |-> origins,
                 credentials |-> credentials, epoch |-> e])

\* setTauriMcpRemotePolicy for the client of t with what was approved for it.
Grant(kind, owner, t, origins) ==
  Operate(kind, owner, origins, test[t].config \in Secret, test[t].epoch)

\* close passes no guard, neither does the clear.
Guarded(op) == op.kind \in {"grant", "approve", "widen"}

\* The guard is asked again when the native epoch is known, and the operation
\* sent.  A clear that begins while it is under way queues behind it: the
\* operation runs with its last check, or it is rejected.
Passes(op) == Guarded(op) => IsCurrent(op.epoch)

OperationRejected ==
  LET op == Head(queue)
  IN  /\ queue # <<>> /\ ~Passes(op)
      /\ queue' = Tail(queue)
      /\ test' = IF op.kind = "grant" THEN [test EXCEPT ![op.owner].pc = "over"] ELSE test
      /\ request' = IF op.kind \in {"approve", "widen"}
                    THEN [request EXCEPT ![op.owner].pc = "over"] ELSE request
      /\ UNCHANGED <<storeVars, live, closing, disconnects, gateVars, nativeVars>>

Runs(kind) == queue # <<>> /\ Head(queue).kind = kind /\ Passes(Head(queue))

\* set_remote_policy; the queue lets no clear come between epoch and use.
SetPolicy_spares(op) ==
  /\ policy' = IF op.origins = {} THEN None
               ELSE [origins |-> op.origins, credentials |-> op.credentials]
  /\ UNCHANGED connection
SetPolicy_keepsEmpty(op) ==
  /\ policy' = [origins |-> op.origins, credentials |-> op.credentials]
  /\ connection' = IF op.origins = {} THEN [r \in Requests |-> "none"] ELSE connection
SetPolicy(op) ==
  LET restricted == IF policy = None THEN FALSE
                    ELSE \/ ~(policy.origins \subseteq op.origins)
                         \/ policy.credentials # op.credentials
  IN  /\ policy' = IF op.origins = {} THEN None
                   ELSE [origins |-> op.origins, credentials |-> op.credentials]
      /\ connection' = IF restricted THEN [r \in Requests |-> "none"] ELSE connection

\* createRemote goes on.
GrantRuns ==
  LET op == Head(queue)
  IN  /\ Runs("grant")
      /\ SetPolicy(op)
      /\ test' = [test EXCEPT ![op.owner].pc = "granted"]
      /\ queue' = Tail(queue)
      /\ UNCHANGED <<storeVars, live, closing, request, disconnects, gateVars, nativeEpoch>>

\* approveOrigin returns to the fetch that asked, which sets the policy again.
ApproveRuns ==
  LET r == Head(queue).owner  t == request[r].client
  IN  /\ Runs("approve")
      /\ SetPolicy(Head(queue))
      /\ request' = [request EXCEPT ![r].pc = "widening"]
      /\ queue' = Tail(Grant("widen", r, t, test[t].approved))
      /\ UNCHANGED <<storeVars, managerVars, disconnects, gateVars, nativeEpoch>>

WidenRuns ==
  LET op == Head(queue)
  IN  /\ Runs("widen")
      /\ SetPolicy(op)
      /\ request' = [request EXCEPT ![op.owner].pc = "listening"]
      /\ queue' = Tail(queue)
      /\ UNCHANGED <<storeVars, managerVars, disconnects, gateVars, nativeEpoch>>

ResetRuns ==
  LET op == Head(queue)
  IN  /\ Runs("reset")
      /\ SetPolicy(op)
      /\ closing' = [closing EXCEPT ![op.owner].stage = "client"]
      /\ queue' = Tail(queue)
      /\ UNCHANGED <<storeVars, live, test, request, disconnects, gateVars, nativeEpoch>>

\* mcp_remote_clear_policies
ClearRuns ==
  /\ Runs("clear")
  /\ policy' = None
  /\ connection' = [r \in Requests |-> "none"]
  /\ nativeEpoch' = nativeEpoch + 1
  /\ clear' = "revoked"
  /\ queue' = Tail(queue)
  /\ UNCHANGED <<storeVars, managerVars, request, disconnects, epoch>>

-----------------------------------------------------------------------------
(* The native side of a request (mcp_remote_connect and its task).          *)

Active == {r \in Requests : connection[r] # "none"}

\* reserve_connection: epoch, policy and limits under the lock of the policies.
Reserve_anyEpoch(r) ==
  /\ request[r].pc = "sent" /\ connection[r] = "none"
  /\ policy # None /\ request[r].origin \in policy.origins
  /\ ~(request[r].origin \in Insecure /\ policy.credentials)
  /\ connection' = [connection EXCEPT ![r] = "reserved"]
  /\ request' = [request EXCEPT ![r].pc = "accepted"]
  /\ UNCHANGED <<storeVars, managerVars, queue, disconnects, gateVars, policy, nativeEpoch>>
Reserve(r) ==
  /\ request[r].pc = "sent" /\ connection[r] = "none"
  /\ request[r].expected = nativeEpoch
  /\ policy # None /\ request[r].origin \in policy.origins
  /\ ~(request[r].origin \in Insecure /\ policy.credentials)
  /\ connection' = [connection EXCEPT ![r] = "reserved"]
  /\ request' = [request EXCEPT ![r].pc = "accepted"]
  /\ UNCHANGED <<storeVars, managerVars, queue, disconnects, gateVars, policy, nativeEpoch>>

\* A check fails, or the client cannot be built.
ConnectFails(r) ==
  /\ request[r].pc = "sent" \/ (request[r].pc = "accepted" /\ connection[r] = "reserved")
  /\ connection' = [connection EXCEPT ![r] = "none"]
  /\ request' = [request EXCEPT ![r].pc = "over"]
  /\ UNCHANGED <<storeVars, managerVars, queue, disconnects, gateVars, policy, nativeEpoch>>

\* The task is attached and starts, unless the entry was taken out meanwhile.
\* The command returns; an abort in the meantime is followed by a disconnect.
ConnectReturns_once(r) ==
  /\ request[r].pc = "accepted" /\ connection[r] # "running"
  /\ connection' = [connection EXCEPT ![r] = IF @ = "reserved" THEN "running" ELSE @]
  /\ request' = [request EXCEPT ![r].pc =
       IF connection[r] = "none" \/ request[r].aborted THEN "over" ELSE "live"]
  /\ UNCHANGED <<storeVars, managerVars, queue, disconnects, gateVars, policy, nativeEpoch>>
ConnectReturns(r) ==
  /\ request[r].pc = "accepted" /\ connection[r] # "running"
  /\ connection' = [connection EXCEPT ![r] = IF @ = "reserved" THEN "running" ELSE @]
  /\ request' = [request EXCEPT ![r].pc =
       IF connection[r] = "none" \/ request[r].aborted THEN "over" ELSE "live"]
  /\ disconnects' = IF connection[r] # "none" /\ request[r].aborted
                    THEN disconnects \cup {r} ELSE disconnects
  /\ UNCHANGED <<storeVars, managerVars, queue, gateVars, policy, nativeEpoch>>

\* The response has ended, failed, exceeded a budget or was not acknowledged.
TaskEnds(r) ==
  /\ connection[r] = "running"
  /\ connection' = [connection EXCEPT ![r] = "none"]
  /\ request' = [request EXCEPT ![r].pc = "over"]
  /\ UNCHANGED <<storeVars, managerVars, queue, disconnects, gateVars, policy, nativeEpoch>>

\* mcp_remote_disconnect; nothing tells the webview.
DisconnectRuns(r) ==
  /\ r \in disconnects
  /\ disconnects' = disconnects \ {r}
  /\ connection' = [connection EXCEPT ![r] = "none"]
  /\ UNCHANGED <<storeVars, managerVars, request, queue, gateVars, policy, nativeEpoch>>

-----------------------------------------------------------------------------
(* The webview's side of a request (createTauriMcpFetch).                   *)

\* The SDK passes its signal to the requests of the protocol; those of the
\* authorization, which go to any origin, have none and outlive a close.
MayFetch(t, o, abortable) ==
  IF abortable THEN test[t].client = "open" /\ o = OriginOf[test[t].config]
               ELSE test[t].client # "none" /\ test[t].config \in Secret

\* For an origin that is not approved yet the user confirms.
Fetch(r, t, o, abortable) ==
  LET known == o \in test[t].approved
  IN  /\ request[r].pc = "idle"
      /\ MayFetch(t, o, abortable) /\ IsCurrent(test[t].epoch)
      /\ request' = [request EXCEPT ![r] =
           [NoRequest EXCEPT !.pc = IF known THEN "listening" ELSE "approving", !.client = t,
                             !.origin = o, !.abortable = abortable]]
      /\ test' = [test EXCEPT ![t].approved = @ \cup {o}]
      /\ queue' = IF known THEN queue
                  ELSE Grant("approve", r, t, test[t].approved \cup {o})
      /\ UNCHANGED <<storeVars, live, closing, disconnects, gateVars, nativeVars>>

\* listen resolves: an abort until now ends the request here.
Listens(r) ==
  /\ request[r].pc = "listening"
  /\ request' = [request EXCEPT ![r].pc = IF request[r].aborted THEN "over" ELSE "opening"]
  /\ disconnects' = IF request[r].aborted THEN disconnects \cup {r} ELSE disconnects
  /\ UNCHANGED <<storeVars, managerVars, queue, gateVars, nativeVars>>

\* The native epoch is asked for, then the gate.  A clear that runs between the
\* two fails the request all the same.
EpochAnswered(r) ==
  /\ request[r].pc = "opening"
  /\ request' = [request EXCEPT ![r] =
       IF IsCurrent(test[@.client].epoch)
       THEN [@ EXCEPT !.pc = "sent", !.expected = nativeEpoch]
       ELSE [@ EXCEPT !.pc = "over"]]
  /\ UNCHANGED <<storeVars, managerVars, queue, disconnects, gateVars, nativeVars>>

\* onAbort for the requests rs, which listen already or do not yet; it does
\* not end a request whose connect is on its way.
Listening(r) == request[r].pc \in {"opening", "sent", "accepted", "live"}
Abort(rs) ==
  /\ request' = [r \in Requests |->
       IF r \notin rs \/ request[r].pc \in {"idle", "over"} THEN request[r]
       ELSE [request[r] EXCEPT !.aborted = TRUE,
                               !.pc = IF @ = "live" THEN "over" ELSE @]]
  /\ disconnects' = disconnects \cup
       {r \in rs : Listening(r) /\ ~request[r].aborted}

\* The SDK gives up a request, or the consumer cancels the body.
RequestAborted(r) ==
  /\ request[r].pc \notin {"idle", "over"} /\ request[r].abortable /\ ~request[r].aborted
  /\ Abort({r})
  /\ UNCHANGED <<storeVars, managerVars, queue, gateVars, nativeVars>>

\* client.close of the client of t: its signal aborts.
CloseClient(t) ==
  Abort({r \in Requests : request[r].client = t /\ request[r].abortable})

-----------------------------------------------------------------------------
(* close, by any actor.                                                     *)

StartClose(a) ==
  /\ closing' = [closing EXCEPT ![a] =
       [stage |-> "policy", client |-> IF live = None THEN None ELSE live.by]]
  /\ live' = None
  /\ queue' = Operate("reset", a, {}, FALSE, 0)

CloseEnds(a) ==
  LET t == closing[a].client
  IN  /\ closing[a].stage = "client"
      /\ closing' = [closing EXCEPT ![a] = NoClose]
      /\ IF t = None THEN UNCHANGED <<test, request, disconnects>>
         ELSE /\ test' = [test EXCEPT ![t].client = "closed"]
              /\ CloseClient(t)
      /\ UNCHANGED <<storeVars, live, queue, gateVars, nativeVars>>

Closed(a) == closing[a].stage = "none"

-----------------------------------------------------------------------------
(* testServer, connectEntry and createRemote.                               *)

BeginTest(t) ==
  /\ test[t].pc = "idle"
  /\ GateOpen /\ entry # None
  /\ live # None => live.version # entry.version
  /\ LET begun == [NoTest EXCEPT !.config = entry.config, !.version = entry.version,
                                 !.epoch = epoch]
     IN  IF live # None
         THEN /\ test' = [test EXCEPT ![t] = [begun EXCEPT !.pc = "closing"]]
              /\ StartClose(t)
         ELSE /\ test' = [test EXCEPT ![t] = [begun EXCEPT !.pc = "policy",
                            !.approved = {OriginOf[entry.config]}]]
              /\ queue' = Operate("grant", t, {OriginOf[entry.config]},
                                  entry.config \in Secret, epoch)
              /\ UNCHANGED <<live, closing>>
  /\ UNCHANGED <<storeVars, request, disconnects, gateVars, nativeVars>>

\* After the close, which may have taken place during a clear.
CreatesRemote(t) ==
  LET own == {OriginOf[test[t].config]}
  IN  /\ test[t].pc = "closing" /\ Closed(t)
      /\ IF IsCurrent(test[t].epoch) /\ live = None
         THEN /\ test' = [test EXCEPT ![t].pc = "policy", ![t].approved = own]
              /\ queue' = Grant("grant", t, t, own)
         ELSE test' = [test EXCEPT ![t].pc = "over"] /\ UNCHANGED queue
      /\ UNCHANGED <<storeVars, live, closing, request, disconnects, gateVars, nativeVars>>

\* The client enters the map, in the place of any other one, and connects.
ClientCreated(t) ==
  /\ test[t].pc = "granted"
  /\ IF IsCurrent(test[t].epoch)
     THEN /\ live' = [by |-> t, version |-> test[t].version]
          /\ test' = [test EXCEPT ![t].pc = "connecting", ![t].client = "open"]
     ELSE test' = [test EXCEPT ![t].pc = "over"] /\ UNCHANGED live
  /\ UNCHANGED <<storeVars, closing, request, queue, disconnects, gateVars, nativeVars>>

\* The client is connected or needs an authorization; one that outlived its
\* epoch is closed.
ClientConnected(t) ==
  /\ test[t].pc = "connecting"
  /\ IF IsCurrent(test[t].epoch)
     THEN test' = [test EXCEPT ![t].pc = "over"] /\ UNCHANGED <<live, request, disconnects>>
     ELSE /\ test' = [test EXCEPT ![t].pc = "over", ![t].client = "closed"]
          /\ live' = IF live # None /\ live.by = t THEN None ELSE live
          /\ CloseClient(t)
  /\ UNCHANGED <<storeVars, closing, queue, gateVars, nativeVars>>

\* testServer closes whatever is connected by now.
ClientFails(t) ==
  /\ test[t].pc = "connecting"
  /\ IF IsCurrent(test[t].epoch)
     THEN test' = [test EXCEPT ![t].pc = "failing"] /\ StartClose(t)
     ELSE test' = [test EXCEPT ![t].pc = "over"] /\ UNCHANGED <<live, closing, queue>>
  /\ UNCHANGED <<storeVars, request, disconnects, gateVars, nativeVars>>

FailureClosed(t) ==
  /\ test[t].pc = "failing" /\ Closed(t)
  /\ test' = [test EXCEPT ![t].pc = "over"]
  /\ UNCHANGED <<storeVars, live, closing, request, queue, disconnects, gateVars, nativeVars>>

-----------------------------------------------------------------------------
(* The panel.                                                               *)

MayEdit == GateOpen /\ edits < MaxEdits /\ saving = None /\ Closed(Panel)

\* Disabling, reconnecting, and ensureEnabledServers of a run.
CloseServer ==
  /\ MayEdit /\ entry # None /\ live # None
  /\ edits' = edits + 1
  /\ StartClose(Panel)
  /\ UNCHANGED <<entry, saving, test, request, disconnects, gateVars, nativeVars>>

DeleteServer ==
  /\ MayEdit /\ entry # None
  /\ entry' = None
  /\ edits' = edits + 1
  /\ StartClose(Panel)
  /\ UNCHANGED <<saving, test, request, disconnects, gateVars, nativeVars>>

\* handleSave
SaveServer(k) ==
  /\ MayEdit /\ entry # None
  /\ saving' = k
  /\ StartClose(Panel)
  /\ UNCHANGED <<entry, edits, test, request, disconnects, gateVars, nativeVars>>

ReplaceServers ==
  /\ saving # None /\ Closed(Panel)
  /\ entry' = [config |-> saving, version |-> edits + 1]
  /\ edits' = edits + 1
  /\ saving' = None
  /\ UNCHANGED <<managerVars, request, queue, disconnects, gateVars, nativeVars>>

-----------------------------------------------------------------------------
(* clearAllStorageDomains                                                   *)

ClearBegins ==
  /\ GateOpen /\ epoch < MaxClears
  /\ clear' = "begun" /\ epoch' = epoch + 1
  /\ UNCHANGED <<storeVars, managerVars, request, queue, disconnects, nativeVars>>

\* clearTauriMcpRemotePolicies, behind the operations before it.
ClearRevokes ==
  /\ clear = "begun"
  /\ clear' = "revoking"
  /\ queue' = Operate("clear", Clear, {}, FALSE, 0)
  /\ UNCHANGED <<storeVars, managerVars, request, disconnects, epoch, nativeVars>>

\* closeAll
ClearCloses ==
  /\ clear = "revoked"
  /\ clear' = "closing"
  /\ IF live = None /\ entry = None THEN UNCHANGED <<live, closing, queue>>
     ELSE StartClose(Clear)
  /\ UNCHANGED <<storeVars, test, request, disconnects, epoch, nativeVars>>

ClearStores ==
  /\ clear = "closing" /\ Closed(Clear)
  /\ clear' = "emptied"
  /\ entry' = None
  /\ UNCHANGED <<edits, saving, managerVars, request, queue, disconnects, epoch, nativeVars>>

\* The gate opens after the last domain, or when a domain before MCP fails.
ClearEnds ==
  /\ clear \in {"revoked", "emptied"}
  /\ clear' = "none"
  /\ UNCHANGED <<storeVars, managerVars, request, queue, disconnects, epoch, nativeVars>>

-----------------------------------------------------------------------------
QueueStep == OperationRejected \/ GrantRuns \/ ApproveRuns
               \/ WidenRuns \/ ResetRuns \/ ClearRuns

ConnectStep(r) == Reserve(r) \/ ConnectFails(r) \/ ConnectReturns(r)

WebviewStep(r) == Listens(r) \/ EpochAnswered(r)

TestStep(t) == CreatesRemote(t) \/ ClientCreated(t) \/ ClientConnected(t)
                 \/ ClientFails(t) \/ FailureClosed(t)

UserStep == CloseServer \/ DeleteServer \/ ClearBegins \/ \E k \in Configs : SaveServer(k)

ClientStep(t) ==
  \E r \in Requests, o \in Origins, abortable \in BOOLEAN : Fetch(r, t, o, abortable)

Next ==
  \/ QueueStep \/ UserStep \/ ReplaceServers
  \/ ClearRevokes \/ ClearCloses \/ ClearStores \/ ClearEnds
  \/ \E a \in Actors : CloseEnds(a)
  \/ \E t \in Tests : BeginTest(t) \/ TestStep(t) \/ ClientStep(t)
  \/ \E r \in Requests : \/ ConnectStep(r) \/ WebviewStep(r) \/ TaskEnds(r)
                         \/ DisconnectRuns(r) \/ RequestAborted(r)

Spec == Init /\ [][Next]_vars

-----------------------------------------------------------------------------
(* Properties.                                                              *)

\* Every connection the native side holds is one its policy allows now: when
\* approvals are taken back, or credentials are configured, the connections
\* that rested on the older policy are gone (set_remote_policy,
\* reserve_connection).
ActiveAreAuthorized == \A r \in Active :
  /\ policy # None
  /\ request[r].origin \in policy.origins
  /\ ~(request[r].origin \in Insecure /\ policy.credentials)

\* A full clear leaves nothing of the server when it has emptied the store, and
\* once the gate is open again no connection and no approval of a client from
\* before the clear is left, wherever its requests and policy operations were
\* when the gate closed (clearTauriMcpRemotePolicies, lifecycleGuard).
ClearRevokesRemote ==
  /\ clear = "emptied" => policy = None /\ Active = {} /\ live = None
  /\ GateOpen =>
       /\ \A r \in Active : test[request[r].client].epoch = epoch
       /\ policy # None => \E t \in Tests :
            test[t].epoch = epoch /\ policy.origins \subseteq test[t].approved

\* An aborted request that is over has no connection unless its disconnect is
\* still on its way, also when an earlier disconnect overtook the connect, which
\* found nothing then (onAbort and the end of createTauriMcpFetch).
AbortedAreDisconnected == \A r \in Requests \ disconnects :
  request[r].aborted /\ request[r].pc = "over" => connection[r] = "none"
=============================================================================
