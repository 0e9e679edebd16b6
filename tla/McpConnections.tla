--------------------------- MODULE McpConnections ---------------------------
(***************************************************************************)
(* Local (stdio) MCP servers: the connection manager of the webview        *)
(* (lib/mcp/connection-manager.ts), the store of servers and their runtime *)
(* state (store/mcp.ts), the lifecycle gate of a full clear                *)
(* (lib/mcp/revocation.ts, lib/storage/registry.ts), the panel that edits  *)
(* servers, and the native host of their processes (mcp_stdio.rs).         *)
(*                                                                         *)
(* An action of the webview is the code between two awaits that wait for   *)
(* something outside the event loop; one of the host is a section between  *)
(* two awaits of a command.  A test is one call of testServer; it makes at *)
(* most one process, which carries its name.  What a server offers (tools  *)
(* and instructions, by fingerprint) is a definition; what was approved of *)
(* an entry is a definition as well.  The update time of an entry is the   *)
(* number of the edit that set it.                                         *)
(***************************************************************************)
EXTENDS Naturals, FiniteSets

CONSTANTS Servers,         \* server ids
          Tests,           \* calls of testServer
          Calls,           \* calls of callTool that pass its checks
          Configs,         \* configurations: command, arguments, environment
          Definitions,     \* what a server can offer
          Offers,          \* the definitions servers of a configuration offer
          Persisted,       \* entries an earlier session may have left
          None,
          Panel, Run, Clear, \* who closes connections besides the tests
          MaxConnections,  \* MAX_CONNECTIONS
          MaxEdits,        \* bound on edits of entries
          MaxClears        \* bound on full clears

Actors == Tests \cup {Panel, Run, Clear}

ASSUME McpAssumption ==
  /\ None \notin Tests \cup Configs \cup Definitions
  /\ Panel # Run /\ Clear \notin {Panel, Run} /\ {Panel, Run, Clear} \cap Tests = {}
  /\ Offers \in [Configs -> SUBSET Definitions]
  /\ Persisted \subseteq [config : Configs, enabled : BOOLEAN,
                          approved : Definitions \cup {None}, updatedAt : {0}]
  /\ MaxConnections \in Nat \ {0}
  /\ MaxEdits \in Nat
  /\ MaxClears \in Nat

VARIABLES
  entries,        \* the store: per server its entry, or None
  runtime,        \* the store: per server its runtime state
  globalEnabled,  \* the store: MCP as a whole
  edits,          \* edits of entries so far
  connections,    \* the manager's map: per server a live connection, or None
  test,           \* per call of testServer: its progress
  closing,        \* per actor and server: the progress of a close
  saving,         \* the save of an edited entry that awaits a close, or None
  approval,       \* the approval in progress, or None
  epoch,          \* lifecycleEpoch
  clear,          \* progress of a full clear
  processes,      \* per test: the process it started
  hosted,         \* the host's map: per server the test whose process it holds
  hostEpoch,      \* connection_epoch
  call            \* per tool call: its progress

storeVars   == <<entries, runtime, globalEnabled, edits>>
gateVars    == <<epoch, clear>>
hostVars    == <<processes, hosted, hostEpoch>>
panelVars   == <<saving, approval>>
vars == <<storeVars, connections, test, closing, panelVars, gateVars, hostVars, call>>

\* A save and an approval that began before the bound may end after it.
LastEdit == MaxEdits + 2

Entry == [config : Configs, enabled : BOOLEAN,
          approved : Definitions \cup {None}, updatedAt : 0..LastEdit]
Runtime == [status : {"none", "idle", "connecting", "ready", "drifted", "error"},
            tools : Definitions \cup {None}, clean : BOOLEAN]
Connection == [by : Tests, updatedAt : 0..LastEdit]

ASSUME NoneAssumption == None \notin Entry \cup Connection

TestStages == {"idle", "reclosing", "closing", "epoch", "connecting",
               "starting", "connected", "rejected", "refreshing", "comparing",
               "undoing", "failing", "over"}
NoRuntime == [status |-> "none", tools |-> None, clean |-> FALSE]
NoTest == [pc |-> "idle", server |-> None, epoch |-> 0, entry |-> None,
           expected |-> 0, found |-> None]
Over(t) == [NoTest EXCEPT !.pc = "over", !.epoch = test[t].epoch]
NoClose == [stage |-> "none", live |-> FALSE, preserve |-> FALSE]
NoCall == [pc |-> "idle", server |-> None, approved |-> None, reached |-> None]

TypeOK ==
  /\ entries \in [Servers -> Entry \cup {None}]
  /\ runtime \in [Servers -> Runtime]
  /\ globalEnabled \in BOOLEAN
  /\ edits \in 0..LastEdit
  /\ connections \in [Servers -> Connection \cup {None}]
  /\ test \in [Tests -> [pc : TestStages, server : Servers \cup {None},
                         epoch : 0..MaxClears, entry : Entry \cup {None},
                         expected : 0..MaxClears,
                         found : Definitions \cup {None}]]
  /\ closing \in [Actors -> [Servers ->
       [stage : {"none", "policy", "disconnect", "reply"},
        live : BOOLEAN, preserve : BOOLEAN]]]
  /\ saving \in [server : Servers, config : Configs,
                 servers : [Servers -> Entry \cup {None}]] \cup {None}
  /\ approval \in [pc : {"fingerprints", "drift", "recheck"}, server : Servers,
                   discovery : Definitions, epoch : 0..MaxClears,
                   servers : [Servers -> Entry \cup {None}]] \cup {None}
  /\ epoch \in 0..MaxClears
  /\ clear \in {"none", "begun", "revoking", "revoked", "closing", "emptied"}
  /\ processes \in [Tests -> [state : {"none", "running", "gone"},
                              tools : Definitions \cup {None}]]
  /\ hosted \in [Servers -> Tests \cup {None}]
  /\ hostEpoch \in 0..MaxClears
  /\ call \in [Calls -> [pc : {"idle", "sent", "open", "over"},
                         server : Servers \cup {None},
                         approved : Definitions \cup {None},
                         reached : Definitions \cup {None}]]

-----------------------------------------------------------------------------
(* The gate of lib/mcp/revocation.ts.                                       *)

GateOpen == clear = "none"
IsCurrent(e) == GateOpen /\ epoch = e

\* The store persists the entries and no runtime state.
Init ==
  /\ entries \in [Servers -> {None} \cup Persisted]
  /\ runtime = [s \in Servers |-> NoRuntime]
  /\ globalEnabled = TRUE
  /\ edits = 0
  /\ connections = [s \in Servers |-> None]
  /\ test = [t \in Tests |-> NoTest]
  /\ closing = [a \in Actors |-> [s \in Servers |-> NoClose]]
  /\ saving = None
  /\ approval = None
  /\ epoch = 0
  /\ clear = "none"
  /\ processes = [t \in Tests |-> [state |-> "none", tools |-> None]]
  /\ hosted = [s \in Servers |-> None]
  /\ hostEpoch = 0
  /\ call = [c \in Calls |-> NoCall]

-----------------------------------------------------------------------------
(* close: the connection leaves the map at once; the remote policy is reset *)
(* (which is awaited), then the host is told, and only at the end the       *)
(* runtime state becomes idle.                                              *)

Closing(a, s) == closing[a][s].stage # "none"

StartCloses(a, ss, preserve) ==
  /\ closing' = [closing EXCEPT ![a] = [s \in Servers |->
       IF s \in ss THEN [stage |-> "policy", live |-> connections[s] # None,
                         preserve |-> preserve]
                   ELSE @[s]]]
  /\ connections' = [s \in Servers |-> IF s \in ss THEN None ELSE connections[s]]

StartClose(a, s, preserve) == StartCloses(a, {s}, preserve)

\* The map as close leaves it at its end, if the server still exists.
IdleRuntime(a, s) ==
  IF entries[s] # None /\ ~closing[a][s].preserve
  THEN [runtime EXCEPT ![s].status = "idle"] ELSE runtime

PolicyReset(a, s) ==
  /\ closing[a][s].stage = "policy"
  /\ IF closing[a][s].live
     THEN /\ closing' = [closing EXCEPT ![a][s].stage = "disconnect"]
          /\ UNCHANGED runtime
     ELSE /\ closing' = [closing EXCEPT ![a][s] = NoClose]
          /\ runtime' = IdleRuntime(a, s)
  /\ UNCHANGED <<entries, globalEnabled, edits, connections, test, panelVars,
                 gateVars, hostVars, call>>

CloseReturns(a, s) ==
  /\ closing[a][s].stage = "reply"
  /\ closing' = [closing EXCEPT ![a][s] = NoClose]
  /\ runtime' = IdleRuntime(a, s)
  /\ UNCHANGED <<entries, globalEnabled, edits, connections, test, panelVars,
                 gateVars, hostVars, call>>

-----------------------------------------------------------------------------
(* The host (mcp_stdio.rs).                                                 *)

Alive(t) == processes[t].state = "running"

Gone(ts) == [t \in Tests |->
  IF t \in ts THEN [state |-> "gone", tools |-> None] ELSE processes[t]]

\* mcp_stdio_disconnect; the calls of the server, which it cancels first, may
\* end at any time (CallEnds).
DisconnectRuns(a, s) ==
  /\ closing[a][s].stage = "disconnect"
  /\ closing' = [closing EXCEPT ![a][s].stage = "reply"]
  /\ hosted' = [hosted EXCEPT ![s] = None]
  /\ processes' = Gone({hosted[s]})
  /\ UNCHANGED <<storeVars, connections, test, panelVars, gateVars, hostEpoch, call>>

\* mcp_stdio_disconnect_all with begin_revocation
DisconnectAllRuns ==
  /\ clear = "revoking"
  /\ clear' = "revoked"
  /\ hostEpoch' = hostEpoch + 1
  /\ hosted' = [s \in Servers |-> None]
  /\ processes' = Gone({hosted[s] : s \in Servers})
  /\ UNCHANGED <<storeVars, connections, test, closing, panelVars, epoch, call>>

\* mcp_stdio_connect up to the start of the process: the epoch, the limit,
\* and the removal of the connection this one replaces.
ConnectRuns(t) ==
  LET s == test[t].server
      full == Cardinality({i \in Servers : hosted[i] # None}) >= MaxConnections
  IN  /\ test[t].pc = "connecting"
      /\ IF test[t].expected # hostEpoch \/ (full /\ hosted[s] = None)
         THEN /\ test' = [test EXCEPT ![t].pc = "rejected"]
              /\ UNCHANGED <<processes, hosted>>
         ELSE /\ test' = [test EXCEPT ![t].pc = "starting"]
              /\ hosted' = [hosted EXCEPT ![s] = None]
              /\ processes' = Gone({hosted[s]})
      /\ UNCHANGED <<storeVars, connections, closing, panelVars, gateVars, hostEpoch, call>>

\* mcp_stdio_connect after create_connection: a connection that was revoked
\* meanwhile is closed, any other one overwrites what the map holds.
ConnectCompletes_unchecked(t) ==
  LET s == test[t].server
  IN  /\ test[t].pc = "starting"
      /\ \E d \in Offers[test[t].entry.config] :
           processes' = [Gone({hosted[s]}) EXCEPT ![t] = [state |-> "running", tools |-> d]]
      /\ hosted' = [hosted EXCEPT ![s] = t]
      /\ test' = [test EXCEPT ![t].pc = "connected"]
      /\ UNCHANGED <<storeVars, connections, closing, panelVars, gateVars, hostEpoch, call>>
ConnectCompletes(t) ==
  LET s == test[t].server
  IN  /\ test[t].pc = "starting"
      /\ IF test[t].expected # hostEpoch
         THEN /\ test' = [test EXCEPT ![t].pc = "rejected"]
              /\ UNCHANGED <<processes, hosted>>
         ELSE /\ \E d \in Offers[test[t].entry.config] :
                   processes' = [Gone({hosted[s]}) EXCEPT
                                   ![t] = [state |-> "running", tools |-> d]]
              /\ hosted' = [hosted EXCEPT ![s] = t]
              /\ test' = [test EXCEPT ![t].pc = "connected"]
      /\ UNCHANGED <<storeVars, connections, closing, panelVars, gateVars, hostEpoch, call>>

\* The process does not start, does not answer in time or breaks a limit.
ConnectFails(t) ==
  /\ test[t].pc = "starting"
  /\ test' = [test EXCEPT ![t].pc = "rejected"]
  /\ UNCHANGED <<storeVars, connections, closing, panelVars, gateVars, hostVars, call>>

\* A process exits by itself; the host finds out when it uses it.
ProcessExits(t) ==
  /\ Alive(t)
  /\ processes' = Gone({t})
  /\ UNCHANGED <<storeVars, connections, test, closing, panelVars, gateVars,
                 hosted, hostEpoch, call>>

\* mcp_stdio_call_tool up to the request: the call is registered.
CallRuns(c) ==
  LET t == hosted[call[c].server]
  IN  /\ call[c].pc = "sent"
      /\ call' = [call EXCEPT ![c] =
           IF t # None /\ Alive(t)
           THEN [@ EXCEPT !.pc = "open", !.reached = processes[t].tools]
           ELSE [NoCall EXCEPT !.pc = "over"]]
      /\ UNCHANGED <<storeVars, connections, test, closing, panelVars, gateVars, hostVars>>

\* The process answers or is gone, the call was cancelled, or it timed out.
CallEnds(c) ==
  /\ call[c].pc = "open"
  /\ call' = [call EXCEPT ![c] = [NoCall EXCEPT !.pc = "over"]]
  /\ UNCHANGED <<storeVars, connections, test, closing, panelVars, gateVars, hostVars>>

-----------------------------------------------------------------------------
(* testServer and connectEntry.                                             *)

BeingTested(s) == \E u \in Tests : test[u].server = s /\ test[u].pc \notin {"idle", "over"}

Status(s, status) == [runtime EXCEPT ![s].status = status]

\* Where connectEntry goes once no connection of another version is in the way.
Connecting(s) == IF connections[s] # None THEN "refreshing" ELSE "epoch"

\* testServer until its first wait; a connection made for another version of
\* the entry is closed first.
BeginTest(t, s) ==
  LET other == connections[s] # None /\ connections[s].updatedAt # entries[s].updatedAt
  IN  /\ GateOpen
      /\ entries[s] # None
      /\ runtime' = Status(s, "connecting")
      /\ test' = [test EXCEPT ![t] =
           [NoTest EXCEPT !.server = s, !.epoch = epoch, !.entry = entries[s],
                          !.pc = IF other THEN "closing" ELSE Connecting(s)]]
      /\ IF other THEN StartClose(t, s, FALSE) ELSE UNCHANGED <<closing, connections>>

TestServer(t, s) ==
  /\ test[t].pc = "idle"
  /\ BeginTest(t, s)
  /\ UNCHANGED <<entries, globalEnabled, edits, panelVars, gateVars, hostVars, call>>

\* reconnectServer and, per server, reconnectAll.
ReconnectServer(t, s) ==
  /\ test[t].pc = "idle"
  /\ GateOpen
  /\ test' = [test EXCEPT ![t].pc = "reclosing", ![t].server = s]
  /\ StartClose(t, s, FALSE)
  /\ UNCHANGED <<storeVars, panelVars, gateVars, hostVars, call>>

TestsAfterClose(t) ==
  /\ test[t].pc = "reclosing"
  /\ ~Closing(t, test[t].server)
  /\ IF GateOpen /\ entries[test[t].server] # None
     THEN BeginTest(t, test[t].server)
     ELSE /\ test' = [test EXCEPT ![t] = Over(t)]
          /\ UNCHANGED <<runtime, closing, connections>>
  /\ UNCHANGED <<entries, globalEnabled, edits, panelVars, gateVars, hostVars, call>>

ConnectsAfterClose(t) ==
  /\ test[t].pc = "closing"
  /\ ~Closing(t, test[t].server)
  /\ test' = [test EXCEPT ![t].pc = Connecting(test[t].server)]
  /\ UNCHANGED <<storeVars, connections, closing, panelVars, gateVars, hostVars, call>>

\* connectTauriStdio: the epoch of the host is asked for, then the gate.  A
\* clear that runs between the two fails the test all the same.
EpochAnswered(t) ==
  /\ test[t].pc = "epoch"
  /\ test' = [test EXCEPT ![t] =
       IF IsCurrent(@.epoch) THEN [@ EXCEPT !.pc = "connecting", !.expected = hostEpoch]
                             ELSE Over(t)]
  /\ UNCHANGED <<storeVars, connections, closing, panelVars, gateVars, hostVars, call>>

\* connectEntry after mcp_stdio_connect: a connection of an epoch that is over
\* is disconnected, any other one enters the map.
ConnectReturns_skipsEdited(t) ==
  LET s == test[t].server
  IN  /\ test[t].pc = "connected"
      /\ IF /\ IsCurrent(test[t].epoch)
            /\ entries[s] # None /\ entries[s].updatedAt = test[t].entry.updatedAt
         THEN /\ connections' = [connections EXCEPT ![s] =
                                   [by |-> t, updatedAt |-> test[t].entry.updatedAt]]
              /\ test' = [test EXCEPT ![t].pc = "comparing",
                                      ![t].found = processes[t].tools]
         ELSE /\ test' = [test EXCEPT ![t] = Over(t)]
              /\ UNCHANGED connections
      /\ UNCHANGED <<storeVars, closing, panelVars, gateVars, hostVars, call>>
ConnectReturns(t) ==
  LET s == test[t].server
  IN  /\ test[t].pc = "connected"
      /\ IF IsCurrent(test[t].epoch)
         THEN /\ connections' = [connections EXCEPT ![s] =
                                   [by |-> t, updatedAt |-> test[t].entry.updatedAt]]
              /\ test' = [test EXCEPT ![t].pc = "comparing",
                                      ![t].found = processes[t].tools]
         ELSE /\ test' = [test EXCEPT ![t].pc = "undoing"]
              /\ UNCHANGED connections
      /\ UNCHANGED <<storeVars, closing, panelVars, gateVars, hostVars, call>>

\* mcp_stdio_disconnect of a revoked connection: whatever the host has by now.
UndoRuns(t) ==
  LET s == test[t].server
  IN  /\ test[t].pc = "undoing"
      /\ test' = [test EXCEPT ![t] = Over(t)]
      /\ hosted' = [hosted EXCEPT ![s] = None]
      /\ processes' = Gone({hosted[s]})
      /\ UNCHANGED <<storeVars, connections, closing, panelVars, gateVars, hostEpoch, call>>

\* mcp_stdio_list_tools for a connection that is there already.
RefreshReturns(t) ==
  LET p == hosted[test[t].server]
  IN  /\ test[t].pc = "refreshing"
      /\ test' = [test EXCEPT ![t] =
           IF p # None /\ Alive(p)
           THEN IF IsCurrent(@.epoch)
                THEN [@ EXCEPT !.pc = "comparing", !.found = processes[p].tools]
                ELSE Over(t)
           ELSE [@ EXCEPT !.pc = "rejected"]]
      /\ UNCHANGED <<storeVars, connections, closing, panelVars, gateVars, hostVars, call>>

\* testServer after compareMcpDiscovery: only the version that was tested
\* becomes ready.
Compared(t) ==
  LET s == test[t].server  e == test[t].entry
  IN  /\ test[t].pc = "comparing"
      /\ test' = [test EXCEPT ![t] = Over(t)]
      /\ runtime' = IF /\ IsCurrent(test[t].epoch)
                       /\ entries[s] # None /\ entries[s].updatedAt = e.updatedAt
                    THEN [runtime EXCEPT ![s] =
                           [status |-> IF e.approved = test[t].found THEN "ready" ELSE "drifted",
                            tools |-> test[t].found,
                            clean |-> e.approved = test[t].found]]
                    ELSE runtime
      /\ UNCHANGED <<entries, globalEnabled, edits, connections, closing, panelVars,
                     gateVars, hostVars, call>>

\* testServer after an error: the status says so, and what is connected by
\* now is closed.
TestFails(t) ==
  LET s == test[t].server
  IN  /\ test[t].pc = "rejected"
      /\ IF IsCurrent(test[t].epoch)
         THEN /\ runtime' = IF entries[s] # None THEN Status(s, "error") ELSE runtime
              /\ test' = [test EXCEPT ![t].pc = "failing"]
              /\ StartClose(t, s, TRUE)
         ELSE /\ test' = [test EXCEPT ![t] = Over(t)]
              /\ UNCHANGED <<runtime, closing, connections>>
      /\ UNCHANGED <<entries, globalEnabled, edits, panelVars, gateVars, hostVars, call>>

FailureCloses(t) ==
  /\ test[t].pc = "failing"
  /\ ~Closing(t, test[t].server)
  /\ test' = [test EXCEPT ![t] = Over(t)]
  /\ UNCHANGED <<storeVars, connections, closing, panelVars, gateVars, hostVars, call>>

-----------------------------------------------------------------------------
(* The panel and the menu.                                                  *)

Idle == [status |-> "idle", tools |-> None, clean |-> FALSE]
NewEntry(c) == [config |-> c, enabled |-> FALSE, approved |-> None, updatedAt |-> edits + 1]
CanEdit == GateOpen /\ edits < MaxEdits

RegisterServer(s, c) ==
  /\ CanEdit
  /\ entries[s] = None
  /\ entries' = [entries EXCEPT ![s] = NewEntry(c)]
  /\ edits' = edits + 1
  /\ UNCHANGED <<runtime, globalEnabled, connections, test, closing, panelVars,
                 gateVars, hostVars, call>>

\* handleSave, and an import that replaces a server: the connection is closed
\* first; the servers to be stored are those of when the save began.
SaveServer(s, c) ==
  /\ CanEdit
  /\ saving = None
  /\ entries[s] # None
  /\ ~Closing(Panel, s)
  /\ saving' = [server |-> s, config |-> c, servers |-> entries]
  /\ StartClose(Panel, s, FALSE)
  /\ UNCHANGED <<storeVars, test, approval, gateVars, hostVars, call>>

ReplaceServers ==
  /\ saving # None
  /\ ~Closing(Panel, saving.server)
  /\ entries' = [saving.servers EXCEPT ![saving.server] = NewEntry(saving.config)]
  /\ runtime' = [s \in Servers |-> NoRuntime]
  /\ edits' = edits + 1
  /\ saving' = None
  /\ UNCHANGED <<globalEnabled, connections, test, closing, approval,
                 gateVars, hostVars, call>>

EnableServer(s) ==
  /\ CanEdit
  /\ entries[s] # None /\ ~entries[s].enabled
  /\ entries' = [entries EXCEPT ![s].enabled = TRUE, ![s].updatedAt = edits + 1]
  /\ edits' = edits + 1
  /\ UNCHANGED <<runtime, globalEnabled, connections, test, closing, panelVars,
                 gateVars, hostVars, call>>

DisableServer(s) ==
  /\ CanEdit
  /\ entries[s] # None /\ entries[s].enabled
  /\ ~Closing(Panel, s)
  /\ entries' = [entries EXCEPT ![s].enabled = FALSE, ![s].updatedAt = edits + 1]
  /\ runtime' = [runtime EXCEPT ![s] = Idle]
  /\ edits' = edits + 1
  /\ StartClose(Panel, s, FALSE)
  /\ UNCHANGED <<globalEnabled, test, panelVars, gateVars, hostVars, call>>

DeleteServer(s) ==
  /\ CanEdit
  /\ entries[s] # None
  /\ ~Closing(Panel, s)
  /\ entries' = [entries EXCEPT ![s] = None]
  /\ runtime' = [runtime EXCEPT ![s] = NoRuntime]
  /\ edits' = edits + 1
  /\ StartClose(Panel, s, FALSE)
  /\ UNCHANGED <<globalEnabled, test, panelVars, gateVars, hostVars, call>>

\* setToolApproval: the runtime state stays, the version changes.
SetToolApproval(s) ==
  /\ CanEdit
  /\ entries[s] # None /\ entries[s].approved # None
  /\ entries' = [entries EXCEPT ![s].updatedAt = edits + 1]
  /\ edits' = edits + 1
  /\ UNCHANGED <<runtime, globalEnabled, connections, test, closing, panelVars,
                 gateVars, hostVars, call>>

Known == {s \in Servers : connections[s] # None \/ entries[s] # None}

SetGlobalEnabled ==
  /\ CanEdit
  /\ \A s \in Servers : ~Closing(Panel, s)
  /\ globalEnabled' = ~globalEnabled
  /\ edits' = edits + 1
  /\ IF globalEnabled THEN StartCloses(Panel, Known, FALSE)
                      ELSE UNCHANGED <<closing, connections>>
  /\ UNCHANGED <<entries, runtime, test, panelVars, gateVars, hostVars, call>>

-----------------------------------------------------------------------------
(* approveServer of the manager and of the store.                           *)

ApproveServer_untested(s) ==
  /\ CanEdit
  /\ approval = None
  /\ entries[s] # None
  /\ approval' = [pc |-> "fingerprints", server |-> s, epoch |-> epoch,
                  discovery |-> runtime[s].tools, servers |-> entries]
  /\ UNCHANGED <<storeVars, connections, test, closing, saving, gateVars, hostVars, call>>
ApproveServer(s) ==
  /\ CanEdit
  /\ approval = None
  /\ entries[s] # None
  /\ runtime[s].tools # None
  /\ approval' = [pc |-> "fingerprints", server |-> s, epoch |-> epoch,
                  discovery |-> runtime[s].tools, servers |-> entries]
  /\ UNCHANGED <<storeVars, connections, test, closing, saving, gateVars, hostVars, call>>

\* The store reads the entry again; what it will set is fixed here, before
\* the definitions are compared.
Fingerprinted ==
  LET s == approval.server
  IN  /\ approval # None /\ approval.pc = "fingerprints"
      /\ IF entries[s] = None
         THEN approval' = None /\ UNCHANGED edits
         ELSE /\ approval' = [approval EXCEPT !.pc = "drift", !.servers =
                   [entries EXCEPT ![s] =
                      [config |-> entries[s].config, enabled |-> TRUE,
                       approved |-> approval.discovery, updatedAt |-> edits + 1]]]
              /\ edits' = edits + 1
      /\ UNCHANGED <<entries, runtime, globalEnabled, connections, test, closing,
                     saving, gateVars, hostVars, call>>

Ready(discovery) == [status |-> "ready", tools |-> discovery, clean |-> TRUE]

StoreApproval ==
  /\ approval # None /\ approval.pc = "drift"
  /\ entries' = approval.servers
  /\ runtime' = [runtime EXCEPT ![approval.server] = Ready(approval.discovery)]
  /\ approval' = [approval EXCEPT !.pc = "recheck"]
  /\ UNCHANGED <<globalEnabled, edits, connections, test, closing, saving,
                 gateVars, hostVars, call>>

PublishApproval ==
  /\ approval # None /\ approval.pc = "recheck"
  /\ approval' = None
  /\ runtime' = IF IsCurrent(approval.epoch) /\ entries[approval.server] # None
                THEN [runtime EXCEPT ![approval.server] = Ready(approval.discovery)]
                ELSE runtime
  /\ UNCHANGED <<entries, globalEnabled, edits, connections, test, closing, saving,
                 gateVars, hostVars, call>>

-----------------------------------------------------------------------------
(* Generation runs: ensureEnabledServers closes what is not enabled and     *)
(* tests the rest (TestServer); callTool checks everything again.           *)

EnsureEnabledServers ==
  LET disabled == IF globalEnabled
                  THEN {s \in Servers : /\ connections[s] # None
                                        /\ entries[s] = None \/ ~entries[s].enabled}
                  ELSE Known
  IN  /\ GateOpen
      /\ \A s \in Servers : ~Closing(Run, s)
      /\ disabled # {}
      /\ StartCloses(Run, disabled, FALSE)
      /\ UNCHANGED <<storeVars, test, panelVars, gateVars, hostVars, call>>

MayCall(s) ==
  /\ globalEnabled
  /\ entries[s] # None /\ entries[s].enabled /\ entries[s].approved # None
  /\ runtime[s].status = "ready" /\ runtime[s].clean

CallTool(c, s) ==
  /\ call[c].pc = "idle"
  /\ MayCall(s)
  /\ connections[s] # None
  /\ call' = [call EXCEPT ![c] = [@ EXCEPT !.pc = "sent", !.server = s,
                                           !.approved = entries[s].approved]]
  /\ UNCHANGED <<storeVars, connections, test, closing, panelVars, gateVars, hostVars>>

-----------------------------------------------------------------------------
(* clearAllStorageDomains.                                                  *)

ClearBegins ==
  /\ GateOpen
  /\ epoch < MaxClears
  /\ clear' = "begun"
  /\ epoch' = epoch + 1
  /\ UNCHANGED <<storeVars, connections, test, closing, panelVars, hostVars, call>>

\* clearTauriMcpRemotePolicies, behind the policy operations before it.
ClearRevokes ==
  /\ clear = "begun"
  /\ clear' = "revoking"
  /\ UNCHANGED <<storeVars, connections, test, closing, panelVars, epoch, hostVars, call>>

ClearCloses ==
  /\ clear = "revoked"
  /\ clear' = "closing"
  /\ StartCloses(Clear, Known, FALSE)
  /\ UNCHANGED <<storeVars, test, panelVars, epoch, hostVars, call>>

ClearStores ==
  /\ clear = "closing"
  /\ \A s \in Servers : ~Closing(Clear, s)
  /\ clear' = "emptied"
  /\ entries' = [s \in Servers |-> None]
  /\ runtime' = [s \in Servers |-> NoRuntime]
  /\ globalEnabled' = TRUE
  /\ UNCHANGED <<edits, connections, test, closing, panelVars, epoch, hostVars, call>>

\* The gate opens after the last domain, or when a domain before MCP fails.
ClearEnds ==
  /\ clear \in {"revoked", "emptied"}
  /\ clear' = "none"
  /\ UNCHANGED <<storeVars, connections, test, closing, panelVars, epoch, hostVars, call>>

-----------------------------------------------------------------------------
CloseStep(a, s) == PolicyReset(a, s) \/ DisconnectRuns(a, s) \/ CloseReturns(a, s)

TestStep(t) ==
  \/ TestsAfterClose(t) \/ ConnectsAfterClose(t) \/ EpochAnswered(t)
  \/ ConnectReturns(t) \/ UndoRuns(t) \/ RefreshReturns(t)
  \/ Compared(t) \/ TestFails(t) \/ FailureCloses(t)

HostStep(t) == ConnectRuns(t) \/ ConnectCompletes(t) \/ ConnectFails(t)

CallStep(c) == CallRuns(c) \/ CallEnds(c)

ApprovalStep == Fingerprinted \/ StoreApproval \/ PublishApproval

ClearStep == ClearRevokes \/ DisconnectAllRuns \/ ClearCloses \/ ClearStores \/ ClearEnds

UserStep(s) ==
  \/ \E c \in Configs : RegisterServer(s, c) \/ SaveServer(s, c)
  \/ EnableServer(s) \/ DisableServer(s) \/ DeleteServer(s) \/ SetToolApproval(s)
  \/ ApproveServer(s)
  \/ \E t \in Tests : TestServer(t, s) \/ ReconnectServer(t, s)
  \/ \E c \in Calls : CallTool(c, s)

Next ==
  \/ \E a \in Actors, s \in Servers : CloseStep(a, s)
  \/ \E t \in Tests : TestStep(t) \/ HostStep(t) \/ ProcessExits(t)
  \/ \E c \in Calls : CallStep(c)
  \/ \E s \in Servers : UserStep(s)
  \/ ApprovalStep \/ ReplaceServers \/ SetGlobalEnabled \/ EnsureEnabledServers
  \/ ClearBegins \/ ClearStep

Spec == Init /\ [][Next]_vars

-----------------------------------------------------------------------------
(* Properties.                                                              *)

\* When a full clear has emptied the store nothing is connected, and once the
\* gate is open again no process of a test that began before the clear is left
\* with the host, wherever its connect was when the gate closed
\* (revocation.ts, connectTauriStdio, mcp_stdio_connect, begin_revocation).
ClearRevokesProcesses ==
  /\ clear = "emptied" => \A s \in Servers : hosted[s] = None /\ connections[s] = None
  /\ GateOpen => \A s \in Servers :
       hosted[s] # None => test[hosted[s]].epoch = epoch

\* Nothing is in flight for a server.
Settled(s) ==
  /\ ~BeingTested(s)
  /\ \A a \in Actors : ~Closing(a, s)
  /\ clear = "none"

\* When nothing is in flight the host holds no process the manager does not
\* know of: such a process could not be closed any more (connectEntry, close).
NoOrphans == \A s \in Servers :
  Settled(s) /\ hosted[s] # None => connections[s] # None

\* A call reaches only a process that offers what the user reviewed and
\* approved when the call was admitted (callTool, testServer, approveServer).
ReviewedToolsRun == \A c \in Calls :
  call[c].pc = "open" => call[c].reached = call[c].approved
=============================================================================
