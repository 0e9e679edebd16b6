------------------------ MODULE McpConnections_proof ------------------------
(***************************************************************************)
(* Theorems about McpConnections, for any servers, tests, calls and bounds:*)
(* the types, what a full clear leaves of local servers, and that the host *)
(* holds no process the manager has lost.                                  *)
(*                                                                         *)
(* Both rest on where a test is.  While the gate is closed every test is   *)
(* of an earlier epoch, and a connect in flight expects of the host the    *)
(* epoch of its test; so what the host accepts is of its own epoch, which  *)
(* the clear moves on together with the removal of what was accepted       *)
(* before.  And whatever takes a connection out of the manager's map has a *)
(* disconnect on its way: a close that found it, or the test that comes    *)
(* back too late to enter it (Accounted).                                  *)
(***************************************************************************)
EXTENDS McpConnections, TLAPS

TestType ==
  [pc : TestStages, server : Servers \cup {None}, epoch : 0..MaxClears,
   entry : Entry \cup {None}, expected : 0..MaxClears, found : Definitions \cup {None}]
CloseType == [stage : {"none", "policy", "disconnect", "reply"},
              live : BOOLEAN, preserve : BOOLEAN]
Entries == [Servers -> Entry \cup {None}]
SavingType == [server : Servers, config : Configs, servers : Entries]
ApprovalType == [pc : {"fingerprints", "drift", "recheck"}, server : Servers,
                 discovery : Definitions, epoch : 0..MaxClears, servers : Entries]
ProcessType == [state : {"none", "running", "gone"}, tools : Definitions \cup {None}]
CallType == [pc : {"idle", "sent", "open", "over"}, server : Servers \cup {None},
             approved : Definitions \cup {None}, reached : Definitions \cup {None}]

\* The parts of TypeOK, by who changes them.
EntriesTyped == entries \in Entries /\ runtime \in [Servers -> Runtime]
PanelTyped ==
  /\ globalEnabled \in BOOLEAN /\ edits \in 0..LastEdit
  /\ saving \in SavingType \cup {None}
  /\ approval \in ApprovalType \cup {None}
ManagerTyped ==
  /\ connections \in [Servers -> Connection \cup {None}]
  /\ test \in [Tests -> TestType]
  /\ closing \in [Actors -> [Servers -> CloseType]]
GateTyped ==
  /\ epoch \in 0..MaxClears
  /\ clear \in {"none", "begun", "revoking", "revoked", "closing", "emptied"}
  /\ hostEpoch \in 0..MaxClears
HostTyped ==
  /\ processes \in [Tests -> ProcessType]
  /\ hosted \in [Servers -> Tests \cup {None}]
CallsTyped == call \in [Calls -> CallType]
CallsSound == \A c \in Calls : call[c].pc = "sent" => call[c].server \in Servers

\* A save and an approval in progress will each count one edit.
EditsInBounds ==
  /\ saving # None => edits <= MaxEdits + 1
  /\ approval # None /\ approval.pc = "fingerprints" =>
       edits <= MaxEdits + 1 /\ (saving # None => edits <= MaxEdits)

\* Until it is told of a clear the host is in the epoch before it.
GateSound == IF clear \in {"begun", "revoking"} THEN hostEpoch + 1 = epoch
                                                ELSE hostEpoch = epoch

AtHost == {"connecting", "starting", "connected"}
TestSound(rec, e, c) ==
  /\ rec.epoch <= e /\ (c # "none" => rec.epoch < e)
  /\ rec.pc \notin {"idle", "over"} => rec.server \in Servers
  /\ rec.pc \in AtHost \cup {"closing", "epoch"} => rec.entry \in Entry
  /\ rec.pc \in AtHost => rec.expected = rec.epoch
TestsSound == \A t \in Tests : TestSound(test[t], epoch, clear)

\* A test whose process was accepted.
Accepted(rec) == rec.pc \in {"connected", "comparing", "undoing", "over"}
HostedSound == \A s \in Servers :
  hosted[s] # None => Accepted(test[hosted[s]]) /\ test[hosted[s]].epoch = hostEpoch

ClosedSound == clear \in {"closing", "emptied"} => \A s \in Servers : connections[s] = None

AwaitsClose(rec, s) == rec.server = s /\ rec.pc \in {"reclosing", "closing", "failing"}
ClosesSound == \A s \in Servers :
  /\ closing[Clear][s].stage # "none" => clear = "closing"
  /\ \A t \in Tests : closing[t][s].stage # "none" => AwaitsClose(test[t], s)
  /\ \A a \in Actors : closing[a][s].stage = "disconnect" => closing[a][s].live

\* A process of the host is in the manager's map, or its end is on its way.
WillEnter(rec, s) == rec.server = s /\ rec.pc \in {"connected", "undoing"}
WillDisconnect(c) == c.live /\ c.stage \in {"policy", "disconnect"}
Accounted(s) ==
  \/ hosted[s] = None
  \/ connections[s] # None
  \/ \E t \in Tests : WillEnter(test[t], s)
  \/ \E a \in Actors : WillDisconnect(closing[a][s])
AllAccounted == \A s \in Servers : Accounted(s)

IInv ==
  /\ EntriesTyped /\ PanelTyped /\ ManagerTyped /\ GateTyped /\ HostTyped /\ CallsTyped
  /\ EditsInBounds /\ CallsSound /\ GateSound /\ TestsSound /\ HostedSound
  /\ ClosedSound /\ ClosesSound /\ AllAccounted

LEMMA Typed ==
  TypeOK <=> EntriesTyped /\ PanelTyped /\ ManagerTyped /\ GateTyped /\ HostTyped /\ CallsTyped
BY DEF TypeOK, EntriesTyped, PanelTyped, ManagerTyped, GateTyped, HostTyped, CallsTyped,
       TestType, CloseType, Entries, SavingType, ApprovalType, ProcessType, CallType

LEMMA Initially ==
  ASSUME Init PROVE IInv
<1>1. EntriesTyped
  <2>1. Persisted \subseteq Entry
    BY McpAssumption DEF Entry, LastEdit
  <2>2. NoRuntime \in Runtime
    BY DEF NoRuntime, Runtime
  <2> QED
    BY <2>1, <2>2 DEF Init, EntriesTyped, Entries
<1>2. PanelTyped
  BY McpAssumption DEF Init, PanelTyped, LastEdit
<1>3. ManagerTyped
  <2>1. NoTest \in TestType
    BY McpAssumption DEF NoTest, TestType, TestStages
  <2>2. NoClose \in CloseType
    BY DEF NoClose, CloseType
  <2> QED
    BY <2>1, <2>2 DEF Init, ManagerTyped
<1>4. GateTyped
  BY McpAssumption DEF Init, GateTyped
<1>5. HostTyped
  BY DEF Init, HostTyped, ProcessType
<1>6. CallsTyped /\ CallsSound
  BY DEF Init, CallsTyped, CallsSound, CallType, NoCall
<1>7. EditsInBounds /\ GateSound /\ HostedSound /\ ClosedSound /\ AllAccounted
  BY DEF Init, EditsInBounds, GateSound, HostedSound, ClosedSound, AllAccounted, Accounted
<1>8. TestsSound
  BY DEF Init, TestsSound, TestSound, NoTest, AtHost
<1>9. ClosesSound
  BY DEF Init, ClosesSound, NoClose, Actors
<1> QED
  BY <1>1, <1>2, <1>3, <1>4, <1>5, <1>6, <1>7, <1>8, <1>9 DEF IInv

-----------------------------------------------------------------------------
(* Steps of the panel and of calls: what is connected stays as it is.       *)

Connected == <<connections, test, closing, gateVars, hosted, hostEpoch>>

LEMMA SameConnected ==
  ASSUME IInv, UNCHANGED Connected
  PROVE  /\ ManagerTyped' /\ GateTyped' /\ GateSound' /\ TestsSound' /\ HostedSound'
         /\ ClosedSound' /\ ClosesSound' /\ AllAccounted'
<1>1. UNCHANGED <<connections, test, closing, epoch, clear, hosted, hostEpoch>>
  BY DEF Connected, gateVars
<1>2. ManagerTyped' /\ GateTyped' /\ GateSound'
  BY <1>1 DEF IInv, ManagerTyped, GateTyped, GateSound
<1>3. TestsSound' /\ HostedSound' /\ ClosedSound'
  BY <1>1 DEF IInv, TestsSound, HostedSound, ClosedSound
<1>4. ClosesSound' /\ AllAccounted'
  BY <1>1 DEF IInv, ClosesSound, AllAccounted, Accounted
<1> QED
  BY <1>2, <1>3, <1>4

LEMMA SameStore ==
  ASSUME IInv, UNCHANGED <<entries, globalEnabled, edits, panelVars, call>>,
         runtime' \in [Servers -> Runtime]
  PROVE  EntriesTyped' /\ PanelTyped' /\ CallsTyped' /\ CallsSound' /\ EditsInBounds'
BY DEF IInv, EntriesTyped, PanelTyped, CallsTyped, CallsSound, EditsInBounds, panelVars

\* What a step of the panel or of a call has to show.
LEMMA Keeps ==
  ASSUME IInv, UNCHANGED Connected, EntriesTyped', PanelTyped', HostTyped', CallsTyped' /\ CallsSound',
         EditsInBounds'
  PROVE  IInv'
BY SameConnected DEF IInv

LEMMA SameHost ==
  ASSUME IInv, UNCHANGED hostVars PROVE HostTyped'
BY DEF IInv, HostTyped, hostVars

LEMMA SameCalls ==
  ASSUME IInv, UNCHANGED call PROVE CallsTyped' /\ CallsSound'
BY DEF IInv, CallsTyped, CallsSound

\* The bounds of the number of an edit.
LEMMA EditNumbers ==
  ASSUME IInv
  PROVE  /\ CanEdit => /\ edits + 1 \in 0..LastEdit /\ edits + 1 <= MaxEdits
                       /\ edits < MaxEdits
         /\ saving # None => edits + 1 \in 0..LastEdit
         /\ approval # None /\ approval.pc = "fingerprints" => edits + 1 \in 0..LastEdit
<1>1. edits \in Nat /\ MaxEdits \in Nat
  BY McpAssumption DEF IInv, PanelTyped, LastEdit
<1>2. CanEdit => edits + 1 <= MaxEdits /\ edits < MaxEdits
  BY <1>1 DEF CanEdit
<1>3. (saving # None \/ (approval # None /\ approval.pc = "fingerprints")) =>
        edits + 1 <= MaxEdits + 2
  BY <1>1 DEF IInv, EditsInBounds
<1> QED
  BY <1>1, <1>2, <1>3 DEF LastEdit

\* An edit that no save and no approval makes.
LEMMA EditCounted ==
  ASSUME IInv, CanEdit, edits' = edits + 1, UNCHANGED panelVars, globalEnabled' \in BOOLEAN
  PROVE  PanelTyped' /\ EditsInBounds'
<1>1. edits \in Nat /\ MaxEdits \in Nat /\ edits' <= MaxEdits /\ edits' \in 0..LastEdit
  BY EditNumbers, McpAssumption DEF IInv, PanelTyped, LastEdit
<1>2. saving' = saving /\ approval' = approval
  BY DEF panelVars
<1>3. PanelTyped'
  BY <1>1, <1>2 DEF IInv, PanelTyped
<1>4. edits' <= MaxEdits + 1
  BY <1>1
<1> QED
  BY <1>1, <1>2, <1>3, <1>4 DEF EditsInBounds

LEMMA NewEntryTyped ==
  ASSUME NEW c \in Configs, edits + 1 \in 0..LastEdit PROVE NewEntry(c) \in Entry
BY DEF NewEntry, Entry

LEMMA EntryChanges ==
  ASSUME IInv, NEW s \in Servers, entries[s] # None, edits + 1 \in 0..LastEdit,
         NEW enabled \in BOOLEAN
  PROVE  [entries[s] EXCEPT !.enabled = enabled, !.updatedAt = edits + 1] \in Entry
BY DEF IInv, EntriesTyped, Entries, Entry

LEMMA RegisterKeeps ==
  ASSUME IInv, NEW s \in Servers, NEW c \in Configs, RegisterServer(s, c)
  PROVE  IInv'
<1>1. /\ UNCHANGED Connected /\ UNCHANGED hostVars /\ UNCHANGED call /\ UNCHANGED panelVars
      /\ CanEdit /\ edits' = edits + 1 /\ runtime' = runtime /\ globalEnabled' = globalEnabled
      /\ entries' = [entries EXCEPT ![s] = NewEntry(c)]
  BY DEF RegisterServer, Connected, hostVars
<1>2. NewEntry(c) \in Entry
  BY <1>1, EditNumbers, NewEntryTyped
<1>3. EntriesTyped'
  BY <1>1, <1>2 DEF IInv, EntriesTyped, Entries
<1>4. PanelTyped' /\ EditsInBounds'
  BY <1>1, EditCounted DEF IInv, PanelTyped
<1> QED
  BY <1>1, <1>3, <1>4, SameHost, SameCalls, Keeps

LEMMA EnableKeeps ==
  ASSUME IInv, NEW s \in Servers, EnableServer(s) PROVE IInv'
<1>1. /\ UNCHANGED Connected /\ UNCHANGED hostVars /\ UNCHANGED call /\ UNCHANGED panelVars
      /\ CanEdit /\ edits' = edits + 1 /\ runtime' = runtime /\ globalEnabled' = globalEnabled
      /\ entries[s] # None
      /\ entries' = [entries EXCEPT ![s].enabled = TRUE, ![s].updatedAt = edits + 1]
  BY DEF EnableServer, Connected, hostVars
<1> DEFINE e == [entries[s] EXCEPT !.enabled = TRUE, !.updatedAt = edits + 1]
<1>2. e \in Entry
  BY <1>1, EditNumbers, EntryChanges
<1>3. entries \in Entries /\ entries' = [entries EXCEPT ![s] = e]
  BY <1>1 DEF IInv, EntriesTyped, Entries
<1> HIDE DEF e
<1>4. EntriesTyped'
  BY <1>1, <1>2, <1>3 DEF IInv, EntriesTyped, Entries
<1>5. PanelTyped' /\ EditsInBounds'
  BY <1>1, EditCounted DEF IInv, PanelTyped
<1> QED
  BY <1>1, <1>4, <1>5, SameHost, SameCalls, Keeps

LEMMA ToolApprovalKeeps ==
  ASSUME IInv, NEW s \in Servers, SetToolApproval(s) PROVE IInv'
<1>1. /\ UNCHANGED Connected /\ UNCHANGED hostVars /\ UNCHANGED call /\ UNCHANGED panelVars
      /\ CanEdit /\ edits' = edits + 1 /\ runtime' = runtime /\ globalEnabled' = globalEnabled
      /\ entries[s] # None
      /\ entries' = [entries EXCEPT ![s].updatedAt = edits + 1]
  BY DEF SetToolApproval, Connected, hostVars
<1> DEFINE e == [entries[s] EXCEPT !.updatedAt = edits + 1]
<1>2. e \in Entry
  <2>1. entries[s] \in Entry /\ edits + 1 \in 0..LastEdit
    BY <1>1, EditNumbers DEF IInv, EntriesTyped, Entries
  <2> QED
    BY <2>1 DEF Entry
<1>3. entries \in Entries /\ entries' = [entries EXCEPT ![s] = e]
  BY <1>1 DEF IInv, EntriesTyped, Entries
<1> HIDE DEF e
<1>4. EntriesTyped'
  BY <1>1, <1>2, <1>3 DEF IInv, EntriesTyped, Entries
<1>5. PanelTyped' /\ EditsInBounds'
  BY <1>1, EditCounted DEF IInv, PanelTyped
<1> QED
  BY <1>1, <1>4, <1>5, SameHost, SameCalls, Keeps

\* A save stores the servers of when it began, with the edited one.
LEMMA ReplaceKeeps ==
  ASSUME IInv, ReplaceServers PROVE IInv'
<1>1. /\ UNCHANGED Connected /\ UNCHANGED hostVars /\ UNCHANGED call
      /\ approval' = approval /\ saving # None /\ saving' = None
      /\ edits' = edits + 1 /\ globalEnabled' = globalEnabled
      /\ runtime' = [s \in Servers |-> NoRuntime]
      /\ entries' = [saving.servers EXCEPT ![saving.server] = NewEntry(saving.config)]
  BY DEF ReplaceServers, Connected, hostVars
<1>2. /\ saving.server \in Servers /\ saving.config \in Configs /\ saving.servers \in Entries
      /\ edits \in Nat /\ MaxEdits \in Nat /\ edits + 1 \in 0..LastEdit
  BY <1>1, EditNumbers, McpAssumption DEF IInv, PanelTyped, SavingType, LastEdit
<1>3. NewEntry(saving.config) \in Entry
  BY <1>2, NewEntryTyped
<1>4. EntriesTyped'
  <2>1. NoRuntime \in Runtime
    BY DEF NoRuntime, Runtime
  <2> QED
    BY <1>1, <1>2, <1>3, <2>1 DEF EntriesTyped, Entries
<1>5. PanelTyped'
  BY <1>1, <1>2 DEF IInv, PanelTyped
<1>6. EditsInBounds'
  BY <1>1, <1>2 DEF IInv, EditsInBounds
<1> QED
  BY <1>1, <1>4, <1>5, <1>6, SameHost, SameCalls, Keeps

LEMMA ApproveKeeps ==
  ASSUME IInv, NEW s \in Servers, ApproveServer(s) PROVE IInv'
<1> DEFINE a == [pc |-> "fingerprints", server |-> s, epoch |-> epoch,
                 discovery |-> runtime[s].tools, servers |-> entries]
<1>1. /\ UNCHANGED Connected /\ UNCHANGED hostVars /\ UNCHANGED call /\ UNCHANGED storeVars
      /\ saving' = saving /\ CanEdit /\ runtime[s].tools # None /\ approval' = a
  BY DEF ApproveServer, Connected, hostVars
<1>2. a \in ApprovalType /\ a.pc = "fingerprints"
  <2>1. /\ runtime[s].tools \in Definitions /\ epoch \in 0..MaxClears /\ entries \in Entries
    BY <1>1 DEF IInv, EntriesTyped, GateTyped, Runtime
  <2> QED
    BY <2>1 DEF ApprovalType
<1> HIDE DEF a
<1>3. EntriesTyped' /\ PanelTyped'
  BY <1>1, <1>2 DEF IInv, EntriesTyped, PanelTyped, storeVars
<1>4. EditsInBounds'
  <2>1. edits \in Nat /\ MaxEdits \in Nat /\ edits <= MaxEdits
    BY <1>1, EditNumbers, McpAssumption DEF IInv, PanelTyped, LastEdit
  <2>2. edits' <= MaxEdits /\ edits' <= MaxEdits + 1
    BY <1>1, <2>1 DEF storeVars
  <2> QED
    BY <2>2 DEF EditsInBounds
<1> QED
  BY <1>1, <1>3, <1>4, SameHost, SameCalls, Keeps

LEMMA FingerprintedKeeps ==
  ASSUME IInv, Fingerprinted PROVE IInv'
<1> DEFINE s == approval.server
           e == [config |-> entries[s].config, enabled |-> TRUE,
                 approved |-> approval.discovery, updatedAt |-> edits + 1]
           a == [approval EXCEPT !.pc = "drift", !.servers = [entries EXCEPT ![s] = e]]
<1>1. /\ UNCHANGED Connected /\ UNCHANGED hostVars /\ UNCHANGED call
      /\ saving' = saving /\ UNCHANGED <<entries, runtime, globalEnabled>>
      /\ approval # None /\ approval.pc = "fingerprints"
      /\ entries[s] = None => approval' = None /\ edits' = edits
      /\ entries[s] # None => approval' = a /\ edits' = edits + 1
  BY DEF Fingerprinted, Connected, hostVars
<1>2. /\ approval \in ApprovalType /\ s \in Servers /\ approval.discovery \in Definitions
      /\ entries \in Entries
  BY <1>1 DEF IInv, PanelTyped, ApprovalType, EntriesTyped
<1>3. edits \in Nat /\ MaxEdits \in Nat /\ edits + 1 \in 0..LastEdit
  BY <1>1, EditNumbers, McpAssumption DEF IInv, PanelTyped, LastEdit
<1>4. ASSUME entries[s] # None PROVE a \in ApprovalType /\ a.pc = "drift"
  <2>1. entries[s] \in Entry
    BY <1>2, <1>4 DEF Entries
  <2>2. e \in Entry
    BY <1>2, <1>3, <2>1 DEF Entry
  <2> HIDE DEF e
  <2>3. [entries EXCEPT ![s] = e] \in Entries
    BY <1>2, <2>2 DEF Entries
  <2> QED
    BY <1>2, <2>3 DEF ApprovalType
<1> HIDE DEF a
<1>5. EntriesTyped'
  BY <1>1 DEF IInv, EntriesTyped
<1>6. PanelTyped'
  BY <1>1, <1>3, <1>4 DEF IInv, PanelTyped
<1>7. EditsInBounds'
  <2>1. saving # None => edits + 1 <= MaxEdits + 1
    BY <1>1, <1>3 DEF IInv, EditsInBounds
  <2>2. approval' = None \/ approval'.pc = "drift"
    BY <1>1, <1>4
  <2>3. edits' = edits \/ edits' = edits + 1
    BY <1>1
  <2> QED
    BY <1>1, <1>3, <2>1, <2>2, <2>3 DEF EditsInBounds
<1> QED
  BY <1>1, <1>5, <1>6, <1>7, SameHost, SameCalls, Keeps

LEMMA StoreApprovalKeeps ==
  ASSUME IInv, StoreApproval PROVE IInv'
<1> DEFINE r == Ready(approval.discovery)
           a == [approval EXCEPT !.pc = "recheck"]
<1>1. /\ UNCHANGED Connected /\ UNCHANGED hostVars /\ UNCHANGED call
      /\ saving' = saving /\ globalEnabled' = globalEnabled /\ edits' = edits
      /\ approval # None /\ approval' = a /\ entries' = approval.servers
      /\ runtime' = [runtime EXCEPT ![approval.server] = r]
  BY DEF StoreApproval, Connected, hostVars
<1>2. approval \in ApprovalType /\ approval.servers \in Entries
  BY <1>1 DEF IInv, PanelTyped, ApprovalType
<1>3. r \in Runtime
  BY <1>2 DEF Ready, Runtime, ApprovalType
<1>4. a \in ApprovalType /\ a.pc = "recheck"
  BY <1>2 DEF ApprovalType
<1> HIDE DEF r, a
<1>5. EntriesTyped'
  BY <1>1, <1>2, <1>3 DEF IInv, EntriesTyped
<1>6. PanelTyped' /\ EditsInBounds'
  BY <1>1, <1>4 DEF IInv, PanelTyped, EditsInBounds
<1> QED
  BY <1>1, <1>5, <1>6, SameHost, SameCalls, Keeps

LEMMA PublishApprovalKeeps ==
  ASSUME IInv, PublishApproval PROVE IInv'
<1> DEFINE r == Ready(approval.discovery)
<1>1. /\ UNCHANGED Connected /\ UNCHANGED hostVars /\ UNCHANGED call
      /\ saving' = saving /\ globalEnabled' = globalEnabled /\ edits' = edits
      /\ approval # None /\ approval' = None /\ entries' = entries
      /\ runtime' = runtime \/ runtime' = [runtime EXCEPT ![approval.server] = r]
  BY DEF PublishApproval, Connected, hostVars
<1>2. r \in Runtime
  <2>1. approval.discovery \in Definitions
    BY <1>1 DEF IInv, PanelTyped, ApprovalType
  <2> QED
    BY <2>1 DEF Ready, Runtime
<1> HIDE DEF r
<1>3. EntriesTyped'
  BY <1>1, <1>2 DEF IInv, EntriesTyped
<1>4. PanelTyped' /\ EditsInBounds'
  BY <1>1 DEF IInv, PanelTyped, EditsInBounds
<1> QED
  BY <1>1, <1>3, <1>4, SameHost, SameCalls, Keeps

-----------------------------------------------------------------------------
(* Calls, and processes that exit.                                          *)

LEMMA CallKeeps ==
  ASSUME IInv, NEW c \in Calls, NEW rec \in CallType,
         rec.pc = "sent" => rec.server \in Servers, call' = [call EXCEPT ![c] = rec],
         UNCHANGED Connected, UNCHANGED hostVars, UNCHANGED storeVars, UNCHANGED panelVars
  PROVE  IInv'
<1>1. EntriesTyped' /\ PanelTyped' /\ EditsInBounds'
  BY DEF IInv, EntriesTyped, PanelTyped, EditsInBounds, storeVars, panelVars
<1>2. CallsTyped' /\ CallsSound'
  BY DEF IInv, CallsTyped, CallsSound
<1> QED
  BY <1>1, <1>2, SameHost, Keeps

LEMMA CallToolKeeps ==
  ASSUME IInv, NEW c \in Calls, NEW s \in Servers, CallTool(c, s) PROVE IInv'
<1> DEFINE rec == [call[c] EXCEPT !.pc = "sent", !.server = s, !.approved = entries[s].approved]
<1>1. /\ UNCHANGED Connected /\ UNCHANGED hostVars /\ UNCHANGED storeVars
      /\ UNCHANGED panelVars /\ entries[s] # None /\ call' = [call EXCEPT ![c] = rec]
  BY DEF CallTool, MayCall, Connected, hostVars, IInv, CallsTyped
<1>2. rec \in CallType /\ rec.server \in Servers
  <2>1. entries[s].approved \in Definitions \cup {None} /\ call[c] \in CallType
    BY <1>1 DEF IInv, EntriesTyped, Entries, Entry, CallsTyped
  <2> QED
    BY <2>1 DEF CallType
<1> HIDE DEF rec
<1> QED
  BY <1>1, <1>2, CallKeeps

LEMMA CallStepKeeps ==
  ASSUME IInv, NEW c \in Calls, CallStep(c) PROVE IInv'
<1> DEFINE over == [NoCall EXCEPT !.pc = "over"]
<1>1. over \in CallType /\ over.pc = "over"
  <2>1. NoCall \in CallType
    BY DEF NoCall, CallType
  <2> QED
    BY <2>1 DEF CallType
<1>2. CASE CallRuns(c)
  <2> DEFINE t == hosted[call[c].server]
             open == [call[c] EXCEPT !.pc = "open", !.reached = processes[t].tools]
  <2>1. /\ UNCHANGED Connected /\ UNCHANGED hostVars /\ UNCHANGED storeVars
        /\ UNCHANGED panelVars
        /\ call' = [call EXCEPT ![c] = IF t # None /\ Alive(t) THEN open ELSE over]
    BY <1>2 DEF CallRuns, Connected, hostVars, IInv, CallsTyped
  <2>2. CASE t # None /\ Alive(t) /\ call[c].server \in Servers
    <3>1. processes[t].tools \in Definitions \cup {None} /\ call[c] \in CallType
      BY <2>2 DEF IInv, HostTyped, ProcessType, CallsTyped
    <3>2. open \in CallType /\ open.pc = "open"
      BY <3>1 DEF CallType
    <3> HIDE DEF open, t, over
    <3> QED
      BY <2>1, <2>2, <3>2, CallKeeps
  <2>3. CASE ~(t # None /\ Alive(t))
    <3> HIDE DEF open, t, over
    <3> QED
      BY <1>1, <2>1, <2>3, CallKeeps
  <2>4. call[c].server \in Servers
    BY <1>2 DEF CallRuns, IInv, CallsSound
  <2> QED
    BY <2>2, <2>3, <2>4
<1>3. CASE CallEnds(c)
  <2>1. /\ UNCHANGED Connected /\ UNCHANGED hostVars /\ UNCHANGED storeVars
        /\ UNCHANGED panelVars /\ call' = [call EXCEPT ![c] = over]
    BY <1>3 DEF CallEnds, Connected, hostVars
  <2> HIDE DEF over
  <2> QED
    BY <1>1, <2>1, CallKeeps
<1> QED
  BY <1>2, <1>3 DEF CallStep

\* What the host does with processes.
LEMMA GoneTyped ==
  ASSUME IInv, NEW ts PROVE Gone(ts) \in [Tests -> ProcessType]
<1>1. [state |-> "gone", tools |-> None] \in ProcessType
  BY DEF ProcessType
<1> QED
  BY <1>1 DEF IInv, HostTyped, Gone

LEMMA ProcessExitsKeeps ==
  ASSUME IInv, NEW t \in Tests, ProcessExits(t) PROVE IInv'
<1>1. /\ UNCHANGED Connected /\ UNCHANGED call /\ hosted' = hosted
      /\ UNCHANGED <<entries, globalEnabled, edits, panelVars, call>> /\ runtime' = runtime
      /\ processes' = Gone({t})
  BY DEF ProcessExits, Connected, storeVars
<1>2. HostTyped'
  BY <1>1, GoneTyped DEF IInv, HostTyped
<1>3. EntriesTyped' /\ PanelTyped' /\ CallsTyped' /\ CallsSound' /\ EditsInBounds'
  BY <1>1, SameStore DEF IInv, EntriesTyped
<1> QED
  BY <1>1, <1>2, <1>3, Keeps

-----------------------------------------------------------------------------
(* The beginning of closes.                                                 *)

\* What a has begun to close is out of the map.
Closes(a, ss) ==
  /\ connections' \in [Servers -> Connection \cup {None}]
  /\ closing' \in [Actors -> [Servers -> CloseType]]
  /\ \A s \in Servers : connections'[s] = IF s \in ss THEN None ELSE connections[s]
  /\ \A b \in Actors, s \in Servers :
       b # a \/ s \notin ss => closing'[b][s] = closing[b][s]
  /\ \A s \in ss : /\ closing'[a][s].stage = "policy"
                   /\ connections[s] # None => closing'[a][s].live

LEMMA CloseStarted ==
  ASSUME IInv, NEW a \in Actors, NEW ss \in SUBSET Servers, NEW preserve \in BOOLEAN,
         StartCloses(a, ss, preserve)
  PROVE  Closes(a, ss)
<1> DEFINE row == [s \in Servers |-> IF s \in ss
                     THEN [stage |-> "policy", live |-> connections[s] # None,
                           preserve |-> preserve]
                     ELSE closing[a][s]]
<1>1. /\ closing \in [Actors -> [Servers -> CloseType]]
      /\ connections \in [Servers -> Connection \cup {None}]
  BY DEF IInv, ManagerTyped
<1>2. closing' = [closing EXCEPT ![a] = row]
  BY <1>1 DEF StartCloses
<1>3. row \in [Servers -> CloseType]
  <2>1. ASSUME NEW s \in Servers
        PROVE  [stage |-> "policy", live |-> connections[s] # None,
                preserve |-> preserve] \in CloseType
    <3>1. (connections[s] # None) \in BOOLEAN
      OBVIOUS
    <3> QED
      BY <3>1 DEF CloseType
  <2> QED
    BY <1>1, <2>1, Zenon
<1>4. \A s \in ss : row[s].stage = "policy" /\ (connections[s] # None => row[s].live)
  OBVIOUS
<1>5. \A s \in Servers \ ss : row[s] = closing[a][s]
  OBVIOUS
<1> HIDE DEF row
<1> QED
  BY <1>1, <1>2, <1>3, <1>4, <1>5 DEF StartCloses, Closes

\* Whoever closes a connection of a process will disconnect it.
LEMMA ClosesAccount ==
  ASSUME IInv, NEW a \in Actors, NEW ss \in SUBSET Servers, NEW preserve \in BOOLEAN,
         StartCloses(a, ss, preserve), \A s \in ss : ~Closing(a, s), hosted' = hosted,
         \A t \in Tests, s \in Servers : WillEnter(test[t], s) => WillEnter(test'[t], s)
  PROVE  AllAccounted'
<1>0. Closes(a, ss)
  BY CloseStarted
<1>1. ASSUME NEW s \in Servers PROVE Accounted(s)'
  <2>1. Accounted(s)
    BY DEF IInv, AllAccounted
  <2>2. CASE connections[s] # None
    <3>1. CASE s \in ss
      <4>1. WillDisconnect(closing'[a][s])
        BY <2>2, <3>1, <1>0 DEF WillDisconnect, Closes
      <4> QED
        BY <4>1 DEF Accounted
    <3>2. CASE s \notin ss
      BY <2>2, <3>2, <1>0 DEF Accounted, Closes
    <3> QED
      BY <3>1, <3>2
  <2>3. CASE \E b \in Actors : WillDisconnect(closing[b][s])
    <3>1. PICK b \in Actors : WillDisconnect(closing[b][s])
      BY <2>3
    <3>2. b # a \/ s \notin ss
      BY <3>1 DEF WillDisconnect, Closing
    <3>3. closing'[b][s] = closing[b][s]
      BY <3>2, <1>0 DEF Closes
    <3> QED
      BY <3>1, <3>3 DEF Accounted
  <2>4. CASE \E t \in Tests : WillEnter(test[t], s)
    BY <2>4 DEF Accounted
  <2>5. CASE hosted[s] = None
    BY <2>5 DEF Accounted
  <2> QED
    BY <2>1, <2>2, <2>3, <2>4, <2>5 DEF Accounted
<1> QED
  BY <1>1 DEF AllAccounted

LEMMA SameGate ==
  ASSUME IInv, UNCHANGED gateVars, UNCHANGED hostVars
  PROVE  GateTyped' /\ HostTyped' /\ GateSound'
BY DEF IInv, GateTyped, HostTyped, GateSound, gateVars, hostVars

\* The panel and the runs close, while no close of theirs is under way.
LEMMA OthersClose ==
  ASSUME IInv, NEW a \in {Panel, Run}, NEW ss \in SUBSET Servers, NEW preserve \in BOOLEAN,
         StartCloses(a, ss, preserve), \A s \in ss : ~Closing(a, s),
         UNCHANGED gateVars, UNCHANGED hostVars, test' = test,
         EntriesTyped', PanelTyped', CallsTyped', CallsSound', EditsInBounds'
  PROVE  IInv'
<1>1. a \in Actors /\ a # Clear /\ a \notin Tests /\ Clear \in Actors /\ Tests \subseteq Actors
  BY McpAssumption DEF Actors
<1>2. UNCHANGED <<epoch, clear, hosted, hostEpoch, processes>>
  BY DEF gateVars, hostVars
<1>0. Closes(a, ss)
  BY <1>1, CloseStarted
<1>3. ManagerTyped'
  BY <1>0 DEF IInv, ManagerTyped, Closes
<1>4. TestsSound' /\ HostedSound'
  BY <1>2 DEF IInv, TestsSound, HostedSound
<1>5. ClosedSound'
  BY <1>0, <1>2 DEF IInv, ClosedSound, Closes
<1>6. ClosesSound'
  <2>1. ASSUME NEW s \in Servers, NEW b \in Actors
        PROVE  closing'[b][s] = closing[b][s] \/ (b = a /\ closing'[b][s].stage = "policy")
    BY <1>0 DEF Closes
  <2> QED
    BY <1>1, <1>2, <2>1 DEF IInv, ClosesSound
<1>7. AllAccounted'
  BY <1>1, <1>2, ClosesAccount
<1> QED
  BY <1>3, <1>4, <1>5, <1>6, <1>7, SameGate DEF IInv

LEMMA IdleTyped == Idle \in Runtime /\ NoRuntime \in Runtime
BY DEF Idle, NoRuntime, Runtime

LEMMA SaveKeeps ==
  ASSUME IInv, NEW s \in Servers, NEW c \in Configs, SaveServer(s, c) PROVE IInv'
<1> DEFINE new == [server |-> s, config |-> c, servers |-> entries]
<1> DEFINE ss == {s}
<1>1. /\ ss \in SUBSET Servers /\ StartCloses(Panel, ss, FALSE) /\ \A x \in ss : ~Closing(Panel, x)
      /\ UNCHANGED gateVars /\ UNCHANGED hostVars /\ test' = test /\ UNCHANGED call
      /\ UNCHANGED storeVars /\ CanEdit /\ saving' = new /\ approval' = approval
  BY DEF SaveServer, StartClose
<1>2. new \in SavingType
  BY DEF IInv, EntriesTyped, SavingType
<1> HIDE DEF new
<1>3. EntriesTyped' /\ PanelTyped'
  BY <1>1, <1>2 DEF IInv, EntriesTyped, PanelTyped, storeVars
<1>4. EditsInBounds'
  <2>1. edits \in Nat /\ MaxEdits \in Nat /\ edits < MaxEdits
    BY <1>1, EditNumbers, McpAssumption DEF IInv, PanelTyped, LastEdit
  <2>2. edits' <= MaxEdits /\ edits' <= MaxEdits + 1
    BY <1>1, <2>1 DEF storeVars
  <2> QED
    BY <2>2 DEF EditsInBounds
<1> HIDE DEF ss
<1> QED
  BY <1>1, <1>3, <1>4, SameCalls, OthersClose

LEMMA DisableKeeps ==
  ASSUME IInv, NEW s \in Servers, DisableServer(s) PROVE IInv'
<1> DEFINE ss == {s}
<1>1. /\ ss \in SUBSET Servers /\ StartCloses(Panel, ss, FALSE) /\ \A x \in ss : ~Closing(Panel, x)
      /\ UNCHANGED gateVars /\ UNCHANGED hostVars /\ test' = test /\ UNCHANGED call
      /\ UNCHANGED panelVars /\ CanEdit /\ edits' = edits + 1 /\ globalEnabled' = globalEnabled
      /\ entries[s] # None /\ runtime' = [runtime EXCEPT ![s] = Idle]
      /\ entries' = [entries EXCEPT ![s].enabled = FALSE, ![s].updatedAt = edits + 1]
  BY DEF DisableServer, StartClose
<1> DEFINE e == [entries[s] EXCEPT !.enabled = FALSE, !.updatedAt = edits + 1]
<1>2. e \in Entry
  BY <1>1, EditNumbers, EntryChanges
<1>3. entries \in Entries /\ entries' = [entries EXCEPT ![s] = e]
  BY <1>1 DEF IInv, EntriesTyped, Entries
<1> HIDE DEF e
<1>4. EntriesTyped'
  BY <1>1, <1>2, <1>3, IdleTyped DEF IInv, EntriesTyped, Entries
<1>5. PanelTyped' /\ EditsInBounds'
  BY <1>1, EditCounted DEF IInv, PanelTyped
<1> HIDE DEF ss
<1> QED
  BY <1>1, <1>4, <1>5, SameCalls, OthersClose

LEMMA DeleteKeeps ==
  ASSUME IInv, NEW s \in Servers, DeleteServer(s) PROVE IInv'
<1> DEFINE ss == {s}
<1>1. /\ ss \in SUBSET Servers /\ StartCloses(Panel, ss, FALSE) /\ \A x \in ss : ~Closing(Panel, x)
      /\ UNCHANGED gateVars /\ UNCHANGED hostVars /\ test' = test /\ UNCHANGED call
      /\ UNCHANGED panelVars /\ CanEdit /\ edits' = edits + 1 /\ globalEnabled' = globalEnabled
      /\ entries' = [entries EXCEPT ![s] = None]
      /\ runtime' = [runtime EXCEPT ![s] = NoRuntime]
  BY DEF DeleteServer, StartClose
<1>2. EntriesTyped'
  BY <1>1, IdleTyped DEF IInv, EntriesTyped, Entries
<1>3. PanelTyped' /\ EditsInBounds'
  BY <1>1, EditCounted DEF IInv, PanelTyped
<1> HIDE DEF ss
<1> QED
  BY <1>1, <1>2, <1>3, SameCalls, OthersClose

LEMMA GlobalKeeps ==
  ASSUME IInv, SetGlobalEnabled PROVE IInv'
<1>1. /\ UNCHANGED gateVars /\ UNCHANGED hostVars /\ test' = test /\ UNCHANGED call
      /\ UNCHANGED panelVars /\ CanEdit /\ edits' = edits + 1 /\ globalEnabled' = ~globalEnabled
      /\ UNCHANGED <<entries, runtime>> /\ \A s \in Servers : ~Closing(Panel, s)
      /\ StartCloses(Panel, Known, FALSE) \/ UNCHANGED <<closing, connections>>
  BY DEF SetGlobalEnabled
<1>2. EntriesTyped'
  BY <1>1 DEF IInv, EntriesTyped
<1>3. PanelTyped' /\ EditsInBounds'
  BY <1>1, EditCounted
<1>4. CASE StartCloses(Panel, Known, FALSE)
  <2>1. Known \in SUBSET Servers /\ \A s \in Known : ~Closing(Panel, s)
    BY <1>1 DEF Known
  <2> QED
    BY <1>1, <1>2, <1>3, <1>4, <2>1, SameCalls, OthersClose
<1>5. CASE UNCHANGED <<closing, connections>>
  <2>1. UNCHANGED Connected
    BY <1>1, <1>5 DEF Connected, hostVars
  <2> QED
    BY <1>1, <1>2, <1>3, <2>1, SameHost, SameCalls, Keeps
<1> QED
  BY <1>1, <1>4, <1>5

LEMMA EnsureKeeps ==
  ASSUME IInv, EnsureEnabledServers PROVE IInv'
<1>1. PICK ss \in SUBSET Servers : StartCloses(Run, ss, FALSE)
  BY DEF EnsureEnabledServers, Known
<1>2. /\ UNCHANGED gateVars /\ UNCHANGED hostVars /\ test' = test /\ UNCHANGED call
      /\ UNCHANGED panelVars /\ UNCHANGED storeVars /\ \A s \in ss : ~Closing(Run, s)
  BY DEF EnsureEnabledServers
<1>3. EntriesTyped' /\ PanelTyped' /\ EditsInBounds'
  BY <1>2 DEF IInv, EntriesTyped, PanelTyped, EditsInBounds, storeVars, panelVars
<1> QED
  BY <1>1, <1>2, <1>3, SameCalls, OthersClose

-----------------------------------------------------------------------------
(* The progress of closes.                                                  *)

\* The close of a at s goes on as c, which still disconnects if it had to.
CloseGoesOn(a, s, c) ==
  /\ closing' = [closing EXCEPT ![a] = [closing[a] EXCEPT ![s] = c]]
  /\ closing[a][s].stage # "none" /\ (c.stage = "disconnect" => c.live)

LEMMA CloseStepKeeps ==
  ASSUME IInv, NEW a \in Actors, NEW s \in Servers, NEW c \in CloseType, CloseGoesOn(a, s, c),
         UNCHANGED <<connections, test, gateVars, hostEpoch>>, HostTyped',
         \A x \in Servers : hosted'[x] = hosted[x] \/ (x = s /\ hosted'[x] = None),
         WillDisconnect(closing[a][s]) => WillDisconnect(c) \/ hosted'[s] = None,
         EntriesTyped', PanelTyped', CallsTyped', CallsSound', EditsInBounds'
  PROVE  IInv'
<1>1. UNCHANGED <<connections, test, epoch, clear, hostEpoch>>
  BY DEF gateVars
<1>2. /\ closing' \in [Actors -> [Servers -> CloseType]]
      /\ closing'[a][s] = c
      /\ \A b \in Actors, x \in Servers : b # a \/ x # s => closing'[b][x] = closing[b][x]
  BY DEF IInv, ManagerTyped, CloseGoesOn
<1>3. ManagerTyped' /\ GateTyped' /\ GateSound'
  BY <1>1, <1>2 DEF IInv, ManagerTyped, GateTyped, GateSound
<1>4. TestsSound' /\ HostedSound' /\ ClosedSound'
  BY <1>1 DEF IInv, TestsSound, HostedSound, ClosedSound
<1>5. ClosesSound'
  <2>1. Clear \in Actors /\ Tests \subseteq Actors
    BY DEF Actors
  <2>2. ASSUME NEW x \in Servers
        PROVE  /\ closing'[Clear][x].stage # "none" => clear = "closing"
               /\ \A t \in Tests : closing'[t][x].stage # "none" => AwaitsClose(test[t], x)
               /\ \A b \in Actors : closing'[b][x].stage = "disconnect" => closing'[b][x].live
    BY <1>2, <2>1 DEF IInv, ClosesSound, CloseGoesOn
  <2> QED
    BY <1>1, <2>2 DEF ClosesSound
<1>6. AllAccounted'
  <2>1. ASSUME NEW x \in Servers PROVE Accounted(x)'
    <3>1. Accounted(x)
      BY DEF IInv, AllAccounted
    <3>2. CASE \E b \in Actors : WillDisconnect(closing[b][x])
      <4>1. PICK b \in Actors : WillDisconnect(closing[b][x])
        BY <3>2
      <4>2. CASE b = a /\ x = s
        BY <1>2, <4>1, <4>2 DEF Accounted
      <4>3. CASE b # a \/ x # s
        BY <1>2, <4>1, <4>3 DEF Accounted
      <4> QED
        BY <4>2, <4>3
    <3> QED
      BY <1>1, <3>1, <3>2 DEF Accounted
  <2> QED
    BY <2>1 DEF AllAccounted
<1> QED
  BY <1>3, <1>4, <1>5, <1>6 DEF IInv

LEMMA IdleRuntimeTyped ==
  ASSUME IInv, NEW a \in Actors, NEW s \in Servers
  PROVE  IdleRuntime(a, s) \in [Servers -> Runtime]
BY DEF IInv, EntriesTyped, IdleRuntime, Runtime

LEMMA NoCloseTyped == NoClose \in CloseType /\ NoClose.stage = "none"
BY DEF NoClose, CloseType

LEMMA PolicyResetKeeps ==
  ASSUME IInv, NEW a \in Actors, NEW s \in Servers, PolicyReset(a, s) PROVE IInv'
<1> DEFINE c == IF closing[a][s].live THEN [closing[a][s] EXCEPT !.stage = "disconnect"]
                                      ELSE NoClose
<1>1. /\ closing \in [Actors -> [Servers -> CloseType]] /\ closing[a][s] \in CloseType
  BY DEF IInv, ManagerTyped
<1>2. /\ closing[a][s].stage = "policy"
      /\ closing' = [closing EXCEPT ![a] = [closing[a] EXCEPT ![s] = c]]
      /\ runtime' = runtime \/ runtime' = IdleRuntime(a, s)
      /\ UNCHANGED <<entries, globalEnabled, edits, panelVars, call>>
      /\ UNCHANGED <<connections, test, gateVars, hostEpoch>>
      /\ UNCHANGED hostVars /\ hosted' = hosted
  BY <1>1 DEF PolicyReset, hostVars
<1>3. /\ c \in CloseType
      /\ c.stage = "disconnect" => c.live
      /\ WillDisconnect(closing[a][s]) => WillDisconnect(c)
  BY <1>1, NoCloseTyped DEF CloseType, WillDisconnect
<1> HIDE DEF c
<1>4. CloseGoesOn(a, s, c)
  BY <1>2, <1>3 DEF CloseGoesOn
<1>5. runtime' \in [Servers -> Runtime]
  BY <1>2, IdleRuntimeTyped DEF IInv, EntriesTyped
<1>6. EntriesTyped' /\ PanelTyped' /\ CallsTyped' /\ CallsSound' /\ EditsInBounds'
  BY <1>2, <1>5, SameStore
<1> QED
  BY <1>2, <1>3, <1>4, <1>6, SameHost, CloseStepKeeps

LEMMA CloseReturnsKeeps ==
  ASSUME IInv, NEW a \in Actors, NEW s \in Servers, CloseReturns(a, s) PROVE IInv'
<1> DEFINE c == NoClose
<1>1. /\ closing \in [Actors -> [Servers -> CloseType]]
  BY DEF IInv, ManagerTyped
<1>2. /\ closing[a][s].stage = "reply"
      /\ closing' = [closing EXCEPT ![a] = [closing[a] EXCEPT ![s] = c]]
      /\ runtime' = IdleRuntime(a, s)
      /\ UNCHANGED <<entries, globalEnabled, edits, panelVars, call>>
      /\ UNCHANGED <<connections, test, gateVars, hostEpoch>>
      /\ UNCHANGED hostVars /\ hosted' = hosted
  BY <1>1 DEF CloseReturns, hostVars
<1>3. c \in CloseType /\ c.stage = "none" /\ ~WillDisconnect(closing[a][s])
  BY <1>2, NoCloseTyped DEF WillDisconnect
<1> HIDE DEF c
<1>4. CloseGoesOn(a, s, c)
  BY <1>2, <1>3 DEF CloseGoesOn
<1>5. EntriesTyped' /\ PanelTyped' /\ CallsTyped' /\ CallsSound' /\ EditsInBounds'
  BY <1>2, IdleRuntimeTyped, SameStore
<1> QED
  BY <1>2, <1>3, <1>4, <1>5, SameHost, CloseStepKeeps

LEMMA DisconnectKeeps ==
  ASSUME IInv, NEW a \in Actors, NEW s \in Servers, DisconnectRuns(a, s) PROVE IInv'
<1> DEFINE c == [closing[a][s] EXCEPT !.stage = "reply"]
<1>1. /\ closing \in [Actors -> [Servers -> CloseType]] /\ closing[a][s] \in CloseType
      /\ hosted \in [Servers -> Tests \cup {None}]
  BY DEF IInv, ManagerTyped, HostTyped
<1>2. /\ closing[a][s].stage = "disconnect"
      /\ closing' = [closing EXCEPT ![a] = [closing[a] EXCEPT ![s] = c]]
      /\ UNCHANGED <<entries, globalEnabled, edits, panelVars, call>> /\ runtime' = runtime
      /\ UNCHANGED <<connections, test, gateVars, hostEpoch>>
      /\ hosted' = [hosted EXCEPT ![s] = None] /\ processes' = Gone({hosted[s]})
  BY <1>1 DEF DisconnectRuns, storeVars
<1>3. c \in CloseType /\ c.stage = "reply"
  BY <1>1 DEF CloseType
<1> HIDE DEF c
<1>4. CloseGoesOn(a, s, c)
  BY <1>2, <1>3 DEF CloseGoesOn
<1>5. EntriesTyped' /\ PanelTyped' /\ CallsTyped' /\ CallsSound' /\ EditsInBounds'
  BY <1>2, SameStore DEF IInv, EntriesTyped
<1>6. HostTyped'
  BY <1>1, <1>2, GoneTyped DEF HostTyped
<1>7. hosted'[s] = None /\ \A x \in Servers : x # s => hosted'[x] = hosted[x]
  BY <1>1, <1>2
<1> QED
  BY <1>2, <1>3, <1>4, <1>5, <1>6, <1>7, CloseStepKeeps

-----------------------------------------------------------------------------
(* Steps that move one test and nothing of what is connected.               *)

TestMoves(t, rec) == test' = [test EXCEPT ![t] = rec]

\* A test goes on as rec without losing what it has at the host.
GoesOnAs(t, rec) ==
  /\ TestSound(rec, epoch, clear)
  /\ Accepted(test[t]) => Accepted(rec) /\ rec.epoch = test[t].epoch
  /\ \A s \in Servers : WillEnter(test[t], s) => WillEnter(rec, s)

Rest == EntriesTyped /\ PanelTyped /\ CallsTyped /\ CallsSound /\ EditsInBounds

LEMMA TestGoesOn ==
  ASSUME IInv, NEW t \in Tests, NEW rec \in TestType, TestMoves(t, rec), GoesOnAs(t, rec),
         UNCHANGED <<connections, closing, gateVars>>, UNCHANGED hostVars, Rest',
         \A s \in Servers : closing[t][s].stage # "none" => AwaitsClose(rec, s)
  PROVE  IInv'
<1>1. UNCHANGED <<connections, closing, epoch, clear, hosted, hostEpoch>>
  BY DEF gateVars, hostVars
<1>2. /\ test' \in [Tests -> TestType] /\ test'[t] = rec
      /\ \A u \in Tests : u # t => test'[u] = test[u]
  BY DEF IInv, ManagerTyped, TestMoves
<1>3. ManagerTyped' /\ GateTyped' /\ HostTyped' /\ GateSound'
  BY <1>1, <1>2, SameGate DEF IInv, ManagerTyped
<1>4. TestsSound'
  BY <1>1, <1>2 DEF IInv, TestsSound, GoesOnAs
<1>5. HostedSound'
  <2>1. \A s \in Servers : hosted[s] # None => hosted[s] \in Tests
    BY DEF IInv, HostTyped
  <2> QED
    BY <1>1, <1>2, <2>1 DEF IInv, HostedSound, GoesOnAs
<1>6. ClosedSound'
  BY <1>1 DEF IInv, ClosedSound
<1>7. ClosesSound'
  BY <1>1, <1>2 DEF IInv, ClosesSound
<1>8. AllAccounted'
  <2>1. ASSUME NEW s \in Servers PROVE Accounted(s)'
    <3>1. Accounted(s)
      BY DEF IInv, AllAccounted
    <3>2. CASE \E u \in Tests : WillEnter(test[u], s)
      <4>1. PICK u \in Tests : WillEnter(test[u], s)
        BY <3>2
      <4>2. WillEnter(test'[u], s)
        BY <1>2, <4>1 DEF GoesOnAs
      <4> QED
        BY <4>2 DEF Accounted
    <3> QED
      BY <1>1, <3>1, <3>2 DEF Accounted
  <2> QED
    BY <2>1 DEF AllAccounted
<1> QED
  BY <1>3, <1>4, <1>5, <1>6, <1>7, <1>8 DEF IInv, Rest

LEMMA NoneClosing ==
  ASSUME IInv, NEW t \in Tests,
         \/ test[t].pc \notin {"reclosing", "closing", "failing"}
         \/ ~Closing(t, test[t].server)
  PROVE  \A s \in Servers : closing[t][s].stage = "none"
BY DEF IInv, ClosesSound, AwaitsClose, Closing

LEMMA OverSound ==
  ASSUME IInv, NEW t \in Tests, test[t].pc \notin {"connected", "undoing"}
  PROVE  Over(t) \in TestType /\ GoesOnAs(t, Over(t)) /\ Over(t).pc = "over"
<1>1. NoTest \in TestType /\ test[t] \in TestType
  BY McpAssumption DEF NoTest, TestType, TestStages, IInv, ManagerTyped
<1>2. /\ Over(t) \in TestType /\ Over(t).pc = "over" /\ Over(t).epoch = test[t].epoch
  BY <1>1 DEF Over, TestType, TestStages, NoTest
<1>3. TestSound(test[t], epoch, clear)
  BY DEF IInv, TestsSound
<1>4. TestSound(Over(t), epoch, clear)
  BY <1>2, <1>3 DEF TestSound, AtHost
<1>5. \A s \in Servers : ~WillEnter(test[t], s)
  BY DEF WillEnter
<1> QED
  BY <1>2, <1>4, <1>5 DEF GoesOnAs, Accepted

\* A test that is over at the end of a step.
LEMMA TestEnds ==
  ASSUME IInv, NEW t \in Tests, test[t].pc \notin {"connected", "undoing"},
         TestMoves(t, Over(t)), \A s \in Servers : closing[t][s].stage = "none",
         UNCHANGED <<connections, closing, gateVars>>, UNCHANGED hostVars, Rest'
  PROVE  IInv'
<1> DEFINE rec == Over(t)
<1>1. rec \in TestType /\ GoesOnAs(t, rec)
  BY OverSound
<1>2. TestMoves(t, rec)
  OBVIOUS
<1> HIDE DEF rec
<1> QED
  BY <1>1, <1>2, TestGoesOn

LEMMA SameRest ==
  ASSUME IInv, UNCHANGED <<entries, globalEnabled, edits, panelVars, call>>,
         runtime' \in [Servers -> Runtime]
  PROVE  Rest'
BY SameStore DEF Rest

LEMMA ConnectsAfterCloseKeeps ==
  ASSUME IInv, NEW t \in Tests, ConnectsAfterClose(t) PROVE IInv'
<1> DEFINE rec == [test[t] EXCEPT !.pc = Connecting(test[t].server)]
<1>1. /\ test[t].pc = "closing" /\ ~Closing(t, test[t].server)
      /\ UNCHANGED <<entries, globalEnabled, edits, panelVars, call>> /\ runtime' = runtime
      /\ UNCHANGED <<connections, closing, gateVars>> /\ UNCHANGED hostVars
      /\ test' = [test EXCEPT ![t] = rec]
  BY DEF ConnectsAfterClose, storeVars, IInv, ManagerTyped
<1>2. test[t] \in TestType /\ TestSound(test[t], epoch, clear)
  BY DEF IInv, ManagerTyped, TestsSound
<1>3. /\ rec \in TestType /\ rec.pc \in {"refreshing", "epoch"} /\ rec.epoch = test[t].epoch
      /\ rec.server = test[t].server /\ rec.entry = test[t].entry
  BY <1>2 DEF TestType, TestStages, Connecting
<1> HIDE DEF rec
<1>4. GoesOnAs(t, rec)
  BY <1>1, <1>2, <1>3 DEF GoesOnAs, TestSound, Accepted, WillEnter, AtHost
<1>5. runtime' \in [Servers -> Runtime]
  BY <1>1 DEF IInv, EntriesTyped
<1>6. \A s \in Servers : closing[t][s].stage # "none" => AwaitsClose(rec, s)
  BY <1>1, NoneClosing
<1>7. TestMoves(t, rec)
  BY <1>1 DEF TestMoves
<1> QED
  BY <1>1, <1>3, <1>4, <1>5, <1>6, <1>7, SameRest, TestGoesOn

LEMMA EpochAnsweredKeeps ==
  ASSUME IInv, NEW t \in Tests, EpochAnswered(t) PROVE IInv'
<1> DEFINE rec == [test[t] EXCEPT !.pc = "connecting", !.expected = hostEpoch]
<1>1. /\ test[t].pc = "epoch"
      /\ UNCHANGED <<entries, globalEnabled, edits, panelVars, call>> /\ runtime' = runtime
      /\ UNCHANGED <<connections, closing, gateVars>> /\ UNCHANGED hostVars
      /\ IF IsCurrent(test[t].epoch) THEN test' = [test EXCEPT ![t] = rec]
                                     ELSE TestMoves(t, Over(t))
  BY DEF EpochAnswered, TestMoves, storeVars, IInv, ManagerTyped
<1>2. test[t] \in TestType /\ TestSound(test[t], epoch, clear)
  BY DEF IInv, ManagerTyped, TestsSound
<1>3. Rest' /\ \A s \in Servers : closing[t][s].stage = "none"
  BY <1>1, SameRest, NoneClosing DEF IInv, EntriesTyped
<1>4. CASE IsCurrent(test[t].epoch)
  <2>1. hostEpoch = epoch /\ test[t].epoch = epoch /\ hostEpoch \in 0..MaxClears
    BY <1>4 DEF IsCurrent, GateOpen, IInv, GateSound, GateTyped
  <2>2. /\ rec \in TestType /\ rec.pc = "connecting" /\ rec.epoch = test[t].epoch
        /\ rec.server = test[t].server /\ rec.entry = test[t].entry
        /\ rec.expected = hostEpoch
    BY <1>2, <2>1 DEF TestType, TestStages
  <2> HIDE DEF rec
  <2>3. GoesOnAs(t, rec)
    BY <1>1, <1>2, <2>1, <2>2 DEF GoesOnAs, TestSound, Accepted, WillEnter, AtHost
  <2>4. TestMoves(t, rec)
    BY <1>1, <1>4 DEF TestMoves
  <2> QED
    BY <1>1, <1>3, <2>2, <2>3, <2>4, TestGoesOn
<1>5. CASE ~IsCurrent(test[t].epoch)
  BY <1>1, <1>3, <1>5, TestEnds
<1> QED
  BY <1>4, <1>5

LEMMA RejectedKeeps ==
  ASSUME IInv, NEW t \in Tests, test[t].pc \in {"connecting", "starting", "refreshing"},
         test' = [test EXCEPT ![t].pc = "rejected"],
         UNCHANGED <<connections, closing, gateVars>>, UNCHANGED hostVars, Rest'
  PROVE  IInv'
<1> DEFINE rec == [test[t] EXCEPT !.pc = "rejected"]
<1>1. test[t] \in TestType /\ TestSound(test[t], epoch, clear)
  BY DEF IInv, ManagerTyped, TestsSound
<1>2. /\ rec \in TestType /\ rec.pc = "rejected" /\ rec.epoch = test[t].epoch
      /\ rec.server = test[t].server
  BY <1>1 DEF TestType, TestStages
<1>3. TestMoves(t, rec)
  BY DEF TestMoves, IInv, ManagerTyped
<1> HIDE DEF rec
<1>4. GoesOnAs(t, rec)
  BY <1>1, <1>2 DEF GoesOnAs, TestSound, Accepted, WillEnter, AtHost
<1>5. \A s \in Servers : closing[t][s].stage = "none"
  BY NoneClosing
<1> QED
  BY <1>2, <1>3, <1>4, <1>5, TestGoesOn

LEMMA RefreshReturnsKeeps ==
  ASSUME IInv, NEW t \in Tests, RefreshReturns(t) PROVE IInv'
<1> DEFINE p == hosted[test[t].server]
           rec == [test[t] EXCEPT !.pc = "comparing", !.found = processes[p].tools]
<1>1. /\ test[t].pc = "refreshing"
      /\ UNCHANGED <<entries, globalEnabled, edits, panelVars, call>> /\ runtime' = runtime
      /\ UNCHANGED <<connections, closing, gateVars>> /\ UNCHANGED hostVars
      /\ \/ p # None /\ test' = [test EXCEPT ![t] = rec]
         \/ TestMoves(t, Over(t))
         \/ test' = [test EXCEPT ![t].pc = "rejected"]
  BY DEF RefreshReturns, TestMoves, storeVars, IInv, ManagerTyped
<1>2. test[t] \in TestType /\ TestSound(test[t], epoch, clear)
  BY DEF IInv, ManagerTyped, TestsSound
<1>3. Rest' /\ \A s \in Servers : closing[t][s].stage = "none"
  BY <1>1, SameRest, NoneClosing DEF IInv, EntriesTyped
<1>4. CASE p # None /\ test' = [test EXCEPT ![t] = rec]
  <2>1. processes[p].tools \in Definitions \cup {None}
    <3>1. test[t].server \in Servers
      BY <1>1, <1>2 DEF TestSound
    <3>2. p \in Tests
      BY <1>4, <3>1 DEF IInv, HostTyped
    <3> QED
      BY <3>2 DEF IInv, HostTyped, ProcessType
  <2>2. /\ rec \in TestType /\ rec.pc = "comparing" /\ rec.epoch = test[t].epoch
        /\ rec.server = test[t].server /\ rec.entry = test[t].entry
    BY <1>2, <2>1 DEF TestType, TestStages
  <2> HIDE DEF rec
  <2>3. GoesOnAs(t, rec)
    BY <1>1, <1>2, <2>2 DEF GoesOnAs, TestSound, Accepted, WillEnter, AtHost
  <2>4. TestMoves(t, rec)
    BY <1>4 DEF TestMoves
  <2> QED
    BY <1>1, <1>3, <2>2, <2>3, <2>4, TestGoesOn
<1>5. CASE TestMoves(t, Over(t))
  BY <1>1, <1>3, <1>5, TestEnds
<1>6. CASE test' = [test EXCEPT ![t].pc = "rejected"]
  BY <1>1, <1>3, <1>6, RejectedKeeps
<1> QED
  BY <1>1, <1>4, <1>5, <1>6

LEMMA ComparedKeeps ==
  ASSUME IInv, NEW t \in Tests, Compared(t) PROVE IInv'
<1>1. /\ test[t].pc = "comparing" /\ TestMoves(t, Over(t))
      /\ UNCHANGED <<entries, globalEnabled, edits, panelVars, call>>
      /\ UNCHANGED <<connections, closing, gateVars>> /\ UNCHANGED hostVars
  BY DEF Compared, TestMoves
<1>2. test[t] \in TestType /\ TestSound(test[t], epoch, clear)
  BY DEF IInv, ManagerTyped, TestsSound
<1>3. runtime' \in [Servers -> Runtime]
  <2>1. test[t].found \in Definitions \cup {None}
    BY <1>2 DEF TestType
  <2>2. ASSUME NEW st \in {"ready", "drifted"}, NEW clean \in BOOLEAN
        PROVE  [status |-> st, tools |-> test[t].found, clean |-> clean] \in Runtime
    BY <2>1 DEF Runtime
  <2> DEFINE clean == test[t].entry.approved = test[t].found
             r == [status |-> IF clean THEN "ready" ELSE "drifted",
                   tools |-> test[t].found, clean |-> clean]
  <2>3. r \in Runtime
    <3>1. clean \in BOOLEAN /\ (IF clean THEN "ready" ELSE "drifted") \in {"ready", "drifted"}
      OBVIOUS
    <3> QED
      BY <2>2, <3>1
  <2>4. runtime' = runtime \/ runtime' = [runtime EXCEPT ![test[t].server] = r]
    BY DEF Compared
  <2> HIDE DEF r
  <2> QED
    BY <2>3, <2>4 DEF IInv, EntriesTyped
<1>4. Rest' /\ \A s \in Servers : closing[t][s].stage = "none"
  BY <1>1, <1>3, SameRest, NoneClosing
<1> QED
  BY <1>1, <1>4, TestEnds

LEMMA FailureClosesKeeps ==
  ASSUME IInv, NEW t \in Tests, FailureCloses(t) PROVE IInv'
<1>1. /\ test[t].pc = "failing" /\ ~Closing(t, test[t].server) /\ TestMoves(t, Over(t))
      /\ UNCHANGED <<entries, globalEnabled, edits, panelVars, call>> /\ runtime' = runtime
      /\ UNCHANGED <<connections, closing, gateVars>> /\ UNCHANGED hostVars
  BY DEF FailureCloses, TestMoves, storeVars
<1>2. Rest' /\ \A s \in Servers : closing[t][s].stage = "none"
  BY <1>1, SameRest, NoneClosing DEF IInv, EntriesTyped
<1> QED
  BY <1>1, <1>2, TestEnds

LEMMA ConnectFailsKeeps ==
  ASSUME IInv, NEW t \in Tests, ConnectFails(t) PROVE IInv'
<1>1. /\ test[t].pc = "starting" /\ test' = [test EXCEPT ![t].pc = "rejected"]
      /\ UNCHANGED <<entries, globalEnabled, edits, panelVars, call>> /\ runtime' = runtime
      /\ UNCHANGED <<connections, closing, gateVars>> /\ UNCHANGED hostVars
  BY DEF ConnectFails, storeVars
<1>2. Rest'
  BY <1>1, SameRest DEF IInv, EntriesTyped
<1> QED
  BY <1>1, <1>2, RejectedKeeps

-----------------------------------------------------------------------------
(* Steps of a test that begin a close.                                      *)

LEMMA TestCloses ==
  ASSUME IInv, NEW t \in Tests, NEW s \in Servers, NEW preserve \in BOOLEAN,
         NEW rec \in TestType, TestMoves(t, rec), GoesOnAs(t, rec), AwaitsClose(rec, s),
         StartClose(t, s, preserve), \A x \in Servers : closing[t][x].stage = "none",
         UNCHANGED gateVars, UNCHANGED hostVars, Rest'
  PROVE  IInv'
<1> DEFINE ss == {s}
<1>1. /\ ss \in SUBSET Servers /\ s \in ss /\ \A x \in ss : x = s
      /\ StartCloses(t, ss, preserve)
      /\ \A x \in ss : ~Closing(t, x)
  BY DEF StartClose, Closing
<1> HIDE DEF ss
<1>2. t \in Actors /\ t # Clear /\ Clear \in Actors /\ Tests \subseteq Actors
  BY McpAssumption DEF Actors
<1>3. Closes(t, ss)
  BY <1>1, <1>2, CloseStarted
<1>4. UNCHANGED <<epoch, clear, hosted, hostEpoch>>
  BY DEF gateVars, hostVars
<1>5. /\ test' \in [Tests -> TestType] /\ test'[t] = rec
      /\ \A u \in Tests : u # t => test'[u] = test[u]
  BY DEF IInv, ManagerTyped, TestMoves
<1>6. ManagerTyped' /\ GateTyped' /\ HostTyped' /\ GateSound'
  BY <1>3, <1>5, SameGate DEF ManagerTyped, Closes
<1>7. TestsSound'
  BY <1>4, <1>5 DEF IInv, TestsSound, GoesOnAs
<1>8. HostedSound'
  <2>1. \A x \in Servers : hosted[x] # None => hosted[x] \in Tests
    BY DEF IInv, HostTyped
  <2> QED
    BY <1>4, <1>5, <2>1 DEF IInv, HostedSound, GoesOnAs
<1>9. ClosedSound'
  BY <1>3, <1>4 DEF IInv, ClosedSound, Closes
<1>10. ClosesSound'
  <2>1. ASSUME NEW x \in Servers, NEW b \in Actors
        PROVE  \/ closing'[b][x] = closing[b][x]
               \/ b = t /\ x = s /\ closing'[b][x].stage = "policy"
    BY <1>1, <1>2, <1>3 DEF Closes
  <2>2. ASSUME NEW x \in Servers, NEW u \in Tests, closing'[u][x].stage # "none"
        PROVE  AwaitsClose(test'[u], x)
    <3>1. CASE u = t
      BY <1>2, <1>5, <2>1, <2>2, <3>1
    <3>2. CASE u # t
      BY <1>2, <1>5, <2>1, <2>2, <3>2 DEF IInv, ClosesSound
    <3> QED
      BY <3>1, <3>2
  <2>3. ASSUME NEW x \in Servers
        PROVE  /\ closing'[Clear][x].stage # "none" => clear = "closing"
               /\ \A b \in Actors : closing'[b][x].stage = "disconnect" => closing'[b][x].live
    BY <1>2, <2>1 DEF IInv, ClosesSound
  <2> QED
    BY <1>4, <2>2, <2>3 DEF ClosesSound
<1>11. AllAccounted'
  <2>1. \A u \in Tests, x \in Servers : WillEnter(test[u], x) => WillEnter(test'[u], x)
    BY <1>5 DEF GoesOnAs
  <2> QED
    BY <1>1, <1>2, <1>4, <2>1, ClosesAccount
<1> QED
  BY <1>6, <1>7, <1>8, <1>9, <1>10, <1>11 DEF IInv, Rest

LEMMA StatusTyped ==
  ASSUME IInv, NEW s \in Servers, NEW st \in {"connecting", "error"}
  PROVE  Status(s, st) \in [Servers -> Runtime]
BY DEF IInv, EntriesTyped, Status, Runtime

LEMMA BeginTestKeeps ==
  ASSUME IInv, NEW t \in Tests, NEW s \in Servers, BeginTest(t, s),
         test[t].pc \in {"idle", "reclosing"},
         \A x \in Servers : closing[t][x].stage = "none",
         UNCHANGED <<entries, globalEnabled, edits, panelVars, gateVars, hostVars, call>>
  PROVE  IInv'
<1> DEFINE other == connections[s] # None /\ connections[s].updatedAt # entries[s].updatedAt
           p == IF other THEN "closing" ELSE Connecting(s)
           rec == [NoTest EXCEPT !.server = s, !.epoch = epoch, !.entry = entries[s], !.pc = p]
<1>1. /\ GateOpen /\ entries[s] # None /\ runtime' = Status(s, "connecting")
      /\ TestMoves(t, rec)
      /\ IF other THEN StartClose(t, s, FALSE) ELSE UNCHANGED <<closing, connections>>
  BY DEF BeginTest, TestMoves
<1>2. /\ p \in {"closing", "refreshing", "epoch"} /\ (other => p = "closing")
      /\ entries[s] \in Entry /\ epoch \in 0..MaxClears
  BY <1>1 DEF Connecting, IInv, EntriesTyped, Entries, GateTyped
<1>3. /\ rec \in TestType /\ rec.pc = p /\ rec.server = s /\ rec.epoch = epoch
      /\ rec.entry = entries[s]
  <2> HIDE DEF p
  <2>1. NoTest \in TestType
    BY McpAssumption DEF NoTest, TestType, TestStages
  <2> QED
    BY <1>2, <2>1 DEF TestType, TestStages
<1> HIDE DEF rec, p
<1>4. GoesOnAs(t, rec)
  BY <1>1, <1>2, <1>3 DEF GoesOnAs, TestSound, Accepted, WillEnter, AtHost, GateOpen, GateTyped,
     IInv
<1>5. Rest'
  BY <1>1, StatusTyped, SameRest
<1>6. UNCHANGED gateVars /\ UNCHANGED hostVars
  OBVIOUS
<1>7. CASE other
  <2>1. AwaitsClose(rec, s) /\ StartClose(t, s, FALSE)
    BY <1>1, <1>2, <1>3, <1>7 DEF AwaitsClose
  <2> QED
    BY <1>1, <1>3, <1>4, <1>5, <1>6, <2>1, TestCloses
<1>8. CASE ~other
  BY <1>1, <1>3, <1>4, <1>5, <1>6, <1>8, TestGoesOn
<1> QED
  BY <1>7, <1>8

LEMMA TestServerKeeps ==
  ASSUME IInv, NEW t \in Tests, NEW s \in Servers, TestServer(t, s) PROVE IInv'
<1>1. /\ test[t].pc = "idle" /\ BeginTest(t, s)
      /\ UNCHANGED <<entries, globalEnabled, edits, panelVars, gateVars, hostVars, call>>
  BY DEF TestServer
<1>2. \A x \in Servers : closing[t][x].stage = "none"
  BY <1>1, NoneClosing
<1> QED
  BY <1>1, <1>2, BeginTestKeeps

LEMMA TestsAfterCloseKeeps ==
  ASSUME IInv, NEW t \in Tests, TestsAfterClose(t) PROVE IInv'
<1> DEFINE s == test[t].server
<1>1. /\ test[t].pc = "reclosing" /\ ~Closing(t, s)
      /\ UNCHANGED <<entries, globalEnabled, edits, panelVars, gateVars, hostVars, call>>
      /\ \/ BeginTest(t, s)
         \/ TestMoves(t, Over(t)) /\ UNCHANGED <<runtime, closing, connections>>
  BY DEF TestsAfterClose, TestMoves
<1>2. s \in Servers /\ \A x \in Servers : closing[t][x].stage = "none"
  BY <1>1, NoneClosing DEF IInv, TestsSound, TestSound
<1> HIDE DEF s
<1>3. CASE BeginTest(t, s)
  BY <1>1, <1>2, <1>3, BeginTestKeeps
<1>4. CASE TestMoves(t, Over(t)) /\ UNCHANGED <<runtime, closing, connections>>
  <2>1. Rest'
    BY <1>1, <1>4, SameRest DEF IInv, EntriesTyped
  <2> QED
    BY <1>1, <1>2, <1>4, <2>1, TestEnds
<1> QED
  BY <1>1, <1>3, <1>4

LEMMA ReconnectKeeps ==
  ASSUME IInv, NEW t \in Tests, NEW s \in Servers, ReconnectServer(t, s) PROVE IInv'
<1> DEFINE rec == [test[t] EXCEPT !.pc = "reclosing", !.server = s]
<1>1. /\ test[t].pc = "idle" /\ StartClose(t, s, FALSE) /\ UNCHANGED gateVars
      /\ UNCHANGED hostVars /\ test' = [test EXCEPT ![t] = rec]
      /\ UNCHANGED <<entries, globalEnabled, edits, panelVars, call>> /\ runtime' = runtime
  BY DEF ReconnectServer, storeVars, IInv, ManagerTyped
<1>2. test[t] \in TestType /\ TestSound(test[t], epoch, clear)
  BY DEF IInv, ManagerTyped, TestsSound
<1>3. /\ rec \in TestType /\ rec.pc = "reclosing" /\ rec.epoch = test[t].epoch
      /\ rec.server = s
  BY <1>2 DEF TestType, TestStages
<1> HIDE DEF rec
<1>4. GoesOnAs(t, rec) /\ AwaitsClose(rec, s)
  BY <1>1, <1>2, <1>3 DEF GoesOnAs, TestSound, Accepted, WillEnter, AtHost, AwaitsClose
<1>5. Rest' /\ \A x \in Servers : closing[t][x].stage = "none"
  BY <1>1, SameRest, NoneClosing DEF IInv, EntriesTyped
<1>6. TestMoves(t, rec)
  BY <1>1 DEF TestMoves
<1> QED
  BY <1>1, <1>3, <1>4, <1>5, <1>6, TestCloses

LEMMA TestFailsKeeps ==
  ASSUME IInv, NEW t \in Tests, TestFails(t) PROVE IInv'
<1> DEFINE s == test[t].server
           rec == [test[t] EXCEPT !.pc = "failing"]
<1>1. /\ test[t].pc = "rejected" /\ UNCHANGED gateVars /\ UNCHANGED hostVars
      /\ UNCHANGED <<entries, globalEnabled, edits, panelVars, call>>
      /\ \/ /\ runtime' = Status(s, "error") \/ runtime' = runtime
            /\ test' = [test EXCEPT ![t] = rec] /\ StartClose(t, s, TRUE)
         \/ TestMoves(t, Over(t)) /\ UNCHANGED <<runtime, closing, connections>>
  BY DEF TestFails, TestMoves, IInv, ManagerTyped
<1>2. test[t] \in TestType /\ TestSound(test[t], epoch, clear) /\ s \in Servers
  BY <1>1 DEF IInv, ManagerTyped, TestsSound, TestSound
<1>3. /\ rec \in TestType /\ rec.pc = "failing" /\ rec.epoch = test[t].epoch
      /\ rec.server = s
  BY <1>2 DEF TestType, TestStages
<1> HIDE DEF rec, s
<1>4. GoesOnAs(t, rec) /\ AwaitsClose(rec, s)
  BY <1>1, <1>2, <1>3 DEF GoesOnAs, TestSound, Accepted, WillEnter, AtHost, AwaitsClose, s
<1>5. runtime' \in [Servers -> Runtime]
  BY <1>1, <1>2, StatusTyped DEF IInv, EntriesTyped
<1>6. Rest' /\ \A x \in Servers : closing[t][x].stage = "none"
  BY <1>1, <1>5, SameRest, NoneClosing
<1>7. CASE test' = [test EXCEPT ![t] = rec] /\ StartClose(t, s, TRUE)
  <2>1. TestMoves(t, rec)
    BY <1>7 DEF TestMoves
  <2> QED
    BY <1>1, <1>2, <1>3, <1>4, <1>6, <1>7, <2>1, TestCloses
<1>8. CASE TestMoves(t, Over(t)) /\ UNCHANGED <<runtime, closing, connections>>
  BY <1>1, <1>6, <1>8, TestEnds
<1> QED
  BY <1>1, <1>7, <1>8

-----------------------------------------------------------------------------
(* Steps that change what the host holds or the manager has.                *)

\* A step of test t for its server s, after which the test is rec, the host
\* holds h for s and the map holds c.
ServerStep(t, s, rec, h, c) ==
  /\ TestMoves(t, rec) /\ TestSound(rec, epoch, clear) /\ test[t].server = s
  /\ Accepted(test[t]) => Accepted(rec) /\ rec.epoch = test[t].epoch
  /\ test[t].pc \notin {"reclosing", "closing", "failing"}
  /\ hosted' = [hosted EXCEPT ![s] = h] /\ h \in {hosted[s], t, None}
  /\ h = t => Accepted(rec) /\ rec.epoch = hostEpoch
  /\ connections' = [connections EXCEPT ![s] = c]
  /\ clear \in {"closing", "emptied"} => c = None
  /\ h = None \/ c # None \/ WillEnter(rec, s)
  /\ UNCHANGED <<closing, gateVars, hostEpoch>> /\ processes' \in [Tests -> ProcessType]

LEMMA ServerSteps ==
  ASSUME IInv, NEW t \in Tests, NEW s \in Servers, NEW rec \in TestType,
         NEW h \in Tests \cup {None}, NEW c \in Connection \cup {None},
         ServerStep(t, s, rec, h, c), Rest'
  PROVE  IInv'
<1>1. UNCHANGED <<closing, epoch, clear, hostEpoch>>
  BY DEF gateVars, ServerStep
<1>2. /\ test' \in [Tests -> TestType] /\ test'[t] = rec
      /\ \A u \in Tests : u # t => test'[u] = test[u]
  BY DEF IInv, ManagerTyped, TestMoves, ServerStep
<1>3. /\ hosted' \in [Servers -> Tests \cup {None}] /\ hosted'[s] = h
      /\ connections' \in [Servers -> Connection \cup {None}] /\ connections'[s] = c
      /\ \A x \in Servers : x # s => hosted'[x] = hosted[x] /\ connections'[x] = connections[x]
  BY DEF IInv, ManagerTyped, HostTyped, ServerStep
<1>4. ManagerTyped' /\ HostTyped' /\ GateTyped' /\ GateSound'
  BY <1>1, <1>2, <1>3 DEF IInv, ManagerTyped, HostTyped, GateTyped, GateSound, ServerStep
<1>5. TestsSound'
  BY <1>1, <1>2 DEF IInv, TestsSound, ServerStep
<1>6. HostedSound'
  <2>1. ASSUME NEW x \in Servers, NEW u \in Tests, hosted[x] = u
        PROVE  Accepted(test'[u]) /\ test'[u].epoch = hostEpoch
    <3>1. u # None /\ Accepted(test[u]) /\ test[u].epoch = hostEpoch
      BY <2>1, McpAssumption DEF IInv, HostedSound
    <3> QED
      BY <1>2, <3>1 DEF ServerStep
  <2>2. ASSUME NEW x \in Servers, hosted'[x] # None
        PROVE  Accepted(test'[hosted'[x]]) /\ test'[hosted'[x]].epoch = hostEpoch
    <3>1. CASE hosted'[x] = hosted[x]
      <4>1. hosted[x] \in Tests
        BY <2>2, <3>1 DEF IInv, HostTyped
      <4> QED
        BY <2>1, <3>1, <4>1
    <3>2. CASE hosted'[x] # hosted[x]
      <4>1. hosted'[x] = t /\ h = t
        BY <1>3, <2>2, <3>2 DEF ServerStep
      <4> QED
        BY <1>2, <4>1 DEF ServerStep
    <3> QED
      BY <3>1, <3>2
  <2> QED
    BY <1>1, <2>2 DEF HostedSound
<1>7. ClosedSound'
  BY <1>1, <1>3 DEF IInv, ClosedSound, ServerStep
<1>8. ClosesSound'
  <2>1. \A x \in Servers : closing[t][x].stage = "none"
    BY NoneClosing DEF ServerStep
  <2> QED
    BY <1>1, <1>2, <2>1 DEF IInv, ClosesSound
<1>9. AllAccounted'
  <2>1. ASSUME NEW x \in Servers PROVE Accounted(x)'
    <3>1. CASE x = s
      BY <1>2, <1>3, <3>1 DEF Accounted, ServerStep
    <3>2. CASE x # s
      <4>1. Accounted(x) /\ hosted'[x] = hosted[x] /\ connections'[x] = connections[x]
        BY <1>3, <3>2 DEF IInv, AllAccounted
      <4>2. CASE \E u \in Tests : WillEnter(test[u], x)
        <5>1. PICK u \in Tests : WillEnter(test[u], x)
          BY <4>2
        <5>2. u # t
          BY <3>2, <5>1 DEF WillEnter, ServerStep
        <5> QED
          BY <1>2, <5>1, <5>2 DEF Accounted
      <4> QED
        BY <1>1, <4>1, <4>2 DEF Accounted
    <3> QED
      BY <3>1, <3>2
  <2> QED
    BY <2>1 DEF AllAccounted
<1> QED
  BY <1>4, <1>5, <1>6, <1>7, <1>8, <1>9 DEF IInv, Rest

LEMMA ConnectRunsKeeps ==
  ASSUME IInv, NEW t \in Tests, ConnectRuns(t) PROVE IInv'
<1> DEFINE s == test[t].server
           rec == [test[t] EXCEPT !.pc = "starting"]
           c == connections[s]
<1>1. /\ test[t].pc = "connecting"
      /\ UNCHANGED <<entries, globalEnabled, edits, panelVars, call>> /\ runtime' = runtime
      /\ UNCHANGED <<connections, closing, gateVars>> /\ hostEpoch' = hostEpoch
      /\ \/ /\ test' = [test EXCEPT ![t].pc = "rejected"]
            /\ UNCHANGED <<processes, hosted>>
         \/ /\ test' = [test EXCEPT ![t] = rec] /\ hosted' = [hosted EXCEPT ![s] = None]
            /\ processes' = Gone({hosted[s]})
  BY DEF ConnectRuns, storeVars, IInv, ManagerTyped
<1>2. test[t] \in TestType /\ TestSound(test[t], epoch, clear) /\ s \in Servers
  BY <1>1 DEF IInv, ManagerTyped, TestsSound, TestSound
<1>3. Rest'
  BY <1>1, SameRest DEF IInv, EntriesTyped
<1>4. CASE test' = [test EXCEPT ![t].pc = "rejected"] /\ UNCHANGED <<processes, hosted>>
  <2>1. UNCHANGED hostVars
    BY <1>1, <1>4 DEF hostVars
  <2> QED
    BY <1>1, <1>3, <1>4, <2>1, RejectedKeeps
<1>5. CASE /\ test' = [test EXCEPT ![t] = rec] /\ hosted' = [hosted EXCEPT ![s] = None]
           /\ processes' = Gone({hosted[s]})
  <2>1. /\ rec \in TestType /\ rec.pc = "starting" /\ rec.epoch = test[t].epoch
        /\ rec.server = s /\ rec.entry = test[t].entry /\ rec.expected = test[t].expected
    BY <1>2 DEF TestType, TestStages
  <2>2. /\ c \in Connection \cup {None} /\ connections' = [connections EXCEPT ![s] = c]
        /\ (clear \in {"closing", "emptied"} => c = None)
    BY <1>1, <1>2 DEF IInv, ManagerTyped, ClosedSound
  <2> HIDE DEF rec, s, c
  <2>3. TestSound(rec, epoch, clear) /\ ~Accepted(test[t])
    BY <1>1, <1>2, <2>1 DEF TestSound, Accepted, AtHost, s
  <2>4. TestMoves(t, rec) /\ test[t].server = s
    BY <1>5 DEF TestMoves, s
  <2>5. processes' \in [Tests -> ProcessType]
    BY <1>5, GoneTyped
  <2>6. ServerStep(t, s, rec, None, c)
    BY <1>1, <1>5, <2>2, <2>3, <2>4, <2>5, McpAssumption DEF ServerStep
  <2> QED
    BY <1>2, <1>3, <2>1, <2>2, <2>6, ServerSteps
<1> QED
  BY <1>1, <1>4, <1>5

LEMMA ConnectCompletesKeeps ==
  ASSUME IInv, NEW t \in Tests, ConnectCompletes(t) PROVE IInv'
<1> DEFINE s == test[t].server
           rec == [test[t] EXCEPT !.pc = "connected"]
           c == connections[s]
<1>1. /\ test[t].pc = "starting"
      /\ UNCHANGED <<entries, globalEnabled, edits, panelVars, call>> /\ runtime' = runtime
      /\ UNCHANGED <<connections, closing, gateVars>> /\ hostEpoch' = hostEpoch
      /\ \/ /\ test' = [test EXCEPT ![t].pc = "rejected"]
            /\ UNCHANGED <<processes, hosted>>
         \/ /\ test[t].expected = hostEpoch
            /\ \E d \in Offers[test[t].entry.config] :
                 processes' = [Gone({hosted[s]}) EXCEPT ![t] = [state |-> "running", tools |-> d]]
            /\ test' = [test EXCEPT ![t] = rec] /\ hosted' = [hosted EXCEPT ![s] = t]
  BY DEF ConnectCompletes, storeVars, IInv, ManagerTyped
<1>2. test[t] \in TestType /\ TestSound(test[t], epoch, clear) /\ s \in Servers
  BY <1>1 DEF IInv, ManagerTyped, TestsSound, TestSound
<1>3. Rest'
  BY <1>1, SameRest DEF IInv, EntriesTyped
<1>4. CASE test' = [test EXCEPT ![t].pc = "rejected"] /\ UNCHANGED <<processes, hosted>>
  <2>1. UNCHANGED hostVars
    BY <1>1, <1>4 DEF hostVars
  <2> QED
    BY <1>1, <1>3, <1>4, <2>1, RejectedKeeps
<1>5. CASE /\ test[t].expected = hostEpoch
           /\ \E d \in Offers[test[t].entry.config] :
                processes' = [Gone({hosted[s]}) EXCEPT ![t] = [state |-> "running", tools |-> d]]
           /\ test' = [test EXCEPT ![t] = rec] /\ hosted' = [hosted EXCEPT ![s] = t]
  <2>1. /\ rec \in TestType /\ rec.pc = "connected" /\ rec.epoch = test[t].epoch
        /\ rec.server = s /\ rec.entry = test[t].entry /\ rec.expected = test[t].expected
    BY <1>2 DEF TestType, TestStages
  <2>2. /\ c \in Connection \cup {None} /\ connections' = [connections EXCEPT ![s] = c]
        /\ (clear \in {"closing", "emptied"} => c = None)
    BY <1>1, <1>2 DEF IInv, ManagerTyped, ClosedSound
  <2>3. processes' \in [Tests -> ProcessType]
    <3>1. PICK d \in Offers[test[t].entry.config] :
            processes' = [Gone({hosted[s]}) EXCEPT ![t] = [state |-> "running", tools |-> d]]
      BY <1>5
    <3>2. test[t].entry \in Entry
      BY <1>1, <1>2 DEF TestSound, AtHost
    <3>3. d \in Definitions
      BY <3>2, McpAssumption DEF Entry
    <3>4. [state |-> "running", tools |-> d] \in ProcessType
      BY <3>3 DEF ProcessType
    <3> QED
      BY <3>1, <3>4, GoneTyped
  <2> HIDE DEF rec, s, c
  <2>4. TestSound(rec, epoch, clear) /\ ~Accepted(test[t])
    BY <1>1, <1>2, <2>1 DEF TestSound, Accepted, AtHost, s
  <2>5. TestMoves(t, rec) /\ test[t].server = s
    BY <1>5 DEF TestMoves, s
  <2>6. Accepted(rec) /\ rec.epoch = hostEpoch /\ WillEnter(rec, s)
    BY <1>1, <1>2, <1>5, <2>1 DEF Accepted, WillEnter, TestSound, AtHost
  <2>7. ServerStep(t, s, rec, t, c)
    BY <1>1, <1>5, <2>2, <2>3, <2>4, <2>5, <2>6 DEF ServerStep
  <2> QED
    BY <1>2, <1>3, <2>1, <2>2, <2>7, ServerSteps
<1> QED
  BY <1>1, <1>4, <1>5

\* A connection that comes back to a closed gate is undone.
LEMMA ConnectReturnsKeeps ==
  ASSUME IInv, NEW t \in Tests, ConnectReturns(t) PROVE IInv'
<1> DEFINE s == test[t].server
           c == [by |-> t, updatedAt |-> test[t].entry.updatedAt]
           rec == [test[t] EXCEPT !.pc = "comparing", !.found = processes[t].tools]
           undo == [test[t] EXCEPT !.pc = "undoing"]
           h == hosted[s]
<1>1. /\ test[t].pc = "connected"
      /\ UNCHANGED <<entries, globalEnabled, edits, panelVars, call>> /\ runtime' = runtime
      /\ UNCHANGED <<closing, gateVars>> /\ UNCHANGED hostVars
      /\ \/ /\ IsCurrent(test[t].epoch) /\ connections' = [connections EXCEPT ![s] = c]
            /\ test' = [test EXCEPT ![t] = rec]
         \/ connections' = connections /\ test' = [test EXCEPT ![t] = undo]
  BY DEF ConnectReturns, storeVars, IInv, ManagerTyped
<1>2. test[t] \in TestType /\ TestSound(test[t], epoch, clear) /\ s \in Servers
      /\ test[t].entry \in Entry
  BY <1>1 DEF IInv, ManagerTyped, TestsSound, TestSound, AtHost
<1>3. Rest' /\ \A x \in Servers : closing[t][x].stage = "none"
  BY <1>1, SameRest, NoneClosing DEF IInv, EntriesTyped
<1>4. CASE /\ IsCurrent(test[t].epoch) /\ connections' = [connections EXCEPT ![s] = c]
           /\ test' = [test EXCEPT ![t] = rec]
  <2>1. processes[t].tools \in Definitions \cup {None} /\ processes \in [Tests -> ProcessType]
    BY DEF IInv, HostTyped, ProcessType
  <2>2. /\ rec \in TestType /\ rec.pc = "comparing" /\ rec.epoch = test[t].epoch
        /\ rec.server = s
    BY <1>2, <2>1 DEF TestType, TestStages
  <2>3. c \in Connection /\ c # None /\ clear = "none"
    BY <1>2, <1>4, NoneAssumption DEF Connection, Entry, IsCurrent, GateOpen
  <2>4. /\ h \in Tests \cup {None} /\ hosted' = [hosted EXCEPT ![s] = h]
        /\ hosted' = hosted /\ processes' = processes /\ hostEpoch' = hostEpoch
        /\ h = t => test[t].epoch = hostEpoch
    BY <1>1, <1>2, McpAssumption DEF IInv, HostTyped, HostedSound, hostVars
  <2> HIDE DEF rec, c
  <2>5. TestSound(rec, epoch, clear) /\ Accepted(rec)
    BY <1>1, <1>2, <2>2 DEF TestSound, Accepted, AtHost
  <2>6. TestMoves(t, rec) /\ test[t].server = s
    BY <1>4 DEF TestMoves
  <2> HIDE DEF s, h
  <2>7. h \in {hosted[s], t, None}
    BY DEF h
  <2>8. ServerStep(t, s, rec, h, c)
    BY <1>1, <1>4, <2>1, <2>2, <2>3, <2>4, <2>5, <2>6, <2>7 DEF ServerStep
  <2> QED
    BY <1>2, <1>3, <2>2, <2>3, <2>4, <2>8, ServerSteps
<1>5. CASE connections' = connections /\ test' = [test EXCEPT ![t] = undo]
  <2>1. /\ undo \in TestType /\ undo.pc = "undoing" /\ undo.epoch = test[t].epoch
        /\ undo.server = s
    BY <1>2 DEF TestType, TestStages
  <2> HIDE DEF undo
  <2>2. GoesOnAs(t, undo)
    BY <1>1, <1>2, <2>1 DEF GoesOnAs, TestSound, Accepted, WillEnter, AtHost
  <2>3. TestMoves(t, undo)
    BY <1>5 DEF TestMoves
  <2> QED
    BY <1>1, <1>3, <1>5, <2>1, <2>2, <2>3, TestGoesOn
<1> QED
  BY <1>1, <1>4, <1>5

LEMMA UndoKeeps ==
  ASSUME IInv, NEW t \in Tests, UndoRuns(t) PROVE IInv'
<1> DEFINE s == test[t].server
           rec == Over(t)
           c == connections[s]
<1>1. /\ test[t].pc = "undoing"
      /\ UNCHANGED <<entries, globalEnabled, edits, panelVars, call>> /\ runtime' = runtime
      /\ UNCHANGED <<connections, closing, gateVars>> /\ hostEpoch' = hostEpoch
      /\ TestMoves(t, rec) /\ hosted' = [hosted EXCEPT ![s] = None]
      /\ processes' = Gone({hosted[s]})
  BY DEF UndoRuns, TestMoves, storeVars
<1>2. test[t] \in TestType /\ TestSound(test[t], epoch, clear) /\ s \in Servers
  BY <1>1 DEF IInv, ManagerTyped, TestsSound, TestSound
<1>3. Rest'
  BY <1>1, SameRest DEF IInv, EntriesTyped
<1>4. /\ rec \in TestType /\ rec.pc = "over" /\ rec.epoch = test[t].epoch
  <2>1. NoTest \in TestType
    BY McpAssumption DEF NoTest, TestType, TestStages
  <2> QED
    BY <1>2, <2>1 DEF Over, TestType, TestStages
<1>5. /\ c \in Connection \cup {None} /\ connections' = [connections EXCEPT ![s] = c]
      /\ (clear \in {"closing", "emptied"} => c = None)
  BY <1>1, <1>2 DEF IInv, ManagerTyped, ClosedSound
<1>6. processes' \in [Tests -> ProcessType]
  BY <1>1, GoneTyped
<1> HIDE DEF rec, c
<1>7. TestSound(rec, epoch, clear) /\ Accepted(rec)
  BY <1>2, <1>4 DEF TestSound, Accepted, AtHost
<1>8. test[t].server = s
  OBVIOUS
<1> HIDE DEF s
<1>9. ServerStep(t, s, rec, None, c)
  BY <1>1, <1>4, <1>5, <1>6, <1>7, <1>8, McpAssumption DEF ServerStep
<1> QED
  BY <1>2, <1>3, <1>4, <1>5, <1>9, ServerSteps

-----------------------------------------------------------------------------
(* A full clear.                                                            *)

LEMMA ClearIdle ==
  ASSUME IInv, clear # "closing" \/ \A s \in Servers : ~Closing(Clear, s)
  PROVE  \A s \in Servers : closing[Clear][s].stage = "none"
BY DEF IInv, ClosesSound, Closing

LEMMA GateSteps ==
  ASSUME IInv, UNCHANGED <<connections, test, closing>>, UNCHANGED hostVars, Rest',
         GateTyped', GateSound', TestsSound',
         clear' \in {"closing", "emptied"} => clear \in {"closing", "emptied"},
         \A s \in Servers : closing[Clear][s].stage = "none"
  PROVE  IInv'
<1>1. UNCHANGED <<connections, test, closing, processes, hosted, hostEpoch>>
  BY DEF hostVars
<1>2. ManagerTyped' /\ HostTyped'
  BY <1>1 DEF IInv, ManagerTyped, HostTyped
<1>3. HostedSound' /\ ClosedSound'
  BY <1>1 DEF IInv, HostedSound, ClosedSound
<1>4. ClosesSound' /\ AllAccounted'
  BY <1>1 DEF IInv, ClosesSound, AllAccounted, Accounted
<1> QED
  BY <1>2, <1>3, <1>4 DEF IInv, Rest

LEMMA ClearBeginsKeeps ==
  ASSUME IInv, ClearBegins PROVE IInv'
<1>1. /\ clear = "none" /\ clear' = "begun" /\ epoch < MaxClears /\ epoch' = epoch + 1
      /\ UNCHANGED <<entries, globalEnabled, edits, panelVars, call>> /\ runtime' = runtime
      /\ UNCHANGED <<connections, test, closing>> /\ UNCHANGED hostVars /\ hostEpoch' = hostEpoch
  BY DEF ClearBegins, GateOpen, storeVars, hostVars
<1>2. GateTyped' /\ GateSound'
  BY <1>1, McpAssumption DEF IInv, GateTyped, GateSound
<1>3. TestsSound'
  <2>1. ASSUME NEW t \in Tests PROVE TestSound(test[t], epoch + 1, "begun")
    <3>1. test[t].epoch \in Nat /\ epoch \in Nat /\ test[t].epoch <= epoch
      BY McpAssumption DEF IInv, ManagerTyped, TestType, GateTyped, TestsSound, TestSound
    <3>2. test[t].epoch <= epoch + 1 /\ test[t].epoch < epoch + 1
      BY <3>1
    <3> QED
      BY <3>2 DEF IInv, TestsSound, TestSound
  <2> QED
    BY <1>1, <2>1 DEF TestsSound
<1>4. Rest' /\ \A s \in Servers : closing[Clear][s].stage = "none"
  BY <1>1, SameRest, ClearIdle DEF IInv, EntriesTyped
<1> QED
  BY <1>1, <1>2, <1>3, <1>4, GateSteps

LEMMA ClearRevokesKeeps ==
  ASSUME IInv, ClearRevokes PROVE IInv'
<1>1. /\ clear = "begun" /\ clear' = "revoking" /\ epoch' = epoch
      /\ UNCHANGED <<entries, globalEnabled, edits, panelVars, call>> /\ runtime' = runtime
      /\ UNCHANGED <<connections, test, closing>> /\ UNCHANGED hostVars /\ hostEpoch' = hostEpoch
  BY DEF ClearRevokes, storeVars, hostVars
<1>2. GateTyped' /\ GateSound' /\ TestsSound'
  BY <1>1 DEF IInv, GateTyped, GateSound, TestsSound, TestSound
<1>3. Rest' /\ \A s \in Servers : closing[Clear][s].stage = "none"
  BY <1>1, SameRest, ClearIdle DEF IInv, EntriesTyped
<1> QED
  BY <1>1, <1>2, <1>3, GateSteps

\* From here on the host holds nothing until the gate opens.
LEMMA DisconnectAllKeeps ==
  ASSUME IInv, DisconnectAllRuns PROVE IInv'
<1>1. /\ clear = "revoking" /\ clear' = "revoked" /\ epoch' = epoch
      /\ hostEpoch' = hostEpoch + 1 /\ hosted' = [s \in Servers |-> None]
      /\ processes' = Gone({hosted[s] : s \in Servers})
      /\ UNCHANGED <<entries, globalEnabled, edits, panelVars, call>> /\ runtime' = runtime
      /\ UNCHANGED <<connections, test, closing>>
  BY DEF DisconnectAllRuns, storeVars
<1>2. GateTyped' /\ GateSound'
  BY <1>1, McpAssumption DEF IInv, GateTyped, GateSound
<1>3. TestsSound' /\ ManagerTyped'
  BY <1>1 DEF IInv, TestsSound, TestSound, ManagerTyped
<1>4. HostTyped'
  <2>1. processes' \in [Tests -> ProcessType]
    BY <1>1, GoneTyped
  <2> QED
    BY <1>1, <2>1 DEF HostTyped
<1>5. HostedSound' /\ ClosedSound' /\ AllAccounted'
  BY <1>1 DEF HostedSound, ClosedSound, AllAccounted, Accounted
<1>6. ClosesSound'
  BY <1>1 DEF IInv, ClosesSound
<1>7. Rest'
  BY <1>1, SameRest DEF IInv, EntriesTyped
<1> QED
  BY <1>2, <1>3, <1>4, <1>5, <1>6, <1>7 DEF IInv, Rest

LEMMA ClearClosesKeeps ==
  ASSUME IInv, ClearCloses PROVE IInv'
<1>1. /\ clear = "revoked" /\ clear' = "closing" /\ epoch' = epoch
      /\ UNCHANGED <<entries, globalEnabled, edits, panelVars, call>> /\ runtime' = runtime
      /\ StartCloses(Clear, Known, FALSE) /\ test' = test /\ UNCHANGED hostVars
      /\ hosted' = hosted /\ hostEpoch' = hostEpoch
  BY DEF ClearCloses, storeVars, hostVars
<1>2. /\ Known \in SUBSET Servers /\ Clear \in Actors /\ Clear \notin Tests
      /\ Tests \subseteq Actors
      /\ \A s \in Known : ~Closing(Clear, s)
  BY <1>1, ClearIdle, McpAssumption DEF Known, Closing, Actors
<1>3. Closes(Clear, Known)
  BY <1>1, <1>2, CloseStarted
<1>4. ManagerTyped' /\ GateTyped' /\ GateSound' /\ TestsSound' /\ HostedSound'
  BY <1>1, <1>3 DEF IInv, ManagerTyped, GateTyped, GateSound, TestsSound, TestSound,
     HostedSound, Closes
<1>5. ClosedSound'
  <2>1. \A s \in Servers : s \notin Known => connections[s] = None
    BY DEF Known
  <2> QED
    BY <1>3, <2>1 DEF ClosedSound, Closes
<1>6. ClosesSound'
  <2>1. ASSUME NEW s \in Servers, NEW b \in Actors
        PROVE  closing'[b][s] = closing[b][s] \/ (b = Clear /\ closing'[b][s].stage = "policy")
    BY <1>2, <1>3 DEF Closes
  <2> QED
    BY <1>1, <1>2, <2>1 DEF IInv, ClosesSound
<1>7. AllAccounted'
  BY <1>1, <1>2, ClosesAccount
<1>8. Rest' /\ HostTyped'
  BY <1>1, SameRest, SameHost DEF IInv, EntriesTyped
<1> QED
  BY <1>4, <1>5, <1>6, <1>7, <1>8 DEF IInv, Rest

LEMMA ClearStoresKeeps ==
  ASSUME IInv, ClearStores PROVE IInv'
<1>1. /\ clear = "closing" /\ clear' = "emptied" /\ epoch' = epoch
      /\ entries' = [s \in Servers |-> None] /\ runtime' = [s \in Servers |-> NoRuntime]
      /\ globalEnabled' = TRUE /\ UNCHANGED <<edits, panelVars, call>>
      /\ UNCHANGED <<connections, test, closing>> /\ UNCHANGED hostVars /\ hostEpoch' = hostEpoch
      /\ \A s \in Servers : ~Closing(Clear, s)
  BY DEF ClearStores, hostVars
<1>2. GateTyped' /\ GateSound' /\ TestsSound'
  BY <1>1 DEF IInv, GateTyped, GateSound, TestsSound, TestSound
<1>3. Rest'
  BY <1>1, IdleTyped DEF IInv, Rest, EntriesTyped, Entries, PanelTyped, CallsTyped, CallsSound,
     EditsInBounds, panelVars
<1>4. \A s \in Servers : closing[Clear][s].stage = "none"
  BY <1>1, ClearIdle
<1> QED
  BY <1>1, <1>2, <1>3, <1>4, GateSteps

LEMMA ClearEndsKeeps ==
  ASSUME IInv, ClearEnds PROVE IInv'
<1>1. /\ clear \in {"revoked", "emptied"} /\ clear' = "none" /\ epoch' = epoch
      /\ UNCHANGED <<entries, globalEnabled, edits, panelVars, call>> /\ runtime' = runtime
      /\ UNCHANGED <<connections, test, closing>> /\ UNCHANGED hostVars /\ hostEpoch' = hostEpoch
  BY DEF ClearEnds, storeVars, hostVars
<1>2. GateTyped' /\ GateSound' /\ TestsSound'
  BY <1>1 DEF IInv, GateTyped, GateSound, TestsSound, TestSound
<1>3. Rest' /\ \A s \in Servers : closing[Clear][s].stage = "none"
  BY <1>1, SameRest, ClearIdle DEF IInv, EntriesTyped
<1> QED
  BY <1>1, <1>2, <1>3, GateSteps

-----------------------------------------------------------------------------
(* The theorems.                                                            *)

LEMMA Stutters ==
  ASSUME IInv, UNCHANGED vars PROVE IInv'
<1>1. /\ UNCHANGED Connected /\ UNCHANGED hostVars /\ UNCHANGED call
      /\ UNCHANGED <<entries, globalEnabled, edits, panelVars, call>> /\ runtime' = runtime
  BY DEF vars, Connected, storeVars, hostVars
<1>2. EntriesTyped' /\ PanelTyped' /\ CallsTyped' /\ CallsSound' /\ EditsInBounds'
  BY <1>1, SameStore DEF IInv, EntriesTyped
<1> QED
  BY <1>1, <1>2, SameHost, Keeps

LEMMA Inductive ==
  ASSUME IInv, [Next]_vars PROVE IInv'
<1>1. ASSUME NEW a \in Actors, NEW s \in Servers, CloseStep(a, s) PROVE IInv'
  BY <1>1, PolicyResetKeeps, DisconnectKeeps, CloseReturnsKeeps DEF CloseStep
<1>2. ASSUME NEW t \in Tests, TestStep(t) PROVE IInv'
  BY <1>2, TestsAfterCloseKeeps, ConnectsAfterCloseKeeps, EpochAnsweredKeeps,
     ConnectReturnsKeeps, UndoKeeps, RefreshReturnsKeeps, ComparedKeeps, TestFailsKeeps,
     FailureClosesKeeps DEF TestStep
<1>3. ASSUME NEW t \in Tests, HostStep(t) PROVE IInv'
  BY <1>3, ConnectRunsKeeps, ConnectCompletesKeeps, ConnectFailsKeeps DEF HostStep
<1>4. ASSUME NEW s \in Servers, UserStep(s) PROVE IInv'
  BY <1>4, RegisterKeeps, SaveKeeps, EnableKeeps, DisableKeeps, DeleteKeeps,
     ToolApprovalKeeps, ApproveKeeps, TestServerKeeps, ReconnectKeeps, CallToolKeeps DEF UserStep
<1>5. CASE ApprovalStep
  BY <1>5, FingerprintedKeeps, StoreApprovalKeeps, PublishApprovalKeeps DEF ApprovalStep
<1>6. CASE ClearStep
  BY <1>6, ClearRevokesKeeps, DisconnectAllKeeps, ClearClosesKeeps, ClearStoresKeeps,
     ClearEndsKeeps DEF ClearStep
<1>7. CASE Next
  BY <1>1, <1>2, <1>3, <1>4, <1>5, <1>6, <1>7, ProcessExitsKeeps, CallStepKeeps, ReplaceKeeps,
     GlobalKeeps, EnsureKeeps, ClearBeginsKeeps DEF Next
<1> QED
  BY <1>7, Stutters

THEOREM Invariance == Spec => []IInv
<1>1. Init => IInv
  BY Initially
<1>2. IInv /\ [Next]_vars => IInv'
  BY Inductive
<1> QED
  BY <1>1, <1>2, PTL DEF Spec

\* Every state of the manager, the panel and the host is of its type.
THEOREM TypeCorrect == Spec => []TypeOK
<1>1. IInv => TypeOK
  BY Typed DEF IInv
<1> QED
  BY <1>1, Invariance, PTL

\* A full clear leaves nothing connected, and no process of a test from before
\* it, for any servers, tests and bounds and wherever each connect was when
\* the gate closed (revocation.ts, connectTauriStdio, begin_revocation).
THEOREM ClearIsComplete == Spec => []ClearRevokesProcesses
<1>1. IInv => ClearRevokesProcesses
  <2> SUFFICES ASSUME IInv PROVE ClearRevokesProcesses
    OBVIOUS
  <2>1. ASSUME NEW s \in Servers, hosted[s] # None
        PROVE  clear # "emptied" /\ (GateOpen => test[hosted[s]].epoch = epoch)
    <3>1. /\ hosted[s] \in Tests /\ test[hosted[s]].epoch = hostEpoch
          /\ TestSound(test[hosted[s]], epoch, clear)
      BY <2>1 DEF IInv, HostTyped, HostedSound, TestsSound
    <3>2. CASE clear \in {"none", "emptied"}
      <4>1. hostEpoch = epoch /\ epoch \in Nat
        BY <3>2, McpAssumption DEF IInv, GateSound, GateTyped
      <4> QED
        BY <3>1, <4>1 DEF TestSound, GateOpen
    <3>3. CASE clear \notin {"none", "emptied"}
      BY <3>3 DEF GateOpen
    <3> QED
      BY <3>2, <3>3
  <2>2. clear = "emptied" => \A s \in Servers : connections[s] = None
    BY DEF IInv, ClosedSound
  <2> QED
    BY <2>1, <2>2 DEF ClearRevokesProcesses
<1> QED
  BY <1>1, Invariance, PTL

\* When nothing is in flight for a server, the manager knows the process the
\* host holds for it, so that a close can still reach it (connectEntry, close).
THEOREM NothingOrphaned == Spec => []NoOrphans
<1>1. IInv => NoOrphans
  <2> SUFFICES ASSUME IInv, NEW s \in Servers, Settled(s), hosted[s] # None
               PROVE  connections[s] # None
    BY DEF NoOrphans
  <2>1. \A t \in Tests : ~WillEnter(test[t], s)
    BY DEF Settled, BeingTested, WillEnter
  <2>2. \A a \in Actors : ~WillDisconnect(closing[a][s])
    BY DEF Settled, Closing, WillDisconnect
  <2> QED
    BY <2>1, <2>2 DEF IInv, AllAccounted, Accounted
<1> QED
  BY <1>1, Invariance, PTL
=============================================================================
