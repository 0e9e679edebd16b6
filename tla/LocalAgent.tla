----------------------------- MODULE LocalAgent -----------------------------
(***************************************************************************)
(* Generation through a local CLI agent: the generator in the webview      *)
(* (lib/local-agent/generator.ts), the runs of the host (local_agent.rs)   *)
(* and the bridge on which a CLI calls the tools of the webview            *)
(* (local_agent_bridge.rs).                                                *)
(*                                                                         *)
(* A turn is one call of generate or retry; it starts up to three runs of  *)
(* the CLI one after the other: the first one, a fresh one if its session  *)
(* could not be resumed, and the continuation after an approved plan.      *)
(* Events of a run reach the webview in the order the host sent them.      *)
(* Text, prompts, sessions and tool results are left out, except whether a *)
(* run had activity; dispatch_subagent has no budget of its own here, and  *)
(* native search consumes the same budget as any tool.                     *)
(***************************************************************************)
EXTENDS Naturals, Sequences, FiniteSets

CONSTANTS Turns,           \* calls of generate
          PlanTurns,       \* those that begin in Plan Mode
          MaxCalls,        \* bound on the tool calls of the CLIs
          None,
          MaxToolCalls,    \* budget of a turn
          MaxActiveRuns,   \* MAX_ACTIVE_RUNS
          MaxNoise,        \* bound on text and search events
          Patient          \* users wait for a stopped turn before the next

Runs == Turns \X (1..3)

\* Tool calls, numbered in the order in which they reach the host.
Calls == 1..MaxCalls

ASSUME LocalAgentAssumption ==
  /\ None \notin Calls \cup Runs
  /\ PlanTurns \subseteq Turns
  /\ MaxToolCalls \in Nat \ {0}
  /\ MaxActiveRuns \in Nat \ {0}
  /\ MaxNoise \in Nat
  /\ MaxCalls \in Nat
  /\ Patient \in BOOLEAN

VARIABLES
  abortRequested,  \* fields of the generator
  planApproved,
  currentRun,
  turn,            \* per turn: the locals of runTurn
  view,            \* per run: the locals of runOnce
  cancels,         \* runs whose cancel command is on its way
  host,            \* per run: the host's entry and task
  channel,         \* per run: events on their way to the webview
  call,            \* per tool call: where it is
  noise            \* text and search events so far

generatorVars == <<abortRequested, planApproved, currentRun>>
webviewVars == <<generatorVars, turn, view>>
hostVars == <<host, channel, noise>>
vars == <<webviewVars, cancels, hostVars, call>>

NoTurn == [pc |-> "idle", attempt |-> 0, resumed |-> FALSE,
           continued |-> FALSE, used |-> 0, searches |-> 0, exhausted |-> FALSE,
           approved |-> FALSE, stopped |-> FALSE]
NoView == [queue |-> <<>>, executing |-> None, stage |-> "none", activity |-> FALSE,
           error |-> FALSE, toolError |-> FALSE, done |-> "no", awaited |-> {}, settled |-> FALSE]
NoHost == [stage |-> "none", reply |-> "none", bridged |-> FALSE,
           cancelled |-> FALSE, started |-> 0, limit |-> 0]

Ends == {"completed", "aborted", "failed"}
ToolRequest(c) == [type |-> "toolRequest", callId |-> c]
Other(kind) == [type |-> kind]
Events == [type : {"toolRequest"}, callId : Calls] \cup [type : {"text", "search"} \cup Ends]

TypeOK ==
  /\ abortRequested \in BOOLEAN
  /\ planApproved \in BOOLEAN
  /\ currentRun \in Runs \cup {None}
  /\ turn \in [Turns -> [pc : {"idle", "preparing", "running", "over"},
                         attempt : 0..3, resumed : BOOLEAN,
                         continued : BOOLEAN, used : 0..MaxToolCalls, searches : 0..MaxToolCalls,
                         exhausted : BOOLEAN, approved : BOOLEAN, stopped : BOOLEAN]]
  /\ view \in [Runs -> [queue : Seq(Calls), executing : Calls \cup {None},
                        stage : {"none", "running", "approved", "resolving"},
                        activity : BOOLEAN, error : BOOLEAN, toolError : BOOLEAN,
                        done : Ends \cup {"no"}, awaited : SUBSET Calls,
                        settled : BOOLEAN]]
  /\ cancels \in SUBSET Runs
  /\ host \in [Runs -> [stage : {"none", "invoked", "active", "ending", "over"},
                        reply : {"none", "started", "rejected", "handled"},
                        bridged : BOOLEAN, cancelled : BOOLEAN,
                        started : 0..MaxToolCalls, limit : 0..MaxToolCalls]]
  /\ noise \in 0..MaxNoise
  /\ channel \in [Runs -> Seq(Events)]
  /\ call \in [Calls -> [run : Runs \cup {None}, ran : BOOLEAN,
                         stage : {"none", "pending", "over"}]]

Init ==
  /\ abortRequested = FALSE
  /\ planApproved = FALSE
  /\ currentRun = None
  /\ turn = [t \in Turns |-> NoTurn]
  /\ view = [r \in Runs |-> NoView]
  /\ cancels = {}
  /\ host = [r \in Runs |-> NoHost]
  /\ channel = [r \in Runs |-> <<>>]
  /\ noise = 0
  /\ call = [c \in Calls |-> [run |-> None, ran |-> FALSE, stage |-> "none"]]

-----------------------------------------------------------------------------
\* cancelLocalAgent, which does nothing to a run that is over.
Cancel(rs) == cancels' = cancels \cup {r \in rs \ {None} : host[r].stage # "over"}

(* The turn: generate, runTurn and runOnce until the host has answered.     *)

Run(t) == <<t, turn[t].attempt>>

MayGenerate(t) ==
  /\ turn[t].pc = "idle"
  /\ \A u \in Turns \ {t} : \/ turn[u].pc \in {"idle", "over"}
                            \/ turn[u].stopped /\ ~Patient

\* generate and runTurn; that local agents are supported is known by now,
\* because getGenerator asked before it built the generator.
Generate(t) ==
  /\ MayGenerate(t)
  /\ turn' = [turn EXCEPT ![t].pc = "preparing"]
  /\ abortRequested' = FALSE
  /\ planApproved' = FALSE
  /\ UNCHANGED <<currentRun, view, cancels, hostVars, call>>

\* What is left of the turn's budget limits the run in the host.
Invoke(r, used) ==
  host' = [host EXCEPT ![r].stage = "invoked",
                       ![r].limit = IF used < MaxToolCalls THEN MaxToolCalls - used ELSE 1]

\* The transcript is fingerprinted and attachments are read; then runOnce.
Prepared(t, resumed) ==
  /\ turn[t].pc = "preparing"
  /\ turn' = [turn EXCEPT ![t].pc = "running", ![t].attempt = 1, ![t].resumed = resumed]
  /\ Invoke(<<t, 1>>, 0)
  /\ UNCHANGED <<generatorVars, view, cancels, channel, call, noise>>

\* abort, called by stop for the turn on the screen.
Abort(t) ==
  /\ turn[t].pc \notin {"idle", "over"}
  /\ ~turn[t].stopped
  /\ turn' = [turn EXCEPT ![t].stopped = TRUE]
  /\ abortRequested' = TRUE
  /\ Cancel({currentRun})
  /\ UNCHANGED <<planApproved, currentRun, view, hostVars, call>>

-----------------------------------------------------------------------------
(* The host: local_agent_start, its task, and the commands.                 *)

Active == {r \in Runs : host[r].stage \in {"active", "ending"}}

\* local_agent_start: the run is registered with the bridge and entered in the
\* map if there is room.
StartRuns(r) ==
  /\ host[r].stage = "invoked"
  /\ Cardinality(Active) < MaxActiveRuns
  /\ host' = [host EXCEPT ![r].stage = "active", ![r].bridged = TRUE, ![r].reply = "started"]
  /\ UNCHANGED <<webviewVars, cancels, channel, call, noise>>

StartFails(r) ==
  /\ host[r].stage = "invoked"
  /\ host' = [host EXCEPT ![r].stage = "over", ![r].reply = "rejected"]
  /\ UNCHANGED <<webviewVars, cancels, channel, call, noise>>

\* cancel_pending: the CLI is told, nobody waits for the calls any more.
CancelPending(r) == [c \in Calls |->
  IF call[c].run = r /\ call[c].stage = "pending"
  THEN [call[c] EXCEPT !.stage = "over"] ELSE call[c]]

Send(r, e) == channel' = [channel EXCEPT ![r] = Append(@, e)]

\* Text, reasoning and the provider's own search, as far as the webview
\* treats them differently.
CliEmits(r, e) ==
  /\ host[r].stage = "active"
  /\ noise < MaxNoise
  /\ noise' = noise + 1
  /\ Send(r, Other(e))
  /\ UNCHANGED <<webviewVars, cancels, host, call>>

\* call_tool, which awaits nothing before it has registered and sent the call;
\* its timeout is not shorter than that of the run, whose end cancels the call.
\* A tool or arguments the run does not allow abort it, as does a call beyond
\* the budget.
CliCalls(r, c) ==
  /\ host[r].stage = "active" /\ host[r].bridged /\ ~host[r].cancelled
  /\ call[c].stage = "none" /\ \A d \in 1..(c - 1) : call[d].stage # "none"
  /\ IF host[r].started < host[r].limit
     THEN /\ host' = [host EXCEPT ![r].started = @ + 1]
          /\ call' = [call EXCEPT ![c].run = r, ![c].stage = "pending"]
          /\ Send(r, ToolRequest(c))
     ELSE /\ host' = [host EXCEPT ![r].cancelled = TRUE]
          /\ call' = [CancelPending(r) EXCEPT ![c].run = r, ![c].stage = "over"]
          /\ UNCHANGED channel
  /\ UNCHANGED <<webviewVars, cancels, noise>>

CliBreaksRules(r) ==
  /\ host[r].stage = "active" /\ host[r].bridged /\ ~host[r].cancelled
  /\ host' = [host EXCEPT ![r].cancelled = TRUE]
  /\ call' = CancelPending(r)
  /\ UNCHANGED <<webviewVars, cancels, channel, noise>>

\* local_agent_cancel; a run that is not in the map is left alone.
CancelRuns(r) ==
  /\ r \in cancels
  /\ cancels' = cancels \ {r}
  /\ host' = [host EXCEPT ![r].cancelled = TRUE, ![r].bridged = FALSE]
  /\ call' = CancelPending(r)
  /\ UNCHANGED <<webviewVars, channel, noise>>

\* The protocol returns: completed, aborted (also by the provider) or with an
\* error, which is sent right before the end.
RunEnds(r, e) ==
  /\ host[r].stage = "active"
  /\ host' = [host EXCEPT ![r].stage = "ending"]
  /\ Send(r, Other(e))
  /\ UNCHANGED <<webviewVars, cancels, call, noise>>

RunUnregisters(r) ==
  /\ host[r].stage = "ending"
  /\ host' = [host EXCEPT ![r] = [NoHost EXCEPT !.stage = "over", !.reply = host[r].reply]]
  /\ call' = CancelPending(r)
  /\ cancels' = cancels \ {r}
  /\ UNCHANGED <<webviewVars, channel, noise>>

-----------------------------------------------------------------------------
(* The webview: events of a run, and the queue of its tool calls.           *)

\* consumeToolBudget
Consume_uncapped(t) == [turn EXCEPT ![t].used = @ + 1,
                                    ![t].exhausted = turn[t].used + 1 >= MaxToolCalls]
Consume(t) == [turn EXCEPT ![t].used = IF @ < MaxToolCalls THEN @ + 1 ELSE @,
                           ![t].exhausted = turn[t].used + 1 >= MaxToolCalls]

Receive(r, e) ==
  /\ channel[r] # <<>>
  /\ Head(channel[r]) = e
  /\ channel' = [channel EXCEPT ![r] = Tail(@)]

OnText(r) ==
  /\ Receive(r, Other("text"))
  /\ view' = [view EXCEPT ![r].activity = TRUE]
  /\ UNCHANGED <<generatorVars, turn, cancels, host, call, noise>>

\* Text beyond MAX_LOCAL_STREAM_CHARS
OnTextOverflow(r) ==
  /\ Receive(r, Other("text"))
  /\ view' = [view EXCEPT ![r].error = TRUE]
  /\ abortRequested' = TRUE
  /\ Cancel({currentRun})
  /\ UNCHANGED <<planApproved, currentRun, turn, host, call, noise>>

OnNativeTool(r) ==
  /\ Receive(r, Other("search"))
  /\ view' = [view EXCEPT ![r].activity = TRUE]
  /\ IF turn[r[1]].used < MaxToolCalls
     THEN /\ turn' = [Consume(r[1]) EXCEPT ![r[1]].searches = @ + 1]
          /\ UNCHANGED cancels
     ELSE /\ turn' = Consume(r[1])
          /\ Cancel({currentRun})
  /\ UNCHANGED <<generatorVars, host, call, noise>>

OnToolRequest(r, c) ==
  /\ Receive(r, ToolRequest(c))
  /\ currentRun' = r
  /\ view' = [view EXCEPT ![r].queue = Append(@, c)]
  /\ UNCHANGED <<abortRequested, planApproved, turn, cancels, host, call, noise>>

\* The calls queued or at work in the webview.
Unfinished(r) == {view[r].queue[i] : i \in DOMAIN view[r].queue}
                   \cup ({view[r].executing} \cap Calls)

\* finish waits for the calls that are in the queue by now.
OnDone_atOnce(r, e) ==
  /\ Receive(r, Other(e))
  /\ view' = [view EXCEPT ![r].done = e]
  /\ UNCHANGED <<generatorVars, turn, cancels, host, call, noise>>
OnDone(r, e) ==
  /\ Receive(r, Other(e))
  /\ view' = [view EXCEPT ![r].done = e, ![r].awaited = Unfinished(r)]
  /\ UNCHANGED <<generatorVars, turn, cancels, host, call, noise>>

\* executeTool: the call is dropped, or consumes the budget and starts.
ToolDropped(r) ==
  /\ view[r].executing = None /\ view[r].queue # <<>>
  /\ abortRequested \/ turn[r[1]].exhausted \/ view[r].toolError
  /\ view' = [view EXCEPT ![r].queue = Tail(@)]
  /\ Cancel({r})
  /\ UNCHANGED <<generatorVars, turn, hostVars, call>>

ToolStarts_always(r) ==
  LET c == Head(view[r].queue)
  IN  /\ view[r].executing = None /\ view[r].queue # <<>>
      /\ ~(turn[r[1]].exhausted \/ view[r].toolError)
      /\ view' = [view EXCEPT ![r].queue = Tail(@), ![r].executing = c,
                              ![r].stage = "running", ![r].activity = TRUE]
      /\ turn' = Consume(r[1])
      /\ call' = [call EXCEPT ![c].ran = TRUE]
      /\ UNCHANGED <<generatorVars, cancels, hostVars>>
ToolStarts(r) ==
  LET c == Head(view[r].queue)
  IN  /\ view[r].executing = None /\ view[r].queue # <<>>
      /\ ~(abortRequested \/ turn[r[1]].exhausted \/ view[r].toolError)
      /\ view' = [view EXCEPT ![r].queue = Tail(@), ![r].executing = c,
                              ![r].stage = "running", ![r].activity = TRUE]
      /\ turn' = Consume(r[1])
      /\ call' = [call EXCEPT ![c].ran = TRUE]
      /\ UNCHANGED <<generatorVars, cancels, hostVars>>

\* The tool is exit_plan_mode and the user approves; onPlanApproved then waits
\* for the MCP servers.  stop would have rejected the dialog.
UserApproves(r) ==
  /\ view[r].stage = "running"
  /\ r[1] \in PlanTurns /\ ~turn[r[1]].continued /\ ~turn[r[1]].stopped
  /\ view' = [view EXCEPT ![r].stage = "approved"]
  /\ turn' = [turn EXCEPT ![r[1]].approved = TRUE]
  /\ UNCHANGED <<generatorVars, cancels, hostVars, call>>

ToolReturns(r) ==
  /\ view[r].stage \in {"running", "approved"}
  /\ planApproved' = (planApproved \/ view[r].stage = "approved")
  /\ view' = [view EXCEPT ![r].stage = "resolving"]
  /\ UNCHANGED <<abortRequested, currentRun, turn, cancels, hostVars, call>>

\* An AbortError of a tool
ToolThrows_keepsBusy(r) ==
  /\ view[r].stage = "running" /\ turn[r[1]].stopped
  /\ view' = [view EXCEPT ![r].stage = "none", ![r].toolError = TRUE]
  /\ Cancel({r})
  /\ UNCHANGED <<generatorVars, turn, hostVars, call>>
ToolThrows(r) ==
  /\ view[r].stage = "running" /\ turn[r[1]].stopped
  /\ view' = [view EXCEPT ![r].executing = None, ![r].stage = "none", ![r].toolError = TRUE]
  /\ Cancel({r})
  /\ UNCHANGED <<generatorVars, turn, hostVars, call>>

\* local_agent_resolve_tool; without a caller it rejects.
ToolResolves(r) ==
  LET c == view[r].executing
      waiting == host[r].bridged /\ call[c].stage = "pending"
  IN  /\ view[r].stage = "resolving"
      /\ view' = [view EXCEPT ![r].executing = None, ![r].stage = "none",
                              ![r].toolError = @ \/ ~waiting]
      /\ call' = IF waiting THEN [call EXCEPT ![c].stage = "over"] ELSE call
      /\ IF waiting THEN UNCHANGED cancels ELSE Cancel({r})
      /\ UNCHANGED <<generatorVars, turn, hostVars>>

-----------------------------------------------------------------------------
(* The turn after a run of it.                                              *)

\* The next run of the turn, whose tools limit what is left of the budget.
RunAgain_freshBudget(t, plan) ==
  /\ turn' = [turn EXCEPT ![t].attempt = @ + 1, ![t].resumed = FALSE, ![t].used = 0,
                          ![t].continued = plan]
  /\ Invoke(<<t, turn[t].attempt + 1>>, 0)
RunAgain(t, plan) ==
  /\ turn' = [turn EXCEPT ![t].attempt = @ + 1, ![t].resumed = FALSE,
                          ![t].continued = plan]
  /\ Invoke(<<t, turn[t].attempt + 1>>, turn[t].used)

TurnOver(t) ==
  /\ turn' = [turn EXCEPT ![t] = [NoTurn EXCEPT !.pc = "over", !.stopped = turn[t].stopped,
                                  !.used = turn[t].used, !.searches = turn[t].searches,
                                  !.exhausted = turn[t].exhausted]]
  /\ UNCHANGED host

\* A session that could not be resumed is replaced once, if nothing happened.
Fails(r, canRetryFresh) ==
  LET t == r[1]
  IN  /\ IF /\ turn[t].resumed /\ ~view[r].activity /\ canRetryFresh
            /\ ~abortRequested /\ ~turn[t].continued
         THEN RunAgain(t, FALSE) ELSE TurnOver(t)
      /\ UNCHANGED planApproved

Succeeds_unasked(r) ==
  LET t == r[1]
      aborted == view[r].done = "aborted" \/ abortRequested
  IN  IF t \in PlanTurns /\ ~aborted /\ ~turn[t].exhausted /\ ~turn[t].continued
      THEN planApproved' = FALSE /\ RunAgain(t, TRUE)
      ELSE TurnOver(t) /\ UNCHANGED planApproved
Succeeds(r) ==
  LET t == r[1]
      aborted == view[r].done = "aborted" \/ abortRequested
  IN  IF planApproved /\ ~aborted /\ ~turn[t].exhausted /\ ~turn[t].continued
      THEN planApproved' = FALSE /\ RunAgain(t, TRUE)
      ELSE TurnOver(t) /\ UNCHANGED planApproved

\* The rest of finish and what runTurn does after it.
Finish(r, canRetryFresh) ==
  /\ view[r].done # "no" /\ ~view[r].settled
  /\ view[r].awaited \cap Unfinished(r) = {}
  /\ view' = [view EXCEPT ![r] = [NoView EXCEPT !.settled = TRUE, !.queue = view[r].queue,
                !.executing = view[r].executing, !.stage = view[r].stage,
                !.toolError = view[r].toolError]]
  /\ currentRun' = None
  /\ IF view[r].toolError \/ view[r].error \/ view[r].done = "failed"
     THEN Fails(r, canRetryFresh) ELSE Succeeds(r)
  /\ UNCHANGED <<abortRequested, cancels, channel, call, noise>>

\* startLocalAgent resolves: a stop in the meantime takes effect now.
StartAnswered_late(r) ==
  /\ host[r].reply = "started"
  /\ host' = [host EXCEPT ![r].reply = "handled"]
  /\ currentRun' = IF view[r].done = "no" /\ ~view[r].settled THEN r ELSE currentRun
  /\ UNCHANGED <<abortRequested, planApproved, turn, view, cancels, channel, call, noise>>
StartAnswered(r) ==
  /\ host[r].reply = "started"
  /\ host' = [host EXCEPT ![r].reply = "handled"]
  /\ currentRun' = IF view[r].done = "no" /\ ~view[r].settled THEN r ELSE currentRun
  /\ IF abortRequested \/ turn[r[1]].exhausted THEN Cancel({r}) ELSE UNCHANGED cancels
  /\ UNCHANGED <<abortRequested, planApproved, turn, view, channel, call, noise>>

StartRejected(r, canRetryFresh) ==
  /\ host[r].reply = "rejected" /\ ~view[r].settled
  /\ view' = [view EXCEPT ![r].settled = TRUE]
  /\ currentRun' = None
  /\ Fails(r, canRetryFresh)
  /\ UNCHANGED <<abortRequested, cancels, channel, call, noise>>

-----------------------------------------------------------------------------
HostStep(r) ==
  \/ StartRuns(r) \/ StartFails(r) \/ CancelRuns(r) \/ RunUnregisters(r)

CliStep(r) ==
  \/ \E e \in {"text", "search"} : CliEmits(r, e)
  \/ \E c \in Calls : CliCalls(r, c)
  \/ CliBreaksRules(r)

RunStops(r) == \E e \in Ends : RunEnds(r, e)

ToolStep(r) ==
  \/ ToolDropped(r) \/ ToolStarts(r) \/ ToolReturns(r) \/ ToolThrows(r) \/ ToolResolves(r)

EventStep(r) ==
  \/ OnText(r) \/ OnTextOverflow(r) \/ OnNativeTool(r)
  \/ \E c \in Calls : OnToolRequest(r, c)
  \/ \E e \in Ends : OnDone(r, e)

TurnStep(r) ==
  \/ StartAnswered(r)
  \/ \E fresh \in BOOLEAN : Finish(r, fresh) \/ StartRejected(r, fresh)

Preparation(t) == \E resumed \in BOOLEAN : Prepared(t, resumed)

Next ==
  \/ \E t \in Turns : Abort(t) \/ Preparation(t) \/ Generate(t)
  \/ \E r \in Runs : HostStep(r) \/ CliStep(r) \/ RunStops(r)
  \/ \E r \in Runs : ToolStep(r) \/ EventStep(r) \/ TurnStep(r) \/ UserApproves(r)

Spec == Init /\ [][Next]_vars

\* Promises, commands and events are processed; a run ends at the latest after
\* MAX_RUN_DURATION; a tool returns, its dialog answered or rejected by stop.
Fairness ==
  /\ \A t \in Turns : WF_vars(Preparation(t))
  /\ \A r \in Runs : /\ WF_vars(StartRuns(r) \/ StartFails(r) \/ RunStops(r))
                     /\ WF_vars(ToolStep(r))
                     /\ WF_vars(EventStep(r))
                     /\ WF_vars(TurnStep(r))

FairSpec == Spec /\ Fairness

-----------------------------------------------------------------------------
(* Properties.                                                              *)

\* However a turn is spread over runs, retries and a continuation, its tools
\* and searches run at most as often as its budget says (consumeToolBudget).
TurnBudget == \A t \in Turns :
  Cardinality({c \in Calls : call[c].ran /\ call[c].run[1] = t}) + turn[t].searches
    <= MaxToolCalls

\* A turn goes on from its plan to the implementation only after the user
\* approved that plan in that turn (exit_plan_mode, planApproved).
ContinuationIsApproved == \A t \in Turns : turn[t].continued => turn[t].approved

\* A turn that is over has left nothing behind that works: none of its calls
\* is queued or at work in the webview, no run of it goes on in the host
\* (finish, toolQueue, local_agent_start).
TurnsLeaveNothing == \A t \in Turns : turn[t].pc = "over" =>
  \A n \in 1..3 : /\ Unfinished(<<t, n>>) = {}
                  /\ host[<<t, n>>].stage \in {"none", "ending", "over"}

\* A turn the user stopped starts no tool any more, also those that were
\* queued before (executeTool, abortRequested).
StoppedTurnsAreSilent == [][\A c \in Calls :
  call'[c].ran /\ ~call[c].ran => ~turn[call[c].run[1]].stopped]_vars

\* A stop reaches the host whenever it comes, before the run has an id, while
\* the answer of the start is on its way, or between two runs of the turn: once
\* the start is answered, the run of a stopped turn is cancelled or about to
\* be (abort, startLocalAgent().then).
StopReachesHost == \A r \in Runs :
  turn[r[1]].stopped /\ host[r].reply = "handled" /\ host[r].stage = "active"
    => r \in cancels \/ host[r].cancelled

\* A turn comes to its end: what it waits for always happens (runTurn, runOnce).
TurnsEnd == \A t \in Turns : turn[t].pc # "idle" ~> turn[t].pc = "over"
=============================================================================
