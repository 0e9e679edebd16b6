---------------------------- MODULE GenerationRun ----------------------------
(***************************************************************************)
(* The lifecycle of generation runs as the hook useGenerator keeps it      *)
(* (src/hooks/useGenerator.ts), with the parts of WebAppGenerator          *)
(* (src/lib/ai/generator.ts), of the run guard (src/lib/ai/run-guard.ts)   *)
(* and of the interactive store (src/store/interactive.ts) it leans on.    *)
(*                                                                         *)
(* JavaScript runs one task at a time, so an action is the code between    *)
(* two awaits.  A run is one call of generate, retry or continueTask.      *)
(* A generator object is named by the run whose getGenerator built it;     *)
(* several runs may share one.  The construction epoch is represented by   *)
(* the run that incremented it last: "my epoch is still the current one"   *)
(* is then "I was the last to increment it".                               *)
(***************************************************************************)
EXTENDS Naturals, FiniteSets

CONSTANTS Runs,            \* every generate / retry / continueTask call
          Conversations,
          Configs,         \* values of the settings a generator is built from
          None,
          MaxIterations,   \* model requests one loop may make
          MaxInterventions,\* bound on the user actions other than start and answer
          AllowOverlap     \* may the user start a run before the last one ended?

ASSUME RunAssumption ==
  /\ None \notin Runs \cup Conversations \cup Configs
  /\ MaxIterations \in Nat \ {0}
  /\ MaxInterventions \in Nat
  /\ AllowOverlap \in BOOLEAN

VARIABLES
  activeId,            \* conversation store: the conversation shown
  prevActiveId,        \* prevActiveIdRef: the conversation the hook last saw
  runConversationId,   \* runConversationIdRef
  isGenerating,        \* React state that gates the user interface
  generatorRef,        \* the generator object in use, or None
  constructionEpoch,   \* the run that incremented the epoch last, or None
  config,              \* current settings
  planModeEnabled,     \* settings.system.planModeEnabled
  compressing,         \* conversation a user-requested compression works on
  pending,             \* interactive store: runs whose dialog is on screen
  run,                 \* the local variables of every run
  generator,           \* the generator objects
  output,              \* what the last step wrote into which conversation
  interventions        \* user interventions so far

storeVars   == <<activeId, planModeEnabled, config>>
hookVars    == <<prevActiveId, generatorRef, constructionEpoch, compressing>>
ownerVars   == <<isGenerating, runConversationId>>
vars == <<storeVars, hookVars, ownerVars, pending, run, generator, output,
          interventions>>

Kinds == {"generate", "retry"}     \* continueTask behaves as retry does
Modes == {"chat", "plan", "auto_qa"}
Preparing == {"resolving", "constructing", "syncing", "applying", "skills"}
Looping   == {"requesting", "tool", "asking", "planning", "approving"}
Stages    == {"idle", "qaApplying", "ended"} \cup Preparing \cup Looping
Replies   == {"none", "answered", "approved", "rejected", "aborted"}

RunRecord ==
  [pc           : Stages,
   kind         : Kinds,
   conversation : Conversations \cup {None},   \* runConversationId of the call
   config       : Configs \cup {None},         \* settings of the closure
   target       : Conversations \cup {None},   \* currentActiveId in getGenerator
   gen          : Runs \cup {None},
   mode         : Modes,
   iteration    : 0..MaxIterations,
   qaFor        : Conversations \cup {None},   \* set while Automatic QA runs
   reply        : Replies,                     \* how its dialog was settled
   aborted      : BOOLEAN,                     \* its request was told to abort
   stopped      : BOOLEAN,                     \* history: the user stopped it
   approved     : BOOLEAN]                     \* history: its plan was approved

GeneratorRecord ==
  [conversation : Conversations \cup {None},
   config       : Configs \cup {None},
   mode         : Modes,
   ctrl         : Runs \cup {None}]   \* whose request owns the AbortController

Writes == [what : {"message", "file", "qa"}, by : Runs, into : Conversations]

TypeOK ==
  /\ activeId \in Conversations
  /\ prevActiveId \in Conversations
  /\ runConversationId \in Conversations \cup {None}
  /\ isGenerating \in BOOLEAN
  /\ generatorRef \in Runs \cup {None}
  /\ constructionEpoch \in Runs \cup {None}
  /\ config \in Configs
  /\ planModeEnabled \in BOOLEAN
  /\ compressing \in Conversations \cup {None}
  /\ pending \subseteq Runs
  /\ run \in [Runs -> RunRecord]
  /\ generator \in [Runs -> GeneratorRecord]
  /\ output \subseteq Writes
  /\ interventions \in 0..MaxInterventions

-----------------------------------------------------------------------------
(* The guard every callback goes through, and the shared effects.           *)

IsCurrentGeneratorRun_anyConversation(c) == c # None /\ c = runConversationId
IsCurrentGeneratorRun(c) == c # None /\ c = activeId /\ c = runConversationId

IsGeneratorConstructionCurrent(r) ==
  /\ constructionEpoch = r
  /\ run[r].config = config
  /\ IsCurrentGeneratorRun(run[r].target)

\* The conversation captured by the callbacks of the generator run r uses.
GeneratorConversation(r) == generator[run[r].gen].conversation

\* Every dialog on screen is rejected with an AbortError.
RejectAllPending_forgets(runs) == runs
RejectAllPending(runs) ==
  [q \in Runs |-> IF q \in pending THEN [runs[q] EXCEPT !.reply = "aborted"]
                                   ELSE runs[q]]

\* abort() on the generator the hook holds: signal the controller of its
\* latest request (nobody listens once that request is over) and drop it.
AbortHeld(runs) ==
  [q \in Runs |->
     IF /\ generatorRef # None
        /\ generator[generatorRef].ctrl = q
        /\ runs[q].pc = "requesting"
     THEN [runs[q] EXCEPT !.aborted = TRUE]
     ELSE runs[q]]

WithoutController ==
  IF generatorRef = None THEN generator
  ELSE [generator EXCEPT ![generatorRef].ctrl = None]

\* setMessages and setFiles act on whichever conversation is active.
WriteActive(r, what) == {[what |-> what, by |-> r, into |-> activeId]}

\* A callback writes only while its conversation has the current run.
GuardedWrite(r, what) ==
  IF IsCurrentGeneratorRun(GeneratorConversation(r))
  THEN WriteActive(r, what) ELSE {}

\* requestAI: a fresh AbortController, whatever happened to the last one.
RequestAI(r, runs) ==
  [runs EXCEPT ![r] = [@ EXCEPT !.pc = "requesting",
                                !.iteration = runs[r].iteration + 1,
                                !.reply = "none", !.aborted = FALSE]]
WithController(r, generators) ==
  [generators EXCEPT ![run[r].gen].ctrl = r]

NewRun == [pc |-> "idle", kind |-> "generate", conversation |-> None,
           config |-> None, target |-> None, gen |-> None, mode |-> "chat",
           iteration |-> 0, qaFor |-> None, reply |-> "none",
           aborted |-> FALSE, stopped |-> FALSE, approved |-> FALSE]

\* The locals of a call die with it, but for the conversation it was for.
Ended(local) ==
  [NewRun EXCEPT !.pc = "ended", !.conversation = local.conversation]

\* The finally block of generate, retry and continueTask.
EndRun_keepsOwner(r) ==
  /\ run' = [run EXCEPT ![r] = Ended(@)]
  /\ isGenerating' = IF IsCurrentGeneratorRun(run[r].conversation)
                     THEN FALSE ELSE isGenerating
  /\ UNCHANGED runConversationId
EndRun(r) ==
  /\ run' = [run EXCEPT ![r] = Ended(@)]
  /\ IF IsCurrentGeneratorRun(run[r].conversation)
     THEN isGenerating' = FALSE /\ runConversationId' = None
     ELSE UNCHANGED ownerVars

-----------------------------------------------------------------------------
NoGenerator == [conversation |-> None, config |-> None, mode |-> "chat",
                ctrl |-> None]

Init ==
  /\ activeId \in Conversations
  /\ prevActiveId = activeId
  /\ runConversationId = None
  /\ isGenerating = FALSE
  /\ generatorRef = None
  /\ constructionEpoch = None
  /\ config \in Configs
  /\ planModeEnabled \in BOOLEAN
  /\ compressing = None
  /\ pending = {}
  /\ run = [r \in Runs |-> NewRun]
  /\ generator = [r \in Runs |-> NoGenerator]
  /\ output = {}
  /\ interventions = 0

-----------------------------------------------------------------------------
(* The user.  React flushes the conversation effect before it delivers the  *)
(* next input event, so user actions wait for it; continuations of runs do  *)
(* not.                                                                     *)

EffectsFlushed == prevActiveId = activeId

Intervene ==
  /\ EffectsFlushed
  /\ interventions < MaxInterventions
  /\ interventions' = interventions + 1
  /\ output' = {}

Alive(r) == run[r].pc \notin {"idle", "ended"}

Quiet == compressing = None /\ \A r \in Runs : ~Alive(r)

\* generate, retry and continueTask up to their first await.
Start(r, k) ==
  /\ EffectsFlushed
  /\ ~isGenerating
  /\ AllowOverlap \/ Quiet
  /\ run[r].pc = "idle"
  /\ run' = [run EXCEPT ![r] = [@ EXCEPT !.pc = "resolving", !.kind = k,
                                         !.conversation = activeId,
                                         !.config = config]]
  /\ runConversationId' = activeId
  /\ isGenerating' = TRUE
  /\ output' = {}
  /\ UNCHANGED <<storeVars, hookVars, pending, generator, interventions>>

\* stop(): the generator object is kept for the next run.
Stop ==
  LET marked == [q \in Runs |-> IF Alive(q) THEN [run[q] EXCEPT !.stopped = TRUE]
                                            ELSE run[q]]
  IN
  /\ Intervene
  /\ isGenerating
  /\ run' = RejectAllPending(AbortHeld(marked))
  /\ generator' = WithoutController
  /\ pending' = {}
  /\ runConversationId' = None
  /\ isGenerating' = FALSE
  /\ UNCHANGED <<storeVars, hookVars>>

\* The store switches at once, the hook's effect runs later.
SwitchConversation(c) ==
  /\ Intervene
  /\ c # activeId
  /\ activeId' = c
  /\ UNCHANGED <<config, planModeEnabled, hookVars, ownerVars, pending, run,
                 generator>>

\* What a switch and a reset have in common.
DropGenerator_keepsGenerator(runs) ==
  /\ run' = RejectAllPending(AbortHeld(runs))
  /\ generator' = WithoutController
  /\ constructionEpoch' = None
  /\ runConversationId' = None
  /\ pending' = {}
  /\ UNCHANGED generatorRef
DropGenerator_keepsDialogs(runs) ==
  /\ run' = AbortHeld(runs)
  /\ generator' = WithoutController
  /\ generatorRef' = None
  /\ constructionEpoch' = None
  /\ runConversationId' = None
  /\ UNCHANGED pending
DropGenerator(runs) ==
  /\ run' = RejectAllPending(AbortHeld(runs))
  /\ generator' = WithoutController
  /\ generatorRef' = None
  /\ constructionEpoch' = None
  /\ runConversationId' = None
  /\ pending' = {}

\* The effect on [activeId].
ConversationEffect ==
  /\ prevActiveId # activeId
  /\ DropGenerator(run)
  /\ prevActiveId' = activeId
  /\ isGenerating' = FALSE
  /\ output' = {}
  /\ UNCHANGED <<storeVars, compressing, interventions>>

\* invalidateGenerator: after a project reset or import.
InvalidateGenerator ==
  /\ Intervene
  /\ ~isGenerating
  /\ DropGenerator(run)
  /\ UNCHANGED <<storeVars, prevActiveId, isGenerating, compressing>>

ChangeSettings ==
  /\ Intervene
  /\ \/ \E c \in Configs \ {config} :
          config' = c /\ UNCHANGED planModeEnabled
     \/ planModeEnabled' = ~planModeEnabled /\ UNCHANGED config
  /\ UNCHANGED <<activeId, hookVars, ownerVars, pending, run, generator>>

\* The dialog of run r is answered: resolveQuestion, resolvePlan.
Answer(r, reply) ==
  /\ EffectsFlushed
  /\ r \in pending
  /\ reply \in IF run[r].pc = "asking" THEN {"answered"}
                                       ELSE {"approved", "rejected"}
  /\ run' = [run EXCEPT ![r] = IF reply = "approved"
                               THEN [@ EXCEPT !.reply = reply, !.approved = TRUE]
                               ELSE [@ EXCEPT !.reply = reply]]
  /\ pending' = pending \ {r}
  /\ output' = {}
  /\ UNCHANGED <<storeVars, hookVars, ownerVars, generator, interventions>>

\* compressContext borrows isGenerating.  The slash command is hidden while a
\* run is generating, the command palette entry is not.
StartCompression ==
  /\ Intervene
  /\ compressing = None
  /\ AllowOverlap \/ ~isGenerating
  /\ compressing' = activeId
  /\ isGenerating' = TRUE
  /\ UNCHANGED <<storeVars, prevActiveId, generatorRef, constructionEpoch,
                 runConversationId, pending, run, generator>>

EndCompression ==
  /\ compressing # None
  /\ compressing' = None
  /\ isGenerating' = IF activeId = compressing THEN FALSE ELSE isGenerating
  /\ output' = {}
  /\ UNCHANGED <<storeVars, prevActiveId, generatorRef, constructionEpoch,
                 runConversationId, pending, run, generator, interventions>>

-----------------------------------------------------------------------------
(* Preparing a run.                                                         *)

\* The generator the hook holds fits the active conversation and the settings
\* the call was made with.
UsableGenerator(r) ==
  /\ prevActiveId = activeId
  /\ generatorRef # None
  /\ generator[generatorRef].config = run[r].config

\* getGenerator finds a usable generator; back in generate the run checks
\* that it is current before it hydrates the messages.
ReuseGenerator(r) ==
  /\ run[r].pc = "resolving"
  /\ UsableGenerator(r)
  /\ IF IsCurrentGeneratorRun(run[r].conversation)
     THEN run' = [run EXCEPT ![r] = [@ EXCEPT !.pc = "syncing",
                                              !.gen = generatorRef]]
     ELSE run' = [run EXCEPT ![r] = Ended(@)]
  /\ output' = {}
  /\ UNCHANGED <<storeVars, hookVars, ownerVars, pending, generator,
                 interventions>>

\* getGenerator drops a generator of another conversation or configuration
\* and starts to construct a new one under a new epoch.
ConstructGenerator(r) ==
  LET runs == AbortHeld([run EXCEPT ![r] = [@ EXCEPT !.pc = "constructing",
                                                     !.target = activeId]])
  IN
  /\ run[r].pc = "resolving"
  /\ ~UsableGenerator(r)
  /\ generator' = WithoutController
  /\ generatorRef' = None
  /\ constructionEpoch' = r
  /\ prevActiveId' = activeId
  /\ IF prevActiveId # activeId
     THEN /\ runConversationId' = None
          /\ run' = RejectAllPending(runs)
          /\ pending' = {}
     ELSE /\ run' = runs
          /\ UNCHANGED <<runConversationId, pending>>
  /\ output' = {}
  /\ UNCHANGED <<storeVars, isGenerating, compressing, interventions>>

\* The candidate is published only if nothing overtook its construction.
\* Without a generator a current run only records the user message and ends.
PublishGenerator(r) ==
  LET published == IsGeneratorConstructionCurrent(r)
      current   == IsCurrentGeneratorRun(run[r].conversation)
      onlyPrompt == current /\ ~published /\ run[r].kind = "generate"
  IN
  /\ run[r].pc = "constructing"
  /\ IF published
     THEN /\ generatorRef' = r
          /\ generator' = [generator EXCEPT
               ![r] = [conversation |-> run[r].target, config |-> run[r].config,
                       mode |-> "chat", ctrl |-> None]]
     ELSE UNCHANGED <<generatorRef, generator>>
  /\ IF current /\ published
     THEN /\ run' = [run EXCEPT ![r] = [@ EXCEPT !.pc = "syncing", !.gen = r]]
          /\ UNCHANGED ownerVars
     ELSE /\ run' = [(IF onlyPrompt THEN RejectAllPending(run) ELSE run)
                       EXCEPT ![r] = Ended(@)]
          /\ IF current THEN isGenerating' = FALSE /\ runConversationId' = None
                        ELSE UNCHANGED ownerVars
  /\ pending' = IF onlyPrompt THEN {} ELSE pending
  /\ output' = IF onlyPrompt THEN WriteActive(r, "message") ELSE {}
  /\ UNCHANGED <<storeVars, prevActiveId, constructionEpoch, compressing,
                 interventions>>

\* syncMessages, then applyDynamicGeneratorState reads the mode of the run
\* and waits for the MCP runtime and the skills.
SyncMessages(r) ==
  /\ run[r].pc = "syncing"
  /\ run' = [run EXCEPT ![r] = [@ EXCEPT !.pc = "applying",
                                         !.mode = IF planModeEnabled THEN "plan" ELSE "chat"]]
  /\ output' = {}
  /\ UNCHANGED <<storeVars, hookVars, ownerVars, pending, generator,
                 interventions>>

\* The generator takes the mode of the run, whether or not the run is still
\* current, and the skills are loaded.
ApplyMode_forgets(r) ==
  /\ run[r].pc = "applying"
  /\ run' = [run EXCEPT ![r].pc = "skills"]
  /\ output' = {}
  /\ UNCHANGED <<storeVars, hookVars, ownerVars, pending, generator,
                 interventions>>
ApplyMode(r) ==
  /\ run[r].pc = "applying"
  /\ run' = [run EXCEPT ![r].pc = "skills"]
  /\ generator' = [generator EXCEPT ![run[r].gen].mode = run[r].mode]
  /\ output' = {}
  /\ UNCHANGED <<storeVars, hookVars, ownerVars, pending, interventions>>

\* A run that is still current rejects the dialogs of earlier runs, records
\* the user message and enters the loop.
EnterLoop(r) ==
  LET prompts == run[r].kind = "generate"
  IN
  /\ run[r].pc = "skills"
  /\ IF IsCurrentGeneratorRun(run[r].conversation)
     THEN /\ run' = RequestAI(r, IF prompts THEN RejectAllPending(run) ELSE run)
          /\ generator' = WithController(r, generator)
          /\ pending' = IF prompts THEN {} ELSE pending
          /\ output' = IF prompts THEN WriteActive(r, "message") ELSE {}
     ELSE /\ run' = [run EXCEPT ![r] = Ended(@)]
          /\ output' = {}
          /\ UNCHANGED <<pending, generator>>
  /\ UNCHANGED <<storeVars, hookVars, ownerVars, interventions>>

\* Any await before the loop may throw; a current run reports it.
PreparationFails(r) ==
  /\ run[r].pc \in Preparing
  /\ output' = IF IsCurrentGeneratorRun(run[r].conversation)
               THEN WriteActive(r, "message") ELSE {}
  /\ EndRun(r)
  /\ UNCHANGED <<storeVars, hookVars, pending, generator, interventions>>

-----------------------------------------------------------------------------
(* The loop of a generator.                                                 *)

\* _runGenerateLoop returned.  Automatic QA follows a clean generate when it
\* is enabled and the project has files; it keeps the conversation that is
\* then the hook's current one.
LoopReturns(r, clean) ==
  \/ EndRun(r)
  \/ /\ clean
     /\ run[r].kind = "generate"
     /\ run[r].qaFor = None
     /\ IsCurrentGeneratorRun(runConversationId)
     /\ ~planModeEnabled
     /\ run' = [run EXCEPT ![r] = [@ EXCEPT !.pc = "qaApplying",
                                            !.qaFor = runConversationId,
                                            !.iteration = 0, !.reply = "none"]]
     /\ UNCHANGED ownerVars

\* After its tools the loop makes another request, unless the budget is spent.
NextIteration_offByOne(r) ==
  IF run[r].iteration <= MaxIterations
  THEN /\ run' = RequestAI(r, run)
       /\ generator' = WithController(r, generator)
       /\ UNCHANGED ownerVars
  ELSE LoopReturns(r, FALSE) /\ UNCHANGED generator
NextIteration(r) ==
  IF run[r].iteration < MaxIterations
  THEN /\ run' = RequestAI(r, run)
       /\ generator' = WithController(r, generator)
       /\ UNCHANGED ownerVars
  ELSE LoopReturns(r, FALSE) /\ UNCHANGED generator

\* onText and onThinking while the answer streams.
StreamText(r) ==
  /\ run[r].pc = "requesting"
  /\ output' = GuardedWrite(r, "message")
  /\ UNCHANGED <<storeVars, hookVars, ownerVars, pending, run, generator,
                 interventions>>

\* requestWithRetry: after a retryable error the loop reports the attempt,
\* sleeps and asks again with a controller of its own.
RetryRequest(r) ==
  /\ run[r].pc = "requesting"
  /\ ~run[r].aborted
  /\ generator' = WithController(r, generator)
  /\ output' = GuardedWrite(r, "message")
  /\ UNCHANGED <<storeVars, hookVars, ownerVars, pending, run, interventions>>

\* The answer has no tool call, or the request ended with the AbortError of
\* its controller, which the loop takes for a result.  An aborted stream may
\* also just end: what had arrived then counts as the answer.
RequestEnds(r) ==
  /\ run[r].pc = "requesting"
  /\ \/ LoopReturns(r, TRUE)
     \/ run[r].aborted /\ LoopReturns(r, FALSE)
  /\ output' = {}
  /\ UNCHANGED <<storeVars, hookVars, pending, generator, interventions>>

\* Retries exhausted: the error is thrown out of the loop and reported by the
\* catch block, in Automatic QA by runAutomaticQa's own.
RequestFails(r) ==
  /\ run[r].pc = "requesting"
  /\ output' =
       IF run[r].qaFor = None
       THEN IF IsCurrentGeneratorRun(run[r].conversation)
            THEN WriteActive(r, "message") ELSE {}
       ELSE IF IsCurrentGeneratorRun(run[r].qaFor)
            THEN WriteActive(r, "qa") ELSE {}
  /\ EndRun(r)
  /\ UNCHANGED <<storeVars, hookVars, pending, generator, interventions>>

\* A tool that works on the project or outside it: onToolCall, then the await.
CallTool(r) ==
  /\ run[r].pc = "requesting"
  /\ run' = [run EXCEPT ![r] = [@ EXCEPT !.pc = "tool", !.aborted = FALSE]]
  /\ output' = GuardedWrite(r, "message")
  /\ UNCHANGED <<storeVars, hookVars, ownerVars, pending, generator,
                 interventions>>

\* The tool result, with file changes if the mode admits a write tool.  No
\* abort is looked at here: the next request gets a new controller.
ToolReturns(r, writes) ==
  /\ run[r].pc = "tool"
  /\ writes => generator[run[r].gen].mode # "plan"
  /\ output' = GuardedWrite(r, "message")
                 \cup (IF writes THEN GuardedWrite(r, "file") ELSE {})
  /\ NextIteration(r)
  /\ UNCHANGED <<storeVars, hookVars, pending, interventions>>

\* ask_user_question and exit_plan_mode put a dialog on screen; a run that is
\* not current is refused with an AbortError.
AskUser(r, stage) ==
  /\ run[r].pc = "requesting"
  /\ generator[run[r].gen].mode \in IF stage = "planning" THEN {"plan"}
                                                          ELSE {"chat", "plan"}
  /\ output' = GuardedWrite(r, "message")
  /\ IF IsCurrentGeneratorRun(GeneratorConversation(r))
     THEN /\ pending' = pending \cup {r}
          /\ run' = [run EXCEPT ![r] = [@ EXCEPT !.pc = stage, !.reply = "none",
                                                 !.aborted = FALSE]]
          /\ UNCHANGED ownerVars
     ELSE /\ LoopReturns(r, FALSE)
          /\ UNCHANGED pending
  /\ UNCHANGED <<storeVars, hookVars, generator, interventions>>

\* The promise of the dialog was rejected: the loop ends as aborted.
DialogRejected(r) ==
  /\ run[r].pc \in {"asking", "planning"}
  /\ run[r].reply = "aborted"
  /\ LoopReturns(r, FALSE)
  /\ output' = {}
  /\ UNCHANGED <<storeVars, hookVars, pending, generator, interventions>>

\* An answer, a rejected plan, or an approval that came too late to change
\* the mode: the result goes back to the model.
DialogAnswered(r) ==
  /\ run[r].pc \in {"asking", "planning"}
  /\ \/ run[r].reply \in {"answered", "rejected"}
     \/ /\ run[r].reply = "approved"
        /\ ~IsCurrentGeneratorRun(GeneratorConversation(r))
  /\ output' = GuardedWrite(r, "message")
  /\ NextIteration(r)
  /\ UNCHANGED <<storeVars, hookVars, pending, interventions>>

\* onPlanApproved: leave Plan Mode, on the generator the hook holds, and
\* refresh the MCP runtime.
LeavePlanMode(r) ==
  /\ run[r].pc = "planning"
  /\ run[r].reply = "approved"
  /\ IsCurrentGeneratorRun(GeneratorConversation(r))
  /\ planModeEnabled' = FALSE
  /\ generator' = IF generatorRef = None THEN generator
                  ELSE [generator EXCEPT ![generatorRef].mode = "chat"]
  /\ run' = [run EXCEPT ![r] = [@ EXCEPT !.pc = "approving", !.reply = "none"]]
  /\ output' = {}
  /\ UNCHANGED <<activeId, config, hookVars, ownerVars, pending, interventions>>

PlanRefreshed(r) ==
  /\ run[r].pc = "approving"
  /\ output' = GuardedWrite(r, "message")
  /\ NextIteration(r)
  /\ UNCHANGED <<storeVars, hookVars, pending, interventions>>

-----------------------------------------------------------------------------
\* runAutomaticQa after its await: the prompt goes to the active conversation.
StartAutomaticQa_unchecked(r) ==
  /\ run[r].pc = "qaApplying"
  /\ run' = RequestAI(r, RejectAllPending(run))
  /\ generator' = WithController(r,
                     [generator EXCEPT ![run[r].gen].mode = "auto_qa"])
  /\ pending' = {}
  /\ output' = WriteActive(r, "qa")
  /\ UNCHANGED <<storeVars, hookVars, ownerVars, interventions>>
StartAutomaticQa(r) ==
  LET configured == [generator EXCEPT ![run[r].gen].mode = "auto_qa"]
  IN
  /\ run[r].pc = "qaApplying"
  /\ IF IsCurrentGeneratorRun(run[r].qaFor)
     THEN /\ run' = RequestAI(r, RejectAllPending(run))
          /\ generator' = WithController(r, configured)
          /\ pending' = {}
          /\ output' = WriteActive(r, "qa")
          /\ UNCHANGED ownerVars
     ELSE /\ EndRun(r)
          /\ generator' = configured
          /\ output' = {}
          /\ UNCHANGED pending
  /\ UNCHANGED <<storeVars, hookVars, interventions>>

-----------------------------------------------------------------------------
\* The steps run r takes without the user.
RunStep(r) ==
  \/ ReuseGenerator(r)
  \/ ConstructGenerator(r)
  \/ PublishGenerator(r)
  \/ SyncMessages(r)
  \/ ApplyMode(r)
  \/ EnterLoop(r)
  \/ PreparationFails(r)
  \/ RequestEnds(r)
  \/ RequestFails(r)
  \/ CallTool(r)
  \/ \E writes \in BOOLEAN : ToolReturns(r, writes)
  \/ \E stage \in {"asking", "planning"} : AskUser(r, stage)
  \/ DialogRejected(r)
  \/ DialogAnswered(r)
  \/ LeavePlanMode(r)
  \/ PlanRefreshed(r)
  \/ StartAutomaticQa(r)

UserStep ==
  \/ \E r \in Runs : \/ \E k \in Kinds : Start(r, k)
                     \/ \E reply \in Replies : Answer(r, reply)
  \/ Stop
  \/ \E c \in Conversations : SwitchConversation(c)
  \/ InvalidateGenerator
  \/ ChangeSettings
  \/ StartCompression

Next ==
  \/ UserStep
  \/ ConversationEffect
  \/ EndCompression
  \/ \E r \in Runs : StreamText(r) \/ RetryRequest(r) \/ RunStep(r)

\* Awaits settle and effects run.  The user owes nothing.
Fairness ==
  /\ \A r \in Runs : WF_vars(RunStep(r))
  /\ WF_vars(ConversationEffect)
  /\ WF_vars(EndCompression)

Spec == Init /\ [][Next]_vars
FairSpec == Spec /\ Fairness

-----------------------------------------------------------------------------
(* Safety.                                                                  *)

HasGenerator(r) == run[r].pc \in {"syncing", "applying", "skills", "qaApplying"} \cup Looping

\* Events and file edits of a run only ever reach its own conversation,
\* although setMessages and setFiles act on whichever conversation is active
\* and an old run may go on for as long as its tools and requests take.
ConversationIsolation ==
  \A w \in output : w.what \in {"message", "file"} =>
    w.into = run[w.by].conversation

\* A run works with a generator that was built for its own conversation: the
\* callbacks of that generator guard on the conversation they captured.
GeneratorBinding ==
  \A r \in Runs : HasGenerator(r) =>
    run[r].gen # None /\ GeneratorConversation(r) = run[r].conversation

\* The hook never holds a generator of a conversation other than the one its
\* effect saw last, so the next run cannot pick up a foreign one.
HeldGeneratorIsLocal ==
  generatorRef # None =>
    generator[generatorRef].conversation = prevActiveId

\* Generators stay with their conversation, in a run and between runs.
GeneratorsAreLocal == GeneratorBinding /\ HeldGeneratorIsLocal

\* A dialog on screen belongs to a run that is waiting for it, and to the
\* conversation on screen once the switch effect has run.
DialogsAreLive ==
  \A r \in pending :
    /\ run[r].pc \in {"asking", "planning"}
    /\ run[r].reply = "none"
    /\ EffectsFlushed => run[r].conversation = activeId

\* A run that entered its loop in Plan Mode changes no file in that loop before
\* its plan was approved.  (Automatic QA afterwards follows the setting.)
PlanBarrier ==
  [][\A w \in output' :
       w.what = "file" /\ run[w.by].mode = "plan" /\ run[w.by].qaFor = None
         => run[w.by].approved]_vars

\* While nothing generates, no run owns the conversation and no dialog is
\* left on screen.
IdleIsClean ==
  ~isGenerating => runConversationId = None /\ pending = {}

\* The Automatic QA prompt is put into the conversation of the run it follows.
QaPromptIsolation ==
  \A w \in output : w.what = "qa" => w.into = run[w.by].conversation

(* What a step may never do.                                                *)

\* A run the user stopped sends no further request to the model.
StoppedRunsAreSilent ==
  [][\A r \in Runs :
       run[r].stopped => run'[r].iteration <= run[r].iteration]_vars

(* Liveness under FairSpec.                                                 *)

\* Every run ends or waits for the user.
RunsEnd ==
  \A r \in Runs : Alive(r) ~> ~Alive(r) \/ r \in pending

\* A run the user stopped ends without asking anything more.
StoppedRunsEnd ==
  \A r \in Runs : run[r].stopped ~> ~Alive(r)

=============================================================================
