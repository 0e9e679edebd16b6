------------------------- MODULE GenerationRun_proof -------------------------
(***************************************************************************)
(* Proofs about GenerationRun, for any number of runs, conversations and   *)
(* settings, any budgets, and users who overlap runs or do not.            *)
(*                                                                         *)
(* Most steps only move runs along or end them, and leave the conversation *)
(* of every generator and every run as it is.  KeptRuns and KeptGenerators *)
(* say so once; a step that satisfies them preserves the invariant (lemma  *)
(* Preserved).  The four steps that start a run, and resolve, construct    *)
(* and publish its generator are proved on their own.                      *)
(*                                                                         *)
(* The second half is about dialogs, idleness, Automatic QA and the plan   *)
(* barrier (UserInv).  Acts(r) says what a step of run r may do to them,   *)
(* Aside what the steps of nobody may do; each step is shown to be one of  *)
(* the two, and both preserve UserInv.                                     *)
(***************************************************************************)
EXTENDS GenerationRun, TLAPS

Unbound == {"idle", "resolving", "constructing"}
WithGen == {"syncing", "applying", "skills", "qaApplying"} \cup Looping
Fresh   == {"idle", "qaApplying"} \cup Preparing

\* A loop starts with its whole budget.
FreshBudget == \A r \in Runs : run[r].pc \in Fresh => run[r].iteration = 0

\* No run uses, and the hook does not hold, a generator that is not published.
Unpublished ==
  \A r \in Runs : run[r].pc \in Unbound =>
    /\ generatorRef # r
    /\ \A q \in Runs : run[q].gen # r

\* The latest construction is for the conversation the hook saw last.
EpochTarget ==
  \A r \in Runs : constructionEpoch = r /\ run[r].pc = "constructing" =>
    run[r].target = prevActiveId

IInv ==
  /\ TypeOK
  /\ FreshBudget
  /\ Unpublished
  /\ EpochTarget
  /\ GeneratorBinding
  /\ HeldGeneratorIsLocal
  /\ ConversationIsolation

Kept(old, new) ==
  /\ new \in RunRecord
  /\ new.conversation = old.conversation
  /\ new.gen \in {old.gen, None}
  /\ new.pc \in Unbound => new.pc = old.pc /\ new.target = old.target
  /\ new.pc \in WithGen => old.pc \in WithGen /\ new.gen = old.gen
  /\ new.pc \in Fresh =>
       new.iteration = 0 \/ (old.pc \in Fresh /\ new.iteration = old.iteration)

KeptRuns(olds, news) ==
  /\ news \in [Runs -> RunRecord]
  /\ \A q \in Runs : Kept(olds[q], news[q])

KeptGenerators ==
  /\ generator' \in [Runs -> GeneratorRecord]
  /\ \A g \in Runs : generator'[g].conversation = generator[g].conversation

KeptHook ==
  \/ UNCHANGED <<prevActiveId, generatorRef, constructionEpoch>>
  \/ generatorRef' = None /\ constructionEpoch' = None

\* The types of what is neither a run nor a generator.
RestType ==
  /\ activeId \in Conversations
  /\ prevActiveId \in Conversations
  /\ runConversationId \in Conversations \cup {None}
  /\ isGenerating \in BOOLEAN
  /\ generatorRef \in Runs \cup {None}
  /\ constructionEpoch \in Runs \cup {None}
  /\ config \in Configs
  /\ planModeEnabled \in BOOLEAN
  /\ compressing \in Conversations \cup {None}
  /\ pending \subseteq Runs
  /\ output \subseteq Writes
  /\ interventions \in 0..MaxInterventions

OwnerType == /\ isGenerating' \in BOOLEAN
             /\ runConversationId' \in Conversations \cup {None}

\* Writes a step may make: into the conversation of the run that makes them.
Isolated(writes) ==
  \A w \in writes : w.what \in {"message", "file"} =>
    w.into = run[w.by].conversation

-----------------------------------------------------------------------------
(* Records and functions of records.                                        *)

LEMMA KeptSame ==
  ASSUME NEW old \in RunRecord
  PROVE  Kept(old, old)
BY DEF Kept, WithGen, Fresh

\* The locals change, the progress does not.
LEMMA KeptStays ==
  ASSUME NEW old \in RunRecord, NEW new \in RunRecord,
         new.pc = old.pc, new.conversation = old.conversation,
         new.gen = old.gen, new.target = old.target,
         new.iteration = old.iteration
  PROVE  Kept(old, new)
BY DEF Kept

\* A run with a generator goes on with it.
LEMMA KeptMoves ==
  ASSUME NEW old \in RunRecord, NEW new \in RunRecord,
         new.conversation = old.conversation, new.gen = old.gen,
         old.pc \in WithGen, new.pc \in WithGen,
         \/ new.pc \in Looping
         \/ new.iteration = 0
         \/ old.pc \in Fresh /\ new.iteration = old.iteration
  PROVE  Kept(old, new)
BY DEF Kept, Unbound, WithGen, Fresh, Looping, Preparing

LEMMA KeptTwice ==
  ASSUME NEW a, NEW b, NEW c, Kept(a, b), Kept(b, c)
  PROVE  Kept(a, c)
BY DEF Kept

LEMMA NewRunType == NewRun \in RunRecord
BY RunAssumption DEF NewRun, RunRecord, Stages, Kinds, Modes, Replies

LEMMA KeptEnded ==
  ASSUME NEW local \in RunRecord
  PROVE  Kept(local, Ended(local))
<1>1. "ended" \in Stages /\ local.conversation \in Conversations \cup {None}
  BY DEF Stages, RunRecord
<1>2. Ended(local) \in RunRecord
  BY <1>1, NewRunType DEF Ended, RunRecord
<1>3. /\ Ended(local).pc = "ended" /\ Ended(local).gen = None
      /\ Ended(local).conversation = local.conversation
  BY DEF Ended, NewRun
<1> QED
  BY <1>2, <1>3 DEF Kept, Unbound, WithGen, Fresh, Looping, Preparing

LEMMA KeptRunsSame ==
  ASSUME NEW runs \in [Runs -> RunRecord]
  PROVE  KeptRuns(runs, runs)
BY KeptSame DEF KeptRuns

LEMMA KeptReplace ==
  ASSUME NEW runs \in [Runs -> RunRecord], NEW r \in Runs, NEW rec,
         Kept(runs[r], rec)
  PROVE  KeptRuns(runs, [runs EXCEPT ![r] = rec])
<1>1. rec \in RunRecord
  BY DEF Kept
<1> QED
  BY <1>1, KeptSame DEF KeptRuns

LEMMA KeptRunsTwice ==
  ASSUME NEW a \in [Runs -> RunRecord], NEW b, NEW c, KeptRuns(a, b), KeptRuns(b, c)
  PROVE  KeptRuns(a, c)
BY KeptTwice DEF KeptRuns

LEMMA KeptReject ==
  ASSUME NEW runs \in [Runs -> RunRecord]
  PROVE  KeptRuns(runs, RejectAllPending(runs))
<1> DEFINE rejected(q) == [runs[q] EXCEPT !.reply = "aborted"]
<1>1. ASSUME NEW q \in Runs PROVE Kept(runs[q], rejected(q))
  <2>1. runs[q] \in RunRecord /\ "aborted" \in Replies
    BY DEF Replies
  <2>2. /\ rejected(q) \in RunRecord
        /\ rejected(q).pc = runs[q].pc
        /\ rejected(q).conversation = runs[q].conversation
        /\ rejected(q).gen = runs[q].gen
        /\ rejected(q).target = runs[q].target
        /\ rejected(q).iteration = runs[q].iteration
    BY <2>1 DEF RunRecord
  <2> HIDE DEF rejected
  <2> QED
    BY <2>1, <2>2, KeptStays
<1>2. \A q \in Runs : Kept(runs[q], runs[q])
  BY KeptSame
<1>3. RejectAllPending(runs)
        = [q \in Runs |-> IF q \in pending THEN rejected(q) ELSE runs[q]]
  BY DEF RejectAllPending
<1>4. \A q \in Runs : rejected(q) \in RunRecord
  BY <1>1 DEF Kept
<1> HIDE DEF rejected
<1> QED
  BY <1>1, <1>2, <1>3, <1>4 DEF KeptRuns

LEMMA RejectPc ==
  ASSUME NEW runs \in [Runs -> RunRecord], NEW r \in Runs
  PROVE  /\ RejectAllPending(runs)[r].pc = runs[r].pc
         /\ RejectAllPending(runs)[r].iteration = runs[r].iteration
BY DEF RejectAllPending, RunRecord

LEMMA KeptAbort ==
  ASSUME NEW runs \in [Runs -> RunRecord]
  PROVE  KeptRuns(runs, AbortHeld(runs))
<1> DEFINE told(q) == [runs[q] EXCEPT !.aborted = TRUE]
           hit(q)  == /\ generatorRef # None
                      /\ generator[generatorRef].ctrl = q
                      /\ runs[q].pc = "requesting"
<1>1. ASSUME NEW q \in Runs PROVE Kept(runs[q], told(q))
  <2>1. runs[q] \in RunRecord
    OBVIOUS
  <2>2. /\ told(q) \in RunRecord
        /\ told(q).pc = runs[q].pc
        /\ told(q).conversation = runs[q].conversation
        /\ told(q).gen = runs[q].gen
        /\ told(q).target = runs[q].target
        /\ told(q).iteration = runs[q].iteration
    BY <2>1 DEF RunRecord
  <2> HIDE DEF told
  <2> QED
    BY <2>1, <2>2, KeptStays
<1>2. \A q \in Runs : Kept(runs[q], runs[q])
  BY KeptSame
<1>3. AbortHeld(runs) = [q \in Runs |-> IF hit(q) THEN told(q) ELSE runs[q]]
  BY DEF AbortHeld
<1>4. \A q \in Runs : told(q) \in RunRecord
  BY <1>1 DEF Kept
<1> HIDE DEF told, hit
<1> QED
  BY <1>1, <1>2, <1>3, <1>4 DEF KeptRuns

\* An abort and the rejection of all dialogs, one after the other.
LEMMA KeptDropped ==
  ASSUME NEW runs \in [Runs -> RunRecord]
  PROVE  KeptRuns(runs, RejectAllPending(AbortHeld(runs)))
<1>1. KeptRuns(runs, AbortHeld(runs))
  BY KeptAbort
<1>2. KeptRuns(AbortHeld(runs), RejectAllPending(AbortHeld(runs)))
  BY <1>1, KeptReject DEF KeptRuns
<1> QED
  BY <1>1, <1>2, KeptRunsTwice

LEMMA KeptRequest ==
  ASSUME NEW runs \in [Runs -> RunRecord], NEW r \in Runs,
         runs[r].pc \in WithGen, runs[r].iteration < MaxIterations
  PROVE  KeptRuns(runs, RequestAI(r, runs))
<1> DEFINE rec == [runs[r] EXCEPT !.pc = "requesting",
                                  !.iteration = runs[r].iteration + 1,
                                  !.reply = "none", !.aborted = FALSE]
<1>1. runs[r].iteration + 1 \in 0..MaxIterations
  BY RunAssumption DEF RunRecord
<1>2. /\ "requesting" \in Stages /\ "none" \in Replies /\ runs[r] \in RunRecord
      /\ "requesting" \in WithGen /\ "requesting" \in Looping
  BY DEF Stages, Looping, Replies, WithGen
<1>3. rec \in RunRecord
  BY <1>1, <1>2 DEF RunRecord
<1>4. /\ rec.pc = "requesting" /\ rec.gen = runs[r].gen
      /\ rec.conversation = runs[r].conversation
  BY <1>2 DEF RunRecord
<1>5. RequestAI(r, runs) = [runs EXCEPT ![r] = rec]
  BY DEF RequestAI
<1> HIDE DEF rec
<1>6. Kept(runs[r], rec)
  BY <1>2, <1>3, <1>4, KeptMoves
<1> QED
  BY <1>5, <1>6, KeptReplace, ZenonT(60)

-----------------------------------------------------------------------------
(* Generators.                                                              *)

LEMMA WithoutControllerKept ==
  ASSUME TypeOK, generator' = WithoutController
  PROVE  KeptGenerators
<1>1. generator \in [Runs -> GeneratorRecord] /\ generatorRef \in Runs \cup {None}
  BY DEF TypeOK
<1> QED
  BY <1>1 DEF KeptGenerators, WithoutController, GeneratorRecord

LEMMA WithModeKept ==
  ASSUME TypeOK, NEW g \in Runs \cup {None}, NEW m \in Modes,
         generator' = [generator EXCEPT ![g].mode = m]
  PROVE  KeptGenerators
BY DEF TypeOK, KeptGenerators, GeneratorRecord

LEMMA WithControllerKept ==
  ASSUME TypeOK, NEW r \in Runs, generator' = WithController(r, generator)
  PROVE  KeptGenerators
BY DEF TypeOK, KeptGenerators, GeneratorRecord, WithController

LEMMA UnchangedKept ==
  ASSUME TypeOK, UNCHANGED generator
  PROVE  KeptGenerators
BY DEF TypeOK, KeptGenerators

-----------------------------------------------------------------------------
(* What keeps runs and generators, and makes isolated writes, preserves the *)
(* invariant.                                                               *)

LEMMA Preserved ==
  ASSUME IInv, KeptRuns(run, run'), KeptGenerators, KeptHook,
         RestType', Isolated(output')
  PROVE  IInv'
<1> USE DEF IInv
<1>1. TypeOK'
  BY DEF TypeOK, RestType, KeptRuns, KeptGenerators
<1>2. \A q \in Runs : Kept(run[q], run'[q])
  BY DEF KeptRuns
<1>3. FreshBudget'
  BY <1>2 DEF Kept, FreshBudget
<1>4. Unpublished'
  BY <1>2, RunAssumption DEF Kept, Unpublished, KeptHook, TypeOK
<1>5. EpochTarget'
  BY <1>2, RunAssumption DEF Kept, EpochTarget, KeptHook, TypeOK, Unbound
<1>6. GeneratorBinding'
  <2> SUFFICES ASSUME NEW r \in Runs, run'[r].pc \in WithGen
               PROVE  /\ run'[r].gen # None
                      /\ generator'[run'[r].gen].conversation = run'[r].conversation
    BY DEF GeneratorBinding, HasGenerator, WithGen, GeneratorConversation
  <2>1. /\ run[r].pc \in WithGen /\ run'[r].gen = run[r].gen
        /\ run'[r].conversation = run[r].conversation
    BY <1>2 DEF Kept
  <2>2. run[r].gen # None /\ generator[run[r].gen].conversation = run[r].conversation
    BY <2>1 DEF GeneratorBinding, HasGenerator, WithGen, GeneratorConversation
  <2>3. run[r].gen \in Runs
    BY <2>2 DEF TypeOK, RunRecord
  <2> QED
    BY <2>1, <2>2, <2>3 DEF KeptGenerators
<1>7. HeldGeneratorIsLocal'
  BY RunAssumption DEF HeldGeneratorIsLocal, KeptHook, KeptGenerators, TypeOK
<1>8. ConversationIsolation'
  <2>1. \A w \in output' : w.by \in Runs
    BY DEF RestType, Writes
  <2> QED
    BY <1>2, <2>1 DEF Kept, ConversationIsolation, Isolated
<1> QED
  BY <1>1, <1>3, <1>4, <1>5, <1>6, <1>7, <1>8

\* A callback of a bound generator writes into the conversation of its run.
LEMMA GuardedIsolated ==
  ASSUME IInv, NEW r \in Runs, run[r].pc \in WithGen,
         NEW what \in {"message", "file", "qa"}
  PROVE  GuardedWrite(r, what) \subseteq Writes /\ Isolated(GuardedWrite(r, what))
<1>1. GeneratorConversation(r) = run[r].conversation
  BY DEF IInv, GeneratorBinding, HasGenerator, WithGen
<1>2. activeId \in Conversations
  BY DEF IInv, TypeOK
<1> QED
  BY <1>1, <1>2
  DEF GuardedWrite, WriteActive, IsCurrentGeneratorRun, Isolated, Writes

\* So does a call that checked that its conversation is current.
LEMMA CurrentIsolated ==
  ASSUME TypeOK, NEW r \in Runs, IsCurrentGeneratorRun(run[r].conversation),
         NEW what \in {"message", "file", "qa"}
  PROVE  WriteActive(r, what) \subseteq Writes /\ Isolated(WriteActive(r, what))
BY DEF WriteActive, IsCurrentGeneratorRun, Isolated, Writes, TypeOK

\* Automatic QA prompts are not claimed to be isolated.
LEMMA QaIsolated ==
  ASSUME TypeOK, NEW r \in Runs
  PROVE  WriteActive(r, "qa") \subseteq Writes /\ Isolated(WriteActive(r, "qa"))
BY DEF WriteActive, Isolated, Writes, TypeOK

LEMMA NothingIsolated == {} \subseteq Writes /\ Isolated({})
BY DEF Isolated

-----------------------------------------------------------------------------
(* How a loop goes on or ends.                                              *)

LEMMA EndRunKept ==
  ASSUME TypeOK, NEW r \in Runs, EndRun(r)
  PROVE  KeptRuns(run, run') /\ OwnerType
<1>1. run' = [run EXCEPT ![r] = Ended(run[r])]
  BY DEF EndRun
<1>2. Kept(run[r], Ended(run[r]))
  BY KeptEnded DEF TypeOK
<1>3. KeptRuns(run, run')
  BY <1>1, <1>2, KeptReplace DEF TypeOK
<1>4. \/ isGenerating' = FALSE /\ runConversationId' = None
      \/ UNCHANGED ownerVars
  BY DEF EndRun
<1> QED
  BY <1>3, <1>4 DEF TypeOK, ownerVars, OwnerType

LEMMA LoopReturnsKept ==
  ASSUME TypeOK, NEW r \in Runs, run[r].pc \in WithGen,
         NEW clean \in BOOLEAN, LoopReturns(r, clean)
  PROVE  KeptRuns(run, run') /\ OwnerType
<1>1. CASE EndRun(r)
  BY <1>1, EndRunKept
<1>2. CASE ~EndRun(r)
  <2> DEFINE rec == [run[r] EXCEPT !.pc = "qaApplying", !.qaFor = runConversationId,
                                   !.iteration = 0, !.reply = "none"]
  <2>1. run' = [run EXCEPT ![r] = rec] /\ UNCHANGED ownerVars
    BY <1>2 DEF LoopReturns
  <2>2. /\ "qaApplying" \in Stages /\ "none" \in Replies /\ 0 \in 0..MaxIterations
        /\ run[r] \in RunRecord /\ runConversationId \in Conversations \cup {None}
        /\ "qaApplying" \in WithGen
    BY RunAssumption DEF Stages, Replies, TypeOK, WithGen
  <2>3. /\ rec \in RunRecord /\ rec.pc = "qaApplying" /\ rec.iteration = 0
        /\ rec.gen = run[r].gen /\ rec.conversation = run[r].conversation
    BY <2>2 DEF RunRecord
  <2> HIDE DEF rec
  <2>4. Kept(run[r], rec)
    BY <2>2, <2>3, KeptMoves
  <2> QED
    BY <2>1, <2>4, KeptReplace DEF ownerVars, TypeOK, OwnerType
<1> QED
  BY <1>1, <1>2

LEMMA NextIterationKept ==
  ASSUME TypeOK, NEW r \in Runs, run[r].pc \in WithGen, NextIteration(r)
  PROVE  KeptRuns(run, run') /\ OwnerType /\ KeptGenerators
<1>1. CASE run[r].iteration < MaxIterations
  BY <1>1, KeptRequest, WithControllerKept
  DEF NextIteration, TypeOK, ownerVars, OwnerType
<1>2. CASE ~(run[r].iteration < MaxIterations)
  BY <1>2, LoopReturnsKept, UnchangedKept DEF NextIteration
<1> QED
  BY <1>1, <1>2

\* A run moves to another stage and keeps or clears its reply and its abort.
LEMMA StageKept ==
  ASSUME TypeOK, NEW r \in Runs, run[r].pc \in WithGen,
         NEW rec \in RunRecord, rec.pc \in WithGen,
         rec.conversation = run[r].conversation, rec.gen = run[r].gen,
         \/ rec.pc \in Looping
         \/ run[r].pc \in Fresh /\ rec.iteration = run[r].iteration,
         run' = [run EXCEPT ![r] = rec]
  PROVE  KeptRuns(run, run')
BY KeptMoves, KeptReplace DEF TypeOK

-----------------------------------------------------------------------------
LEMMA InitIInv == Init => IInv
<1> SUFFICES ASSUME Init PROVE IInv
  OBVIOUS
<1>1. NoGenerator \in GeneratorRecord
  BY DEF NoGenerator, GeneratorRecord, Modes
<1>2. run \in [Runs -> RunRecord] /\ generator \in [Runs -> GeneratorRecord]
  BY <1>1, NewRunType DEF Init
<1>3. isGenerating \in BOOLEAN /\ planModeEnabled \in BOOLEAN
  BY DEF Init
<1>4. interventions \in 0..MaxInterventions /\ output \subseteq Writes
  BY RunAssumption DEF Init
<1>5. TypeOK
  BY <1>2, <1>3, <1>4 DEF Init, TypeOK
<1>6. \A r \in Runs : /\ run[r].pc = "idle" /\ run[r].iteration = 0
                      /\ run[r].gen = None
  BY DEF Init, NewRun
<1>7. FreshBudget /\ Unpublished /\ EpochTarget /\ GeneratorBinding
  BY <1>6, RunAssumption
  DEF FreshBudget, Unpublished, EpochTarget, GeneratorBinding, HasGenerator, Looping, Init
<1>8. HeldGeneratorIsLocal /\ ConversationIsolation
  BY DEF HeldGeneratorIsLocal, ConversationIsolation, Init
<1> QED
  BY <1>5, <1>7, <1>8 DEF IInv

-----------------------------------------------------------------------------
(* The user, the effect and the compression.                                *)

LEMMA InterveneRest ==
  ASSUME TypeOK, Intervene
  PROVE  /\ interventions' \in 0..MaxInterventions
         /\ output' \subseteq Writes /\ Isolated(output')
BY RunAssumption DEF Intervene, TypeOK, Isolated

LEMMA StartStep ==
  ASSUME IInv, NEW r \in Runs, NEW k \in Kinds, Start(r, k)
  PROVE  IInv'
<1> DEFINE rec == [run[r] EXCEPT !.pc = "resolving", !.kind = k,
                                 !.conversation = activeId, !.config = config]
<1> USE DEF IInv
<1>1. "resolving" \in Stages /\ run[r] \in RunRecord /\ run[r].pc = "idle"
  BY DEF Stages, Preparing, TypeOK, Start
<1>2. /\ rec \in RunRecord /\ rec.pc = "resolving" /\ rec.gen = run[r].gen
      /\ rec.iteration = run[r].iteration
  BY <1>1 DEF RunRecord, TypeOK
<1>3. run' = [run EXCEPT ![r] = rec]
  BY DEF Start
<1> HIDE DEF rec
<1>4. /\ run' \in [Runs -> RunRecord] /\ run'[r] = rec
      /\ \A q \in Runs \ {r} : run'[q] = run[q]
  BY <1>2, <1>3 DEF TypeOK
<1>5. TypeOK'
  BY <1>4 DEF Start, TypeOK, storeVars, hookVars
<1>6. FreshBudget'
  BY <1>1, <1>2, <1>4 DEF FreshBudget, Fresh
<1>7. Unpublished'
  BY <1>1, <1>2, <1>4 DEF Unpublished, Unbound, Start, hookVars
<1>8. EpochTarget'
  BY <1>2, <1>4 DEF EpochTarget, Start, hookVars
<1>9. GeneratorBinding'
  BY <1>2, <1>4
  DEF GeneratorBinding, HasGenerator, Looping, GeneratorConversation, Start
<1>10. HeldGeneratorIsLocal' /\ ConversationIsolation'
  BY DEF HeldGeneratorIsLocal, ConversationIsolation, Start, hookVars
<1> QED
  BY <1>5, <1>6, <1>7, <1>8, <1>9, <1>10

LEMMA AnswerStep ==
  ASSUME IInv, NEW r \in Runs, NEW reply \in Replies, Answer(r, reply)
  PROVE  IInv'
<1> DEFINE rec == IF reply = "approved"
                  THEN [run[r] EXCEPT !.reply = reply, !.approved = TRUE]
                  ELSE [run[r] EXCEPT !.reply = reply]
<1>0. TypeOK
  BY DEF IInv
<1>1. run[r] \in RunRecord
  BY <1>0 DEF TypeOK
<1>2. /\ rec \in RunRecord /\ rec.pc = run[r].pc /\ rec.gen = run[r].gen
      /\ rec.conversation = run[r].conversation
      /\ rec.target = run[r].target /\ rec.iteration = run[r].iteration
  BY <1>1 DEF RunRecord
<1>3. run' = [run EXCEPT ![r] = rec]
  BY DEF Answer
<1> HIDE DEF rec
<1>4. KeptRuns(run, run')
  BY <1>0, <1>1, <1>2, <1>3, KeptStays, KeptReplace DEF TypeOK
<1>5. RestType' /\ KeptHook /\ KeptGenerators /\ Isolated(output')
  BY <1>0, UnchangedKept
  DEF Answer, TypeOK, RestType, KeptHook, Isolated, storeVars, hookVars, ownerVars
<1> QED
  BY <1>4, <1>5, Preserved

LEMMA StopStep == IInv /\ Stop => IInv'
<1> SUFFICES ASSUME IInv, Stop PROVE IInv'
  OBVIOUS
<1> DEFINE stopped(q) == [run[q] EXCEPT !.stopped = TRUE]
           marked == [q \in Runs |-> IF Alive(q) THEN stopped(q) ELSE run[q]]
<1>0. TypeOK
  BY DEF IInv
<1>1. ASSUME NEW q \in Runs PROVE Kept(run[q], stopped(q)) /\ Kept(run[q], run[q])
  <2>1. run[q] \in RunRecord
    BY <1>0 DEF TypeOK
  <2>2. /\ stopped(q) \in RunRecord
        /\ stopped(q).pc = run[q].pc
        /\ stopped(q).conversation = run[q].conversation
        /\ stopped(q).gen = run[q].gen
        /\ stopped(q).target = run[q].target
        /\ stopped(q).iteration = run[q].iteration
    BY <2>1 DEF RunRecord
  <2> HIDE DEF stopped
  <2> QED
    BY <2>1, <2>2, KeptStays, KeptSame
<1>2. run' = RejectAllPending(AbortHeld(marked))
  BY DEF Stop
<1> HIDE DEF stopped
<1>3. KeptRuns(run, marked)
  BY <1>0, <1>1 DEF KeptRuns, Kept, TypeOK
<1> HIDE DEF marked
<1>4. KeptRuns(run, run')
  BY <1>0, <1>2, <1>3, KeptDropped, KeptRunsTwice DEF KeptRuns, TypeOK
<1>5. KeptGenerators
  BY <1>0, WithoutControllerKept DEF Stop
<1>6. RestType' /\ KeptHook /\ Isolated(output')
  BY <1>0, InterveneRest DEF Stop, TypeOK, RestType, KeptHook, storeVars, hookVars
<1> QED
  BY <1>4, <1>5, <1>6, Preserved

LEMMA DropKept ==
  ASSUME TypeOK, DropGenerator(run)
  PROVE  /\ KeptRuns(run, run') /\ KeptGenerators /\ KeptHook
         /\ generatorRef' = None /\ constructionEpoch' = None
         /\ runConversationId' = None /\ pending' = {}
BY KeptDropped, WithoutControllerKept DEF DropGenerator, TypeOK, KeptHook

LEMMA OtherUserSteps ==
  ASSUME IInv,
         \/ \E c \in Conversations : SwitchConversation(c)
         \/ InvalidateGenerator
         \/ ChangeSettings
         \/ StartCompression
  PROVE  IInv'
<1>0. TypeOK /\ KeptRuns(run, run)
  BY KeptRunsSame DEF IInv, TypeOK
<1>1. ASSUME NEW c \in Conversations, SwitchConversation(c) PROVE IInv'
  BY <1>0, <1>1, UnchangedKept, InterveneRest, Preserved
  DEF SwitchConversation, TypeOK, RestType, KeptHook, hookVars, ownerVars
<1>2. CASE InvalidateGenerator
  <2>1. RestType' /\ Isolated(output')
    BY <1>0, <1>2, DropKept, InterveneRest
    DEF InvalidateGenerator, TypeOK, RestType, storeVars
  <2> QED
    BY <1>0, <1>2, <2>1, DropKept, Preserved DEF InvalidateGenerator
<1>3. CASE ChangeSettings
  BY <1>0, <1>3, UnchangedKept, InterveneRest, Preserved
  DEF ChangeSettings, TypeOK, RestType, KeptHook, hookVars, ownerVars
<1>4. CASE StartCompression
  BY <1>0, <1>4, UnchangedKept, InterveneRest, Preserved
  DEF StartCompression, TypeOK, RestType, KeptHook, storeVars
<1> QED
  BY <1>1, <1>2, <1>3, <1>4

LEMMA BackgroundSteps ==
  ASSUME IInv, ConversationEffect \/ EndCompression
  PROVE  IInv'
<1>0. TypeOK /\ KeptRuns(run, run)
  BY KeptRunsSame DEF IInv, TypeOK
<1>1. CASE ConversationEffect
  <2>1. RestType' /\ Isolated(output')
    BY <1>0, <1>1, DropKept, NothingIsolated
    DEF ConversationEffect, TypeOK, RestType, storeVars
  <2> QED
    BY <1>0, <1>1, <2>1, DropKept, Preserved DEF ConversationEffect
<1>2. CASE EndCompression
  BY <1>0, <1>2, UnchangedKept, NothingIsolated, Preserved
  DEF EndCompression, TypeOK, RestType, KeptHook, storeVars
<1> QED
  BY <1>1, <1>2

-----------------------------------------------------------------------------
(* Preparing a run.                                                         *)

LEMMA ReuseStep ==
  ASSUME IInv, NEW r \in Runs, ReuseGenerator(r)
  PROVE  IInv'
<1> DEFINE rec == [run[r] EXCEPT !.pc = "syncing", !.gen = generatorRef]
<1>0. TypeOK /\ run[r] \in RunRecord /\ run[r].pc = "resolving"
  BY DEF IInv, TypeOK, ReuseGenerator
<1>1. KeptGenerators /\ KeptHook /\ RestType' /\ Isolated(output')
  BY <1>0, UnchangedKept, NothingIsolated
  DEF ReuseGenerator, TypeOK, RestType, KeptHook, storeVars, hookVars, ownerVars
<1>2. CASE run' = [run EXCEPT ![r] = Ended(run[r])]
  BY <1>0, <1>1, <1>2, KeptEnded, KeptReplace, Preserved DEF TypeOK
<1>3. CASE IsCurrentGeneratorRun(run[r].conversation) /\ run' = [run EXCEPT ![r] = rec]
  <2>1. "syncing" \in Stages /\ generatorRef \in Runs /\ generatorRef # None
    BY <1>0 DEF Stages, Preparing, ReuseGenerator, UsableGenerator, TypeOK
  <2>2. /\ rec \in RunRecord /\ rec.pc = "syncing" /\ rec.gen = generatorRef
        /\ rec.conversation = run[r].conversation /\ rec.iteration = run[r].iteration
    BY <1>0, <2>1 DEF RunRecord
  <2>3. run' = [run EXCEPT ![r] = rec]
    BY <1>3
  <2> HIDE DEF rec
  <2>4. /\ run' \in [Runs -> RunRecord] /\ run'[r] = rec
        /\ \A q \in Runs \ {r} : run'[q] = run[q]
    BY <1>0, <2>2, <2>3 DEF TypeOK
  <2>5. generator[generatorRef].conversation = run[r].conversation
    BY <1>3, <2>1
    DEF IInv, HeldGeneratorIsLocal, IsCurrentGeneratorRun, ReuseGenerator, UsableGenerator
  <2>6. UNCHANGED <<prevActiveId, generatorRef, constructionEpoch, generator>>
    BY DEF ReuseGenerator, hookVars
  <2>7. TypeOK'
    BY <1>0, <1>1, <2>4, <2>6 DEF TypeOK, RestType
  <2>8. FreshBudget'
    BY <1>0, <2>2, <2>4 DEF IInv, FreshBudget, Fresh, Preparing
  <2>9. Unpublished'
    BY <2>1, <2>2, <2>4, <2>6 DEF IInv, Unpublished, Unbound
  <2>10. EpochTarget'
    BY <2>2, <2>4, <2>6 DEF IInv, EpochTarget
  <2>11. GeneratorBinding'
    BY <2>1, <2>2, <2>4, <2>5, <2>6
    DEF IInv, GeneratorBinding, HasGenerator, Looping, GeneratorConversation
  <2>12. HeldGeneratorIsLocal' /\ ConversationIsolation'
    BY <2>6 DEF IInv, HeldGeneratorIsLocal, ConversationIsolation, ReuseGenerator
  <2> QED
    BY <2>7, <2>8, <2>9, <2>10, <2>11, <2>12 DEF IInv
<1> QED
  BY <1>2, <1>3 DEF ReuseGenerator

LEMMA ConstructStep ==
  ASSUME IInv, NEW r \in Runs, ConstructGenerator(r)
  PROVE  IInv'
<1> DEFINE rec == [run[r] EXCEPT !.pc = "constructing", !.target = activeId]
           started == [run EXCEPT ![r] = rec]
<1>0. TypeOK /\ run[r] \in RunRecord /\ run[r].pc = "resolving"
  BY DEF IInv, TypeOK, ConstructGenerator
<1>1. "constructing" \in Stages /\ activeId \in Conversations
  BY <1>0 DEF Stages, Preparing, TypeOK
<1>2. /\ rec \in RunRecord /\ rec.pc = "constructing" /\ rec.target = activeId
      /\ rec.gen = run[r].gen /\ rec.conversation = run[r].conversation
      /\ rec.iteration = run[r].iteration
  BY <1>0, <1>1 DEF RunRecord
<1>3. run' = AbortHeld(started) \/ run' = RejectAllPending(AbortHeld(started))
  BY DEF ConstructGenerator
<1> HIDE DEF rec
<1>4. /\ started \in [Runs -> RunRecord] /\ started[r] = rec
      /\ \A q \in Runs \ {r} : started[q] = run[q]
  BY <1>0, <1>2 DEF TypeOK
<1> HIDE DEF started
<1>5. KeptRuns(started, run')
  BY <1>3, <1>4, KeptAbort, KeptDropped
<1>6. \A q \in Runs : Kept(started[q], run'[q])
  BY <1>5 DEF KeptRuns
<1>7. KeptGenerators
  BY <1>0, WithoutControllerKept DEF ConstructGenerator
<1>8. /\ generatorRef' = None /\ constructionEpoch' = r /\ prevActiveId' = activeId
      /\ output' = {}
  BY DEF ConstructGenerator
<1>9. pending' \subseteq Runs /\ runConversationId' \in Conversations \cup {None}
  BY <1>0 DEF ConstructGenerator, TypeOK
<1>10. TypeOK'
  BY <1>0, <1>5, <1>7, <1>8, <1>9
  DEF ConstructGenerator, TypeOK, KeptRuns, KeptGenerators, storeVars
<1>11. FreshBudget'
  BY <1>0, <1>2, <1>4, <1>6 DEF IInv, FreshBudget, Fresh, Preparing, Kept
<1>12. Unpublished'
  <2>1. \A q \in Runs : started[q].pc \in Unbound => run[q].pc \in Unbound
    BY <1>0, <1>4 DEF Unbound
  <2>2. \A q \in Runs : started[q].gen = run[q].gen
    BY <1>2, <1>4
  <2> QED
    BY <1>6, <1>8, <2>1, <2>2, RunAssumption DEF IInv, Unpublished, Kept
<1>13. EpochTarget'
  BY <1>2, <1>4, <1>6, <1>8 DEF EpochTarget, Kept, Unbound
<1>14. GeneratorBinding'
  <2> SUFFICES ASSUME NEW q \in Runs, run'[q].pc \in WithGen
               PROVE  /\ run'[q].gen # None
                      /\ generator'[run'[q].gen].conversation = run'[q].conversation
    BY DEF GeneratorBinding, HasGenerator, WithGen, GeneratorConversation
  <2>1. /\ started[q].pc \in WithGen /\ run'[q].gen = started[q].gen
        /\ run'[q].conversation = started[q].conversation
    BY <1>6 DEF Kept
  <2>2. q # r
    BY <1>2, <1>4, <2>1 DEF WithGen, Looping
  <2>3. started[q] = run[q]
    BY <1>4, <2>2
  <2>4. run[q].gen # None /\ generator[run[q].gen].conversation = run[q].conversation
    BY <2>1, <2>3 DEF IInv, GeneratorBinding, HasGenerator, WithGen, GeneratorConversation
  <2>5. run[q].gen \in Runs
    BY <1>0, <2>4 DEF TypeOK, RunRecord
  <2> QED
    BY <1>7, <2>1, <2>3, <2>4, <2>5 DEF KeptGenerators
<1>15. HeldGeneratorIsLocal' /\ ConversationIsolation'
  BY <1>8 DEF HeldGeneratorIsLocal, ConversationIsolation
<1> QED
  BY <1>10, <1>11, <1>12, <1>13, <1>14, <1>15 DEF IInv

LEMMA PublishStep ==
  ASSUME IInv, NEW r \in Runs, PublishGenerator(r)
  PROVE  IInv'
<1> DEFINE published == IsGeneratorConstructionCurrent(r)
           current == IsCurrentGeneratorRun(run[r].conversation)
           onlyPrompt == current /\ ~published /\ run[r].kind = "generate"
           gen == [conversation |-> run[r].target, config |-> run[r].config,
                   mode |-> "chat", ctrl |-> None]
           rec == [run[r] EXCEPT !.pc = "syncing", !.gen = r]
           runs == IF onlyPrompt THEN RejectAllPending(run) ELSE run
<1>0. /\ TypeOK /\ run[r] \in RunRecord /\ run[r].pc = "constructing"
      /\ r # None /\ run \in [Runs -> RunRecord]
      /\ generator \in [Runs -> GeneratorRecord]
  BY RunAssumption DEF IInv, TypeOK, PublishGenerator
<1>1. /\ UNCHANGED <<activeId, planModeEnabled, config, prevActiveId,
                     constructionEpoch, compressing, interventions>>
      /\ output' = IF onlyPrompt THEN WriteActive(r, "message") ELSE {}
      /\ pending' = IF onlyPrompt THEN {} ELSE pending
  BY DEF PublishGenerator, storeVars
<1>2. /\ isGenerating' \in BOOLEAN
      /\ runConversationId' \in Conversations \cup {None}
  <2>1. \/ isGenerating' = FALSE /\ runConversationId' = None
        \/ UNCHANGED ownerVars
    BY DEF PublishGenerator
  <2> QED
    BY <1>0, <2>1 DEF TypeOK, ownerVars
<1>3. output' \subseteq Writes /\ Isolated(output')
  BY <1>0, <1>1, CurrentIsolated, NothingIsolated
<1>4. \/ published /\ generatorRef' = r /\ generator' = [generator EXCEPT ![r] = gen]
      \/ ~published /\ UNCHANGED <<generatorRef, generator>>
  BY DEF PublishGenerator
<1>5. gen \in GeneratorRecord
  BY <1>0 DEF GeneratorRecord, RunRecord, Modes
<1>6. /\ generator' \in [Runs -> GeneratorRecord]
      /\ \A g \in Runs \ {r} : generator'[g] = generator[g]
      /\ published => generator'[r].conversation = run[r].target
  BY <1>0, <1>4, <1>5
<1>7. generatorRef' \in Runs \cup {None}
  BY <1>0, <1>4 DEF TypeOK
<1>8. RestType'
  BY <1>0, <1>1, <1>2, <1>3, <1>7 DEF TypeOK, RestType
<1>9. published => run[r].target = activeId /\ activeId = prevActiveId
  BY <1>0 DEF IsGeneratorConstructionCurrent, IsCurrentGeneratorRun, IInv, EpochTarget
<1>10. "syncing" \in Stages
  BY DEF Stages, Preparing
<1>11. /\ rec \in RunRecord /\ rec.pc = "syncing" /\ rec.gen = r
       /\ rec.conversation = run[r].conversation /\ rec.iteration = run[r].iteration
  BY <1>0, <1>10 DEF RunRecord
<1>12. \/ current /\ published /\ run' = [run EXCEPT ![r] = rec]
       \/ run' = [runs EXCEPT ![r] = Ended(runs[r])]
  BY DEF PublishGenerator
\* Nobody has worked with r's generator yet.
<1>13. generatorRef # r /\ \A q \in Runs : run[q].gen # r
  BY <1>0 DEF IInv, Unpublished, Unbound
<1>14. HeldGeneratorIsLocal'
  BY <1>0, <1>1, <1>4, <1>6, <1>9, <1>13 DEF IInv, HeldGeneratorIsLocal, TypeOK
<1> HIDE DEF rec, gen, published, current
<1>15. CASE current /\ published /\ run' = [run EXCEPT ![r] = rec]
  <2>1. /\ run' \in [Runs -> RunRecord] /\ run'[r] = rec
        /\ \A q \in Runs \ {r} : run'[q] = run[q]
    BY <1>0, <1>11, <1>15
  <2>2. TypeOK'
    BY <1>6, <1>8, <2>1 DEF TypeOK, RestType
  <2>3. FreshBudget'
    BY <1>0, <1>11, <2>1 DEF IInv, FreshBudget, Fresh, Preparing
  <2>4. Unpublished'
    BY <1>4, <1>11, <1>15, <2>1 DEF IInv, Unpublished, Unbound
  <2>5. EpochTarget'
    BY <1>1, <1>11, <2>1 DEF IInv, EpochTarget
  <2>6. run[r].conversation = activeId
    BY <1>15 DEF current, IsCurrentGeneratorRun
  <2>7. GeneratorBinding'
    <3> SUFFICES ASSUME NEW q \in Runs, run'[q].pc \in WithGen
                 PROVE  /\ run'[q].gen # None
                        /\ generator'[run'[q].gen].conversation = run'[q].conversation
      BY DEF GeneratorBinding, HasGenerator, WithGen, GeneratorConversation
    <3>1. CASE q = r
      BY <1>0, <1>6, <1>9, <1>11, <1>15, <2>1, <2>6, <3>1
    <3>2. CASE q # r
      <4>1. run[q].gen # None /\ generator[run[q].gen].conversation = run[q].conversation
        BY <2>1, <3>2
        DEF IInv, GeneratorBinding, HasGenerator, WithGen, GeneratorConversation
      <4>2. run[q].gen \in Runs \ {r}
        BY <1>0, <1>13, <4>1 DEF RunRecord
      <4> QED
        BY <1>6, <2>1, <3>2, <4>1, <4>2
    <3> QED
      BY <3>1, <3>2
  <2>8. ConversationIsolation'
    BY <1>1, <1>15 DEF ConversationIsolation
  <2> QED
    BY <1>14, <2>2, <2>3, <2>4, <2>5, <2>7, <2>8 DEF IInv
<1>16. CASE run' = [runs EXCEPT ![r] = Ended(runs[r])]
  <2>1. KeptRuns(run, runs)
    BY <1>0, KeptReject, KeptRunsSame
  <2>2. runs \in [Runs -> RunRecord]
    BY <2>1 DEF KeptRuns
  <2> HIDE DEF runs
  <2>3. KeptRuns(runs, run')
    BY <1>16, <2>2, KeptEnded, KeptReplace
  <2>4. KeptRuns(run, run')
    BY <1>0, <2>1, <2>3, KeptRunsTwice
  <2>5. \A q \in Runs : Kept(run[q], run'[q])
    BY <2>4 DEF KeptRuns
  <2>6. run'[r].pc = "ended"
    BY <1>16, <2>2 DEF Ended, NewRun
  <2>7. TypeOK'
    BY <1>6, <1>8, <2>4 DEF TypeOK, RestType, KeptRuns
  <2>8. FreshBudget'
    BY <2>5 DEF IInv, FreshBudget, Kept
  <2>9. Unpublished'
    BY <1>4, <2>5, <2>6, RunAssumption DEF IInv, Unpublished, Kept, Unbound
  <2>10. EpochTarget'
    BY <1>1, <2>5 DEF IInv, EpochTarget, Kept, Unbound
  <2>11. GeneratorBinding'
    <3> SUFFICES ASSUME NEW q \in Runs, run'[q].pc \in WithGen
                 PROVE  /\ run'[q].gen # None
                        /\ generator'[run'[q].gen].conversation = run'[q].conversation
      BY DEF GeneratorBinding, HasGenerator, WithGen, GeneratorConversation
    <3>1. /\ run[q].pc \in WithGen /\ run'[q].gen = run[q].gen
          /\ run'[q].conversation = run[q].conversation
      BY <2>5 DEF Kept
    <3>2. run[q].gen # None /\ generator[run[q].gen].conversation = run[q].conversation
      BY <3>1 DEF IInv, GeneratorBinding, HasGenerator, WithGen, GeneratorConversation
    <3>3. run[q].gen \in Runs \ {r}
      BY <1>0, <1>13, <3>2 DEF RunRecord
    <3> QED
      BY <1>6, <3>1, <3>2, <3>3
  <2>12. ConversationIsolation'
    <3>1. \A w \in output' : w.by \in Runs
      BY <1>3 DEF Writes
    <3> QED
      BY <1>3, <2>5, <3>1 DEF Kept, ConversationIsolation, Isolated
  <2> QED
    BY <1>14, <2>7, <2>8, <2>9, <2>10, <2>11, <2>12 DEF IInv
<1> QED
  BY <1>12, <1>15, <1>16

\* The modes are set, the loop is entered, or the preparation fails.
LEMMA PreparationSteps ==
  ASSUME IInv, NEW r \in Runs,
         SyncMessages(r) \/ ApplyMode(r) \/ EnterLoop(r) \/ PreparationFails(r)
  PROVE  IInv'
<1>0. TypeOK /\ run[r] \in RunRecord /\ run \in [Runs -> RunRecord]
  BY DEF IInv, TypeOK
<1>1. CASE SyncMessages(r)
  <2> DEFINE mode == IF planModeEnabled THEN "plan" ELSE "chat"
             rec == [run[r] EXCEPT !.pc = "applying", !.mode = mode]
  <2>1. /\ "applying" \in Stages /\ mode \in Modes
        /\ "applying" \in WithGen /\ "syncing" \in WithGen /\ "syncing" \in Fresh
    BY DEF Stages, Preparing, Modes, WithGen, Fresh
  <2>2. run' = [run EXCEPT ![r] = rec] /\ run[r].pc = "syncing"
    BY <1>1 DEF SyncMessages
  <2> HIDE DEF mode
  <2>3. /\ rec \in RunRecord /\ rec.pc = "applying" /\ rec.gen = run[r].gen
        /\ rec.conversation = run[r].conversation /\ rec.iteration = run[r].iteration
    BY <1>0, <2>1 DEF RunRecord
  <2> HIDE DEF rec
  <2>4. KeptRuns(run, run')
    BY <1>0, <2>1, <2>2, <2>3, StageKept
  <2>5. KeptGenerators /\ KeptHook /\ RestType' /\ Isolated(output')
    BY <1>0, <1>1, UnchangedKept, NothingIsolated
    DEF SyncMessages, TypeOK, RestType, KeptHook, storeVars, hookVars, ownerVars
  <2> QED
    BY <2>4, <2>5, Preserved
<1>2. CASE ApplyMode(r)
  <2> DEFINE rec == [run[r] EXCEPT !.pc = "skills"]
  <2>1. /\ "skills" \in Stages /\ run[r].mode \in Modes /\ run[r].gen \in Runs \cup {None}
        /\ "skills" \in WithGen /\ "applying" \in WithGen /\ "applying" \in Fresh
    BY <1>0 DEF Stages, Preparing, WithGen, Fresh, RunRecord
  <2>2. run' = [run EXCEPT ![r] = rec] /\ run[r].pc = "applying"
    BY <1>2 DEF ApplyMode
  <2>3. /\ rec \in RunRecord /\ rec.pc = "skills" /\ rec.gen = run[r].gen
        /\ rec.conversation = run[r].conversation /\ rec.iteration = run[r].iteration
    BY <1>0, <2>1 DEF RunRecord
  <2> HIDE DEF rec
  <2>4. KeptRuns(run, run')
    BY <1>0, <2>1, <2>2, <2>3, StageKept
  <2>5. KeptGenerators
    BY <1>0, <1>2, <2>1, WithModeKept DEF ApplyMode
  <2>6. KeptHook /\ RestType' /\ Isolated(output')
    BY <1>0, <1>2, NothingIsolated
    DEF ApplyMode, TypeOK, RestType, KeptHook, storeVars, hookVars, ownerVars
  <2> QED
    BY <2>4, <2>5, <2>6, Preserved
<1>3. CASE EnterLoop(r)
  <2> DEFINE runs == IF run[r].kind = "generate" THEN RejectAllPending(run) ELSE run
  <2>0. /\ KeptHook
        /\ UNCHANGED <<prevActiveId, generatorRef, constructionEpoch>>
        /\ UNCHANGED <<activeId, planModeEnabled, config, isGenerating, compressing,
                       runConversationId, interventions>>
    BY <1>3 DEF EnterLoop, KeptHook, storeVars, hookVars, ownerVars
  <2>1. CASE IsCurrentGeneratorRun(run[r].conversation)
    <3>1. KeptRuns(run, runs)
      BY <1>0, KeptReject, KeptRunsSame
    <3>2. /\ run' = RequestAI(r, runs)
          /\ generator' = WithController(r, generator)
          /\ run[r].pc = "skills" /\ "skills" \in Fresh /\ "skills" \in WithGen
          /\ pending' = {} \/ pending' = pending
          /\ output' = {} \/ output' = WriteActive(r, "message")
      BY <1>3, <2>1 DEF EnterLoop, Fresh, Preparing, WithGen
    <3>3. run[r].iteration = 0 /\ 0 < MaxIterations
      BY <3>2, RunAssumption DEF IInv, FreshBudget
    <3>4. /\ runs[r].pc = run[r].pc /\ runs[r].iteration = run[r].iteration
      BY <1>0, RejectPc
    <3> HIDE DEF runs
    <3>5. KeptRuns(runs, run')
      BY <3>1, <3>2, <3>3, <3>4, KeptRequest DEF KeptRuns
    <3>6. KeptRuns(run, run')
      BY <1>0, <3>1, <3>5, KeptRunsTwice
    <3>7. output' \subseteq Writes /\ Isolated(output')
      BY <1>0, <2>1, <3>2, CurrentIsolated, NothingIsolated
    <3>8. KeptGenerators
      BY <1>0, <3>2, WithControllerKept
    <3>9. RestType'
      BY <1>0, <2>0, <3>2, <3>7 DEF TypeOK, RestType
    <3> QED
      BY <2>0, <3>6, <3>7, <3>8, <3>9, Preserved
  <2>2. CASE ~IsCurrentGeneratorRun(run[r].conversation)
    <3>1. /\ run' = [run EXCEPT ![r] = Ended(run[r])]
          /\ output' = {} /\ UNCHANGED <<pending, generator>>
      BY <1>3, <2>2 DEF EnterLoop
    <3>2. KeptRuns(run, run')
      BY <1>0, <3>1, KeptEnded, KeptReplace
    <3>3. RestType' /\ Isolated(output') /\ KeptGenerators
      BY <1>0, <2>0, <3>1, NothingIsolated, UnchangedKept DEF TypeOK, RestType
    <3> QED
      BY <2>0, <3>2, <3>3, Preserved
  <2> QED
    BY <2>1, <2>2
<1>4. CASE PreparationFails(r)
  <2>1. KeptRuns(run, run') /\ OwnerType
    BY <1>0, <1>4, EndRunKept DEF PreparationFails
  <2>2. output' \subseteq Writes /\ Isolated(output')
    BY <1>0, <1>4, CurrentIsolated, NothingIsolated DEF PreparationFails
  <2>3. RestType' /\ KeptHook /\ KeptGenerators
    BY <1>0, <1>4, <2>1, <2>2, UnchangedKept
    DEF PreparationFails, TypeOK, RestType, OwnerType, KeptHook, storeVars, hookVars
  <2> QED
    BY <2>1, <2>2, <2>3, Preserved
<1> QED
  BY <1>1, <1>2, <1>3, <1>4

-----------------------------------------------------------------------------
(* The loop.                                                                *)

LEMMA RequestSteps ==
  ASSUME IInv, NEW r \in Runs,
         StreamText(r) \/ RetryRequest(r) \/ RequestEnds(r) \/ RequestFails(r)
  PROVE  IInv'
<1>0. /\ TypeOK /\ run \in [Runs -> RunRecord]
      /\ run[r].pc = "requesting" /\ run[r].pc \in WithGen
  BY DEF IInv, TypeOK, StreamText, RetryRequest, RequestEnds, RequestFails, WithGen, Looping
<1>1. CASE StreamText(r)
  <2>1. output' \subseteq Writes /\ Isolated(output')
    BY <1>0, <1>1, GuardedIsolated DEF StreamText
  <2>2. RestType' /\ KeptHook /\ KeptGenerators /\ KeptRuns(run, run')
    BY <1>0, <1>1, <2>1, UnchangedKept, KeptRunsSame
    DEF StreamText, TypeOK, RestType, KeptHook, storeVars, hookVars, ownerVars
  <2> QED
    BY <2>1, <2>2, Preserved
<1>2. CASE RetryRequest(r)
  <2>1. output' \subseteq Writes /\ Isolated(output')
    BY <1>0, <1>2, GuardedIsolated DEF RetryRequest
  <2>2. RestType' /\ KeptHook /\ KeptRuns(run, run')
    BY <1>0, <1>2, <2>1, KeptRunsSame
    DEF RetryRequest, TypeOK, RestType, KeptHook, storeVars, hookVars, ownerVars
  <2> QED
    BY <1>0, <1>2, <2>1, <2>2, WithControllerKept, Preserved DEF RetryRequest
<1>3. CASE RequestEnds(r)
  <2>1. KeptRuns(run, run') /\ OwnerType
    BY <1>0, <1>3, LoopReturnsKept DEF RequestEnds
  <2>2. RestType' /\ KeptHook /\ KeptGenerators /\ Isolated(output')
    BY <1>0, <1>3, <2>1, UnchangedKept, NothingIsolated
    DEF RequestEnds, TypeOK, RestType, OwnerType, KeptHook, storeVars, hookVars
  <2> QED
    BY <2>1, <2>2, Preserved
<1>4. CASE RequestFails(r)
  <2>1. KeptRuns(run, run') /\ OwnerType
    BY <1>0, <1>4, EndRunKept DEF RequestFails
  <2>2. output' \subseteq Writes /\ Isolated(output')
    BY <1>0, <1>4, CurrentIsolated, QaIsolated, NothingIsolated DEF RequestFails
  <2>3. RestType' /\ KeptHook /\ KeptGenerators
    BY <1>0, <1>4, <2>1, <2>2, UnchangedKept
    DEF RequestFails, TypeOK, RestType, OwnerType, KeptHook, storeVars, hookVars
  <2> QED
    BY <2>1, <2>2, <2>3, Preserved
<1> QED
  BY <1>1, <1>2, <1>3, <1>4

LEMMA ToolSteps ==
  ASSUME IInv, NEW r \in Runs,
         CallTool(r) \/ \E writes \in BOOLEAN : ToolReturns(r, writes)
  PROVE  IInv'
<1>0. /\ TypeOK /\ run[r] \in RunRecord
      /\ run[r].pc \in WithGen
  BY DEF IInv, TypeOK, CallTool, ToolReturns, WithGen, Looping
<1>1. CASE CallTool(r)
  <2> DEFINE rec == [run[r] EXCEPT !.pc = "tool", !.aborted = FALSE]
  <2>1. "tool" \in Stages /\ "tool" \in Looping /\ "tool" \in WithGen
    BY DEF Stages, Looping, WithGen
  <2>2. /\ rec \in RunRecord /\ rec.pc = "tool" /\ rec.gen = run[r].gen
        /\ rec.conversation = run[r].conversation
    BY <1>0, <2>1 DEF RunRecord
  <2>3. run' = [run EXCEPT ![r] = rec]
    BY <1>1 DEF CallTool
  <2> HIDE DEF rec
  <2>4. KeptRuns(run, run')
    BY <1>0, <2>1, <2>2, <2>3, StageKept
  <2>5. output' \subseteq Writes /\ Isolated(output')
    BY <1>0, <1>1, GuardedIsolated DEF CallTool
  <2>6. RestType' /\ KeptHook /\ KeptGenerators
    BY <1>0, <1>1, <2>5, UnchangedKept
    DEF CallTool, TypeOK, RestType, KeptHook, storeVars, hookVars, ownerVars
  <2> QED
    BY <2>4, <2>5, <2>6, Preserved
<1>2. ASSUME NEW writes \in BOOLEAN, ToolReturns(r, writes) PROVE IInv'
  <2>1. KeptRuns(run, run') /\ OwnerType /\ KeptGenerators
    BY <1>0, <1>2, NextIterationKept DEF ToolReturns
  <2>2. /\ GuardedWrite(r, "message") \subseteq Writes /\ Isolated(GuardedWrite(r, "message"))
        /\ GuardedWrite(r, "file") \subseteq Writes /\ Isolated(GuardedWrite(r, "file"))
    BY <1>0, GuardedIsolated
  <2>3. output' \subseteq GuardedWrite(r, "message") \cup GuardedWrite(r, "file")
    BY <1>2 DEF ToolReturns
  <2>4. output' \subseteq Writes /\ Isolated(output')
    BY <2>2, <2>3 DEF Isolated
  <2>5. RestType' /\ KeptHook
    BY <1>0, <1>2, <2>1, <2>4
    DEF ToolReturns, TypeOK, RestType, OwnerType, KeptHook, storeVars, hookVars
  <2> QED
    BY <2>1, <2>4, <2>5, Preserved
<1> QED
  BY <1>1, <1>2

LEMMA AskStep ==
  ASSUME IInv, NEW r \in Runs, NEW stage \in {"asking", "planning"}, AskUser(r, stage)
  PROVE  IInv'
<1> DEFINE rec == [run[r] EXCEPT !.pc = stage, !.reply = "none", !.aborted = FALSE]
<1>0. TypeOK /\ run[r] \in RunRecord /\ run[r].pc \in WithGen
  BY DEF IInv, TypeOK, AskUser, WithGen, Looping
<1>1. output' \subseteq Writes /\ Isolated(output')
  BY <1>0, GuardedIsolated DEF AskUser
<1>2. KeptRuns(run, run') /\ OwnerType /\ pending' \subseteq Runs
  <2>1. CASE IsCurrentGeneratorRun(GeneratorConversation(r))
    <3>1. /\ stage \in Stages /\ stage \in Looping /\ stage \in WithGen
          /\ "none" \in Replies
      BY DEF Stages, Looping, WithGen, Replies
    <3>2. /\ rec \in RunRecord /\ rec.pc = stage /\ rec.gen = run[r].gen
          /\ rec.conversation = run[r].conversation
      BY <1>0, <3>1 DEF RunRecord
    <3>3. /\ run' = [run EXCEPT ![r] = rec]
          /\ pending' = pending \cup {r} /\ UNCHANGED ownerVars
      BY <2>1 DEF AskUser
    <3> HIDE DEF rec
    <3>4. KeptRuns(run, run')
      BY <1>0, <3>1, <3>2, <3>3, StageKept
    <3> QED
      BY <1>0, <3>3, <3>4 DEF TypeOK, OwnerType, ownerVars
  <2>2. CASE ~IsCurrentGeneratorRun(GeneratorConversation(r))
    BY <1>0, <2>2, LoopReturnsKept DEF AskUser, TypeOK
  <2> QED
    BY <2>1, <2>2
<1>3. RestType' /\ KeptHook /\ KeptGenerators
  BY <1>0, <1>1, <1>2, UnchangedKept
  DEF AskUser, TypeOK, RestType, OwnerType, KeptHook, storeVars, hookVars
<1> QED
  BY <1>1, <1>2, <1>3, Preserved

LEMMA DialogSteps ==
  ASSUME IInv, NEW r \in Runs,
         \/ DialogRejected(r) \/ DialogAnswered(r) \/ LeavePlanMode(r)
         \/ PlanRefreshed(r)
  PROVE  IInv'
<1>0. TypeOK /\ run[r] \in RunRecord /\ run[r].pc \in WithGen
  BY DEF IInv, TypeOK, DialogRejected, DialogAnswered, LeavePlanMode, PlanRefreshed,
         WithGen, Looping
<1>1. CASE DialogRejected(r)
  <2>1. KeptRuns(run, run') /\ OwnerType
    BY <1>0, <1>1, LoopReturnsKept DEF DialogRejected
  <2>2. RestType' /\ KeptHook /\ KeptGenerators /\ Isolated(output')
    BY <1>0, <1>1, <2>1, UnchangedKept, NothingIsolated
    DEF DialogRejected, TypeOK, RestType, OwnerType, KeptHook, storeVars, hookVars
  <2> QED
    BY <2>1, <2>2, Preserved
<1>2. CASE DialogAnswered(r) \/ PlanRefreshed(r)
  <2>1. KeptRuns(run, run') /\ OwnerType /\ KeptGenerators
    BY <1>0, <1>2, NextIterationKept DEF DialogAnswered, PlanRefreshed
  <2>2. output' \subseteq Writes /\ Isolated(output')
    BY <1>0, <1>2, GuardedIsolated DEF DialogAnswered, PlanRefreshed
  <2>3. RestType' /\ KeptHook
    BY <1>0, <1>2, <2>1, <2>2
    DEF DialogAnswered, PlanRefreshed, TypeOK, RestType, OwnerType, KeptHook,
        storeVars, hookVars
  <2> QED
    BY <2>1, <2>2, <2>3, Preserved
<1>3. CASE LeavePlanMode(r)
  <2> DEFINE rec == [run[r] EXCEPT !.pc = "approving", !.reply = "none"]
  <2>1. /\ "approving" \in Stages /\ "approving" \in Looping /\ "approving" \in WithGen
        /\ "none" \in Replies /\ "chat" \in Modes
    BY DEF Stages, Looping, WithGen, Replies, Modes
  <2>2. /\ rec \in RunRecord /\ rec.pc = "approving" /\ rec.gen = run[r].gen
        /\ rec.conversation = run[r].conversation
    BY <1>0, <2>1 DEF RunRecord
  <2>3. run' = [run EXCEPT ![r] = rec]
    BY <1>3 DEF LeavePlanMode
  <2> HIDE DEF rec
  <2>4. KeptRuns(run, run')
    BY <1>0, <2>1, <2>2, <2>3, StageKept
  <2>5. KeptGenerators
    <3>1. CASE generatorRef = None
      BY <1>0, <1>3, <3>1, UnchangedKept DEF LeavePlanMode
    <3>2. CASE generatorRef # None
      <4>1. generatorRef \in Runs \cup {None}
        BY <1>0 DEF TypeOK
      <4> QED
        BY <1>0, <1>3, <2>1, <3>2, <4>1, WithModeKept DEF LeavePlanMode
    <3> QED
      BY <3>1, <3>2
  <2>6. planModeEnabled' \in BOOLEAN
    <3>1. planModeEnabled' = FALSE
      BY <1>3 DEF LeavePlanMode
    <3> QED
      BY <3>1
  <2>7. RestType' /\ KeptHook /\ Isolated(output')
    BY <1>0, <1>3, <2>6, NothingIsolated
    DEF LeavePlanMode, TypeOK, RestType, KeptHook, hookVars, ownerVars
  <2> QED
    BY <2>4, <2>5, <2>7, Preserved
<1> QED
  BY <1>1, <1>2, <1>3

LEMMA QaStep ==
  ASSUME IInv, NEW r \in Runs, StartAutomaticQa(r)
  PROVE  IInv'
<1> DEFINE configured == [generator EXCEPT ![run[r].gen].mode = "auto_qa"]
<1>0. /\ TypeOK /\ run[r] \in RunRecord /\ run \in [Runs -> RunRecord]
      /\ run[r].pc = "qaApplying" /\ run[r].pc \in WithGen /\ run[r].pc \in Fresh
  BY DEF IInv, TypeOK, StartAutomaticQa, WithGen, Fresh
<1>1. /\ KeptHook
      /\ UNCHANGED <<prevActiveId, generatorRef, constructionEpoch>>
      /\ UNCHANGED <<activeId, planModeEnabled, config, compressing, interventions>>
  BY DEF StartAutomaticQa, KeptHook, storeVars, hookVars
<1>2. /\ configured \in [Runs -> GeneratorRecord]
      /\ \A g \in Runs : configured[g].conversation = generator[g].conversation
  BY <1>0 DEF TypeOK, GeneratorRecord, Modes
<1>3. CASE IsCurrentGeneratorRun(run[r].qaFor)
  <2>1. /\ run' = RequestAI(r, RejectAllPending(run))
        /\ generator' = WithController(r, configured)
        /\ pending' = {} /\ output' = WriteActive(r, "qa") /\ UNCHANGED ownerVars
    BY <1>3 DEF StartAutomaticQa
  <2> HIDE DEF configured
  <2>2. KeptGenerators
    BY <1>2, <2>1 DEF KeptGenerators, WithController, GeneratorRecord
  <2>3. run[r].iteration = 0 /\ 0 < MaxIterations
    BY <1>0, RunAssumption DEF IInv, FreshBudget
  <2>4. KeptRuns(run, RejectAllPending(run))
    BY <1>0, KeptReject
  <2>5. KeptRuns(RejectAllPending(run), run')
    BY <1>0, <2>1, <2>3, <2>4, RejectPc, KeptRequest DEF KeptRuns
  <2>6. KeptRuns(run, run')
    BY <1>0, <2>4, <2>5, KeptRunsTwice
  <2>7. output' \subseteq Writes /\ Isolated(output')
    BY <1>0, <2>1, QaIsolated
  <2>8. RestType'
    BY <1>0, <1>1, <2>1, <2>7 DEF TypeOK, RestType, ownerVars
  <2> QED
    BY <1>1, <2>2, <2>6, <2>7, <2>8, Preserved
<1>4. CASE ~IsCurrentGeneratorRun(run[r].qaFor)
  <2>1. EndRun(r) /\ generator' = configured /\ output' = {} /\ UNCHANGED pending
    BY <1>4 DEF StartAutomaticQa
  <2> HIDE DEF configured
  <2>2. KeptRuns(run, run') /\ OwnerType
    BY <1>0, <2>1, EndRunKept
  <2>3. RestType' /\ KeptGenerators /\ Isolated(output')
    BY <1>0, <1>1, <1>2, <2>1, <2>2, NothingIsolated
    DEF TypeOK, RestType, OwnerType, KeptGenerators
  <2> QED
    BY <1>1, <2>2, <2>3, Preserved
<1> QED
  BY <1>3, <1>4

-----------------------------------------------------------------------------
LEMMA NextIInv == IInv /\ [Next]_vars => IInv'
<1> SUFFICES ASSUME IInv, [Next]_vars PROVE IInv'
  OBVIOUS
<1>1. CASE UserStep
  BY <1>1, StartStep, AnswerStep, StopStep, OtherUserSteps DEF UserStep
<1>2. CASE ConversationEffect \/ EndCompression
  BY <1>2, BackgroundSteps
<1>3. ASSUME NEW r \in Runs, StreamText(r) \/ RetryRequest(r) PROVE IInv'
  BY <1>3, RequestSteps
<1>4. ASSUME NEW r \in Runs, RunStep(r) PROVE IInv'
  BY <1>4, ReuseStep, ConstructStep, PublishStep, PreparationSteps, RequestSteps,
     ToolSteps, AskStep, DialogSteps, QaStep
  DEF RunStep
<1>5. CASE UNCHANGED vars
  <2>1. TypeOK /\ KeptRuns(run, run) /\ Isolated(output)
    BY KeptRunsSame DEF IInv, TypeOK, Isolated, ConversationIsolation
  <2> QED
    BY <1>5, <2>1, UnchangedKept, Preserved
    DEF vars, storeVars, hookVars, ownerVars, KeptHook, TypeOK, RestType, Isolated
<1> QED
  BY <1>1, <1>2, <1>3, <1>4, <1>5 DEF Next

\* The strengthened invariant holds in every reachable state of the hook.
THEOREM Invariance == Spec => []IInv
BY InitIInv, NextIInv, PTL DEF Spec

\* Type correctness of the hook, its runs and its generators.
THEOREM TypeCorrect == Spec => []TypeOK
<1>1. IInv => TypeOK
  BY DEF IInv
<1> QED
  BY <1>1, Invariance, PTL

\* However runs overlap, events and file edits of a run reach only its own
\* conversation.
THEOREM WritesIsolated == Spec => []ConversationIsolation
<1>1. IInv => ConversationIsolation
  BY DEF IInv
<1> QED
  BY <1>1, Invariance, PTL

\* A run works with a generator that was built for its own conversation.
THEOREM GeneratorsBound == Spec => []GeneratorBinding
<1>1. IInv => GeneratorBinding
  BY DEF IInv
<1> QED
  BY <1>1, Invariance, PTL

\* The hook holds no generator of a conversation other than the one it saw last.
THEOREM HeldGeneratorLocal == Spec => []HeldGeneratorIsLocal
<1>1. IInv => HeldGeneratorIsLocal
  BY DEF IInv
<1> QED
  BY <1>1, Invariance, PTL

\* Both at once, as the runs check them.
THEOREM GeneratorsStayLocal == Spec => []GeneratorsAreLocal
<1>1. GeneratorBinding /\ HeldGeneratorIsLocal => GeneratorsAreLocal
  BY DEF GeneratorsAreLocal
<1> QED
  BY <1>1, GeneratorsBound, HeldGeneratorLocal, PTL

-----------------------------------------------------------------------------
(* Dialogs, idleness, Automatic QA and the plan barrier.                    *)

\* A run owns the conversation the effect saw last, or none does; a dialog on
\* screen waits for its answer and belongs there too.
DialogsSound ==
  /\ runConversationId \in {None, prevActiveId}
  /\ \A r \in pending :
       /\ run[r].pc \in {"asking", "planning"}
       /\ run[r].reply = "none"
       /\ run[r].conversation = prevActiveId
  /\ \A r \in Runs : run[r].reply = "approved" => run[r].approved

\* The stages in which a generator has taken the mode of its run.
Late == {"skills"} \cup Looping

Barred(r) ==
  run[r].pc \in Late /\ run[r].mode = "plan" /\ run[r].qaFor = None /\ ~run[r].approved
    => generator[run[r].gen].mode = "plan"

\* With users who let a run end before they start the next: no two runs are
\* alive, the one that is works where the hook thinks it does, and Automatic
\* QA keeps its conversation.
OneRun ==
  /\ \A q, r \in Runs : Alive(q) /\ Alive(r) => q = r
  /\ \A r \in Runs : /\ Alive(r) => runConversationId \in {None, run[r].conversation}
                     /\ run[r].qaFor \in {None, run[r].conversation}
                     /\ run[r].pc = "idle" => run[r].qaFor = None

\* Whoever drops isGenerating has nothing left; a compression, which drops it
\* when it ends, starts with nothing.
Rests == ~isGenerating \/ compressing # None => runConversationId = None /\ pending = {}

Patience == OneRun /\ Rests /\ QaPromptIsolation /\ \A r \in Runs : Barred(r)

UserInv == DialogsSound /\ (~AllowOverlap => Patience)

-----------------------------------------------------------------------------
(* What one step does to the runs, the dialogs and the modes.               *)

\* What a step does to the runs it is not a step of.
Same(old, new) ==
  /\ new \in RunRecord
  /\ new.pc = old.pc /\ new.conversation = old.conversation /\ new.gen = old.gen
  /\ new.mode = old.mode /\ new.qaFor = old.qaFor
  /\ old.approved => new.approved
  /\ new.reply \in {old.reply, "aborted"}

Others(S) ==
  \A q \in S : Same(run[q], run'[q]) /\ (pending' = {} \/ run'[q].reply = run[q].reply)

\* What a step does to its own run.
Own(r) ==
  /\ Alive(r) /\ run'[r].pc # "idle"
  /\ run'[r].conversation = run[r].conversation
  /\ run'[r].qaFor \in {run[r].qaFor, None, runConversationId}
  /\ run'[r].reply = "approved" => run'[r].approved
  /\ Barred(r) => Barred(r)'

\* Most runs go on in the mode they have, or end.
Goes(old, new) ==
  /\ new.pc # "idle" /\ new.conversation = old.conversation
  /\ new.qaFor \in {old.qaFor, None, runConversationId}
  /\ new.reply = "approved" => new.approved
  /\ new.pc \in Late => /\ old.pc \in Late /\ new.gen = old.gen /\ new.mode = old.mode
                        /\ new.qaFor = old.qaFor /\ (old.approved => new.approved)

ModesKept == \A g \in Runs : generator'[g].mode = generator[g].mode

\* A step of a run releases the conversation or leaves it alone, and puts no
\* dialog on screen but its own.
Owned(r) ==
  /\ compressing' = compressing
  /\ \/ UNCHANGED <<runConversationId, isGenerating, prevActiveId>>
     \/ runConversationId' = None /\ UNCHANGED prevActiveId
     \/ runConversationId' = None /\ pending' = {}
  /\ \/ pending' \subseteq pending \ {r}
     \/ /\ pending' = pending \cup {r} /\ UNCHANGED ownerVars
        /\ run'[r].pc \in {"asking", "planning"} /\ run'[r].reply = "none"
        /\ runConversationId # None /\ run[r].conversation = runConversationId

\* It writes a prompt of Automatic QA where its loop belongs, and files only
\* with the tools its generator admits.
Rightful(r, writes) ==
  \A w \in writes : /\ w.by = r
                    /\ w.what = "qa" => w.into = run[r].qaFor /\ w.into # None
                    /\ w.what = "file" => run[r].pc = "tool" /\ generator[run[r].gen].mode # "plan"
Wrote(r) == Rightful(r, output')

Acts(r) == Others(Runs \ {r}) /\ Own(r) /\ Owned(r) /\ Wrote(r)

LEMMA SameSelf ==
  ASSUME NEW old \in RunRecord
  PROVE  Same(old, old)
BY DEF Same

LEMMA SameTwice ==
  ASSUME NEW a, NEW b, NEW c, Same(a, b), Same(b, c)
  PROVE  Same(a, c)
BY DEF Same

LEMMA SameReject ==
  ASSUME NEW runs \in [Runs -> RunRecord], NEW q \in Runs
  PROVE  Same(runs[q], RejectAllPending(runs)[q])
<1> DEFINE rec == [runs[q] EXCEPT !.reply = "aborted"]
<1>1. runs[q] \in RunRecord /\ "aborted" \in Replies
  BY DEF Replies
<1>2. Same(runs[q], rec)
  BY <1>1 DEF Same, RunRecord
<1>3. RejectAllPending(runs)[q] = IF q \in pending THEN rec ELSE runs[q]
  BY DEF RejectAllPending
<1> HIDE DEF rec
<1> QED
  BY <1>1, <1>2, <1>3, SameSelf

LEMMA SameAbort ==
  ASSUME NEW runs \in [Runs -> RunRecord], NEW q \in Runs
  PROVE  Same(runs[q], AbortHeld(runs)[q]) /\ AbortHeld(runs)[q].reply = runs[q].reply
<1> DEFINE rec == [runs[q] EXCEPT !.aborted = TRUE]
           hit == /\ generatorRef # None
                  /\ generator[generatorRef].ctrl = q
                  /\ runs[q].pc = "requesting"
<1>1. runs[q] \in RunRecord
  OBVIOUS
<1>2. Same(runs[q], rec) /\ rec.reply = runs[q].reply
  BY <1>1 DEF Same, RunRecord
<1>3. AbortHeld(runs)[q] = IF hit THEN rec ELSE runs[q]
  BY DEF AbortHeld
<1> HIDE DEF rec, hit
<1> QED
  BY <1>1, <1>2, <1>3, SameSelf

LEMMA SameDropped ==
  ASSUME NEW runs \in [Runs -> RunRecord], NEW q \in Runs
  PROVE  Same(runs[q], RejectAllPending(AbortHeld(runs))[q])
<1>1. AbortHeld(runs) \in [Runs -> RunRecord]
  BY KeptAbort DEF KeptRuns
<1>2. Same(runs[q], AbortHeld(runs)[q])
  BY SameAbort
<1>3. Same(AbortHeld(runs)[q], RejectAllPending(AbortHeld(runs))[q])
  BY <1>1, SameReject
<1> QED
  BY <1>2, <1>3, SameTwice

LEMMA OthersReplaced ==
  ASSUME TypeOK, NEW r \in Runs, NEW rec, run' = [run EXCEPT ![r] = rec]
  PROVE  Others(Runs \ {r}) /\ run'[r] = rec
<1>1. run \in [Runs -> RunRecord]
  BY DEF TypeOK
<1>2. \A q \in Runs \ {r} : run'[q] = run[q] /\ run[q] \in RunRecord
  BY <1>1
<1>3. run'[r] = rec
  BY <1>1
<1> QED
  BY <1>2, <1>3, SameSelf DEF Others

LEMMA OthersSame ==
  ASSUME TypeOK, UNCHANGED run
  PROVE  Others(Runs)
<1>1. \A q \in Runs : run'[q] = run[q] /\ run[q] \in RunRecord
  BY DEF TypeOK
<1> QED
  BY <1>1, SameSelf DEF Others

LEMMA GoesOwn ==
  ASSUME NEW r \in Runs, Alive(r), Goes(run[r], run'[r]),
         run[r].gen \in Runs \/ run'[r].pc \notin Late, ModesKept
  PROVE  Own(r)
<1>1. Barred(r) => Barred(r)'
  <2> SUFFICES ASSUME Barred(r), run'[r].pc \in Late, run'[r].mode = "plan",
                      run'[r].qaFor = None, ~run'[r].approved
               PROVE  generator'[run'[r].gen].mode = "plan"
    BY DEF Barred
  <2>1. /\ run[r].pc \in Late /\ run'[r].gen = run[r].gen /\ run[r].mode = "plan"
        /\ run[r].qaFor = None /\ ~run[r].approved
    BY DEF Goes
  <2>2. generator[run[r].gen].mode = "plan"
    BY <2>1 DEF Barred
  <2> QED
    BY <2>1, <2>2 DEF ModesKept
<1> QED
  BY <1>1 DEF Own, Goes

LEMMA EndedIs ==
  ASSUME NEW local \in RunRecord
  PROVE  /\ Ended(local).pc = "ended" /\ Ended(local).conversation = local.conversation
         /\ Ended(local).qaFor = None /\ Ended(local).reply = "none"
         /\ Goes(local, Ended(local))
<1>1. /\ Ended(local).pc = "ended" /\ Ended(local).conversation = local.conversation
      /\ Ended(local).qaFor = None /\ Ended(local).reply = "none"
  BY DEF Ended, NewRun
<1>2. "ended" \notin Late
  BY DEF Late, Looping
<1> QED
  BY <1>1, <1>2 DEF Goes

LEMMA UnchangedModes ==
  ASSUME UNCHANGED generator
  PROVE  ModesKept
BY DEF ModesKept

LEMMA ControllerModes ==
  ASSUME TypeOK, NEW r \in Runs, generator' = WithController(r, generator)
  PROVE  ModesKept
BY DEF TypeOK, ModesKept, WithController, GeneratorRecord

LEMMA WithoutControllerModes ==
  ASSUME TypeOK, generator' = WithoutController
  PROVE  ModesKept
BY DEF TypeOK, ModesKept, WithoutController, GeneratorRecord

LEMMA RightfulWrites ==
  ASSUME NEW r \in Runs
  PROVE  /\ Rightful(r, {})
         /\ Rightful(r, WriteActive(r, "message"))
         /\ Rightful(r, GuardedWrite(r, "message"))
         /\ IsCurrentGeneratorRun(run[r].qaFor) => Rightful(r, WriteActive(r, "qa"))
         /\ run[r].pc = "tool" /\ generator[run[r].gen].mode # "plan"
              => Rightful(r, GuardedWrite(r, "file"))
<1>1. Rightful(r, {})
  BY DEF Rightful
<1>2. \A what : \A w \in WriteActive(r, what) : w.by = r /\ w.what = what /\ w.into = activeId
  BY DEF WriteActive
<1>3. Rightful(r, WriteActive(r, "message"))
  BY <1>2 DEF Rightful
<1>4. Rightful(r, GuardedWrite(r, "message"))
  BY <1>1, <1>3 DEF GuardedWrite
<1>5. ASSUME IsCurrentGeneratorRun(run[r].qaFor) PROVE Rightful(r, WriteActive(r, "qa"))
  BY <1>2, <1>5 DEF Rightful, IsCurrentGeneratorRun
<1>6. ASSUME run[r].pc = "tool", generator[run[r].gen].mode # "plan"
      PROVE  Rightful(r, GuardedWrite(r, "file"))
  <2>1. Rightful(r, WriteActive(r, "file"))
    BY <1>2, <1>6 DEF Rightful
  <2> QED
    BY <1>1, <2>1 DEF GuardedWrite
<1> QED
  BY <1>1, <1>3, <1>4, <1>5, <1>6

LEMMA NotPending ==
  ASSUME DialogsSound, NEW r \in Runs,
         run[r].pc \notin {"asking", "planning"} \/ run[r].reply # "none"
  PROVE  r \notin pending
BY DEF DialogsSound

\* A run in its loop has a generator.
LEMMA LateHasGenerator ==
  ASSUME IInv, NEW r \in Runs, run[r].pc \in Late
  PROVE  Alive(r) /\ run[r].gen \in Runs /\ GeneratorConversation(r) = run[r].conversation
<1>1. HasGenerator(r) /\ Alive(r)
  BY DEF Late, Looping, HasGenerator, Alive
<1>2. run[r] \in RunRecord
  BY DEF IInv, TypeOK
<1> QED
  BY <1>1, <1>2 DEF IInv, GeneratorBinding, RunRecord

\* Nothing but the record of the run changes, and the modes do not.
LEMMA Quietly ==
  ASSUME IInv, DialogsSound, NEW r \in Runs, Alive(r), NEW rec,
         run' = [run EXCEPT ![r] = rec], Goes(run[r], rec), ModesKept,
         pending' = pending, r \notin pending,
         UNCHANGED <<compressing, prevActiveId, ownerVars>>, Wrote(r)
  PROVE  Acts(r)
<1>1. Others(Runs \ {r}) /\ run'[r] = rec
  BY OthersReplaced DEF IInv
<1>2. run[r].gen \in Runs \/ run'[r].pc \notin Late
  BY <1>1, LateHasGenerator DEF Goes
<1>3. Goes(run[r], run'[r])
  BY <1>1
<1>4. Own(r)
  BY <1>2, <1>3, GoesOwn
<1>5. Owned(r)
  BY DEF Owned, ownerVars
<1> QED
  BY <1>1, <1>4, <1>5 DEF Acts

LEMMA EndRunActs ==
  ASSUME IInv, DialogsSound, NEW r \in Runs, Alive(r), r \notin pending,
         EndRun(r), pending' = pending, UNCHANGED <<compressing, prevActiveId>>,
         Wrote(r)
  PROVE  Acts(r)
<1>1. run[r] \in RunRecord
  BY DEF IInv, TypeOK
<1>2. run' = [run EXCEPT ![r] = Ended(run[r])]
  BY DEF EndRun
<1>3. Others(Runs \ {r}) /\ run'[r] = Ended(run[r])
  BY <1>2, OthersReplaced DEF IInv
<1>4. Own(r)
  <2>1. run'[r].pc = "ended" /\ run'[r].conversation = run[r].conversation
        /\ run'[r].qaFor = None /\ run'[r].reply = "none"
    BY <1>1, <1>3, EndedIs
  <2>2. Barred(r)'
    BY <2>1 DEF Barred, Late, Looping
  <2> QED
    BY <2>1, <2>2 DEF Own
<1>5. Owned(r)
  BY DEF Owned, EndRun, ownerVars
<1> QED
  BY <1>3, <1>4, <1>5 DEF Acts

LEMMA LoopReturnsActs ==
  ASSUME IInv, DialogsSound, NEW r \in Runs, Alive(r), r \notin pending,
         NEW clean \in BOOLEAN, LoopReturns(r, clean),
         pending' = pending, UNCHANGED <<compressing, prevActiveId>>,
         ModesKept, Wrote(r)
  PROVE  Acts(r)
<1>1. CASE EndRun(r)
  BY <1>1, EndRunActs
<1>2. CASE ~EndRun(r)
  <2> DEFINE rec == [run[r] EXCEPT !.pc = "qaApplying", !.qaFor = runConversationId,
                                   !.iteration = 0, !.reply = "none"]
  <2>1. run' = [run EXCEPT ![r] = rec] /\ UNCHANGED ownerVars
    BY <1>2 DEF LoopReturns
  <2>2. run[r] \in RunRecord
    BY DEF IInv, TypeOK
  <2>3. /\ rec.pc = "qaApplying" /\ rec.qaFor = runConversationId
        /\ rec.conversation = run[r].conversation /\ rec.reply = "none"
    BY <2>2 DEF RunRecord
  <2>4. Goes(run[r], rec)
    BY <2>3 DEF Goes, Late, Looping
  <2> HIDE DEF rec
  <2> QED
    BY <2>1, <2>4, Quietly
<1> QED
  BY <1>1, <1>2

LEMMA RequestIs ==
  ASSUME NEW old \in RunRecord, NEW n
  PROVE  LET new == [old EXCEPT !.pc = "requesting", !.iteration = n,
                                !.reply = "none", !.aborted = FALSE]
         IN  /\ new.pc = "requesting" /\ new.conversation = old.conversation
             /\ new.qaFor = old.qaFor /\ new.reply = "none" /\ new.gen = old.gen
             /\ new.mode = old.mode /\ new.approved = old.approved
BY DEF RunRecord

LEMMA RequestGoes ==
  ASSUME NEW r \in Runs, run[r] \in RunRecord, run[r].pc \in Late, NEW n
  PROVE  Goes(run[r], [run[r] EXCEPT !.pc = "requesting", !.iteration = n,
                                     !.reply = "none", !.aborted = FALSE])
<1> DEFINE rec == [run[r] EXCEPT !.pc = "requesting", !.iteration = n,
                                 !.reply = "none", !.aborted = FALSE]
<1>1. /\ rec.pc = "requesting" /\ rec.conversation = run[r].conversation
      /\ rec.qaFor = run[r].qaFor /\ rec.reply = "none" /\ rec.gen = run[r].gen
      /\ rec.mode = run[r].mode /\ rec.approved = run[r].approved
  BY RequestIs
<1> HIDE DEF rec
<1>2. Goes(run[r], rec)
  BY <1>1 DEF Goes
<1> QED
  BY <1>2 DEF rec

LEMMA NextIterationActs ==
  ASSUME IInv, DialogsSound, NEW r \in Runs, run[r].pc \in Late, r \notin pending,
         NextIteration(r), pending' = pending, UNCHANGED <<compressing, prevActiveId>>,
         Wrote(r)
  PROVE  Acts(r)
<1>1. Alive(r) /\ run[r] \in RunRecord
  BY LateHasGenerator DEF IInv, TypeOK
<1>2. CASE run[r].iteration < MaxIterations
  <2> DEFINE rec == [run[r] EXCEPT !.pc = "requesting", !.iteration = run[r].iteration + 1,
                                   !.reply = "none", !.aborted = FALSE]
  <2>1. /\ run' = [run EXCEPT ![r] = rec] /\ generator' = WithController(r, generator)
        /\ UNCHANGED ownerVars
    BY <1>2 DEF NextIteration, RequestAI
  <2>2. Goes(run[r], rec)
    BY <1>1, RequestGoes
  <2>3. ModesKept
    BY <2>1, ControllerModes DEF IInv
  <2> HIDE DEF rec
  <2> QED
    BY <1>1, <2>1, <2>2, <2>3, Quietly
<1>3. CASE ~(run[r].iteration < MaxIterations)
  <2>1. LoopReturns(r, FALSE) /\ UNCHANGED generator
    BY <1>3 DEF NextIteration
  <2>2. ModesKept /\ FALSE \in BOOLEAN
    BY <2>1, UnchangedModes
  <2> QED
    BY <1>1, <2>1, <2>2, LoopReturnsActs
<1> QED
  BY <1>2, <1>3

-----------------------------------------------------------------------------
(* The steps of a run.                                                      *)

LEMMA EarlyGoes ==
  ASSUME DialogsSound, NEW r \in Runs, NEW rec, rec.pc \notin Late \cup {"idle"},
         rec.conversation = run[r].conversation, rec.qaFor = run[r].qaFor,
         rec.reply = run[r].reply, rec.approved = run[r].approved
  PROVE  Goes(run[r], rec)
<1>1. rec.reply = "approved" => rec.approved
  BY DEF DialogsSound
<1> QED
  BY <1>1 DEF Goes

LEMMA ReuseActs ==
  ASSUME IInv, DialogsSound, NEW r \in Runs, ReuseGenerator(r)
  PROVE  Acts(r)
<1>1. /\ run[r].pc = "resolving" /\ output' = {} /\ UNCHANGED generator
      /\ UNCHANGED <<compressing, prevActiveId, ownerVars, pending>>
  BY DEF ReuseGenerator, hookVars, ownerVars
<1>2. Alive(r) /\ r \notin pending /\ run[r] \in RunRecord
  BY <1>1, NotPending DEF Alive, IInv, TypeOK
<1>3. ModesKept /\ Wrote(r)
  BY <1>1, UnchangedModes, RightfulWrites DEF Wrote
<1> DEFINE rec == IF IsCurrentGeneratorRun(run[r].conversation)
                  THEN [run[r] EXCEPT !.pc = "syncing", !.gen = generatorRef]
                  ELSE Ended(run[r])
<1>4. run' = [run EXCEPT ![r] = rec]
  BY DEF ReuseGenerator
<1>5. Goes(run[r], rec)
  <2>1. CASE IsCurrentGeneratorRun(run[r].conversation)
    <3>1. /\ rec.pc = "syncing" /\ rec.conversation = run[r].conversation
          /\ rec.qaFor = run[r].qaFor /\ rec.reply = run[r].reply
          /\ rec.approved = run[r].approved
      BY <1>2, <2>1 DEF RunRecord
    <3>2. rec.pc \notin Late \cup {"idle"}
      BY <3>1 DEF Late, Looping
    <3> HIDE DEF rec
    <3> QED
      BY <3>1, <3>2, EarlyGoes
  <2>2. CASE ~IsCurrentGeneratorRun(run[r].conversation)
    BY <1>2, <2>2, EndedIs
  <2> QED
    BY <2>1, <2>2
<1> HIDE DEF rec
<1> QED
  BY <1>1, <1>2, <1>3, <1>4, <1>5, Quietly

LEMMA ConstructActs ==
  ASSUME IInv, DialogsSound, NEW r \in Runs, ConstructGenerator(r)
  PROVE  Acts(r)
<1> DEFINE rec  == [run[r] EXCEPT !.pc = "constructing", !.target = activeId]
           own  == [run EXCEPT ![r] = rec]
           runs == AbortHeld(own)
<1>1. /\ run[r].pc = "resolving" /\ output' = {} /\ UNCHANGED compressing
      /\ generator' = WithoutController
      /\ IF prevActiveId # activeId
         THEN runConversationId' = None /\ run' = RejectAllPending(runs) /\ pending' = {}
         ELSE run' = runs /\ UNCHANGED <<runConversationId, pending>>
      /\ prevActiveId' = activeId /\ UNCHANGED isGenerating
  BY DEF ConstructGenerator
<1>2. Alive(r) /\ r \notin pending /\ run \in [Runs -> RunRecord] /\ activeId \in Conversations
  BY <1>1, NotPending DEF Alive, IInv, TypeOK
<1>3. ModesKept /\ Wrote(r)
  BY <1>1, WithoutControllerModes, RightfulWrites DEF Wrote, IInv
<1>4. run[r] \in RunRecord
  BY <1>2
<1>5. /\ rec \in RunRecord /\ rec.pc = "constructing"
      /\ rec.conversation = run[r].conversation /\ rec.qaFor = run[r].qaFor
      /\ rec.reply = run[r].reply /\ rec.approved = run[r].approved
  <2>1. "constructing" \in Stages
    BY DEF Stages, Preparing
  <2> QED
    BY <1>2, <1>4, <2>1 DEF RunRecord
<1> HIDE DEF rec
<1>6. own \in [Runs -> RunRecord] /\ own[r] = rec /\ \A q \in Runs \ {r} : own[q] = run[q]
  BY <1>2, <1>5
<1> HIDE DEF own
<1>7. \A q \in Runs : Same(own[q], runs[q]) /\ runs[q].reply = own[q].reply
  BY <1>6, SameAbort
<1>8. \A q \in Runs : Same(own[q], RejectAllPending(runs)[q])
  BY <1>6, SameDropped
<1> HIDE DEF runs
<1>9. \A q \in Runs : /\ Same(own[q], run'[q])
                      /\ pending' = {} \/ run'[q].reply = own[q].reply
  <2>1. CASE prevActiveId # activeId
    BY <1>1, <1>8, <2>1
  <2>2. CASE prevActiveId = activeId
    BY <1>1, <1>7, <2>2
  <2> QED
    BY <2>1, <2>2
<1>10. Others(Runs \ {r})
  BY <1>6, <1>9 DEF Others
<1>11. Own(r)
  <2>1. Same(rec, run'[r])
    BY <1>6, <1>9
  <2>2. /\ run'[r].pc = "constructing" /\ run'[r].conversation = run[r].conversation
        /\ run'[r].qaFor = run[r].qaFor
        /\ run'[r].reply = "approved" => run[r].reply = "approved"
        /\ run[r].approved => run'[r].approved
    BY <1>5, <2>1 DEF Same
  <2>3. run'[r].reply = "approved" => run'[r].approved
    BY <2>2 DEF DialogsSound
  <2>4. Barred(r)'
    BY <2>2 DEF Barred, Late, Looping
  <2> QED
    BY <1>2, <2>2, <2>3, <2>4 DEF Own
<1>12. Owned(r)
  <2>1. CASE prevActiveId # activeId
    BY <1>1, <2>1 DEF Owned
  <2>2. CASE prevActiveId = activeId
    BY <1>1, <1>2, <2>2 DEF Owned
  <2> QED
    BY <2>1, <2>2
<1> QED
  BY <1>3, <1>10, <1>11, <1>12 DEF Acts

LEMMA PublishActs ==
  ASSUME IInv, DialogsSound, NEW r \in Runs, PublishGenerator(r)
  PROVE  Acts(r)
<1> DEFINE published  == IsGeneratorConstructionCurrent(r)
           current    == IsCurrentGeneratorRun(run[r].conversation)
           onlyPrompt == current /\ ~published /\ run[r].kind = "generate"
           ready      == [run[r] EXCEPT !.pc = "syncing", !.gen = r]
           olds       == IF onlyPrompt THEN RejectAllPending(run) ELSE run
<1>1. /\ run[r].pc = "constructing" /\ UNCHANGED <<compressing, prevActiveId>>
      /\ IF current /\ published
         THEN run' = [run EXCEPT ![r] = ready] /\ UNCHANGED ownerVars
         ELSE /\ run' = [olds EXCEPT ![r] = Ended(olds[r])]
              /\ IF current THEN isGenerating' = FALSE /\ runConversationId' = None
                            ELSE UNCHANGED ownerVars
      /\ pending' = IF onlyPrompt THEN {} ELSE pending
      /\ output' = IF onlyPrompt THEN WriteActive(r, "message") ELSE {}
  BY DEF PublishGenerator
<1>2. Alive(r) /\ r \notin pending /\ run \in [Runs -> RunRecord] /\ run[r] \in RunRecord
  BY <1>1, NotPending DEF Alive, IInv, TypeOK
<1>3. Wrote(r)
  BY <1>1, RightfulWrites DEF Wrote
<1>4. Owned(r)
  BY <1>1, <1>2 DEF Owned, ownerVars
<1>5. CASE current /\ published
  <2>1. run' = [run EXCEPT ![r] = ready]
    BY <1>1, <1>5
  <2>2. Others(Runs \ {r}) /\ run'[r] = ready
    BY <2>1, OthersReplaced DEF IInv
  <2>3. /\ ready.pc = "syncing" /\ ready.conversation = run[r].conversation
        /\ ready.qaFor = run[r].qaFor /\ ready.reply = run[r].reply
        /\ ready.approved = run[r].approved
    BY <1>2 DEF RunRecord
  <2> HIDE DEF ready
  <2>4. Own(r)
    <3>1. ready.reply = "approved" => ready.approved
      BY <2>3 DEF DialogsSound
    <3>2. Barred(r)'
      BY <2>2, <2>3 DEF Barred, Late, Looping
    <3> QED
      BY <1>2, <2>2, <2>3, <3>1, <3>2 DEF Own
  <2> QED
    BY <1>3, <1>4, <2>2, <2>4 DEF Acts
<1>6. CASE ~(current /\ published)
  <2>1. olds \in [Runs -> RunRecord] /\ \A q \in Runs : Same(run[q], olds[q])
    <3>1. RejectAllPending(run) \in [Runs -> RunRecord]
      BY <1>2, KeptReject DEF KeptRuns
    <3>2. \A q \in Runs : Same(run[q], RejectAllPending(run)[q])
      BY <1>2, SameReject
    <3>3. \A q \in Runs : Same(run[q], run[q])
      BY <1>2, SameSelf
    <3> HIDE DEF onlyPrompt
    <3> QED
      BY <1>2, <3>1, <3>2, <3>3
  <2>2. pending' = {} \/ olds = run
    BY <1>1
  <2>3. run' = [olds EXCEPT ![r] = Ended(olds[r])]
    BY <1>1, <1>6
  <2> HIDE DEF olds
  <2>4. /\ \A q \in Runs \ {r} : run'[q] = olds[q]
        /\ run'[r] = Ended(olds[r])
    BY <2>1, <2>3
  <2>5. Others(Runs \ {r})
    BY <2>1, <2>2, <2>4 DEF Others
  <2>6. /\ run'[r].pc = "ended" /\ run'[r].conversation = run[r].conversation
        /\ run'[r].qaFor = None /\ run'[r].reply = "none"
    <3>1. olds[r] \in RunRecord /\ Same(run[r], olds[r])
      BY <2>1
    <3>2. olds[r].conversation = run[r].conversation
      BY <3>1 DEF Same
    <3> QED
      BY <2>4, <3>1, <3>2, EndedIs
  <2>7. Barred(r)'
    BY <2>6 DEF Barred, Late, Looping
  <2>8. Own(r)
    BY <1>2, <2>6, <2>7 DEF Own
  <2> QED
    BY <1>3, <1>4, <2>5, <2>8 DEF Acts
<1> QED
  BY <1>5, <1>6

LEMMA SyncActs ==
  ASSUME IInv, DialogsSound, NEW r \in Runs, SyncMessages(r)
  PROVE  Acts(r)
<1> DEFINE rec == [run[r] EXCEPT !.pc = "applying",
                                 !.mode = IF planModeEnabled THEN "plan" ELSE "chat"]
<1>1. /\ run[r].pc = "syncing" /\ output' = {} /\ UNCHANGED generator
      /\ UNCHANGED <<compressing, prevActiveId, ownerVars, pending>>
      /\ run' = [run EXCEPT ![r] = rec]
  BY DEF SyncMessages, hookVars, ownerVars
<1>2. Alive(r) /\ r \notin pending /\ run[r] \in RunRecord
  BY <1>1, NotPending DEF Alive, IInv, TypeOK
<1>3. ModesKept /\ Wrote(r)
  BY <1>1, UnchangedModes, RightfulWrites DEF Wrote
<1>4. /\ rec.pc = "applying" /\ rec.conversation = run[r].conversation
      /\ rec.qaFor = run[r].qaFor /\ rec.reply = run[r].reply
      /\ rec.approved = run[r].approved
  BY <1>2 DEF RunRecord
<1> HIDE DEF rec
<1>5. Goes(run[r], rec)
  BY <1>4, EarlyGoes DEF Late, Looping
<1> QED
  BY <1>1, <1>2, <1>3, <1>5, Quietly

\* Here the generator takes the mode of the run.
LEMMA ApplyActs ==
  ASSUME IInv, DialogsSound, NEW r \in Runs, ApplyMode(r)
  PROVE  Acts(r)
<1> DEFINE rec == [run[r] EXCEPT !.pc = "skills"]
<1>1. /\ run[r].pc = "applying" /\ output' = {}
      /\ generator' = [generator EXCEPT ![run[r].gen].mode = run[r].mode]
      /\ UNCHANGED <<compressing, prevActiveId, ownerVars, pending>>
      /\ run' = [run EXCEPT ![r] = rec]
  BY DEF ApplyMode, hookVars, ownerVars
<1>2. Alive(r) /\ r \notin pending /\ run[r] \in RunRecord
  BY <1>1, NotPending DEF Alive, IInv, TypeOK
<1>3. /\ rec.pc = "skills" /\ rec.conversation = run[r].conversation
      /\ rec.qaFor = run[r].qaFor /\ rec.reply = run[r].reply /\ rec.gen = run[r].gen
      /\ rec.mode = run[r].mode /\ rec.approved = run[r].approved
  BY <1>2 DEF RunRecord
<1> HIDE DEF rec
<1>4. Others(Runs \ {r}) /\ run'[r] = rec
  BY <1>1, OthersReplaced DEF IInv
<1>5. run[r].gen \in Runs
  BY <1>1, <1>2 DEF IInv, GeneratorBinding, HasGenerator, RunRecord
<1>6. generator'[run[r].gen].mode = run[r].mode
  BY <1>1, <1>5 DEF IInv, TypeOK, GeneratorRecord
<1>7. Own(r)
  <2>1. rec.reply = "approved" => rec.approved
    BY <1>3 DEF DialogsSound
  <2>2. Barred(r)'
    BY <1>3, <1>4, <1>6 DEF Barred
  <2> QED
    BY <1>2, <1>3, <1>4, <2>1, <2>2 DEF Own
<1>8. Owned(r)
  BY <1>1, <1>2 DEF Owned, ownerVars
<1>9. Wrote(r)
  BY <1>1, RightfulWrites DEF Wrote
<1> QED
  BY <1>4, <1>7, <1>8, <1>9 DEF Acts

\* A request, after the dialogs on screen were rejected or not.
LEMMA RequestAfter ==
  ASSUME IInv, NEW r \in Runs, NEW olds, run' = RequestAI(r, olds),
         \/ olds = run
         \/ olds = RejectAllPending(run) /\ pending' = {}
  PROVE  /\ Others(Runs \ {r})
         /\ run'[r].pc = "requesting" /\ run'[r].conversation = run[r].conversation
         /\ run'[r].qaFor = run[r].qaFor /\ run'[r].reply = "none"
         /\ run'[r].gen = run[r].gen /\ run'[r].mode = run[r].mode
         /\ run[r].approved => run'[r].approved
<1>1. run \in [Runs -> RunRecord]
  BY DEF IInv, TypeOK
<1>2. olds \in [Runs -> RunRecord] /\ \A q \in Runs : Same(run[q], olds[q])
  <2>1. RejectAllPending(run) \in [Runs -> RunRecord]
    BY <1>1, KeptReject DEF KeptRuns
  <2>2. \A q \in Runs : Same(run[q], RejectAllPending(run)[q])
    BY <1>1, SameReject
  <2>3. \A q \in Runs : Same(run[q], run[q])
    BY <1>1, SameSelf
  <2> QED
    BY <1>1, <2>1, <2>2, <2>3
<1>3. pending' = {} \/ olds = run
  OBVIOUS
<1> DEFINE rec == [olds[r] EXCEPT !.pc = "requesting", !.iteration = olds[r].iteration + 1,
                                  !.reply = "none", !.aborted = FALSE]
<1>4. run' = [olds EXCEPT ![r] = rec]
  BY DEF RequestAI
<1>5. /\ rec.pc = "requesting" /\ rec.conversation = olds[r].conversation
      /\ rec.qaFor = olds[r].qaFor /\ rec.reply = "none" /\ rec.gen = olds[r].gen
      /\ rec.mode = olds[r].mode /\ rec.approved = olds[r].approved
  BY <1>2, RequestIs
<1> HIDE DEF rec
<1>6. (\A q \in Runs \ {r} : run'[q] = olds[q]) /\ run'[r] = rec
  BY <1>2, <1>4
<1>7. Others(Runs \ {r})
  BY <1>2, <1>3, <1>6 DEF Others
<1>8. Same(run[r], olds[r])
  BY <1>2
<1> QED
  BY <1>5, <1>6, <1>7, <1>8 DEF Same

LEMMA EnterActs ==
  ASSUME IInv, DialogsSound, NEW r \in Runs, EnterLoop(r)
  PROVE  Acts(r)
<1>1. /\ run[r].pc = "skills" /\ run[r].pc \in Late
      /\ UNCHANGED <<compressing, prevActiveId, ownerVars>>
  BY DEF EnterLoop, hookVars, ownerVars, Late
<1>2. /\ Alive(r) /\ r \notin pending /\ run[r] \in RunRecord
      /\ run[r].gen \in Runs
  BY <1>1, NotPending, LateHasGenerator DEF IInv, TypeOK
<1>3. CASE IsCurrentGeneratorRun(run[r].conversation)
  <2> DEFINE olds == IF run[r].kind = "generate" THEN RejectAllPending(run) ELSE run
  <2>1. /\ run' = RequestAI(r, olds) /\ generator' = WithController(r, generator)
        /\ pending' = IF run[r].kind = "generate" THEN {} ELSE pending
        /\ output' = IF run[r].kind = "generate" THEN WriteActive(r, "message") ELSE {}
    BY <1>3 DEF EnterLoop
  <2>2. olds = run \/ (olds = RejectAllPending(run) /\ pending' = {})
    BY <2>1
  <2> HIDE DEF olds
  <2>3. /\ Others(Runs \ {r})
        /\ run'[r].pc = "requesting" /\ run'[r].conversation = run[r].conversation
        /\ run'[r].qaFor = run[r].qaFor /\ run'[r].reply = "none"
        /\ run'[r].gen = run[r].gen /\ run'[r].mode = run[r].mode
        /\ run[r].approved => run'[r].approved
    BY <2>1, <2>2, RequestAfter
  <2>4. ModesKept
    BY <2>1, ControllerModes DEF IInv
  <2>5. Goes(run[r], run'[r])
    BY <1>1, <2>3 DEF Goes
  <2>6. Own(r)
    BY <1>2, <2>4, <2>5, GoesOwn
  <2>7. Owned(r)
    BY <1>1, <1>2, <2>1 DEF Owned, ownerVars
  <2>8. Wrote(r)
    BY <2>1, RightfulWrites DEF Wrote
  <2> QED
    BY <2>3, <2>6, <2>7, <2>8 DEF Acts
<1>4. CASE ~IsCurrentGeneratorRun(run[r].conversation)
  <2>1. /\ run' = [run EXCEPT ![r] = Ended(run[r])] /\ output' = {}
        /\ UNCHANGED <<pending, generator>>
    BY <1>4 DEF EnterLoop
  <2>2. Goes(run[r], Ended(run[r])) /\ ModesKept /\ Wrote(r)
    BY <1>2, <2>1, EndedIs, UnchangedModes, RightfulWrites DEF Wrote
  <2> QED
    BY <1>1, <1>2, <2>1, <2>2, Quietly
<1> QED
  BY <1>3, <1>4

LEMMA PreparationFailsActs ==
  ASSUME IInv, DialogsSound, NEW r \in Runs, PreparationFails(r)
  PROVE  Acts(r)
<1>1. /\ run[r].pc \in Preparing /\ EndRun(r)
      /\ UNCHANGED <<compressing, prevActiveId, pending>>
  BY DEF PreparationFails, hookVars
<1>2. Alive(r) /\ r \notin pending
  BY <1>1, NotPending DEF Alive, Preparing
<1>3. Wrote(r)
  BY RightfulWrites DEF Wrote, PreparationFails
<1> QED
  BY <1>1, <1>2, <1>3, EndRunActs

LEMMA RequestEndActs ==
  ASSUME IInv, DialogsSound, NEW r \in Runs, RequestEnds(r) \/ RequestFails(r)
  PROVE  Acts(r)
<1>1. run[r].pc = "requesting" /\ UNCHANGED <<compressing, prevActiveId, pending, generator>>
  BY DEF RequestEnds, RequestFails, hookVars
<1>2. Alive(r) /\ r \notin pending /\ ModesKept
  BY <1>1, NotPending, UnchangedModes DEF Alive
<1>3. CASE RequestEnds(r)
  <2>1. Wrote(r)
    BY <1>3, RightfulWrites DEF Wrote, RequestEnds
  <2>2. PICK clean \in BOOLEAN : LoopReturns(r, clean)
    BY <1>3 DEF RequestEnds
  <2> QED
    BY <1>1, <1>2, <2>1, <2>2, LoopReturnsActs
<1>4. CASE RequestFails(r)
  <2>1. Wrote(r)
    BY <1>4, RightfulWrites DEF Wrote, RequestFails
  <2>2. EndRun(r)
    BY <1>4 DEF RequestFails
  <2> QED
    BY <1>1, <1>2, <2>1, <2>2, EndRunActs
<1> QED
  BY <1>3, <1>4

LEMMA CallToolActs ==
  ASSUME IInv, DialogsSound, NEW r \in Runs, CallTool(r)
  PROVE  Acts(r)
<1> DEFINE rec == [run[r] EXCEPT !.pc = "tool", !.aborted = FALSE]
<1>1. /\ run[r].pc = "requesting" /\ output' = GuardedWrite(r, "message")
      /\ UNCHANGED <<compressing, prevActiveId, ownerVars, pending, generator>>
      /\ run' = [run EXCEPT ![r] = rec]
  BY DEF CallTool, hookVars, ownerVars
<1>2. Alive(r) /\ r \notin pending /\ run[r] \in RunRecord
  BY <1>1, NotPending DEF Alive, IInv, TypeOK
<1>3. ModesKept /\ Wrote(r)
  BY <1>1, UnchangedModes, RightfulWrites DEF Wrote
<1>4. /\ rec.pc = "tool" /\ rec.conversation = run[r].conversation
      /\ rec.qaFor = run[r].qaFor /\ rec.reply = run[r].reply /\ rec.gen = run[r].gen
      /\ rec.mode = run[r].mode /\ rec.approved = run[r].approved
  BY <1>2 DEF RunRecord
<1> HIDE DEF rec
<1>5. rec.reply = "approved" => rec.approved
  BY <1>4 DEF DialogsSound
<1>6. Goes(run[r], rec)
  BY <1>1, <1>4, <1>5 DEF Goes, Late, Looping
<1> QED
  BY <1>1, <1>2, <1>3, <1>6, Quietly

\* The steps that hand a result back to the model.
LEMMA ResultActs ==
  ASSUME IInv, DialogsSound, NEW r \in Runs,
         \/ \E writes \in BOOLEAN : ToolReturns(r, writes)
         \/ DialogAnswered(r)
         \/ PlanRefreshed(r)
  PROVE  Acts(r)
<1>1. NextIteration(r) /\ UNCHANGED <<compressing, prevActiveId, pending>>
  BY DEF ToolReturns, DialogAnswered, PlanRefreshed, hookVars
<1>2. run[r].pc \in Late /\ r \notin pending
  <2>1. \/ run[r].pc \in {"tool", "approving"}
        \/ run[r].pc \in {"asking", "planning"} /\ run[r].reply # "none"
    BY DEF ToolReturns, DialogAnswered, PlanRefreshed
  <2> QED
    BY <2>1, NotPending DEF Late, Looping
<1>3. Wrote(r)
  <2>1. CASE \E writes \in BOOLEAN : ToolReturns(r, writes)
    <3>1. PICK writes \in BOOLEAN : ToolReturns(r, writes)
      BY <2>1
    <3>2. Rightful(r, GuardedWrite(r, "message"))
          /\ (writes => Rightful(r, GuardedWrite(r, "file")))
      BY <3>1, RightfulWrites DEF ToolReturns
    <3>3. output' = GuardedWrite(r, "message")
                      \cup (IF writes THEN GuardedWrite(r, "file") ELSE {})
      BY <3>1 DEF ToolReturns
    <3> QED
      BY <3>2, <3>3 DEF Wrote, Rightful
  <2>2. CASE DialogAnswered(r) \/ PlanRefreshed(r)
    BY <2>2, RightfulWrites DEF Wrote, DialogAnswered, PlanRefreshed
  <2> QED
    BY <2>1, <2>2
<1> QED
  BY <1>1, <1>2, <1>3, NextIterationActs

LEMMA AskActs ==
  ASSUME IInv, DialogsSound, NEW r \in Runs, NEW stage \in {"asking", "planning"},
         AskUser(r, stage)
  PROVE  Acts(r)
<1>1. /\ run[r].pc = "requesting" /\ output' = GuardedWrite(r, "message")
      /\ UNCHANGED <<compressing, prevActiveId, generator>>
  BY DEF AskUser, hookVars
<1>2. /\ Alive(r) /\ r \notin pending /\ run[r] \in RunRecord /\ run[r].pc \in Late
      /\ GeneratorConversation(r) = run[r].conversation
  BY <1>1, NotPending, LateHasGenerator DEF Late, Looping, IInv, TypeOK
<1>3. ModesKept /\ Wrote(r)
  BY <1>1, UnchangedModes, RightfulWrites DEF Wrote
<1>4. CASE IsCurrentGeneratorRun(GeneratorConversation(r))
  <2> DEFINE rec == [run[r] EXCEPT !.pc = stage, !.reply = "none", !.aborted = FALSE]
  <2>1. run' = [run EXCEPT ![r] = rec] /\ pending' = pending \cup {r} /\ UNCHANGED ownerVars
    BY <1>4 DEF AskUser
  <2>2. /\ rec.pc = stage /\ rec.conversation = run[r].conversation
        /\ rec.qaFor = run[r].qaFor /\ rec.reply = "none" /\ rec.gen = run[r].gen
        /\ rec.mode = run[r].mode /\ rec.approved = run[r].approved
    BY <1>2 DEF RunRecord
  <2> HIDE DEF rec
  <2>3. Others(Runs \ {r}) /\ run'[r] = rec
    BY <2>1, OthersReplaced DEF IInv
  <2>4. Goes(run[r], rec)
    BY <1>2, <2>2 DEF Goes
  <2>5. Own(r)
    BY <1>2, <1>3, <2>3, <2>4, LateHasGenerator, GoesOwn
  <2>6. runConversationId # None /\ run[r].conversation = runConversationId
    BY <1>2, <1>4 DEF IsCurrentGeneratorRun
  <2>7. Owned(r)
    BY <1>1, <2>1, <2>2, <2>3, <2>6 DEF Owned, ownerVars
  <2> QED
    BY <1>3, <2>3, <2>5, <2>7 DEF Acts
<1>5. CASE ~IsCurrentGeneratorRun(GeneratorConversation(r))
  <2>1. LoopReturns(r, FALSE) /\ pending' = pending /\ FALSE \in BOOLEAN
    BY <1>5 DEF AskUser
  <2> QED
    BY <1>1, <1>2, <1>3, <2>1, LoopReturnsActs
<1> QED
  BY <1>4, <1>5

LEMMA RejectedActs ==
  ASSUME IInv, DialogsSound, NEW r \in Runs, DialogRejected(r)
  PROVE  Acts(r)
<1>1. /\ run[r].pc \in {"asking", "planning"} /\ run[r].reply = "aborted" /\ output' = {}
      /\ LoopReturns(r, FALSE) /\ UNCHANGED <<compressing, prevActiveId, pending, generator>>
  BY DEF DialogRejected, hookVars
<1>2. Alive(r) /\ r \notin pending /\ ModesKept /\ Wrote(r) /\ FALSE \in BOOLEAN
  BY <1>1, NotPending, UnchangedModes, RightfulWrites DEF Alive, Wrote
<1> QED
  BY <1>1, <1>2, LoopReturnsActs

\* Here a generator leaves Plan Mode: the plan of the run is approved.
LEMMA LeaveActs ==
  ASSUME IInv, DialogsSound, NEW r \in Runs, LeavePlanMode(r)
  PROVE  Acts(r)
<1> DEFINE rec == [run[r] EXCEPT !.pc = "approving", !.reply = "none"]
<1>1. /\ run[r].pc = "planning" /\ run[r].reply = "approved" /\ output' = {}
      /\ UNCHANGED <<compressing, prevActiveId, ownerVars, pending>>
      /\ run' = [run EXCEPT ![r] = rec]
  BY DEF LeavePlanMode, hookVars, ownerVars
<1>2. Alive(r) /\ r \notin pending /\ run[r] \in RunRecord
  BY <1>1, NotPending DEF Alive, IInv, TypeOK
<1>3. /\ rec.pc = "approving" /\ rec.conversation = run[r].conversation
      /\ rec.qaFor = run[r].qaFor /\ rec.reply = "none"
      /\ rec.approved = run[r].approved
  BY <1>2 DEF RunRecord
<1> HIDE DEF rec
<1>4. Others(Runs \ {r}) /\ run'[r] = rec
  BY <1>1, OthersReplaced DEF IInv
<1>5. run[r].approved
  BY <1>1 DEF DialogsSound
<1>6. run'[r].approved
  BY <1>3, <1>4, <1>5
<1>7. Barred(r)'
  BY <1>6 DEF Barred
<1>8. Own(r)
  BY <1>2, <1>3, <1>4, <1>6, <1>7 DEF Own
<1>9. Owned(r)
  BY <1>1, <1>2 DEF Owned, ownerVars
<1>10. Wrote(r)
  BY <1>1, RightfulWrites DEF Wrote
<1> QED
  BY <1>4, <1>8, <1>9, <1>10 DEF Acts

\* Automatic QA works in a mode of its own.
LEMMA QaActs ==
  ASSUME IInv, DialogsSound, NEW r \in Runs, StartAutomaticQa(r)
  PROVE  Acts(r)
<1>1. run[r].pc = "qaApplying" /\ UNCHANGED <<compressing, prevActiveId>>
  BY DEF StartAutomaticQa, hookVars
<1>2. Alive(r) /\ r \notin pending
  BY <1>1, NotPending DEF Alive
<1>3. CASE IsCurrentGeneratorRun(run[r].qaFor)
  <2>1. /\ run' = RequestAI(r, RejectAllPending(run)) /\ pending' = {}
        /\ output' = WriteActive(r, "qa") /\ UNCHANGED ownerVars
    BY <1>3 DEF StartAutomaticQa
  <2> DEFINE olds == RejectAllPending(run)
  <2>2. run' = RequestAI(r, olds) /\ (olds = RejectAllPending(run) /\ pending' = {})
    BY <2>1
  <2> HIDE DEF olds
  <2>3. /\ Others(Runs \ {r})
        /\ run'[r].pc = "requesting" /\ run'[r].conversation = run[r].conversation
        /\ run'[r].qaFor = run[r].qaFor /\ run'[r].reply = "none"
    BY <2>2, RequestAfter
  <2>4. Barred(r)'
    BY <1>3, <2>3 DEF Barred, IsCurrentGeneratorRun
  <2>5. Own(r)
    BY <1>2, <2>3, <2>4 DEF Own
  <2>6. Owned(r)
    BY <1>1, <2>1 DEF Owned, ownerVars
  <2>7. Wrote(r)
    BY <1>3, <2>1, RightfulWrites DEF Wrote
  <2> QED
    BY <2>3, <2>5, <2>6, <2>7 DEF Acts
<1>4. CASE ~IsCurrentGeneratorRun(run[r].qaFor)
  <2>1. EndRun(r) /\ pending' = pending /\ output' = {}
    BY <1>4 DEF StartAutomaticQa
  <2>2. Wrote(r)
    BY <2>1, RightfulWrites DEF Wrote
  <2> QED
    BY <1>1, <1>2, <2>1, <2>2, EndRunActs
<1> QED
  BY <1>3, <1>4

\* The steps that leave every record as it is.
LEMMA SameOwn ==
  ASSUME IInv, DialogsSound, NEW r \in Runs, run[r].pc \in Late,
         run' = run, ModesKept
  PROVE  Others(Runs \ {r}) /\ Own(r)
<1>1. Alive(r) /\ run[r].gen \in Runs
  BY LateHasGenerator
<1>2. Others(Runs)
  BY OthersSame DEF IInv
<1>3. run'[r] = run[r] /\ run[r].pc # "idle"
  BY <1>1 DEF Alive
<1>4. Goes(run[r], run'[r])
  BY <1>3 DEF Goes, DialogsSound
<1>5. Own(r)
  BY <1>1, <1>4, GoesOwn
<1> QED
  BY <1>2, <1>5 DEF Others

LEMMA StreamActs ==
  ASSUME IInv, DialogsSound, NEW r \in Runs, StreamText(r) \/ RetryRequest(r)
  PROVE  Acts(r)
<1>1. /\ run[r].pc = "requesting" /\ output' = GuardedWrite(r, "message") /\ run' = run
      /\ UNCHANGED <<compressing, prevActiveId, ownerVars, pending>>
      /\ UNCHANGED generator \/ generator' = WithController(r, generator)
  BY DEF StreamText, RetryRequest, hookVars, ownerVars
<1>2. r \notin pending /\ run[r].pc \in Late
  BY <1>1, NotPending DEF Late, Looping
<1>3. ModesKept
  BY <1>1, UnchangedModes, ControllerModes DEF IInv
<1>4. Others(Runs \ {r}) /\ Own(r)
  BY <1>1, <1>2, <1>3, SameOwn
<1>5. Owned(r)
  BY <1>1, <1>2 DEF Owned, ownerVars
<1>6. Wrote(r)
  BY <1>1, RightfulWrites DEF Wrote
<1> QED
  BY <1>4, <1>5, <1>6 DEF Acts

\* The answer of the user, which is a step of the run that asked.
LEMMA AnswerActs ==
  ASSUME IInv, DialogsSound, NEW r \in Runs, NEW reply \in Replies, Answer(r, reply)
  PROVE  Acts(r)
<1> DEFINE rec == IF reply = "approved"
                  THEN [run[r] EXCEPT !.reply = reply, !.approved = TRUE]
                  ELSE [run[r] EXCEPT !.reply = reply]
<1>1. /\ r \in pending /\ output' = {} /\ UNCHANGED generator
      /\ UNCHANGED <<compressing, prevActiveId, ownerVars>> /\ pending' = pending \ {r}
      /\ run' = [run EXCEPT ![r] = rec]
  BY DEF Answer, hookVars, ownerVars
<1>2. run[r].pc \in {"asking", "planning"} /\ run[r].pc \in Late /\ run[r] \in RunRecord
  BY <1>1 DEF DialogsSound, Late, Looping, IInv, TypeOK
<1>3. Alive(r) /\ run[r].gen \in Runs
  BY <1>2, LateHasGenerator
<1>4. /\ rec.pc = run[r].pc /\ rec.conversation = run[r].conversation
      /\ rec.qaFor = run[r].qaFor /\ rec.gen = run[r].gen /\ rec.mode = run[r].mode
      /\ run[r].approved => rec.approved
      /\ rec.reply = "approved" => rec.approved
  BY <1>2 DEF RunRecord
<1> HIDE DEF rec
<1>5. Others(Runs \ {r}) /\ run'[r] = rec
  BY <1>1, OthersReplaced DEF IInv
<1>6. Goes(run[r], rec)
  BY <1>2, <1>4 DEF Goes, Late, Looping
<1>7. ModesKept /\ Wrote(r)
  BY <1>1, UnchangedModes, RightfulWrites DEF Wrote
<1>8. Own(r)
  BY <1>3, <1>5, <1>6, <1>7, GoesOwn
<1>9. Owned(r)
  BY <1>1 DEF Owned, ownerVars
<1> QED
  BY <1>5, <1>7, <1>8, <1>9 DEF Acts

LEMMA RunStepActs ==
  ASSUME IInv, DialogsSound, NEW r \in Runs,
         StreamText(r) \/ RetryRequest(r) \/ RunStep(r)
  PROVE  Acts(r)
<1>1. CASE StreamText(r) \/ RetryRequest(r)
  BY <1>1, StreamActs
<1>2. CASE ReuseGenerator(r) \/ ConstructGenerator(r) \/ PublishGenerator(r)
  BY <1>2, ReuseActs, ConstructActs, PublishActs
<1>3. CASE SyncMessages(r) \/ ApplyMode(r) \/ EnterLoop(r) \/ PreparationFails(r)
  BY <1>3, SyncActs, ApplyActs, EnterActs, PreparationFailsActs
<1>4. CASE RequestEnds(r) \/ RequestFails(r) \/ CallTool(r)
  BY <1>4, RequestEndActs, CallToolActs
<1>5. CASE \/ \E writes \in BOOLEAN : ToolReturns(r, writes)
           \/ DialogAnswered(r)
           \/ PlanRefreshed(r)
  BY <1>5, ResultActs
<1>6. CASE \E stage \in {"asking", "planning"} : AskUser(r, stage)
  BY <1>6, AskActs
<1>7. CASE DialogRejected(r) \/ LeavePlanMode(r) \/ StartAutomaticQa(r)
  BY <1>7, RejectedActs, LeaveActs, QaActs
<1> QED
  BY <1>1, <1>2, <1>3, <1>4, <1>5, <1>6, <1>7 DEF RunStep

\* A step of a run keeps dialogs sound, whoever else is alive.
LEMMA ActsDialogs ==
  ASSUME IInv, DialogsSound, NEW r \in Runs, Acts(r)
  PROVE  DialogsSound'
<1>1. Others(Runs \ {r}) /\ Own(r) /\ Owned(r)
  BY DEF Acts
<1>2. runConversationId' \in {None, prevActiveId'}
  BY <1>1 DEF Owned, DialogsSound
<1>3. ASSUME NEW q \in pending'
      PROVE  /\ run'[q].pc \in {"asking", "planning"}
             /\ run'[q].reply = "none"
             /\ run'[q].conversation = prevActiveId'
  <2>1. prevActiveId' = prevActiveId
    BY <1>1, <1>3 DEF Owned
  <2>2. CASE q = r
    BY <1>1, <1>3, <2>1, <2>2 DEF Owned, Own, DialogsSound
  <2>3. CASE q # r
    <3>1. q \in pending /\ q \in Runs \ {r}
      BY <1>1, <1>3, <2>3 DEF Owned, IInv, TypeOK
    <3>2. Same(run[q], run'[q]) /\ run'[q].reply = run[q].reply
      BY <1>1, <1>3, <3>1 DEF Others
    <3> QED
      BY <2>1, <3>1, <3>2 DEF DialogsSound, Same
  <2> QED
    BY <2>2, <2>3
<1>4. ASSUME NEW q \in Runs, run'[q].reply = "approved" PROVE run'[q].approved
  <2>1. CASE q = r
    BY <1>1, <1>4, <2>1 DEF Own
  <2>2. CASE q # r
    <3>1. Same(run[q], run'[q])
      BY <1>1, <2>2 DEF Others
    <3> QED
      BY <1>4, <3>1 DEF Same, DialogsSound
  <2> QED
    BY <2>1, <2>2
<1> QED
  BY <1>2, <1>3, <1>4 DEF DialogsSound

\* With one run alive at a time it keeps the rest as well.
LEMMA ActsPatience ==
  ASSUME IInv, DialogsSound, Patience, NEW r \in Runs, Acts(r)
  PROVE  Patience'
<1>1. Others(Runs \ {r}) /\ Own(r) /\ Owned(r) /\ Wrote(r)
  BY DEF Acts
<1>2. ASSUME NEW q \in Runs \ {r} PROVE Same(run[q], run'[q]) /\ ~Alive(q)
  BY <1>1, <1>2 DEF Others, Own, Patience, OneRun
<1>3. /\ runConversationId' \in {None, runConversationId}
      /\ runConversationId \in {None, run[r].conversation}
  BY <1>1 DEF Owned, Patience, OneRun, Own
<1>4. \A q \in Runs : q # r => ~Alive(q)'
  BY <1>2 DEF Same, Alive
<1>5. /\ run'[r].conversation = run[r].conversation /\ run'[r].pc # "idle"
      /\ run'[r].qaFor \in {None, run[r].conversation}
  BY <1>1, <1>3 DEF Own, Patience, OneRun
<1>6. OneRun'
  <2>1. ASSUME NEW p \in Runs, NEW q \in Runs, Alive(p)', Alive(q)' PROVE p = q
    BY <1>4, <2>1
  <2>2. ASSUME NEW q \in Runs
        PROVE  /\ Alive(q)' => runConversationId' \in {None, run'[q].conversation}
               /\ run'[q].qaFor \in {None, run'[q].conversation}
               /\ run'[q].pc = "idle" => run'[q].qaFor = None
    <3>1. CASE q = r
      BY <1>3, <1>5, <3>1
    <3>2. CASE q # r
      <4>1. Same(run[q], run'[q]) /\ ~Alive(q)'
        BY <1>2, <1>4, <3>2
      <4> QED
        BY <4>1 DEF Same, Patience, OneRun
    <3> QED
      BY <3>1, <3>2
  <2> QED
    BY <2>1, <2>2 DEF OneRun
<1>7. pending \subseteq {r}
  <2>1. ASSUME NEW q \in pending PROVE q = r
    <3>1. q \in Runs /\ Alive(q)
      BY <2>1 DEF IInv, TypeOK, DialogsSound, Alive
    <3> QED
      BY <1>2, <3>1
  <2> QED
    BY <2>1
<1>8. Rests'
  <2>1. compressing' = compressing
    BY <1>1 DEF Owned
  <2>2. CASE pending' \subseteq pending \ {r}
    <3>1. pending' = {}
      BY <1>7, <2>2
    <3>2. UNCHANGED <<runConversationId, isGenerating>> \/ runConversationId' = None
      BY <1>1 DEF Owned
    <3> QED
      BY <2>1, <3>1, <3>2 DEF Rests, Patience
  <2>3. CASE ~(pending' \subseteq pending \ {r})
    <3>1. UNCHANGED ownerVars /\ runConversationId # None
      BY <1>1, <2>3 DEF Owned
    <3> QED
      BY <2>1, <3>1 DEF Rests, Patience, ownerVars
  <2> QED
    BY <2>2, <2>3
<1>9. QaPromptIsolation'
  <2>1. ASSUME NEW w \in output', w.what = "qa" PROVE w.into = run'[w.by].conversation
    <3>1. w.by = r /\ w.into = run[r].qaFor /\ w.into # None
      BY <1>1, <2>1 DEF Wrote, Rightful
    <3>2. run[r].qaFor \in {None, run[r].conversation}
      BY DEF Patience, OneRun
    <3> QED
      BY <1>5, <3>1, <3>2
  <2> QED
    BY <2>1 DEF QaPromptIsolation
<1>10. ASSUME NEW q \in Runs PROVE Barred(q)'
  <2>1. CASE q = r
    BY <1>1, <2>1 DEF Own, Patience
  <2>2. CASE q # r
    <3>1. ~Alive(q)'
      BY <1>4, <2>2
    <3> QED
      BY <3>1 DEF Barred, Late, Looping, Alive
  <2> QED
    BY <2>1, <2>2
<1> QED
  BY <1>6, <1>8, <1>9, <1>10 DEF Patience

LEMMA ActsUserInv ==
  ASSUME IInv, UserInv, NEW r \in Runs, Acts(r)
  PROVE  UserInv'
BY ActsDialogs, ActsPatience DEF UserInv

-----------------------------------------------------------------------------
(* The steps that are not those of a run.                                   *)

\* They take no run further, and what is on screen either stays or goes with
\* the owner of the conversation.
Aside ==
  /\ Others(Runs)
  /\ ModesKept
  /\ \/ /\ UNCHANGED <<runConversationId, prevActiveId, pending>>
        /\ UNCHANGED <<isGenerating, compressing>> \/ Rests'
     \/ runConversationId' = None /\ pending' = {}
  /\ output' = {} \/ output' = output

LEMMA AsideUserInv ==
  ASSUME IInv, UserInv, Aside
  PROVE  UserInv'
<1>1. ASSUME NEW q \in Runs
      PROVE  Same(run[q], run'[q]) /\ (pending' = {} \/ run'[q].reply = run[q].reply)
  BY <1>1 DEF Aside, Others
<1>2. DialogsSound'
  <2>1. runConversationId' \in {None, prevActiveId'}
    BY DEF Aside, UserInv, DialogsSound
  <2>2. ASSUME NEW q \in pending'
        PROVE  /\ run'[q].pc \in {"asking", "planning"}
               /\ run'[q].reply = "none"
               /\ run'[q].conversation = prevActiveId'
    <3>1. q \in pending /\ prevActiveId' = prevActiveId /\ q \in Runs
      BY <2>2 DEF Aside, IInv, TypeOK
    <3>2. Same(run[q], run'[q]) /\ run'[q].reply = run[q].reply
      BY <1>1, <2>2, <3>1
    <3> QED
      BY <3>1, <3>2 DEF UserInv, DialogsSound, Same
  <2>3. ASSUME NEW q \in Runs, run'[q].reply = "approved" PROVE run'[q].approved
    BY <1>1, <2>3 DEF UserInv, DialogsSound, Same
  <2> QED
    BY <2>1, <2>2, <2>3 DEF DialogsSound
<1>3. ASSUME ~AllowOverlap PROVE Patience'
  <2>1. OneRun /\ Rests /\ QaPromptIsolation /\ \A q \in Runs : Barred(q)
    BY <1>3 DEF UserInv, Patience
  <2>2. \A q \in Runs : Alive(q)' = Alive(q)
    BY <1>1 DEF Same, Alive
  <2>3. OneRun'
    <3>1. runConversationId' \in {None, runConversationId}
      BY DEF Aside
    <3>2. ASSUME NEW q \in Runs
          PROVE  /\ Alive(q)' => runConversationId' \in {None, run'[q].conversation}
                 /\ run'[q].qaFor \in {None, run'[q].conversation}
                 /\ run'[q].pc = "idle" => run'[q].qaFor = None
      <4>1. Same(run[q], run'[q])
        BY <1>1
      <4> QED
        BY <2>1, <2>2, <3>1, <4>1 DEF OneRun, Same
    <3> QED
      BY <2>1, <2>2, <3>2 DEF OneRun
  <2>4. Rests'
    BY <2>1 DEF Rests, Aside
  <2>5. QaPromptIsolation'
    <3>1. ASSUME NEW w \in output', w.what = "qa" PROVE w.into = run'[w.by].conversation
      <4>1. w \in output /\ w.by \in Runs
        BY <3>1 DEF Aside, IInv, TypeOK, Writes
      <4>2. Same(run[w.by], run'[w.by]) /\ w.into = run[w.by].conversation
        BY <1>1, <2>1, <3>1, <4>1 DEF QaPromptIsolation
      <4> QED
        BY <4>2 DEF Same
    <3> QED
      BY <3>1 DEF QaPromptIsolation
  <2>6. ASSUME NEW q \in Runs PROVE Barred(q)'
    <3> SUFFICES ASSUME run'[q].pc \in Late, run'[q].mode = "plan",
                        run'[q].qaFor = None, ~run'[q].approved
                 PROVE  generator'[run'[q].gen].mode = "plan"
      BY DEF Barred
    <3>1. Same(run[q], run'[q])
      BY <1>1
    <3>2. /\ run[q].pc \in Late /\ run'[q].gen = run[q].gen /\ run[q].mode = "plan"
          /\ run[q].qaFor = None /\ ~run[q].approved
      BY <3>1 DEF Same
    <3>3. generator[run[q].gen].mode = "plan" /\ run[q].gen \in Runs
      BY <2>1, <3>2, LateHasGenerator DEF Barred
    <3> QED
      BY <3>2, <3>3 DEF Aside, ModesKept
  <2> QED
    BY <2>3, <2>4, <2>5, <2>6 DEF Patience
<1> QED
  BY <1>2, <1>3 DEF UserInv

LEMMA DropAside ==
  ASSUME IInv, DropGenerator(run), output' = {}
  PROVE  Aside
<1>1. /\ run' = RejectAllPending(AbortHeld(run)) /\ generator' = WithoutController
      /\ runConversationId' = None /\ pending' = {}
  BY DEF DropGenerator
<1>2. run \in [Runs -> RunRecord]
  BY DEF IInv, TypeOK
<1>3. Others(Runs)
  BY <1>1, <1>2, SameDropped DEF Others
<1>4. ModesKept
  BY <1>1, WithoutControllerModes DEF IInv
<1> QED
  BY <1>1, <1>3, <1>4 DEF Aside

LEMMA StopAside ==
  ASSUME IInv, Stop
  PROVE  Aside
<1> DEFINE halted(q) == [run[q] EXCEPT !.stopped = TRUE]
           marked == [q \in Runs |-> IF Alive(q) THEN halted(q) ELSE run[q]]
<1>1. /\ run' = RejectAllPending(AbortHeld(marked)) /\ generator' = WithoutController
      /\ runConversationId' = None /\ pending' = {} /\ output' = {}
  BY DEF Stop, Intervene
<1>2. run \in [Runs -> RunRecord]
  BY DEF IInv, TypeOK
<1>3. ASSUME NEW q \in Runs PROVE halted(q) \in RunRecord /\ Same(run[q], halted(q))
  <2>1. run[q] \in RunRecord
    BY <1>2
  <2>2. /\ halted(q) \in RunRecord
        /\ halted(q).pc = run[q].pc /\ halted(q).conversation = run[q].conversation
        /\ halted(q).gen = run[q].gen /\ halted(q).mode = run[q].mode
        /\ halted(q).qaFor = run[q].qaFor /\ halted(q).reply = run[q].reply
        /\ halted(q).approved = run[q].approved
    BY <2>1 DEF RunRecord
  <2> HIDE DEF halted
  <2> QED
    BY <2>2 DEF Same
<1>4. \A q \in Runs : Same(run[q], run[q])
  BY <1>2, SameSelf
<1> HIDE DEF halted
<1>5. marked \in [Runs -> RunRecord] /\ \A q \in Runs : Same(run[q], marked[q])
  BY <1>2, <1>3, <1>4
<1> HIDE DEF marked
<1>6. ASSUME NEW q \in Runs PROVE Same(run[q], run'[q])
  <2>1. Same(run[q], marked[q]) /\ Same(marked[q], run'[q])
    BY <1>1, <1>5, SameDropped
  <2> QED
    BY <2>1, SameTwice
<1>7. Others(Runs)
  BY <1>1, <1>6 DEF Others
<1>8. ModesKept
  BY <1>1, WithoutControllerModes DEF IInv
<1> QED
  BY <1>1, <1>7, <1>8 DEF Aside

LEMMA OtherAside ==
  ASSUME IInv, UserInv,
         \/ \E c \in Conversations : SwitchConversation(c)
         \/ InvalidateGenerator
         \/ ChangeSettings
         \/ ConversationEffect
         \/ UNCHANGED vars
  PROVE  Aside
<1>1. CASE InvalidateGenerator \/ ConversationEffect
  BY <1>1, DropAside DEF InvalidateGenerator, ConversationEffect, Intervene
<1>2. CASE \/ \E c \in Conversations : SwitchConversation(c)
           \/ ChangeSettings
           \/ UNCHANGED vars
  <2>1. /\ run' = run /\ UNCHANGED generator /\ (output' = {} \/ output' = output)
        /\ UNCHANGED <<isGenerating, runConversationId, prevActiveId, compressing, pending>>
    BY <1>2 DEF SwitchConversation, ChangeSettings, Intervene, vars, storeVars, hookVars,
                ownerVars
  <2>2. Others(Runs) /\ ModesKept
    BY <2>1, OthersSame, UnchangedModes DEF IInv
  <2> QED
    BY <2>1, <2>2 DEF Aside
<1> QED
  BY <1>1, <1>2

\* A compression starts, in the patient user's hands, when nothing generates.
LEMMA CompressionUserInv ==
  ASSUME IInv, UserInv, StartCompression \/ EndCompression
  PROVE  UserInv'
<1>1. /\ run' = run /\ UNCHANGED generator /\ output' = {}
      /\ UNCHANGED <<runConversationId, prevActiveId, pending>>
  BY DEF StartCompression, EndCompression, Intervene
<1>2. Others(Runs) /\ ModesKept
  BY <1>1, OthersSame, UnchangedModes DEF IInv
<1>3. CASE AllowOverlap
  <2>1. DialogsSound'
    BY <1>1 DEF UserInv, DialogsSound
  <2> QED
    BY <1>3, <2>1 DEF UserInv
<1>4. CASE ~AllowOverlap
  <2>1. Rests
    BY <1>4 DEF UserInv, Patience
  <2>2. Rests'
    <3>1. ~isGenerating \/ compressing # None
      BY <1>4 DEF StartCompression, EndCompression
    <3> QED
      BY <1>1, <2>1, <3>1 DEF Rests
  <2>3. Aside
    BY <1>1, <1>2, <2>2 DEF Aside
  <2> QED
    BY <2>3, AsideUserInv
<1> QED
  BY <1>3, <1>4

LEMMA StartUserInv ==
  ASSUME IInv, UserInv, NEW r \in Runs, NEW k \in Kinds, Start(r, k)
  PROVE  UserInv'
<1> DEFINE rec == [run[r] EXCEPT !.pc = "resolving", !.kind = k,
                                 !.conversation = activeId, !.config = config]
<1>1. /\ prevActiveId = activeId /\ run[r].pc = "idle" /\ output' = {}
      /\ AllowOverlap \/ Quiet
      /\ run' = [run EXCEPT ![r] = rec]
      /\ runConversationId' = activeId /\ isGenerating' = TRUE
      /\ UNCHANGED <<prevActiveId, compressing, pending, generator>>
  BY DEF Start, EffectsFlushed, hookVars
<1>2. run[r] \in RunRecord
  BY DEF IInv, TypeOK
<1>3. /\ rec.pc = "resolving" /\ rec.conversation = activeId
      /\ rec.qaFor = run[r].qaFor /\ rec.reply = run[r].reply
      /\ rec.approved = run[r].approved
  BY <1>2 DEF RunRecord
<1> HIDE DEF rec
<1>4. run'[r] = rec /\ \A q \in Runs \ {r} : run'[q] = run[q]
  BY <1>1 DEF IInv, TypeOK
<1>5. r \notin pending
  BY <1>1, NotPending DEF UserInv
<1>6. DialogsSound'
  <2>1. runConversationId' \in {None, prevActiveId'}
    BY <1>1
  <2>2. ASSUME NEW q \in pending'
        PROVE  /\ run'[q].pc \in {"asking", "planning"}
               /\ run'[q].reply = "none"
               /\ run'[q].conversation = prevActiveId'
    <3>1. q \in pending /\ q # r /\ q \in Runs
      BY <1>1, <1>5, <2>2 DEF IInv, TypeOK
    <3> QED
      BY <1>1, <1>4, <3>1 DEF UserInv, DialogsSound
  <2>3. ASSUME NEW q \in Runs, run'[q].reply = "approved" PROVE run'[q].approved
    <3>1. CASE q = r
      BY <1>3, <1>4, <2>3, <3>1 DEF UserInv, DialogsSound
    <3>2. CASE q # r
      BY <1>4, <2>3, <3>2 DEF UserInv, DialogsSound
    <3> QED
      BY <3>1, <3>2
  <2> QED
    BY <2>1, <2>2, <2>3 DEF DialogsSound
<1>7. ASSUME ~AllowOverlap PROVE Patience'
  <2>1. compressing = None /\ \A q \in Runs : ~Alive(q)
    BY <1>1, <1>7 DEF Quiet
  <2>2. OneRun
    BY <1>7 DEF UserInv, Patience
  <2>3. \A q \in Runs : q # r => ~Alive(q)'
    BY <1>4, <2>1 DEF Alive
  <2>4. OneRun'
    <3>1. ASSUME NEW p \in Runs, NEW q \in Runs, Alive(p)', Alive(q)' PROVE p = q
      BY <2>3, <3>1
    <3>2. ASSUME NEW q \in Runs
          PROVE  /\ Alive(q)' => runConversationId' \in {None, run'[q].conversation}
                 /\ run'[q].qaFor \in {None, run'[q].conversation}
                 /\ run'[q].pc = "idle" => run'[q].qaFor = None
      <4>1. CASE q = r
        BY <1>1, <1>3, <1>4, <2>2, <4>1 DEF OneRun
      <4>2. CASE q # r
        BY <1>4, <2>2, <2>3, <4>2 DEF OneRun
      <4> QED
        BY <4>1, <4>2
    <3> QED
      BY <3>1, <3>2 DEF OneRun
  <2>5. Rests'
    BY <1>1, <2>1 DEF Rests
  <2>6. QaPromptIsolation'
    BY <1>1 DEF QaPromptIsolation
  <2>7. ASSUME NEW q \in Runs PROVE Barred(q)'
    <3>1. run'[q].pc \notin Late
      <4>1. CASE q = r
        BY <1>3, <1>4, <4>1 DEF Late, Looping
      <4>2. CASE q # r
        BY <2>3, <4>2 DEF Late, Looping, Alive
      <4> QED
        BY <4>1, <4>2
    <3> QED
      BY <3>1 DEF Barred
  <2> QED
    BY <2>4, <2>5, <2>6, <2>7 DEF Patience
<1> QED
  BY <1>6, <1>7 DEF UserInv

LEMMA InitUserInv == Init => UserInv
<1> SUFFICES ASSUME Init PROVE UserInv
  OBVIOUS
<1>1. ASSUME NEW r \in Runs
      PROVE  run[r].pc = "idle" /\ run[r].qaFor = None /\ run[r].reply = "none"
  BY <1>1 DEF Init, NewRun
<1>2. /\ runConversationId = None /\ pending = {} /\ output = {}
  BY DEF Init
<1>3. DialogsSound
  BY <1>1, <1>2 DEF DialogsSound
<1>4. \A r \in Runs : ~Alive(r) /\ run[r].pc \notin Late
  BY <1>1 DEF Alive, Late, Looping
<1>5. OneRun /\ Rests /\ QaPromptIsolation /\ \A r \in Runs : Barred(r)
  BY <1>1, <1>2, <1>4 DEF OneRun, Rests, QaPromptIsolation, Barred
<1> QED
  BY <1>3, <1>5 DEF UserInv, Patience

LEMMA NextUserInv == IInv /\ UserInv /\ [Next]_vars => UserInv'
<1> SUFFICES ASSUME IInv, UserInv, [Next]_vars PROVE UserInv'
  OBVIOUS
<1>1. DialogsSound
  BY DEF UserInv
<1>2. CASE \E r \in Runs : StreamText(r) \/ RetryRequest(r) \/ RunStep(r)
  BY <1>1, <1>2, RunStepActs, ActsUserInv
<1>3. CASE \E r \in Runs : \E reply \in Replies : Answer(r, reply)
  BY <1>1, <1>3, AnswerActs, ActsUserInv
<1>4. CASE \E r \in Runs : \E k \in Kinds : Start(r, k)
  BY <1>4, StartUserInv
<1>5. CASE Stop
  BY <1>5, StopAside, AsideUserInv
<1>6. CASE \/ \E c \in Conversations : SwitchConversation(c)
           \/ InvalidateGenerator
           \/ ChangeSettings
           \/ ConversationEffect
           \/ UNCHANGED vars
  BY <1>6, OtherAside, AsideUserInv
<1>7. CASE StartCompression \/ EndCompression
  BY <1>7, CompressionUserInv
<1> QED
  BY <1>2, <1>3, <1>4, <1>5, <1>6, <1>7 DEF Next, UserStep

-----------------------------------------------------------------------------
\* The inductive invariant, with the part that is about the patience of users.
THEOREM UserInvariance == Spec => []UserInv
<1> QED
  BY Invariance, InitUserInv, NextUserInv, PTL DEF Spec

\* However runs overlap, a dialog on screen waits for its answer and belongs to
\* the conversation on screen: a run asks only while it is current, and the
\* switch effect, stop and every new prompt reject the dialogs of earlier runs.
THEOREM DialogsLive == Spec => []DialogsAreLive
<1>1. IInv /\ UserInv => DialogsAreLive
  BY DEF UserInv, DialogsSound, DialogsAreLive, EffectsFlushed
<1> QED
  BY <1>1, Invariance, UserInvariance, PTL

\* With users who let a run end before they start the next one, whoever drops
\* isGenerating leaves no owner and no dialog: stop, the switch effect, and the
\* finally blocks, which only a run that is still current gets past.
THEOREM IdleStaysClean == Spec => [](~AllowOverlap => IdleIsClean)
<1>1. UserInv => (~AllowOverlap => IdleIsClean)
  BY DEF UserInv, Patience, Rests, IdleIsClean
<1> QED
  BY <1>1, UserInvariance, PTL

\* With such users runAutomaticQa puts its prompt into the conversation of the
\* run it follows, although it reads the conversation from the hook after the
\* loop returned and not from the run.
THEOREM QaPromptsIsolated == Spec => [](~AllowOverlap => QaPromptIsolation)
<1>1. UserInv => (~AllowOverlap => QaPromptIsolation)
  BY DEF UserInv, Patience
<1> QED
  BY <1>1, UserInvariance, PTL

\* And with such users a run that entered its loop in Plan Mode edits no file
\* before its plan is approved: applyDynamicGeneratorState gives the generator
\* the mode of the run, and only onPlanApproved takes it away.
THEOREM PlansBarEdits == ~AllowOverlap => (Spec => PlanBarrier)
<1> SUFFICES ASSUME ~AllowOverlap PROVE Spec => PlanBarrier
  OBVIOUS
<1> DEFINE Waits == \A w \in output' :
                      w.what = "file" /\ run[w.by].mode = "plan" /\ run[w.by].qaFor = None
                        => run[w.by].approved
<1>1. ASSUME IInv, UserInv, Next PROVE Waits
  <2>1. DialogsSound /\ \A r \in Runs : Barred(r)
    BY <1>1 DEF UserInv, Patience
  <2>2. ASSUME NEW r \in Runs, Acts(r) PROVE Waits
    <3>1. ASSUME NEW w \in output', w.what = "file",
                 run[w.by].mode = "plan", run[w.by].qaFor = None
          PROVE  run[w.by].approved
      <4>1. w.by = r /\ run[r].pc = "tool" /\ generator[run[r].gen].mode # "plan"
        BY <2>2, <3>1 DEF Acts, Wrote, Rightful
      <4>2. Barred(r) /\ run[r].pc \in Late
        BY <2>1, <4>1 DEF Late, Looping
      <4> QED
        BY <3>1, <4>1, <4>2 DEF Barred
    <3> QED
      BY <3>1
  <2>3. CASE output' = {}
    BY <2>3
  <2>4. \/ \E r \in Runs : Acts(r)
        \/ output' = {}
    <3>1. CASE \E r \in Runs : StreamText(r) \/ RetryRequest(r) \/ RunStep(r)
      BY <1>1, <2>1, <3>1, RunStepActs
    <3>2. CASE UserStep \/ ConversationEffect \/ EndCompression
      BY <3>2 DEF UserStep, Start, Answer, Stop, SwitchConversation, InvalidateGenerator,
                  ChangeSettings, StartCompression, Intervene, ConversationEffect,
                  EndCompression
    <3> QED
      BY <1>1, <3>1, <3>2 DEF Next
  <2> HIDE DEF Waits
  <2> QED
    BY <2>2, <2>3, <2>4
<1>2. IInv /\ UserInv /\ [Next]_vars => [Waits]_vars
  BY <1>1
<1> QED
  BY <1>2, Invariance, UserInvariance, PTL DEF Spec, PlanBarrier

=============================================================================
