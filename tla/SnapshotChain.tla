---------------------------- MODULE SnapshotChain ----------------------------
(***************************************************************************)
(* Project snapshots: the chain of checkpoints and patches of              *)
(* src/store/snapshot.ts and snapshot-replay.ts, its pruning in            *)
(* src/lib/utils/storage-governance.ts, and its users: the end of a run    *)
(* (snapshot-helpers.ts, useGenerator.ts) and the rollback of              *)
(* src/hooks/useRollback.ts and ChatInterface.tsx.                         *)
(*                                                                         *)
(* The id of an answer of the model is its place in the conversation       *)
(* (mergeMessages).  A text is told apart by its size; a patch applies to  *)
(* the text it was made of and to no other.                                *)
(***************************************************************************)
EXTENDS Naturals, FiniteSets, Sequences, SequencesExt

CONSTANTS Paths, Contents, Absent,   \* a tree maps each path to a text or Absent
          None,
          MaxMessages,          \* ids of answers
          CheckpointInterval,   \* CHECKPOINT_INTERVAL
          KeepLimit,            \* STORAGE_SNAPSHOT_LIMIT
          Budget                \* maxSnapshotBytes, in sizes of texts

ASSUME SnapshotAssumption ==
  /\ Contents \subseteq Nat \ {0}
  /\ Absent \notin Contents
  /\ IsFiniteSet(Paths) /\ Paths # {}
  /\ MaxMessages \in Nat \ {0}
  /\ None \notin 1..MaxMessages
  /\ CheckpointInterval \in Nat \ {0}
  /\ KeepLimit \in Nat \ {0}
  /\ Budget \in Nat

VARIABLES
  chain,        \* the snapshots of the conversation
  files,        \* its project files
  answers,      \* the answers it shows
  rollbackInfo, \* the message the user rolled back to, until the next prompt
  running       \* its run

vars == <<chain, files, answers, rollbackInfo, running>>

Trees == [Paths -> Contents \cup {Absent}]
EmptyTree == [p \in Paths |-> Absent]
Messages == 1..MaxMessages

\* patches, addedFiles and deletedFiles in one: a change for some paths.
Added(text)       == [op |-> "add", from |-> Absent, to |-> text]
Patched(old, new) == [op |-> "patch", from |-> old, to |-> new]
Deleted           == [op |-> "delete", from |-> Absent, to |-> Absent]
Changes == {Added(t) : t \in Contents} \cup {Deleted}
             \cup {Patched(s, t) : s \in Contents, t \in Contents}
Deltas == UNION {[S -> Changes] : S \in SUBSET Paths}

NoFiles == <<>>   \* fullFiles of a patch snapshot
Snapshots ==
  [message : Messages, delta : Deltas, kind : {"checkpoint"}, fullFiles : Trees]
    \cup [message : Messages, delta : Deltas, kind : {"patch"}, fullFiles : {NoFiles}]

TypeOK ==
  /\ chain \in Seq(Snapshots)
  /\ files \in Trees
  /\ answers \subseteq Messages
  /\ rollbackInfo \in Messages \cup {None}
  /\ running \in {"idle", "asked", "answering"}

-----------------------------------------------------------------------------
(* Replaying and building chains.                                           *)

\* diffFiles, also inlined in createSnapshot and updateLatestSnapshot
DiffFiles(prev, current) ==
  [p \in {q \in Paths : prev[q] # current[q]} |->
     IF prev[p] = Absent THEN Added(current[p])
     ELSE IF current[p] = Absent THEN Deleted
     ELSE Patched(prev[p], current[p])]

\* applyPatch fails on another text, and then the file stays as it is.
ApplyChange(text, change) ==
  IF change.op = "patch" /\ text # change.from THEN text ELSE change.to

ApplyDelta(tree, delta) ==
  [p \in Paths |->
     IF p \in DOMAIN delta THEN ApplyChange(tree[p], delta[p]) ELSE tree[p]]

IsCheckpoint(snapshot) ==
  snapshot.kind = "checkpoint" /\ snapshot.fullFiles # NoFiles

LastCheckpoint(ch, n) ==
  LET anchors == {i \in 1..n : IsCheckpoint(ch[i])}
  IN  IF anchors = {} THEN 0 ELSE CHOOSE i \in anchors : \A j \in anchors : j <= i

\* The tree of the n-th snapshot; no snapshot, no files.
ReplaySnapshots(ch, n) ==
  LET anchor == LastCheckpoint(ch, n)
      tree[i \in anchor..n] ==
        IF i = 0 THEN EmptyTree
        ELSE IF i = anchor THEN ch[i].fullFiles
        ELSE ApplyDelta(tree[i - 1], ch[i].delta)
  IN  tree[n]

PatchesSinceCheckpoint(ch) == Len(ch) - LastCheckpoint(ch, Len(ch))

Snapshot(m, prev, current, checkpoint) ==
  [message   |-> m,
   delta     |-> DiffFiles(prev, current),
   kind      |-> IF checkpoint THEN "checkpoint" ELSE "patch",
   fullFiles |-> IF checkpoint THEN current ELSE NoFiles]

\* The change or the text of every path is stored.
StoredBytes(tree) == FoldFunction(LAMBDA t, n : IF t = Absent THEN n ELSE n + t, 0, tree)
IsSnapshotWithinStorageBudget(snapshot) ==
  StoredBytes([p \in DOMAIN snapshot.delta |-> snapshot.delta[p].to])
    + StoredBytes(snapshot.fullFiles) <= Budget

IndexOf(ch, m) == CHOOSE i \in DOMAIN ch : ch[i].message = m
Has(ch, m) == \E i \in DOMAIN ch : ch[i].message = m

\* createSnapshot: the chain with a snapshot of tree under message m.
CreateSnapshot(ch, m, tree) ==
  LET prev == ReplaySnapshots(ch, Len(ch))
      checkpoint == ch = <<>> \/ PatchesSinceCheckpoint(ch) >= CheckpointInterval
      snapshot == Snapshot(m, prev, tree, checkpoint)
  IN  IF Has(ch, m) \/ tree = prev \/ ~IsSnapshotWithinStorageBudget(snapshot)
      THEN ch
      ELSE Append(ch, snapshot)

\* updateLatestSnapshot keeps the kind of the snapshot it replaces.
UpdateLatestSnapshot_keepsFull(ch, tree) ==
  LET n == Len(ch)
      updated == [ch[n] EXCEPT !.delta = DiffFiles(ReplaySnapshots(ch, n - 1), tree)]
  IN  IF ch = <<>> \/ ~IsSnapshotWithinStorageBudget(updated)
      THEN ch ELSE ReplaceAt(ch, n, updated)
UpdateLatestSnapshot_asPatch(ch, tree) ==
  LET n == Len(ch)
      patch == Snapshot(ch[n].message, ReplaySnapshots(ch, n - 1), tree, FALSE)
      updated == [patch EXCEPT !.kind = ch[n].kind]
  IN  IF ch = <<>> \/ ~IsSnapshotWithinStorageBudget(updated)
      THEN ch ELSE ReplaceAt(ch, n, updated)
UpdateLatestSnapshot(ch, tree) ==
  LET n == Len(ch)
      updated == Snapshot(ch[n].message, ReplaySnapshots(ch, n - 1), tree,
                          IsCheckpoint(ch[n]))
  IN  IF ch = <<>> \/ ~IsSnapshotWithinStorageBudget(updated)
      THEN ch ELSE ReplaceAt(ch, n, updated)

\* rebuildSnapshotChainWithoutSnapshot: what is left is built anew.
RebuildWithout_filters(ch, i) == RemoveAt(ch, i)
RebuildWithout(ch, i) ==
  LET kept == RemoveAt(ch, i)
      tree(k) == IF k = 0 THEN EmptyTree
                 ELSE ReplaySnapshots(ch, IF k < i THEN k ELSE k + 1)
  IN  [k \in DOMAIN kept |->
         Snapshot(kept[k].message, tree(k - 1), tree(k),
                  (k - 1) % (CheckpointInterval + 1) = 0)]

\* pruneSnapshotRecord, for one chain
PruneChain(ch) ==
  LET pruned[n \in 0..Len(ch)] ==
        IF n = 0 THEN ch ELSE RebuildWithout(pruned[n - 1], 1)
  IN  IF Len(ch) <= KeepLimit THEN ch ELSE pruned[Len(ch) - KeepLimit]

-----------------------------------------------------------------------------
\* Chains of before version 2 have no checkpoints; the migration calls all of
\* their snapshots patches.
LegacyChain(tree) ==
  <<Snapshot(1, EmptyTree, tree, FALSE)>>

Init ==
  /\ files \in Trees
  /\ IF files = EmptyTree THEN chain = <<>> /\ answers = {}
     ELSE chain = LegacyChain(files) /\ answers = {1}
  /\ rollbackInfo = None
  /\ running = "idle"

\* flushSnapshotUpdate
Flushed == UpdateLatestSnapshot(chain, files)

\* handleSubmit: what follows the message rolled back to is dropped.
Submit ==
  /\ running = "idle"
  /\ chain' = Flushed
  /\ answers' = {a \in answers : rollbackInfo # None => a <= rollbackInfo}
  /\ rollbackInfo' = None
  /\ running' = "asked"
  /\ UNCHANGED files

\* Continue, review, health check and Automatic QA prompt without the form.
Prompt ==
  /\ running = "idle"
  /\ running' = "asked"
  /\ UNCHANGED <<chain, files, answers, rollbackInfo>>

IsLast(a) == a \in answers /\ \A b \in answers : b <= a

\* retry goes on in the last answer, or drops it if it is an error.
Retry ==
  /\ running = "idle"
  /\ \E a \in answers :
       /\ IsLast(a)
       /\ \/ running' = "answering" /\ UNCHANGED answers
          \/ running' = "asked" /\ answers' = answers \ {a}
  /\ UNCHANGED <<chain, files, rollbackInfo>>

Answer ==
  /\ running = "asked"
  /\ \E a \in Messages :
       /\ \A b \in answers : b < a
       /\ answers' = answers \cup {a}
  /\ running' = "answering"
  /\ UNCHANGED <<chain, files, rollbackInfo>>

RunWrites ==
  /\ running = "answering"
  /\ files' \in Trees \ {files}
  /\ UNCHANGED <<chain, answers, rollbackInfo, running>>

\* onComplete or stop, with createSnapshotForCurrentState
RunEnds ==
  /\ running # "idle"
  /\ running' = "idle"
  /\ IF answers = {} \/ files = EmptyTree
     THEN UNCHANGED chain
     ELSE \E m \in answers :
            IsLast(m) /\ chain' = CreateSnapshot(chain, m, files)
  /\ UNCHANGED <<files, answers, rollbackInfo>>

\* onError: the failed run leaves its changes and no snapshot.
RunFails ==
  /\ running # "idle"
  /\ running' = "idle"
  /\ UNCHANGED <<chain, files, answers, rollbackInfo>>

EditByHand ==
  /\ files' \in Trees \ {files}
  /\ UNCHANGED <<chain, answers, rollbackInfo, running>>

\* handleRollback; the interface offers it for messages with a snapshot, even
\* while a run works.
Rollback(m) ==
  /\ Has(chain, m)
  /\ chain' = Flushed
  /\ files' = ReplaySnapshots(Flushed, IndexOf(Flushed, m))
  /\ rollbackInfo' = m
  /\ UNCHANGED <<answers, running>>

DismissHint ==
  /\ running = "idle"
  /\ rollbackInfo # None
  /\ rollbackInfo' = None
  /\ UNCHANGED <<chain, files, answers, running>>

DeleteSnapshot(i) ==
  /\ i \in DOMAIN chain
  /\ chain' = RebuildWithout(chain, i)
  /\ UNCHANGED <<files, answers, rollbackInfo, running>>

PruneSnapshots ==
  /\ chain' = PruneChain(chain)
  /\ UNCHANGED <<files, answers, rollbackInfo, running>>

\* /clear drops the messages and keeps files and snapshots.
ClearContext ==
  /\ running = "idle"
  /\ answers' = {}
  /\ rollbackInfo' = None
  /\ UNCHANGED <<chain, files, running>>

ResetProject ==
  /\ running = "idle"
  /\ chain' = <<>>
  /\ files' = EmptyTree
  /\ answers' = {}
  /\ rollbackInfo' = None
  /\ UNCHANGED running

\* replaceProject imports files, and the messages stay.
ReplaceProject ==
  /\ running = "idle"
  /\ chain' = <<>>
  /\ files' \in Trees
  /\ UNCHANGED <<answers, rollbackInfo, running>>

\* The user visits another conversation: the run ends without a snapshot, and
\* rollbackInfo, which belongs to no conversation, may come back with a message
\* of the other one.
VisitAnotherConversation ==
  /\ running' = "idle"
  /\ rollbackInfo' \in {rollbackInfo, None} \cup Messages
  /\ UNCHANGED <<chain, files, answers>>

-----------------------------------------------------------------------------
Next ==
  \/ Submit
  \/ Prompt
  \/ Retry
  \/ Answer
  \/ RunWrites
  \/ RunEnds
  \/ RunFails
  \/ EditByHand
  \/ \E m \in Messages : Rollback(m)
  \/ DismissHint
  \/ \E i \in DOMAIN chain : DeleteSnapshot(i)
  \/ PruneSnapshots
  \/ ClearContext
  \/ ResetProject
  \/ ReplaceProject
  \/ VisitAnotherConversation

Spec == Init /\ [][Next]_vars

-----------------------------------------------------------------------------
\* The chain keeps the list of versions SnapshotHistory describes: a version
\* is what its snapshot replays to.
VersionsOf(ch) ==
  [i \in DOMAIN ch |-> [message |-> ch[i].message,
                        files |-> ReplaySnapshots(ch, i)]]
History == INSTANCE SnapshotHistory WITH versions <- VersionsOf(chain)
ImplementsHistory == History!Spec

\* Every delta is relative to its direct predecessor - it patches the text it
\* was made of, adds what was absent, deletes what was there - and what a
\* checkpoint holds in full is what its delta leads to.
ChainIsConsistent ==
  \A i \in DOMAIN chain :
    LET prev == ReplaySnapshots(chain, i - 1)
        delta == chain[i].delta
    IN  /\ ReplaySnapshots(chain, i) = ApplyDelta(prev, delta)
        /\ \A p \in DOMAIN delta :
             IF delta[p] = Deleted THEN prev[p] # Absent
             ELSE prev[p] = delta[p].from

\* No reconstruction walks more than CHECKPOINT_INTERVAL patches.
ReplaysAreShort ==
  \A i \in DOMAIN chain : i - LastCheckpoint(chain, i) <= CheckpointInterval

\* The chain can be replayed, from a checkpoint nearby.
ChainIsSound == ChainIsConsistent /\ ReplaysAreShort

\* Only files somebody wrote are taken into the newest version: while the
\* files are as a rollback left them, every version the conversation still
\* shows stays as it is.
RollbackKeepsVersions ==
  [][rollbackInfo # None /\ Has(chain, rollbackInfo)
       /\ files = ReplaySnapshots(chain, IndexOf(chain, rollbackInfo))
     => \A i \in DOMAIN chain : \A j \in DOMAIN chain' :
          chain[i].message = chain'[j].message /\ chain[i].message \in answers' =>
            ReplaySnapshots(chain', j) = ReplaySnapshots(chain, i)]_vars
=============================================================================
