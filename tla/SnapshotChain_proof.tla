------------------------- MODULE SnapshotChain_proof -------------------------
(***************************************************************************)
(* The chain of snapshots, for every set of paths and texts, every number  *)
(* of messages and every limit.  A chain is represented by the trees it    *)
(* was built from; replaying it gives them back, and every operation of    *)
(* the store turns a represented chain into a represented one.  Facts      *)
(* about all places of a chain rest on a least place they fail for.        *)
(***************************************************************************)
EXTENDS SnapshotChain, Integers, SequenceTheorems, WellFoundedInduction, TLAPS

\* Applying the difference of two trees to the first gives the second, for
\* all trees: what createSnapshot stores is what replaySnapshots restores.
THEOREM DeltaRoundTrip ==
  ASSUME NEW prev \in Trees, NEW current \in Trees
  PROVE  ApplyDelta(prev, DiffFiles(prev, current)) = current
<1> DEFINE delta == DiffFiles(prev, current)
<1>1. DOMAIN delta = {q \in Paths : prev[q] # current[q]}
  BY DEF DiffFiles
<1>2. ASSUME NEW p \in Paths
      PROVE  ApplyDelta(prev, delta)[p] = current[p]
  <2>1. CASE prev[p] = current[p]
    BY <1>1, <2>1 DEF ApplyDelta
  <2>2. CASE prev[p] # current[p]
    <3>1. ApplyDelta(prev, delta)[p] = ApplyChange(prev[p], delta[p])
      BY <1>1, <2>2 DEF ApplyDelta
    <3>2. CASE prev[p] = Absent
      <4>1. delta[p] = Added(current[p])
        BY <2>2, <3>2 DEF DiffFiles
      <4> QED BY <3>1, <4>1 DEF ApplyChange, Added
    <3>3. CASE prev[p] # Absent /\ current[p] = Absent
      <4>1. delta[p] = Deleted
        BY <2>2, <3>3 DEF DiffFiles
      <4> QED BY <3>1, <3>3, <4>1 DEF ApplyChange, Deleted
    <3>4. CASE prev[p] # Absent /\ current[p] # Absent
      <4>1. delta[p] = Patched(prev[p], current[p])
        BY <2>2, <3>4 DEF DiffFiles
      <4> QED BY <3>1, <4>1 DEF ApplyChange, Patched
    <3> QED BY <3>2, <3>3, <3>4
  <2> QED BY <2>1, <2>2
<1> QED BY <1>2 DEF ApplyDelta, Trees

-----------------------------------------------------------------------------
(* Numbers.                                                                 *)

LEMMA Smallest ==
  ASSUME NEW S \in SUBSET Nat, S # {}
  PROVE  \E n \in S : \A m \in S : n <= m
<1> DEFINE less == {ss \in Nat \X Nat : ss[1] < ss[2]}
<1>1. IsWellFoundedOn(less, Nat)
  BY NatLessThanWellFounded DEF OpToRel
<1>2. PICK n \in S : \A m \in S : ~(<<m, n>> \in less)
  BY <1>1, WFMin
<1>3. ASSUME NEW m \in S PROVE n <= m
  <2>1. n \in Nat /\ m \in Nat
    OBVIOUS
  <2>2. ~(m < n)
    BY <1>2, <2>1
  <2> QED
    BY <2>1, <2>2
<1> QED
  BY <1>3

LEMMA Largest ==
  ASSUME NEW n \in Nat, NEW S \in SUBSET (1..n), S # {}
  PROVE  \E i \in S : \A j \in S : j <= i
<1> DEFINE D == {n - j : j \in S}
<1>1. \A j \in S : n - j \in Nat
  OBVIOUS
<1> HIDE DEF D
<1>2. D \in SUBSET Nat
  BY <1>1 DEF D
<1>3. D # {}
  BY DEF D
<1>4. PICK d \in D : \A e \in D : d <= e
  BY <1>2, <1>3, Smallest
<1>5. PICK i \in S : d = n - i
  BY DEF D
<1>6. ASSUME NEW j \in S PROVE j <= i
  <2>1. n - j \in D
    BY DEF D
  <2>2. n - i <= n - j
    BY <1>4, <1>5, <2>1
  <2>3. i \in 1..n /\ j \in 1..n
    OBVIOUS
  <2> QED
    BY <2>2, <2>3
<1> QED
  BY <1>6


LEMMA NoMultipleBetween ==
  ASSUME NEW q \in Int, NEW b \in Nat \ {0}, NEW r \in Int, r = b * q, 0 <= r, r < b
  PROVE  r = 0
<1>1. CASE q = 0
  BY <1>1
<1>2. CASE q <= -1
  <2>1. b * q <= b * (-1)
    BY <1>2, SMTT(60)
  <2> QED
    BY <2>1
<1>3. CASE q >= 1
  <2>1. b * q >= b * 1
    BY <1>3, SMTT(60)
  <2> QED
    BY <2>1
<1> QED
  BY <1>1, <1>2, <1>3

LEMMA Division ==
  ASSUME NEW a \in Int, NEW b \in Nat \ {0}
  PROVE  /\ a \div b \in Int /\ (a % b) \in 0..(b - 1)
         /\ a = b * (a \div b) + (a % b)
<1>1. a \div b \in Int
  OBVIOUS
<1>2. (a % b) \in 0..(b - 1)
  OBVIOUS
<1>3. a = b * (a \div b) + (a % b)
  OBVIOUS
<1> QED
  BY <1>1, <1>2, <1>3

\* Taking the remainder off leaves a multiple.
LEMMA RoundedDown ==
  ASSUME NEW a \in Nat, NEW b \in Nat \ {0}
  PROVE  /\ (a % b) \in 0..(b - 1) /\ (a % b) <= a
         /\ (a - (a % b)) % b = 0
<1> DEFINE q == a \div b
           c == a - (a % b)
           d == c \div b
           r == c % b
<1>1. (a % b) \in 0..(b - 1) /\ q \in Int /\ a = b * q + (a % b)
  BY Division
<1>2. (a % b) <= a
  BY SMTT(60)
<1>3. c \in Int /\ c = b * q
  BY <1>1, SMTT(60)
<1> HIDE DEF c, q
<1>4. d \in Int /\ r \in 0..(b - 1) /\ c = b * d + r
  BY <1>3, Division
<1> HIDE DEF d, r
<1>5. r = b * (q - d)
  BY <1>1, <1>3, <1>4, SMTT(60)
<1>6. r \in Int /\ q - d \in Int /\ 0 <= r /\ r < b
  BY <1>1, <1>4
<1>7. r = 0
  BY <1>5, <1>6, NoMultipleBetween
<1> QED
  BY <1>1, <1>2, <1>7 DEF r, c

-----------------------------------------------------------------------------
(* Snapshots and what they replay to.                                       *)

LEMMA NoFilesIsNoTree == NoFiles \notin Trees
<1>1. DOMAIN NoFiles = {}
  BY DEF NoFiles
<1>2. \A t \in Trees : DOMAIN t = Paths
  BY DEF Trees
<1> QED
  BY <1>1, <1>2, SnapshotAssumption

LEMMA DiffIsDelta ==
  ASSUME NEW prev \in Trees, NEW tree \in Trees
  PROVE  DiffFiles(prev, tree) \in Deltas
<1> DEFINE S == {q \in Paths : prev[q] # tree[q]}
           delta == DiffFiles(prev, tree)
<1>1. ASSUME NEW p \in S
      PROVE  (IF prev[p] = Absent THEN Added(tree[p])
              ELSE IF tree[p] = Absent THEN Deleted
              ELSE Patched(prev[p], tree[p])) \in Changes
  <2>1. prev[p] \in Contents \cup {Absent} /\ tree[p] \in Contents \cup {Absent}
    BY DEF Trees
  <2>2. CASE prev[p] = Absent
    BY <2>1, <2>2 DEF Changes
  <2>3. CASE prev[p] # Absent /\ tree[p] = Absent
    BY <2>3 DEF Changes
  <2>4. CASE prev[p] # Absent /\ tree[p] # Absent
    BY <2>1, <2>4 DEF Changes
  <2> QED
    BY <2>2, <2>3, <2>4
<1>2. delta \in [S -> Changes]
  BY <1>1 DEF DiffFiles
<1>3. S \in SUBSET Paths
  OBVIOUS
<1> HIDE DEF S, delta
<1>4. delta \in Deltas
  BY <1>2, <1>3 DEF Deltas
<1> QED
  BY <1>4 DEF delta

LEMMA SnapshotIs ==
  ASSUME NEW m \in Messages, NEW prev \in Trees, NEW tree \in Trees,
         NEW checkpoint \in BOOLEAN
  PROVE  LET s == Snapshot(m, prev, tree, checkpoint)
         IN  /\ s \in Snapshots
             /\ IsCheckpoint(s) <=> checkpoint
             /\ s.message = m
             /\ s.delta = DiffFiles(prev, tree)
             /\ checkpoint => s.fullFiles = tree
<1> DEFINE delta == DiffFiles(prev, tree)
           s == Snapshot(m, prev, tree, checkpoint)
<1>1. delta \in Deltas
  BY DiffIsDelta
<1>2. tree # NoFiles
  BY NoFilesIsNoTree
<1> HIDE DEF delta
<1>3. CASE checkpoint
  <2>1. s = [message |-> m, delta |-> delta, kind |-> "checkpoint", fullFiles |-> tree]
    BY <1>3 DEF Snapshot, delta
  <2>2. s \in Snapshots
    BY <1>1, <2>1 DEF Snapshots
  <2>3. IsCheckpoint(s)
    BY <1>2, <2>1 DEF IsCheckpoint
  <2>4. s.message = m /\ s.delta = delta /\ s.fullFiles = tree
    BY <2>1
  <2> QED
    BY <1>3, <2>2, <2>3, <2>4 DEF delta
<1>4. CASE ~checkpoint
  <2>1. s = [message |-> m, delta |-> delta, kind |-> "patch", fullFiles |-> NoFiles]
    BY <1>4 DEF Snapshot, delta
  <2>2. s \in Snapshots
    BY <1>1, <2>1 DEF Snapshots
  <2>3. ~IsCheckpoint(s)
    BY <2>1 DEF IsCheckpoint
  <2>4. s.message = m /\ s.delta = delta
    BY <2>1
  <2> QED
    BY <1>4, <2>2, <2>3, <2>4 DEF delta
<1> QED
  BY <1>3, <1>4

\* tree[i] is what the i-th snapshot was made of.
Represents(ch, tree) ==
  /\ ch \in Seq(Snapshots)
  /\ tree \in [0..Len(ch) -> Trees]
  /\ tree[0] = EmptyTree
  /\ \A i \in 1..Len(ch) :
       ch[i] = Snapshot(ch[i].message, tree[i - 1], tree[i], IsCheckpoint(ch[i]))

LEMMA Built ==
  ASSUME NEW ch, NEW tree, Represents(ch, tree), NEW i \in 1..Len(ch)
  PROVE  /\ Len(ch) \in Nat /\ i \in Nat /\ i - 1 \in 0..Len(ch) /\ i \in 0..Len(ch)
         /\ ch[i].message \in Messages
         /\ tree[i - 1] \in Trees /\ tree[i] \in Trees
         /\ ch[i].delta = DiffFiles(tree[i - 1], tree[i])
         /\ ApplyDelta(tree[i - 1], ch[i].delta) = tree[i]
         /\ IsCheckpoint(ch[i]) => ch[i].fullFiles = tree[i]
<1>1. ch \in Seq(Snapshots) /\ Len(ch) \in Nat
  BY DEF Represents
<1>2. i \in Nat /\ i - 1 \in 0..Len(ch) /\ i \in 0..Len(ch)
  BY <1>1
<1>3. tree[i - 1] \in Trees /\ tree[i] \in Trees
  BY <1>2 DEF Represents
<1>4. ch[i] \in Snapshots
  BY <1>1
<1>5. ch[i].message \in Messages
  BY <1>4 DEF Snapshots
<1>6. IsCheckpoint(ch[i]) \in BOOLEAN
  BY DEF IsCheckpoint
<1>7. ch[i] = Snapshot(ch[i].message, tree[i - 1], tree[i], IsCheckpoint(ch[i]))
  BY DEF Represents
<1>8. ch[i].delta = DiffFiles(tree[i - 1], tree[i])
  BY <1>3, <1>5, <1>6, <1>7, SnapshotIs
<1>9. ASSUME IsCheckpoint(ch[i]) PROVE ch[i].fullFiles = tree[i]
  <2> DEFINE m == ch[i].message
             delta == DiffFiles(tree[i - 1], tree[i])
  <2>1. ch[i] = [message |-> m, delta |-> delta, kind |-> "checkpoint", fullFiles |-> tree[i]]
    BY <1>7, <1>9 DEF Snapshot
  <2> HIDE DEF m, delta
  <2> QED
    BY <2>1
<1>10. ApplyDelta(tree[i - 1], ch[i].delta) = tree[i]
  BY <1>3, <1>8, DeltaRoundTrip
<1> QED
  BY <1>1, <1>2, <1>3, <1>5, <1>8, <1>9, <1>10

LEMMA Anchor ==
  ASSUME NEW ch, NEW n \in Nat
  PROVE  LET a == LastCheckpoint(ch, n)
         IN  /\ a \in 0..n
             /\ a # 0 => IsCheckpoint(ch[a])
             /\ \A i \in 1..n : IsCheckpoint(ch[i]) => i <= a
<1> DEFINE S == {i \in 1..n : IsCheckpoint(ch[i])}
<1>1. CASE S = {}
  BY <1>1 DEF LastCheckpoint
<1>2. CASE S # {}
  <2>1. S \in SUBSET (1..n)
    OBVIOUS
  <2>2. \E i \in S : \A j \in S : j <= i
    BY <1>2, <2>1, Largest
  <2> DEFINE a == CHOOSE i \in S : \A j \in S : j <= i
  <2>3. LastCheckpoint(ch, n) = a
    BY <1>2 DEF LastCheckpoint
  <2>4. a \in S /\ \A j \in S : j <= a
    BY <2>2
  <2> HIDE DEF a
  <2> QED
    BY <2>3, <2>4
<1> QED
  BY <1>1, <1>2

\* The trees replaySnapshots walks over.
Walk(f, ch, a, n) ==
  f = [i \in a..n |-> IF i = 0 THEN EmptyTree
                      ELSE IF i = a THEN ch[i].fullFiles
                      ELSE ApplyDelta(f[i - 1], ch[i].delta)]

\* Replaying a represented chain gives the trees it was built from.
LEMMA Replayed ==
  ASSUME NEW ch, NEW tree, Represents(ch, tree), NEW n \in 0..Len(ch)
  PROVE  ReplaySnapshots(ch, n) = tree[n]
<1> DEFINE a == LastCheckpoint(ch, n)
           f == CHOOSE g : Walk(g, ch, a, n)
<1>1. Len(ch) \in Nat /\ n \in Nat
  BY DEF Represents
<1>2. a \in 0..n /\ (a # 0 => IsCheckpoint(ch[a]))
  BY <1>1, Anchor
<1>3. ReplaySnapshots(ch, n) = f[n]
  BY DEF ReplaySnapshots, Walk
<1> HIDE DEF a
<1>4. Walk(f, ch, a, n)
  <2> DEFINE g == [i \in a..n |-> tree[i]]
  <2>1. ASSUME NEW i \in a..n
        PROVE  g[i] = IF i = 0 THEN EmptyTree
                      ELSE IF i = a THEN ch[i].fullFiles
                      ELSE ApplyDelta(g[i - 1], ch[i].delta)
    <3>1. g[i] = tree[i]
      OBVIOUS
    <3>2. CASE i = 0
      BY <3>1, <3>2 DEF Represents
    <3>3. CASE i # 0
      <4>1. i \in 1..Len(ch)
        BY <1>1, <1>2, <3>3
      <4>2. i = a => ch[i].fullFiles = tree[i]
        BY <1>2, <3>3, <4>1, Built
      <4>3. ApplyDelta(tree[i - 1], ch[i].delta) = tree[i]
        BY <4>1, Built
      <4>4. i # a => i - 1 \in a..n
        BY <1>1, <1>2
      <4>5. i # a => g[i - 1] = tree[i - 1]
        BY <4>4
      <4> HIDE DEF g
      <4> QED
        BY <3>1, <3>3, <4>2, <4>3, <4>5
    <3> QED
      BY <3>2, <3>3
  <2>2. Walk(g, ch, a, n)
    BY <2>1 DEF Walk
  <2> QED
    BY <2>2
<1> HIDE DEF f
<1> DEFINE S == {i \in Nat : i \in a..n /\ f[i] # tree[i]}
<1>5. ASSUME S # {} PROVE FALSE
  <2>1. PICK i \in S : \A j \in S : i <= j
    BY <1>5, Smallest
  <2>2. i \in a..n /\ i \in Nat /\ f[i] # tree[i]
    BY <2>1
  <2>3. f[i] = IF i = 0 THEN EmptyTree
               ELSE IF i = a THEN ch[i].fullFiles
               ELSE ApplyDelta(f[i - 1], ch[i].delta)
    BY <1>4, <2>2 DEF Walk
  <2>4. i # 0
    BY <2>2, <2>3 DEF Represents
  <2>5. i \in 1..Len(ch)
    BY <1>1, <1>2, <2>2, <2>4
  <2>6. i # a
    <3>1. IsCheckpoint(ch[i]) => ch[i].fullFiles = tree[i]
      BY <2>5, Built
    <3> QED
      BY <1>2, <2>2, <2>3, <2>4, <3>1
  <2>7. i - 1 \in Nat /\ i - 1 \in a..n /\ ~(i <= i - 1)
    BY <1>1, <1>2, <2>2, <2>4, <2>6
  <2>8. f[i - 1] = tree[i - 1]
    BY <2>1, <2>7
  <2>9. ApplyDelta(tree[i - 1], ch[i].delta) = tree[i]
    BY <2>5, Built
  <2> QED
    BY <2>2, <2>3, <2>4, <2>6, <2>8, <2>9
<1>6. n \in a..n
  BY <1>1, <1>2
<1> QED
  BY <1>1, <1>3, <1>5, <1>6

-----------------------------------------------------------------------------
(* The operations of the store, on represented chains.                      *)

\* From every place a checkpoint, or the empty beginning, is near.
Near(ch) ==
  \A i \in 1..Len(ch) : \E j \in 0..i :
    i - j <= CheckpointInterval /\ (j # 0 => IsCheckpoint(ch[j]))

Sound(ch, tree) == Represents(ch, tree) /\ Near(ch)

Versions == [message : Messages, files : Trees]

LEMMA VersionsAre ==
  ASSUME NEW ch, NEW tree, Represents(ch, tree)
  PROVE  /\ VersionsOf(ch) = [i \in 1..Len(ch) |-> [message |-> ch[i].message,
                                                    files |-> tree[i]]]
         /\ VersionsOf(ch) \in Seq(Versions)
         /\ Len(VersionsOf(ch)) = Len(ch) /\ Len(ch) \in Nat
         /\ DOMAIN VersionsOf(ch) = 1..Len(ch)
         /\ \A i \in 1..Len(ch) : /\ VersionsOf(ch)[i].message = ch[i].message
                                  /\ VersionsOf(ch)[i].files = tree[i]
<1> DEFINE v == [i \in 1..Len(ch) |-> [message |-> ch[i].message, files |-> tree[i]]]
<1>1. ch \in Seq(Snapshots) /\ Len(ch) \in Nat /\ DOMAIN ch = 1..Len(ch)
  BY DEF Represents
<1>2. \A i \in 1..Len(ch) : ReplaySnapshots(ch, i) = tree[i]
  BY <1>1, Replayed
<1>3. VersionsOf(ch) = v
  BY <1>1, <1>2 DEF VersionsOf
<1>4. \A i \in 1..Len(ch) : ch[i].message \in Messages /\ tree[i] \in Trees
  BY Built
<1>5. v \in Seq(Versions)
  BY <1>1, <1>4 DEF Versions
<1>6. Len(v) = Len(ch) /\ DOMAIN v = 1..Len(ch)
  BY <1>1
<1>7. \A i \in 1..Len(ch) : v[i].message = ch[i].message /\ v[i].files = tree[i]
  OBVIOUS
<1> QED
  BY <1>1, <1>3, <1>5, <1>6, <1>7

\* createSnapshot leaves the chain alone or adds a version.
LEMMA CreateSnapshotAdds ==
  ASSUME NEW ch, NEW tree, Sound(ch, tree), NEW m \in Messages, NEW current \in Trees
  PROVE  \/ CreateSnapshot(ch, m, current) = ch
         \/ /\ ~Has(ch, m)
            /\ \E t : Sound(CreateSnapshot(ch, m, current), t)
            /\ VersionsOf(CreateSnapshot(ch, m, current))
                 = Append(VersionsOf(ch), [message |-> m, files |-> current])
<1> DEFINE n == Len(ch)
           a == LastCheckpoint(ch, n)
           checkpoint == ch = <<>> \/ PatchesSinceCheckpoint(ch) >= CheckpointInterval
           s == Snapshot(m, tree[n], current, checkpoint)
           c == Append(ch, s)
           t == [i \in 0..(n + 1) |-> IF i = n + 1 THEN current ELSE tree[i]]
<1> SUFFICES ASSUME CreateSnapshot(ch, m, current) # ch
             PROVE  /\ ~Has(ch, m)
                    /\ \E u : Sound(CreateSnapshot(ch, m, current), u)
                    /\ VersionsOf(CreateSnapshot(ch, m, current))
                         = Append(VersionsOf(ch), [message |-> m, files |-> current])
  OBVIOUS
<1>1. /\ ch \in Seq(Snapshots) /\ n \in Nat /\ n \in 0..n
      /\ tree \in [0..n -> Trees] /\ tree[n] \in Trees
  BY DEF Sound, Represents
<1>2. ReplaySnapshots(ch, n) = tree[n]
  BY <1>1, Replayed DEF Sound
<1>3. ~Has(ch, m) /\ CreateSnapshot(ch, m, current) = c
  BY <1>2 DEF CreateSnapshot
<1>4. a \in 0..n /\ (a # 0 => IsCheckpoint(ch[a])) /\ PatchesSinceCheckpoint(ch) = n - a
  BY <1>1, Anchor DEF PatchesSinceCheckpoint
<1>5. CheckpointInterval \in Nat
  BY SnapshotAssumption
<1>6. checkpoint \in BOOLEAN
  OBVIOUS
<1>7. ~checkpoint => n - a < CheckpointInterval
  BY <1>1, <1>4, <1>5
<1> HIDE DEF a, checkpoint
<1>8. /\ s \in Snapshots /\ (IsCheckpoint(s) <=> checkpoint) /\ s.message = m
  BY <1>1, <1>6, SnapshotIs
<1>9. s = Snapshot(s.message, tree[n], current, IsCheckpoint(s))
  BY <1>8 DEF Snapshot
<1> HIDE DEF s
<1>10. /\ c \in Seq(Snapshots) /\ Len(c) = n + 1 /\ c[n + 1] = s
       /\ \A i \in 1..n : c[i] = ch[i]
  BY <1>1, <1>8
<1>11. /\ t[n + 1] = current /\ \A i \in 0..n : t[i] = tree[i]
  BY <1>1
<1>12. t \in [0..(n + 1) -> Trees]
  BY <1>1
<1> HIDE DEF c, t
<1>13. Represents(c, t)
  <2>1. t[0] = EmptyTree
    BY <1>1, <1>11 DEF Sound, Represents
  <2>2. ASSUME NEW i \in 1..(n + 1)
        PROVE  c[i] = Snapshot(c[i].message, t[i - 1], t[i], IsCheckpoint(c[i]))
    <3>1. CASE i = n + 1
      <4>1. t[i - 1] = tree[n]
        BY <1>1, <1>11, <3>1
      <4> QED
        BY <1>9, <1>10, <1>11, <3>1, <4>1
    <3>2. CASE i # n + 1
      <4>1. i \in 1..n /\ i \in 0..n /\ i - 1 \in 0..n
        BY <1>1, <3>2
      <4>2. ch[i] = Snapshot(ch[i].message, tree[i - 1], tree[i], IsCheckpoint(ch[i]))
        BY <4>1 DEF Sound, Represents
      <4>3. t[i - 1] = tree[i - 1] /\ t[i] = tree[i] /\ c[i] = ch[i]
        BY <1>10, <1>11, <4>1
      <4> QED
        BY <4>2, <4>3
    <3> QED
      BY <3>1, <3>2
  <2> QED
    BY <1>10, <1>12, <2>1, <2>2 DEF Represents
<1>14. Near(c)
  <2> SUFFICES ASSUME NEW i \in 1..(n + 1)
               PROVE  \E j \in 0..i : /\ i - j <= CheckpointInterval
                                      /\ j # 0 => IsCheckpoint(c[j])
    BY <1>10 DEF Near
  <2>1. CASE i = n + 1 /\ checkpoint
    <3>1. i \in 0..i /\ i - i <= CheckpointInterval /\ IsCheckpoint(c[i])
      BY <1>1, <1>5, <1>8, <1>10, <2>1
    <3> QED
      BY <3>1
  <2>2. CASE i = n + 1 /\ ~checkpoint
    <3>1. a \in 0..i /\ i - a <= CheckpointInterval
      BY <1>1, <1>4, <1>5, <1>7, <2>2
    <3>2. a # 0 => IsCheckpoint(c[a])
      BY <1>1, <1>4, <1>10
    <3> QED
      BY <3>1, <3>2
  <2>3. CASE i # n + 1
    <3>1. i \in 1..n
      BY <1>1, <2>3
    <3>2. PICK j \in 0..i : i - j <= CheckpointInterval /\ (j # 0 => IsCheckpoint(ch[j]))
      BY <3>1 DEF Sound, Near
    <3>3. j # 0 => j \in 1..n
      BY <1>1, <3>1
    <3> QED
      BY <1>10, <3>2, <3>3
  <2> QED
    BY <2>1, <2>2, <2>3
<1>15. VersionsOf(c) = Append(VersionsOf(ch), [message |-> m, files |-> current])
  <2> DEFINE v == VersionsOf(ch)
             e == [message |-> m, files |-> current]
             w == VersionsOf(c)
  <2>1. /\ v \in Seq(Versions) /\ Len(v) = n
        /\ \A i \in 1..n : v[i] = [message |-> ch[i].message, files |-> tree[i]]
    BY VersionsAre DEF Sound
  <2>2. /\ w \in Seq(Versions) /\ Len(w) = n + 1
        /\ \A i \in 1..(n + 1) : w[i] = [message |-> c[i].message, files |-> t[i]]
    BY <1>10, <1>13, VersionsAre
  <2>3. e \in Versions
    BY DEF Versions
  <2> HIDE DEF v, w, e
  <2>4. w[n + 1] = e
    BY <1>1, <1>8, <1>10, <1>11, <2>2 DEF e
  <2>5. ASSUME NEW i \in 1..n PROVE w[i] = v[i]
    <3>1. i \in 1..(n + 1) /\ i \in 0..n
      BY <1>1
    <3>2. c[i] = ch[i] /\ t[i] = tree[i]
      BY <1>10, <1>11, <3>1
    <3> QED
      BY <2>1, <2>2, <3>1, <3>2
  <2>6. /\ Append(v, e) \in Seq(Versions) /\ Len(Append(v, e)) = n + 1
        /\ Append(v, e)[n + 1] = e /\ \A i \in 1..n : Append(v, e)[i] = v[i]
    BY <1>1, <2>1, <2>3
  <2>7. \A i \in 1..(n + 1) : w[i] = Append(v, e)[i]
    BY <1>1, <2>4, <2>5, <2>6
  <2>8. w = Append(v, e)
    BY <2>2, <2>6, <2>7, SeqEqual
  <2> QED
    BY <2>8 DEF v, w, e
<1>16. Sound(c, t)
  BY <1>13, <1>14 DEF Sound
<1> QED
  BY <1>3, <1>15, <1>16

\* updateLatestSnapshot leaves the chain alone or brings the last version up
\* to date.
LEMMA UpdateRefreshes ==
  ASSUME NEW ch, NEW tree, Sound(ch, tree), NEW current \in Trees
  PROVE  \/ UpdateLatestSnapshot(ch, current) = ch
         \/ /\ ch # <<>>
            /\ \E t : Sound(UpdateLatestSnapshot(ch, current), t)
            /\ VersionsOf(UpdateLatestSnapshot(ch, current))
                 = [VersionsOf(ch) EXCEPT ![Len(VersionsOf(ch))].files = current]
<1> DEFINE n == Len(ch)
           s == Snapshot(ch[n].message, tree[n - 1], current, IsCheckpoint(ch[n]))
           c == [ch EXCEPT ![n] = s]
           t == [tree EXCEPT ![n] = current]
<1> SUFFICES ASSUME UpdateLatestSnapshot(ch, current) # ch
             PROVE  /\ ch # <<>>
                    /\ \E u : Sound(UpdateLatestSnapshot(ch, current), u)
                    /\ VersionsOf(UpdateLatestSnapshot(ch, current))
                         = [VersionsOf(ch) EXCEPT ![Len(VersionsOf(ch))].files = current]
  OBVIOUS
<1>1. /\ ch \in Seq(Snapshots) /\ n \in Nat
      /\ tree \in [0..n -> Trees]
  BY DEF Sound, Represents
<1>2. ch # <<>>
  BY DEF UpdateLatestSnapshot
<1>3. n \in 1..n /\ n - 1 \in 0..n /\ n \in 0..n /\ n # 0
  BY <1>1, <1>2
<1>4. ReplaySnapshots(ch, n - 1) = tree[n - 1]
  BY <1>3, Replayed DEF Sound
<1>5. UpdateLatestSnapshot(ch, current) = c
  BY <1>4 DEF UpdateLatestSnapshot, ReplaceAt
<1>6. ch[n].message \in Messages /\ tree[n - 1] \in Trees
  BY <1>3, Built DEF Sound
<1>7. IsCheckpoint(ch[n]) \in BOOLEAN
  BY DEF IsCheckpoint
<1>8. /\ s \in Snapshots /\ (IsCheckpoint(s) <=> IsCheckpoint(ch[n]))
      /\ s.message = ch[n].message
  BY <1>6, <1>7, SnapshotIs
<1>9. s = Snapshot(s.message, tree[n - 1], current, IsCheckpoint(s))
  BY <1>8 DEF Snapshot
<1> HIDE DEF s
<1>10. /\ c \in Seq(Snapshots) /\ Len(c) = n /\ c[n] = s
       /\ \A i \in 1..n : i # n => c[i] = ch[i]
  BY <1>1, <1>3, <1>8
<1>11. /\ t[n] = current /\ \A i \in 0..n : i # n => t[i] = tree[i]
  BY <1>1, <1>3
<1>12. t \in [0..n -> Trees]
  BY <1>1
<1> HIDE DEF c, t
<1>13. Represents(c, t)
  <2>1. t[0] = EmptyTree
    BY <1>1, <1>3, <1>11 DEF Sound, Represents
  <2>2. ASSUME NEW i \in 1..n
        PROVE  c[i] = Snapshot(c[i].message, t[i - 1], t[i], IsCheckpoint(c[i]))
    <3>1. i - 1 \in 0..n /\ i - 1 # n /\ i \in 0..n
      BY <1>1
    <3>2. t[i - 1] = tree[i - 1]
      BY <1>11, <3>1
    <3>3. CASE i = n
      BY <1>9, <1>10, <1>11, <3>2, <3>3
    <3>4. CASE i # n
      <4>1. ch[i] = Snapshot(ch[i].message, tree[i - 1], tree[i], IsCheckpoint(ch[i]))
        BY DEF Sound, Represents
      <4>2. t[i] = tree[i] /\ c[i] = ch[i]
        BY <1>10, <1>11, <3>1, <3>4
      <4> QED
        BY <3>2, <4>1, <4>2
    <3> QED
      BY <3>3, <3>4
  <2> QED
    BY <1>10, <1>12, <2>1, <2>2 DEF Represents
<1>14. ASSUME NEW j \in 1..n PROVE IsCheckpoint(ch[j]) => IsCheckpoint(c[j])
  BY <1>8, <1>10
<1>15. Near(c)
  <2> SUFFICES ASSUME NEW i \in 1..n
               PROVE  \E j \in 0..i : /\ i - j <= CheckpointInterval
                                      /\ j # 0 => IsCheckpoint(c[j])
    BY <1>10 DEF Near
  <2>1. PICK j \in 0..i : i - j <= CheckpointInterval /\ (j # 0 => IsCheckpoint(ch[j]))
    BY DEF Sound, Near
  <2>2. j # 0 => j \in 1..n
    BY <1>1
  <2> QED
    BY <1>14, <2>1, <2>2
<1>16. VersionsOf(c) = [VersionsOf(ch) EXCEPT ![Len(VersionsOf(ch))].files = current]
  <2> DEFINE v == VersionsOf(ch)
             w == VersionsOf(c)
             e == [v EXCEPT ![n].files = current]
  <2>1. /\ v \in Seq(Versions) /\ Len(v) = n
        /\ \A i \in 1..n : v[i] = [message |-> ch[i].message, files |-> tree[i]]
    BY VersionsAre DEF Sound
  <2>2. /\ w \in Seq(Versions) /\ Len(w) = n
        /\ \A i \in 1..n : w[i] = [message |-> c[i].message, files |-> t[i]]
    BY <1>10, <1>13, VersionsAre
  <2> HIDE DEF v, w
  <2>3. /\ e \in Seq(Versions) /\ Len(e) = n
        /\ e[n] = [message |-> ch[n].message, files |-> current]
        /\ \A i \in 1..n : i # n => e[i] = v[i]
    <3>1. v[n] \in Versions
      BY <1>3, <2>1
    <3>2. [v[n] EXCEPT !.files = current] = [message |-> ch[n].message, files |-> current]
      <4>1. v[n] = [message |-> ch[n].message, files |-> tree[n]]
        BY <1>3, <2>1
      <4>2. \A a, b, d : [[message |-> a, files |-> b] EXCEPT !.files = d]
                           = [message |-> a, files |-> d]
        OBVIOUS
      <4> QED
        BY <4>1, <4>2
    <3>3. [message |-> ch[n].message, files |-> current] \in Versions
      BY <1>6 DEF Versions
    <3>4. e = [v EXCEPT ![n] = [message |-> ch[n].message, files |-> current]]
      BY <3>2
    <3> DEFINE x == [message |-> ch[n].message, files |-> current]
    <3>5. x \in Versions
      BY <3>3
    <3>6. e = [v EXCEPT ![n] = x]
      BY <3>4
    <3> HIDE DEF x, e
    <3>7. /\ [v EXCEPT ![n] = x] \in Seq(Versions) /\ Len([v EXCEPT ![n] = x]) = n
          /\ \A i \in 1..n : [v EXCEPT ![n] = x][i] = IF i = n THEN x ELSE v[i]
      BY <1>3, <2>1, <3>5, ExceptSeq
    <3> QED
      BY <1>3, <3>6, <3>7 DEF x
  <2> HIDE DEF e
  <2>4. ASSUME NEW i \in 1..n PROVE w[i] = e[i]
    <3>1. CASE i = n
      BY <1>8, <1>10, <1>11, <2>2, <2>3, <3>1
    <3>2. CASE i # n
      <4>1. i \in 0..n
        BY <1>1
      <4>2. c[i] = ch[i] /\ t[i] = tree[i] /\ e[i] = v[i]
        BY <1>10, <1>11, <2>3, <3>2, <4>1
      <4> QED
        BY <2>1, <2>2, <4>2
    <3> QED
      BY <3>1, <3>2
  <2>5. w = e
    BY <2>2, <2>3, <2>4, SeqEqual
  <2> QED
    BY <2>1, <2>5 DEF v, w, e
<1>17. Sound(c, t)
  BY <1>13, <1>15 DEF Sound
<1> QED
  BY <1>2, <1>5, <1>16, <1>17

LEMMA Removed ==
  ASSUME NEW S, NEW s \in Seq(S), NEW i \in 1..Len(s)
  PROVE  /\ RemoveAt(s, i) \in Seq(S) /\ Len(RemoveAt(s, i)) = Len(s) - 1
         /\ DOMAIN RemoveAt(s, i) = 1..(Len(s) - 1)
         /\ \A k \in 1..(Len(s) - 1) :
              RemoveAt(s, i)[k] = s[IF k < i THEN k ELSE k + 1]
<1> DEFINE n == Len(s)
           a == SubSeq(s, 1, i - 1)
           b == SubSeq(s, i + 1, n)
<1>1. n \in Nat /\ i \in Int /\ 1 <= i /\ i <= n /\ \A j \in 1..n : s[j] \in S
  OBVIOUS
<1>2. /\ a \in Seq(S) /\ Len(a) = i - 1
      /\ \A k \in 1..(i - 1) : a[k] = s[k]
  <2>1. 1 \in Int /\ i - 1 \in Int /\ \A j \in 1..(i - 1) : s[j] \in S
    BY <1>1
  <2>2. /\ a \in Seq(S) /\ Len(a) = IF 1 <= i - 1 THEN (i - 1) - 1 + 1 ELSE 0
        /\ \A k \in 1..((i - 1) - 1 + 1) : a[k] = s[1 + k - 1]
    BY <2>1, SubSeqProperties
  <2> QED
    BY <1>1, <2>2
<1>3. /\ b \in Seq(S) /\ Len(b) = n - i
      /\ \A k \in 1..(n - i) : b[k] = s[i + k]
  <2>1. i + 1 \in Int /\ n \in Int /\ \A j \in (i + 1)..n : s[j] \in S
    BY <1>1
  <2>2. /\ b \in Seq(S) /\ Len(b) = IF i + 1 <= n THEN n - (i + 1) + 1 ELSE 0
        /\ \A k \in 1..(n - (i + 1) + 1) : b[k] = s[(i + 1) + k - 1]
    BY <2>1, SubSeqProperties
  <2> QED
    BY <1>1, <2>2
<1> HIDE DEF a, b
<1>4. /\ a \o b \in Seq(S) /\ Len(a \o b) = Len(a) + Len(b)
      /\ \A k \in 1..(Len(a) + Len(b)) :
           (a \o b)[k] = IF k <= Len(a) THEN a[k] ELSE b[k - Len(a)]
  BY <1>2, <1>3, ConcatProperties
<1>5. RemoveAt(s, i) = a \o b
  BY DEF RemoveAt, a, b
<1>6. Len(a) + Len(b) = n - 1 /\ n - 1 \in Nat
  BY <1>1, <1>2, <1>3
<1>7. ASSUME NEW k \in 1..(n - 1)
      PROVE  (a \o b)[k] = s[IF k < i THEN k ELSE k + 1]
  <2>1. (a \o b)[k] = IF k <= i - 1 THEN a[k] ELSE b[k - (i - 1)]
    BY <1>2, <1>4, <1>6
  <2>2. CASE k < i
    <3>1. k \in 1..(i - 1) /\ k <= i - 1
      BY <1>1, <2>2
    <3> QED
      BY <1>2, <2>1, <2>2, <3>1
  <2>3. CASE ~(k < i)
    <3>1. k - (i - 1) \in 1..(n - i) /\ i + (k - (i - 1)) = k + 1 /\ ~(k <= i - 1)
      BY <1>1, <2>3
    <3> QED
      BY <1>3, <2>1, <2>3, <3>1
  <2> QED
    BY <2>2, <2>3
<1>8. DOMAIN (a \o b) = 1..(n - 1)
  BY <1>4, <1>6
<1> QED
  BY <1>4, <1>5, <1>6, <1>7, <1>8

\* rebuildSnapshotChainWithoutSnapshot drops one version and keeps the others.
LEMMA RebuildDrops ==
  ASSUME NEW ch, NEW tree, Sound(ch, tree), NEW i \in 1..Len(ch)
  PROVE  /\ \E t : Sound(RebuildWithout(ch, i), t)
         /\ Len(RebuildWithout(ch, i)) = Len(ch) - 1
         /\ VersionsOf(RebuildWithout(ch, i)) = RemoveAt(VersionsOf(ch), i)
<1> DEFINE n == Len(ch)
           b == CheckpointInterval + 1
           kept == RemoveAt(ch, i)
           t == [k \in 0..(n - 1) |-> IF k < i THEN tree[k] ELSE tree[k + 1]]
           s(k) == Snapshot(kept[k].message, t[k - 1], t[k], (k - 1) % b = 0)
           c == [k \in 1..(n - 1) |-> s(k)]
<1>1. /\ ch \in Seq(Snapshots) /\ n \in Nat /\ i \in Nat /\ 1 <= i /\ i <= n
      /\ tree \in [0..n -> Trees] /\ tree[0] = EmptyTree
  BY DEF Sound, Represents
<1>2. /\ Len(kept) = n - 1 /\ DOMAIN kept = 1..(n - 1)
      /\ \A k \in 1..(n - 1) : kept[k] = ch[IF k < i THEN k ELSE k + 1]
  BY <1>1, Removed
<1>3. ASSUME NEW k \in 0..(n - 1)
      PROVE  /\ t[k] \in Trees
             /\ t[k] = IF k = 0 THEN EmptyTree
                       ELSE ReplaySnapshots(ch, IF k < i THEN k ELSE k + 1)
  <2>1. k \in 0..n /\ k + 1 \in 0..n
    BY <1>1
  <2>2. t[k] = IF k < i THEN tree[k] ELSE tree[k + 1]
    OBVIOUS
  <2>3. tree[k] \in Trees /\ tree[k + 1] \in Trees
    BY <1>1, <2>1
  <2>4. ReplaySnapshots(ch, k) = tree[k] /\ ReplaySnapshots(ch, k + 1) = tree[k + 1]
    BY <2>1, Replayed DEF Sound
  <2>5. k = 0 => t[k] = EmptyTree
    BY <1>1, <2>2
  <2> HIDE DEF t
  <2> QED
    BY <2>2, <2>3, <2>4, <2>5
<1>4. RebuildWithout(ch, i) = c
  <2> DEFINE u(k) == IF k = 0 THEN EmptyTree
                     ELSE ReplaySnapshots(ch, IF k < i THEN k ELSE k + 1)
             d == [k \in 1..(n - 1) |->
                     Snapshot(kept[k].message, u(k - 1), u(k), (k - 1) % b = 0)]
  <2>1. RebuildWithout(ch, i) = d
    BY <1>2 DEF RebuildWithout
  <2>2. ASSUME NEW k \in 1..(n - 1) PROVE u(k) = t[k] /\ u(k - 1) = t[k - 1]
    <3>1. k \in 0..(n - 1) /\ k - 1 \in 0..(n - 1)
      BY <1>1
    <3> HIDE DEF t
    <3> QED
      BY <1>3, <3>1
  <2> HIDE DEF t, u, b, kept
  <2>3. \A k \in 1..(n - 1) :
          Snapshot(kept[k].message, u(k - 1), u(k), (k - 1) % b = 0) = s(k)
    BY <2>2
  <2>4. d = c
    BY <2>3
  <2> QED
    BY <2>1, <2>4
<1> HIDE DEF t
<1>5. b \in Nat \ {0} /\ b - 1 = CheckpointInterval
  BY SnapshotAssumption
<1> HIDE DEF b
<1>6. ASSUME NEW k \in 1..(n - 1)
      PROVE  /\ kept[k].message \in Messages
             /\ t[k - 1] \in Trees /\ t[k] \in Trees
             /\ s(k) \in Snapshots /\ s(k).message = kept[k].message
             /\ IsCheckpoint(s(k)) <=> (k - 1) % b = 0
  <2>1. ASSUME NEW l \in 1..n PROVE ch[l].message \in Messages
    BY Built DEF Sound
  <2>2. kept[k].message \in Messages
    <3> DEFINE l == IF k < i THEN k ELSE k + 1
    <3>1. l \in 1..n
      BY <1>1
    <3>2. kept[k] = ch[l]
      BY <1>2
    <3> HIDE DEF l, kept
    <3> QED
      BY <2>1, <3>1, <3>2
  <2>3. k \in 0..(n - 1) /\ k - 1 \in 0..(n - 1)
    BY <1>1
  <2>4. t[k - 1] \in Trees /\ t[k] \in Trees
    BY <1>3, <2>3
  <2>5. ((k - 1) % b = 0) \in BOOLEAN
    OBVIOUS
  <2> HIDE DEF kept
  <2> DEFINE checkpoint == (k - 1) % b = 0
  <2>6. checkpoint \in BOOLEAN
    OBVIOUS
  <2> HIDE DEF checkpoint
  <2> DEFINE x == Snapshot(kept[k].message, t[k - 1], t[k], checkpoint)
  <2>7. x \in Snapshots /\ x.message = kept[k].message /\ (IsCheckpoint(x) <=> checkpoint)
    BY <2>2, <2>4, <2>6, SnapshotIs
  <2>8. x = s(k)
    BY DEF checkpoint
  <2> HIDE DEF x, s
  <2>9. x \in Snapshots /\ x.message = kept[k].message
    BY <2>7
  <2>10. IsCheckpoint(x) <=> (k - 1) % b = 0
    BY <2>7 DEF checkpoint
  <2> QED
    BY <2>2, <2>4, <2>8, <2>9, <2>10
<1>7. n - 1 \in Nat
  BY <1>1
<1>8. /\ c \in Seq(Snapshots) /\ Len(c) = n - 1
      /\ \A k \in 1..(n - 1) : c[k] = s(k)
  <2> HIDE DEF s
  <2>1. \A k \in 1..(n - 1) : s(k) \in Snapshots
    BY <1>6
  <2>2. c \in [1..(n - 1) -> Snapshots]
    BY <2>1
  <2> QED
    BY <1>7, <2>2
<1> HIDE DEF c
<1>9. Represents(c, t)
  <2>1. t \in [0..(n - 1) -> Trees]
    <3>1. t = [k \in 0..(n - 1) |-> t[k]]
      BY DEF t
    <3> QED
      BY <1>3, <3>1
  <2>2. t[0] = EmptyTree
    <3>1. 0 \in 0..(n - 1)
      BY <1>7
    <3> QED
      BY <1>3, <3>1
  <2>3. ASSUME NEW k \in 1..(n - 1)
        PROVE  c[k] = Snapshot(c[k].message, t[k - 1], t[k], IsCheckpoint(c[k]))
    <3>1. c[k].message = kept[k].message /\ (IsCheckpoint(c[k]) <=> (k - 1) % b = 0)
      BY <1>6, <1>8
    <3>2. c[k] = Snapshot(kept[k].message, t[k - 1], t[k], (k - 1) % b = 0)
      BY <1>8
    <3> QED
      BY <3>1, <3>2 DEF Snapshot
  <2> QED
    BY <1>8, <2>1, <2>2, <2>3 DEF Represents
<1>10. Near(c)
  <2> SUFFICES ASSUME NEW k \in 1..(n - 1)
               PROVE  \E j \in 0..k : /\ k - j <= CheckpointInterval
                                      /\ j # 0 => IsCheckpoint(c[j])
    BY <1>8 DEF Near
  <2> DEFINE a == k - 1
             r == a % b
             j == (a - r) + 1
  <2>1. a \in Nat
    OBVIOUS
  <2>2. r \in 0..(b - 1) /\ r <= a /\ (a - r) % b = 0
    BY <1>5, <2>1, RoundedDown
  <2> HIDE DEF r
  <2>3. j \in 0..k /\ j \in 1..(n - 1) /\ k - j <= CheckpointInterval /\ j - 1 = a - r
    BY <1>5, <1>7, <2>1, <2>2
  <2> HIDE DEF j
  <2>4. IsCheckpoint(s(j)) <=> (j - 1) % b = 0
    BY <1>6, <2>3
  <2> HIDE DEF s
  <2>5. IsCheckpoint(c[j])
    BY <1>8, <2>2, <2>3, <2>4
  <2> QED
    BY <2>3, <2>5
<1>11. VersionsOf(c) = RemoveAt(VersionsOf(ch), i)
  <2> DEFINE v == VersionsOf(ch)
             w == VersionsOf(c)
             x == RemoveAt(v, i)
  <2>1. /\ v \in Seq(Versions) /\ Len(v) = n
        /\ \A k \in 1..n : v[k] = [message |-> ch[k].message, files |-> tree[k]]
    BY VersionsAre DEF Sound
  <2>2. /\ w \in Seq(Versions) /\ Len(w) = n - 1
        /\ \A k \in 1..(n - 1) : w[k] = [message |-> c[k].message, files |-> t[k]]
    <3>1. /\ w \in Seq(Versions) /\ Len(w) = Len(c)
          /\ w = [k \in 1..Len(c) |-> [message |-> c[k].message, files |-> t[k]]]
      BY <1>9, VersionsAre
    <3>2. Len(c) = n - 1
      BY <1>8
    <3> HIDE DEF w
    <3> QED
      BY <3>1, <3>2
  <2> HIDE DEF v, w
  <2>3. /\ x \in Seq(Versions) /\ Len(x) = n - 1
        /\ \A k \in 1..(n - 1) : x[k] = v[IF k < i THEN k ELSE k + 1]
    <3>1. i \in 1..Len(v)
      BY <2>1
    <3>2. /\ x \in Seq(Versions) /\ Len(x) = Len(v) - 1
          /\ \A k \in 1..(Len(v) - 1) : x[k] = v[IF k < i THEN k ELSE k + 1]
      BY <2>1, <3>1, Removed
    <3> HIDE DEF x
    <3> QED
      BY <2>1, <3>2
  <2> HIDE DEF x
  <2>4. ASSUME NEW k \in 1..(n - 1) PROVE w[k] = x[k]
    <3> DEFINE l == IF k < i THEN k ELSE k + 1
    <3>1. l \in 1..n
      BY <1>1
    <3>2. c[k].message = ch[l].message
      BY <1>2, <1>6, <1>8
    <3>3. t[k] = tree[l]
      BY <1>7 DEF t
    <3> HIDE DEF l
    <3>4. x[k] = v[l]
      BY <2>3 DEF l
    <3> QED
      BY <2>1, <2>2, <3>1, <3>2, <3>3, <3>4
  <2>5. w = x
    BY <2>2, <2>3, <2>4, SeqEqual
  <2> QED
    BY <2>5 DEF v, w, x
<1> QED
  BY <1>4, <1>8, <1>9, <1>10, <1>11 DEF Sound

\* The chains pruneSnapshotRecord goes through.
Prunes(f, ch, n) ==
  f = [k \in 0..n |-> IF k = 0 THEN ch ELSE RebuildWithout(f[k - 1], 1)]

LEMMA PrunesExists ==
  ASSUME NEW ch, NEW n \in Nat
  PROVE  \E f : Prunes(f, ch, n)
<1> DEFINE S == {i \in Nat : ~\E f : Prunes(f, ch, i)}
<1> SUFFICES ASSUME S # {} PROVE FALSE
  OBVIOUS
<1>1. PICK i \in S : \A j \in S : i <= j
  BY Smallest
<1>2. i \in Nat /\ ~\E f : Prunes(f, ch, i)
  OBVIOUS
<1>3. CASE i = 0
  <2> DEFINE f == [j \in 0..0 |-> ch]
  <2>1. f = [j \in 0..0 |-> IF j = 0 THEN ch ELSE RebuildWithout(f[j - 1], 1)]
    OBVIOUS
  <2>2. Prunes(f, ch, 0)
    BY <2>1 DEF Prunes
  <2> QED
    BY <1>2, <1>3, <2>2
<1>4. CASE i # 0
  <2>1. i - 1 \in Nat /\ i - 1 \notin S
    BY <1>1, <1>2, <1>4
  <2>2. PICK g : Prunes(g, ch, i - 1)
    BY <2>1
  <2> DEFINE f == [j \in 0..i |-> IF j = i THEN RebuildWithout(g[i - 1], 1) ELSE g[j]]
  <2>3. ASSUME NEW j \in 0..i
        PROVE  f[j] = IF j = 0 THEN ch ELSE RebuildWithout(f[j - 1], 1)
    <3>1. CASE j = i
      BY <1>2, <1>4, <3>1
    <3>2. CASE j # i
      <4>1. j \in 0..(i - 1)
        BY <1>2, <3>2
      <4>2. g[j] = IF j = 0 THEN ch ELSE RebuildWithout(g[j - 1], 1)
        BY <2>2, <4>1 DEF Prunes
      <4>3. j # 0 => f[j - 1] = g[j - 1]
        BY <1>2, <4>1
      <4> QED
        BY <3>2, <4>2, <4>3
    <3> QED
      BY <3>1, <3>2
  <2>4. Prunes(f, ch, i)
    BY <2>3 DEF Prunes
  <2> QED
    BY <1>2, <2>4
<1> QED
  BY <1>3, <1>4

\* What is left of the versions v after the first k are dropped.
LeavesLast(ch, v, k) ==
  /\ \E t : Sound(ch, t)
  /\ Len(VersionsOf(ch)) = Len(v) - k
  /\ \A i \in 1..(Len(v) - k) : VersionsOf(ch)[i] = v[k + i]

LEMMA LeavesLastStep ==
  ASSUME NEW ch, NEW v, NEW k \in Nat, Len(v) \in Nat, k < Len(v), LeavesLast(ch, v, k)
  PROVE  LeavesLast(RebuildWithout(ch, 1), v, k + 1)
<1> DEFINE n == Len(v)
           u == VersionsOf(ch)
           w == VersionsOf(RebuildWithout(ch, 1))
<1>1. PICK t : Sound(ch, t)
  BY DEF LeavesLast
<1>2. n \in Nat /\ Len(u) = n - k /\ \A i \in 1..(n - k) : u[i] = v[k + i]
  BY DEF LeavesLast
<1>3. u \in Seq(Versions) /\ Len(u) = Len(ch)
  BY <1>1, VersionsAre DEF Sound
<1>4. 1 \in 1..Len(ch) /\ 1 \in 1..Len(u)
  BY <1>2, <1>3
<1>5. (\E s : Sound(RebuildWithout(ch, 1), s)) /\ w = RemoveAt(u, 1)
  BY <1>1, <1>4, RebuildDrops
<1> HIDE DEF u, w
<1>6. /\ Len(w) = Len(u) - 1
      /\ \A i \in 1..(Len(u) - 1) : w[i] = u[IF i < 1 THEN i ELSE i + 1]
  BY <1>3, <1>4, <1>5, Removed
<1>7. Len(w) = n - (k + 1)
  BY <1>2, <1>6
<1>8. ASSUME NEW i \in 1..(n - (k + 1)) PROVE w[i] = v[(k + 1) + i]
  <2>1. i \in 1..(Len(u) - 1) /\ ~(i < 1)
    BY <1>2
  <2>2. w[i] = u[i + 1]
    BY <1>6, <2>1
  <2>3. i + 1 \in 1..(n - k) /\ k + (i + 1) = (k + 1) + i
    BY <1>2
  <2> QED
    BY <1>2, <2>2, <2>3
<1> QED
  BY <1>5, <1>7, <1>8 DEF LeavesLast, w

\* Pruning keeps the newest versions.
LEMMA PruneKeepsNewest ==
  ASSUME NEW ch, NEW tree, Sound(ch, tree)
  PROVE  \/ PruneChain(ch) = ch
         \/ /\ Len(VersionsOf(ch)) > KeepLimit
            /\ \E t : Sound(PruneChain(ch), t)
            /\ VersionsOf(PruneChain(ch))
                 = SubSeq(VersionsOf(ch), Len(VersionsOf(ch)) - KeepLimit + 1,
                          Len(VersionsOf(ch)))
<1> DEFINE n == Len(ch)
           v == VersionsOf(ch)
           f == CHOOSE g : Prunes(g, ch, n)
           m == n - KeepLimit
<1>1. CASE n <= KeepLimit
  BY <1>1 DEF PruneChain
<1>2. CASE ~(n <= KeepLimit)
  <2>1. n \in Nat /\ KeepLimit \in Nat \ {0} /\ v \in Seq(Versions) /\ Len(v) = n
    BY SnapshotAssumption, VersionsAre DEF Sound
  <2>2. m \in Nat /\ m \in 0..n /\ n > KeepLimit
    BY <1>2, <2>1
  <2>3. PruneChain(ch) = f[m]
    BY <1>2 DEF PruneChain, Prunes
  <2>4. Prunes(f, ch, n)
    BY <2>1, PrunesExists
  <2> HIDE DEF f, v
  <2> DEFINE S == {k \in Nat : k <= n /\ ~LeavesLast(f[k], v, k)}
  <2>5. ASSUME S # {} PROVE FALSE
    <3>1. PICK k \in S : \A j \in S : k <= j
      BY <2>5, Smallest
    <3>2. k \in Nat /\ k <= n /\ ~LeavesLast(f[k], v, k)
      BY <3>1
    <3>3. f[k] = IF k = 0 THEN ch ELSE RebuildWithout(f[k - 1], 1)
      BY <2>1, <2>4, <3>2 DEF Prunes
    <3>4. CASE k = 0
      <4>1. /\ Len(VersionsOf(ch)) = Len(v) - 0
            /\ \A i \in 1..(Len(v) - 0) : VersionsOf(ch)[i] = v[0 + i]
        BY <2>1 DEF v
      <4>2. LeavesLast(ch, v, 0)
        BY <4>1 DEF LeavesLast
      <4> QED
        BY <3>2, <3>3, <3>4, <4>2
    <3>5. CASE k # 0
      <4>1. /\ k - 1 \in Nat /\ k - 1 <= n /\ k - 1 < n /\ ~(k <= k - 1)
            /\ (k - 1) + 1 = k
        BY <2>1, <3>2, <3>5
      <4>2. LeavesLast(f[k - 1], v, k - 1)
        BY <3>1, <4>1
      <4>3. LeavesLast(RebuildWithout(f[k - 1], 1), v, (k - 1) + 1)
        BY <2>1, <4>1, <4>2, LeavesLastStep
      <4> QED
        BY <3>2, <3>3, <3>5, <4>1, <4>3
    <3> QED
      BY <3>4, <3>5
  <2>6. LeavesLast(f[m], v, m)
    BY <2>1, <2>2, <2>5
  <2> DEFINE c == f[m]
             w == VersionsOf(c)
             x == SubSeq(v, m + 1, n)
  <2>7. PICK t : Sound(c, t)
    BY <2>6 DEF LeavesLast
  <2>8. /\ w \in Seq(Versions) /\ Len(w) = n - m
        /\ \A i \in 1..(n - m) : w[i] = v[m + i]
    BY <2>1, <2>6, <2>7, VersionsAre DEF LeavesLast, Sound
  <2>9. m + 1 \in Int /\ n \in Int /\ \A i \in (m + 1)..n : v[i] \in Versions
    BY <2>1, <2>2
  <2>10. /\ x \in Seq(Versions)
         /\ Len(x) = IF m + 1 <= n THEN n - (m + 1) + 1 ELSE 0
         /\ \A i \in 1..(n - (m + 1) + 1) : x[i] = v[(m + 1) + i - 1]
    BY <2>9, SubSeqProperties
  <2> HIDE DEF w, x, c
  <2>11. Len(x) = Len(w) /\ n - (m + 1) + 1 = n - m
    BY <2>1, <2>2, <2>8, <2>10
  <2>12. ASSUME NEW i \in 1..Len(w) PROVE w[i] = x[i]
    <3>1. i \in 1..(n - m) /\ (m + 1) + i - 1 = m + i
      BY <2>1, <2>2, <2>8
    <3> QED
      BY <2>8, <2>10, <2>11, <3>1
  <2>13. w = x
    BY <2>8, <2>10, <2>11, <2>12, SeqEqual
  <2> QED
    BY <2>1, <2>2, <2>3, <2>7, <2>13 DEF v, w, x, c
<1> QED
  BY <1>1, <1>2

LEMMA EmptyChain ==
  /\ \E t : Sound(<<>>, t)
  /\ VersionsOf(<<>>) = <<>>
<1> DEFINE t == [i \in 0..0 |-> EmptyTree]
<1>1. <<>> \in Seq(Snapshots) /\ Len(<<>>) = 0 /\ EmptyTree \in Trees
  BY DEF EmptyTree, Trees
<1>2. t \in [0..0 -> Trees] /\ t[0] = EmptyTree
  BY <1>1
<1> HIDE DEF t
<1>3. Represents(<<>>, t)
  BY <1>1, <1>2 DEF Represents
<1>4. Near(<<>>)
  BY <1>1 DEF Near
<1>5. VersionsOf(<<>>) \in Seq(Versions) /\ Len(VersionsOf(<<>>)) = 0
  BY <1>1, <1>3, VersionsAre
<1>6. VersionsOf(<<>>) = <<>>
  BY <1>5
<1> QED
  BY <1>3, <1>4, <1>6 DEF Sound

LEMMA LegacyIs ==
  ASSUME NEW tree \in Trees
  PROVE  /\ \E t : Sound(LegacyChain(tree), t)
         /\ VersionsOf(LegacyChain(tree)) = <<[message |-> 1, files |-> tree]>>
<1> DEFINE t == [i \in 0..1 |-> IF i = 0 THEN EmptyTree ELSE tree]
           s == Snapshot(1, EmptyTree, tree, FALSE)
           e == [message |-> 1, files |-> tree]
<1>1. EmptyTree \in Trees /\ 1 \in Messages /\ FALSE \in BOOLEAN
  BY SnapshotAssumption DEF EmptyTree, Trees, Messages
<1>2. s \in Snapshots /\ (IsCheckpoint(s) <=> FALSE) /\ s.message = 1
  BY <1>1, SnapshotIs
<1>3. s = Snapshot(s.message, EmptyTree, tree, IsCheckpoint(s))
  BY <1>2 DEF Snapshot
<1>4. t \in [0..1 -> Trees] /\ t[0] = EmptyTree /\ t[1] = tree
  BY <1>1
<1> HIDE DEF s, t
<1> DEFINE c == <<s>>
<1>5. c \in Seq(Snapshots) /\ Len(c) = 1 /\ c[1] = s
  BY <1>2
<1>6. LegacyChain(tree) = c
  BY DEF LegacyChain, s
<1> HIDE DEF c
<1>7. Represents(c, t)
  <2>1. ASSUME NEW i \in 1..1
        PROVE  c[i] = Snapshot(c[i].message, t[i - 1], t[i], IsCheckpoint(c[i]))
    <3>1. i = 1 /\ i - 1 = 0
      OBVIOUS
    <3> QED
      BY <1>3, <1>4, <1>5, <3>1
  <2> QED
    BY <1>4, <1>5, <2>1 DEF Represents
<1>8. Near(c)
  <2>1. \A i \in 1..1 : 0 \in 0..i /\ i - 0 <= CheckpointInterval
    BY SnapshotAssumption
  <2> QED
    BY <1>5, <2>1 DEF Near
<1>9. VersionsOf(c) = <<e>>
  <2> DEFINE w == VersionsOf(c)
  <2>1. w \in Seq(Versions) /\ Len(w) = 1
    BY <1>5, <1>7, VersionsAre
  <2>2. w = [i \in 1..1 |-> [message |-> c[i].message, files |-> t[i]]]
    BY <1>5, <1>7, VersionsAre
  <2> HIDE DEF w
  <2>3. w[1] = e
    BY <1>2, <1>4, <1>5, <2>2
  <2>4. e \in Versions
    BY <1>1 DEF Versions
  <2> HIDE DEF e
  <2>5. <<e>> \in Seq(Versions) /\ Len(<<e>>) = 1 /\ <<e>>[1] = e
    BY <2>4
  <2>6. \A i \in 1..Len(w) : w[i] = <<e>>[i]
    BY <2>1, <2>3, <2>5
  <2>7. w = <<e>>
    BY <2>1, <2>5, <2>6, SeqEqual
  <2> QED
    BY <2>7 DEF w
<1> QED
  BY <1>6, <1>7, <1>8, <1>9 DEF Sound

\* The versions with the newest one brought up to date.
Current(v, tree) == IF v = <<>> THEN <<>> ELSE [v EXCEPT ![Len(v)].files = tree]

LEMMA FlushKeeps ==
  ASSUME NEW ch, NEW tree, Sound(ch, tree), NEW current \in Trees
  PROVE  LET c == UpdateLatestSnapshot(ch, current)
         IN  /\ \E t : Sound(c, t)
             /\ VersionsOf(c) = VersionsOf(ch) \/ VersionsOf(c) = Current(VersionsOf(ch), current)
             /\ \A m : Has(ch, m) => Has(c, m)
<1> DEFINE c == UpdateLatestSnapshot(ch, current)
           v == VersionsOf(ch)
           w == VersionsOf(c)
<1>1. \/ c = ch
      \/ /\ ch # <<>> /\ (\E t : Sound(c, t))
         /\ w = [v EXCEPT ![Len(v)].files = current]
  BY UpdateRefreshes
<1> HIDE DEF c
<1>2. CASE c = ch
  <2>1. w = v /\ Sound(c, tree)
    BY <1>2
  <2> QED
    BY <1>2, <2>1 DEF c
<1>3. CASE /\ ch # <<>> /\ (\E t : Sound(c, t))
           /\ w = [v EXCEPT ![Len(v)].files = current]
  <2>1. /\ ch \in Seq(Snapshots) /\ Len(ch) \in Nat /\ DOMAIN ch = 1..Len(ch)
        /\ v \in Seq(Versions) /\ Len(v) = Len(ch) /\ DOMAIN v = 1..Len(ch)
        /\ \A i \in 1..Len(ch) : v[i].message = ch[i].message
    BY VersionsAre DEF Sound, Represents
  <2>2. PICK t : Sound(c, t)
    BY <1>3
  <2>3. /\ c \in Seq(Snapshots) /\ DOMAIN c = 1..Len(c) /\ DOMAIN w = 1..Len(c)
        /\ \A i \in 1..Len(c) : w[i].message = c[i].message
    <3>1. Represents(c, t)
      BY <2>2 DEF Sound
    <3>2. c \in Seq(Snapshots)
      BY <3>1 DEF Represents
    <3>3. DOMAIN w = 1..Len(c) /\ \A i \in 1..Len(c) : w[i].message = c[i].message
      BY <3>1, VersionsAre
    <3> QED
      BY <3>2, <3>3
  <2> HIDE DEF v, w
  <2>4. DOMAIN w = DOMAIN v
    BY <1>3
  <2>5. ASSUME NEW i \in 1..Len(ch) PROVE w[i].message = v[i].message
    <3>1. v[i] \in Versions /\ i \in DOMAIN v
      BY <2>1
    <3>2. [v[i] EXCEPT !.files = current].message = v[i].message
      BY <3>1 DEF Versions
    <3>3. w[i] = IF i = Len(v) THEN [v[i] EXCEPT !.files = current] ELSE v[i]
      BY <1>3, <3>1
    <3> QED
      BY <3>2, <3>3
  <2>6. v # <<>>
    BY <1>3, <2>1
  <2>7. w = Current(v, current)
    BY <1>3, <2>6 DEF Current
  <2>8. ASSUME NEW m, Has(ch, m) PROVE Has(c, m)
    <3>1. PICK i \in 1..Len(ch) : ch[i].message = m
      BY <2>1, <2>8 DEF Has
    <3>2. i \in DOMAIN c /\ i \in 1..Len(c)
      BY <2>1, <2>3, <2>4
    <3>3. c[i].message = m
      BY <2>1, <2>3, <2>5, <3>1, <3>2
    <3> QED
      BY <3>2, <3>3 DEF Has
  <2> QED
    BY <2>2, <2>7, <2>8 DEF v, w, c
<1> QED
  BY <1>1, <1>2, <1>3

\* A sound chain can be replayed, from a checkpoint nearby.
LEMMA SoundReplays ==
  ASSUME NEW ch, NEW tree, Sound(ch, tree), NEW i \in 1..Len(ch)
  PROVE  /\ ReplaySnapshots(ch, i) = ApplyDelta(ReplaySnapshots(ch, i - 1), ch[i].delta)
         /\ \A p \in DOMAIN ch[i].delta :
              IF ch[i].delta[p] = Deleted THEN ReplaySnapshots(ch, i - 1)[p] # Absent
              ELSE ReplaySnapshots(ch, i - 1)[p] = ch[i].delta[p].from
         /\ i - LastCheckpoint(ch, i) <= CheckpointInterval
<1> DEFINE delta == ch[i].delta
           prev == tree[i - 1]
           current == tree[i]
<1>1. Represents(ch, tree) /\ Near(ch)
  BY DEF Sound
<1>2. /\ i \in Nat /\ i - 1 \in 0..Len(ch) /\ i \in 0..Len(ch)
      /\ delta = DiffFiles(prev, current) /\ ApplyDelta(prev, delta) = current
  BY <1>1, Built
<1>3. ReplaySnapshots(ch, i - 1) = prev /\ ReplaySnapshots(ch, i) = current
  BY <1>1, <1>2, Replayed
<1>4. ASSUME NEW p \in DOMAIN delta
      PROVE  IF delta[p] = Deleted THEN prev[p] # Absent ELSE prev[p] = delta[p].from
  <2> HIDE DEF delta, prev, current
  <2>1. /\ prev[p] # current[p]
        /\ delta[p] = IF prev[p] = Absent THEN Added(current[p])
                      ELSE IF current[p] = Absent THEN Deleted
                      ELSE Patched(prev[p], current[p])
    BY <1>2 DEF DiffFiles
  <2>2. CASE prev[p] = Absent
    <3>1. delta[p].op = "add" /\ delta[p].from = Absent
      BY <2>1, <2>2 DEF Added
    <3>2. delta[p] # Deleted
      BY <3>1 DEF Deleted
    <3> QED
      BY <2>2, <3>1, <3>2
  <2>3. CASE prev[p] # Absent /\ current[p] = Absent
    BY <2>1, <2>3
  <2>4. CASE prev[p] # Absent /\ current[p] # Absent
    <3>1. delta[p].op = "patch" /\ delta[p].from = prev[p]
      BY <2>1, <2>4 DEF Patched
    <3> QED
      BY <2>4, <3>1
  <2> QED
    BY <2>2, <2>3, <2>4
<1>5. i - LastCheckpoint(ch, i) <= CheckpointInterval
  <2> DEFINE a == LastCheckpoint(ch, i)
  <2>1. a \in 0..i /\ \A j \in 1..i : IsCheckpoint(ch[j]) => j <= a
    BY <1>2, Anchor
  <2>2. PICK j \in 0..i : i - j <= CheckpointInterval /\ (j # 0 => IsCheckpoint(ch[j]))
    BY <1>1 DEF Near
  <2> HIDE DEF a
  <2>3. j <= a
    BY <1>2, <2>1, <2>2
  <2>4. i - a <= CheckpointInterval
    BY <1>2, <2>1, <2>2, <2>3, SnapshotAssumption
  <2> QED
    BY <2>4 DEF a
<1> QED
  BY <1>2, <1>3, <1>4, <1>5

-----------------------------------------------------------------------------
(* The inductive invariant, and the versions every step moves to.           *)

ChainBuilt == \E tree : Sound(chain, tree)

Base ==
  /\ files \in Trees
  /\ answers \subseteq Messages
  /\ rollbackInfo \in Messages \cup {None}
  /\ running \in {"idle", "asked", "answering"}

IInv == ChainBuilt /\ Base

LEMMA InitInvariant == Init => IInv /\ History!Init
<1> SUFFICES ASSUME Init PROVE IInv /\ History!Init
  OBVIOUS
<1>1. files \in Trees
  BY DEF Init
<1>2. CASE files = EmptyTree
  <2>1. chain = <<>> /\ answers = {}
    BY <1>2 DEF Init
  <2>2. ChainBuilt /\ VersionsOf(chain) = <<>>
    BY <2>1, EmptyChain DEF ChainBuilt
  <2>3. Base
    BY <1>1, <2>1 DEF Init, Base
  <2> QED
    BY <1>1, <2>2, <2>3 DEF IInv, History!Init
<1>3. CASE files # EmptyTree
  <2>1. chain = LegacyChain(files) /\ answers = {1}
    BY <1>3 DEF Init
  <2>2. ChainBuilt /\ VersionsOf(chain) = <<[message |-> 1, files |-> files]>>
    BY <1>1, <2>1, LegacyIs DEF ChainBuilt
  <2>3. 1 \in Messages
    BY SnapshotAssumption DEF Messages
  <2>4. Base
    BY <1>1, <2>1, <2>3 DEF Init, Base
  <2>5. VersionsOf(chain) \in {<<History!Version(m, files)>> : m \in Messages}
    BY <2>2, <2>3 DEF History!Version
  <2> QED
    BY <1>1, <2>2, <2>4, <2>5 DEF IInv, History!Init
<1> QED
  BY <1>2, <1>3

LEMMA BaseStep == IInv /\ [Next]_vars => Base'
<1> SUFFICES ASSUME IInv, [Next]_vars PROVE Base'
  OBVIOUS
<1> USE DEF IInv, Base
<1>1. CASE UNCHANGED vars
  BY <1>1 DEF vars
<1>2. CASE Submit
  BY <1>2 DEF Submit
<1>3. CASE Prompt
  BY <1>3 DEF Prompt
<1>4. CASE Retry
  BY <1>4 DEF Retry
<1>5. CASE Answer
  BY <1>5 DEF Answer
<1>6. CASE RunWrites
  BY <1>6 DEF RunWrites
<1>7. CASE RunEnds
  BY <1>7 DEF RunEnds
<1>8. CASE RunFails
  BY <1>8 DEF RunFails
<1>9. CASE EditByHand
  BY <1>9 DEF EditByHand
<1>10. ASSUME NEW m \in Messages, Rollback(m) PROVE Base'
  <2>1. PICK tree : Sound(chain, tree)
    BY DEF ChainBuilt
  <2> DEFINE c == Flushed
  <2>2. (\E t : Sound(c, t)) /\ (\A x : Has(chain, x) => Has(c, x))
    BY <2>1, FlushKeeps DEF Flushed
  <2>3. PICK t : Sound(c, t)
    BY <2>2
  <2>4. Has(c, m) /\ files' = ReplaySnapshots(c, IndexOf(c, m))
    BY <1>10, <2>2 DEF Rollback
  <2> HIDE DEF c
  <2>5. IndexOf(c, m) \in DOMAIN c
    BY <2>4 DEF Has, IndexOf
  <2>6. DOMAIN c = 1..Len(c) /\ Represents(c, t)
    BY <2>3 DEF Sound, Represents
  <2> DEFINE i == IndexOf(c, m)
  <2>7. i \in 1..Len(c)
    BY <2>5, <2>6
  <2> HIDE DEF i
  <2>8. i \in 0..Len(c) /\ t[i] \in Trees
    BY <2>6, <2>7, Built
  <2>9. files' = t[i]
    BY <2>4, <2>6, <2>8, Replayed DEF i
  <2> QED
    BY <1>10, <2>8, <2>9 DEF Rollback
<1>11. CASE DismissHint
  BY <1>11 DEF DismissHint
<1>12. ASSUME NEW i \in DOMAIN chain, DeleteSnapshot(i) PROVE Base'
  BY <1>12 DEF DeleteSnapshot
<1>13. CASE PruneSnapshots
  BY <1>13 DEF PruneSnapshots
<1>14. CASE ClearContext
  BY <1>14 DEF ClearContext
<1>15. CASE ResetProject
  BY <1>15 DEF ResetProject, EmptyTree, Trees
<1>16. CASE ReplaceProject
  BY <1>16 DEF ReplaceProject
<1>17. CASE VisitAnotherConversation
  BY <1>17 DEF VisitAnotherConversation
<1> QED
  BY <1>1, <1>2, <1>3, <1>4, <1>5, <1>6, <1>7, <1>8, <1>9, <1>10, <1>11, <1>12, <1>13,
     <1>14, <1>15, <1>16, <1>17 DEF Next

\* A step that leaves the chain alone changes no version.
LEMMA OtherStep ==
  ASSUME IInv, UNCHANGED chain, files' \in Trees
  PROVE  ChainBuilt' /\ History!Next
<1>1. ChainBuilt'
  BY DEF IInv, ChainBuilt
<1>2. History!Write
  BY DEF History!Write
<1> QED
  BY <1>1, <1>2 DEF History!Next

LEMMA SubmitStep ==
  ASSUME IInv, Submit
  PROVE  ChainBuilt' /\ [History!Next]_(History!vars)
<1>1. PICK tree : Sound(chain, tree)
  BY DEF IInv, ChainBuilt
<1>2. files \in Trees /\ chain' = UpdateLatestSnapshot(chain, files) /\ files' = files
  BY DEF IInv, Base, Submit, Flushed
<1> DEFINE c == UpdateLatestSnapshot(chain, files)
<1>3. /\ \E t : Sound(c, t)
      /\ \/ VersionsOf(c) = VersionsOf(chain)
         \/ VersionsOf(c) = Current(VersionsOf(chain), files)
  BY <1>1, <1>2, FlushKeeps
<1> HIDE DEF c
<1>4. ChainBuilt'
  BY <1>2, <1>3 DEF ChainBuilt, c
<1>5. VersionsOf(chain)' = VersionsOf(c)
  BY <1>2 DEF c
<1>6. Current(VersionsOf(chain), files) = History!UpToDate
  BY DEF Current, History!UpToDate
<1>7. [History!Next]_(History!vars)
  BY <1>2, <1>3, <1>5, <1>6 DEF History!Next, History!Refresh, History!vars
<1> QED
  BY <1>4, <1>7

LEMMA RollbackStep ==
  ASSUME IInv, NEW m \in Messages, Rollback(m)
  PROVE  ChainBuilt' /\ History!Next
<1>1. PICK tree : Sound(chain, tree)
  BY DEF IInv, ChainBuilt
<1> DEFINE c == UpdateLatestSnapshot(chain, files)
           i == IndexOf(c, m)
           v == VersionsOf(chain)
           w == VersionsOf(c)
<1>2. /\ files \in Trees /\ Has(chain, m)
      /\ chain' = c /\ files' = ReplaySnapshots(c, i)
  BY DEF IInv, Base, Rollback, Flushed
<1>3. /\ \E t : Sound(c, t)
      /\ w = v \/ w = Current(v, files)
      /\ Has(c, m)
  BY <1>1, <1>2, FlushKeeps
<1>4. PICK t : Sound(c, t)
  BY <1>3
<1> HIDE DEF c
<1>5. ChainBuilt'
  BY <1>2, <1>4 DEF ChainBuilt
<1>6. DOMAIN c = 1..Len(c) /\ Represents(c, t)
  BY <1>4 DEF Sound, Represents
<1>7. i \in 1..Len(c) /\ c[i].message = m
  <2>1. \E j \in DOMAIN c : c[j].message = m
    BY <1>3 DEF Has
  <2> QED
    BY <1>6, <2>1 DEF IndexOf
<1> HIDE DEF i
<1>8. i \in 0..Len(c)
  BY <1>6, <1>7, Built
<1>9. files' = t[i]
  BY <1>2, <1>6, <1>8, Replayed
<1>10. i \in DOMAIN w /\ w[i].message = m /\ w[i].files = files'
  BY <1>6, <1>7, <1>9, VersionsAre
<1>11. VersionsOf(chain)' = w
  BY <1>2
<1>12. w \in {v, History!UpToDate}
  BY <1>3 DEF Current, History!UpToDate
<1> HIDE DEF v, w
<1>13. History!Restore(m)
  BY <1>10, <1>11, <1>12 DEF History!Restore, v
<1> QED
  BY <1>5, <1>13 DEF History!Next

LEMMA RunEndsStep ==
  ASSUME IInv, RunEnds
  PROVE  ChainBuilt' /\ [History!Next]_(History!vars)
<1>1. PICK tree : Sound(chain, tree)
  BY DEF IInv, ChainBuilt
<1>2. files \in Trees /\ answers \subseteq Messages /\ files' = files
  BY DEF IInv, Base, RunEnds
<1>3. CASE chain' = chain
  <2>1. VersionsOf(chain)' = VersionsOf(chain)
    BY <1>3
  <2> QED
    BY <1>1, <1>2, <1>3, <2>1 DEF ChainBuilt, History!vars
<1>4. CASE chain' # chain
  <2>1. PICK m \in answers : chain' = CreateSnapshot(chain, m, files)
    BY <1>4 DEF RunEnds
  <2>2. m \in Messages
    BY <1>2
  <2> DEFINE c == CreateSnapshot(chain, m, files)
             v == VersionsOf(chain)
             w == VersionsOf(c)
  <2>3. /\ ~Has(chain, m)
        /\ \E t : Sound(c, t)
        /\ w = Append(v, [message |-> m, files |-> files])
    BY <1>1, <1>2, <1>4, <2>1, <2>2, CreateSnapshotAdds
  <2>4. chain' = c
    BY <2>1
  <2> HIDE DEF c
  <2>5. ChainBuilt'
    BY <2>3, <2>4 DEF ChainBuilt
  <2>6. \A i \in DOMAIN v : v[i].message # m
    <3>1. DOMAIN chain = 1..Len(chain) /\ DOMAIN v = 1..Len(chain)
      BY <1>1, VersionsAre DEF Sound, Represents
    <3>2. \A i \in 1..Len(chain) : v[i].message = chain[i].message
      BY <1>1, VersionsAre DEF Sound
    <3> HIDE DEF v
    <3> QED
      BY <2>3, <3>1, <3>2 DEF Has
  <2>7. VersionsOf(chain)' = w
    BY <2>4
  <2> HIDE DEF v, w
  <2>8. History!Take(m)
    BY <1>2, <2>3, <2>6, <2>7 DEF History!Take, History!Version, v
  <2> QED
    BY <2>2, <2>5, <2>8 DEF History!Next
<1> QED
  BY <1>3, <1>4

LEMMA DeleteStep ==
  ASSUME IInv, NEW i \in DOMAIN chain, DeleteSnapshot(i)
  PROVE  ChainBuilt' /\ History!Next
<1>1. PICK tree : Sound(chain, tree)
  BY DEF IInv, ChainBuilt
<1>2. DOMAIN chain = 1..Len(chain)
  BY <1>1 DEF Sound, Represents
<1> DEFINE c == RebuildWithout(chain, i)
           v == VersionsOf(chain)
           w == VersionsOf(c)
<1>3. i \in 1..Len(chain)
  BY <1>2
<1>4. (\E t : Sound(c, t)) /\ w = RemoveAt(v, i)
  BY <1>1, <1>3, RebuildDrops
<1>5. chain' = c /\ files' = files
  BY DEF DeleteSnapshot
<1> HIDE DEF c
<1>6. ChainBuilt'
  BY <1>4, <1>5 DEF ChainBuilt
<1>7. VersionsOf(chain)' = w
  BY <1>5
<1>8. i \in DOMAIN v
  BY <1>1, <1>3, VersionsAre DEF Sound
<1> HIDE DEF v, w
<1>9. History!Drop(i)
  BY <1>4, <1>5, <1>7 DEF History!Drop, History!RemoveAt, RemoveAt, v
<1> QED
  BY <1>6, <1>8, <1>9 DEF History!Next, v

LEMMA PruneStep ==
  ASSUME IInv, PruneSnapshots
  PROVE  ChainBuilt' /\ [History!Next]_(History!vars)
<1>1. PICK tree : Sound(chain, tree)
  BY DEF IInv, ChainBuilt
<1> DEFINE c == PruneChain(chain)
           v == VersionsOf(chain)
           w == VersionsOf(c)
<1>2. chain' = c /\ files' = files
  BY DEF PruneSnapshots
<1>3. \/ c = chain
      \/ /\ Len(v) > KeepLimit
         /\ \E t : Sound(c, t)
         /\ w = SubSeq(v, Len(v) - KeepLimit + 1, Len(v))
  BY <1>1, PruneKeepsNewest
<1> HIDE DEF c
<1>4. VersionsOf(chain)' = w
  BY <1>2
<1>5. CASE c = chain
  <2>1. w = v
    BY <1>5
  <2> QED
    BY <1>1, <1>2, <1>4, <1>5, <2>1 DEF ChainBuilt, History!vars
<1>6. CASE /\ Len(v) > KeepLimit
           /\ \E t : Sound(c, t)
           /\ w = SubSeq(v, Len(v) - KeepLimit + 1, Len(v))
  <2>1. ChainBuilt'
    BY <1>2, <1>6 DEF ChainBuilt
  <2> HIDE DEF v, w
  <2>2. History!KeepNewest
    BY <1>2, <1>4, <1>6 DEF History!KeepNewest, v
  <2> QED
    BY <2>1, <2>2 DEF History!Next
<1> QED
  BY <1>3, <1>5, <1>6

LEMMA ResetStep ==
  ASSUME IInv, ResetProject \/ ReplaceProject
  PROVE  ChainBuilt' /\ History!Next
<1>1. chain' = <<>> /\ files' \in Trees
  BY DEF ResetProject, ReplaceProject, EmptyTree, Trees
<1>2. ChainBuilt'
  BY <1>1, EmptyChain DEF ChainBuilt
<1>3. VersionsOf(chain)' = <<>>
  BY <1>1, EmptyChain
<1>4. History!Reset
  BY <1>1, <1>3 DEF History!Reset
<1> QED
  BY <1>2, <1>4 DEF History!Next

LEMMA ChainStep == IInv /\ [Next]_vars => ChainBuilt' /\ [History!Next]_(History!vars)
<1> SUFFICES ASSUME IInv, [Next]_vars
             PROVE  ChainBuilt' /\ [History!Next]_(History!vars)
  OBVIOUS
<1>1. files' \in Trees
  BY BaseStep DEF Base
<1>2. CASE UNCHANGED vars
  <2>1. chain' = chain /\ files' = files
    BY <1>2 DEF vars
  <2>2. VersionsOf(chain)' = VersionsOf(chain)
    BY <2>1
  <2> QED
    BY <2>1, <2>2 DEF IInv, ChainBuilt, History!vars
<1>3. CASE \/ Prompt \/ Retry \/ Answer \/ RunWrites \/ RunFails \/ EditByHand
           \/ DismissHint \/ ClearContext \/ VisitAnotherConversation
  <2>1. UNCHANGED chain
    BY <1>3 DEF Prompt, Retry, Answer, RunWrites, RunFails, EditByHand, DismissHint,
                ClearContext, VisitAnotherConversation
  <2> QED
    BY <1>1, <2>1, OtherStep
<1>4. CASE Submit
  BY <1>4, SubmitStep
<1>5. CASE RunEnds
  BY <1>5, RunEndsStep
<1>6. ASSUME NEW m \in Messages, Rollback(m)
      PROVE  ChainBuilt' /\ History!Next
  BY <1>6, RollbackStep
<1>7. ASSUME NEW i \in DOMAIN chain, DeleteSnapshot(i)
      PROVE  ChainBuilt' /\ History!Next
  BY <1>7, DeleteStep
<1>8. CASE PruneSnapshots
  BY <1>8, PruneStep
<1>9. CASE ResetProject \/ ReplaceProject
  BY <1>9, ResetStep
<1> QED
  BY <1>2, <1>3, <1>4, <1>5, <1>6, <1>7, <1>8, <1>9 DEF Next

-----------------------------------------------------------------------------
\* Every chain the store can reach is one built from trees: each snapshot
\* holds the difference to its predecessor, and a checkpoint the whole tree.
THEOREM Invariance == Spec => []IInv
<1>1. IInv /\ [Next]_vars => IInv'
  BY BaseStep, ChainStep DEF IInv
<1> QED
  BY <1>1, InitInvariant, PTL DEF Spec

\* The chain, the files and the conversation keep their types.
THEOREM TypeCorrect == Spec => []TypeOK
<1>1. IInv => TypeOK
  BY DEF IInv, ChainBuilt, Base, Sound, Represents, TypeOK
<1> QED
  BY <1>1, Invariance, PTL

\* Whatever is added, updated, deleted, pruned and rolled back to, the patches
\* of the chain fit the texts they are applied to, a checkpoint agrees with
\* its patch, and no reconstruction walks more than CHECKPOINT_INTERVAL
\* patches.
THEOREM ChainStaysSound == Spec => []ChainIsSound
<1>1. IInv => ChainIsSound
  <2> SUFFICES ASSUME IInv PROVE ChainIsSound
    OBVIOUS
  <2>1. PICK tree : Sound(chain, tree)
    BY DEF IInv, ChainBuilt
  <2>2. DOMAIN chain = 1..Len(chain)
    BY <2>1 DEF Sound, Represents
  <2>3. ChainIsConsistent
    <3> SUFFICES ASSUME NEW i \in 1..Len(chain)
                 PROVE  LET prev == ReplaySnapshots(chain, i - 1)
                            delta == chain[i].delta
                        IN  /\ ReplaySnapshots(chain, i) = ApplyDelta(prev, delta)
                            /\ \A p \in DOMAIN delta :
                                 IF delta[p] = Deleted THEN prev[p] # Absent
                                 ELSE prev[p] = delta[p].from
      BY <2>2 DEF ChainIsConsistent
    <3> QED
      BY <2>1, SoundReplays
  <2>4. ReplaysAreShort
    BY <2>1, <2>2, SoundReplays DEF ReplaysAreShort
  <2> QED
    BY <2>3, <2>4 DEF ChainIsSound
<1> QED
  BY <1>1, Invariance, PTL

\* The store keeps the list of versions SnapshotHistory describes: while it
\* adds, refreshes the newest, deletes or prunes, no other snapshot replays to
\* anything else than before.
THEOREM HistoryImplemented == Spec => ImplementsHistory
<1>1. Init => History!Init
  BY InitInvariant
<1>2. IInv /\ [Next]_vars => [History!Next]_(History!vars)
  BY ChainStep
<1> QED
  BY <1>1, <1>2, Invariance, PTL DEF Spec, ImplementsHistory, History!Spec
=============================================================================
