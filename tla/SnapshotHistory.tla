--------------------------- MODULE SnapshotHistory ---------------------------
(***************************************************************************)
(* What the snapshot store (src/store/snapshot.ts) promises of a           *)
(* conversation: a list of versions, each the project files of one moment  *)
(* kept under the message it belongs to.  A version is added, the newest   *)
(* one is brought up to date, versions are removed, and the files go back  *)
(* to one of them; nothing else ever changes a version.                    *)
(***************************************************************************)
EXTENDS Naturals, Sequences, SequencesExt

CONSTANTS Messages, Trees, KeepLimit

VARIABLES versions,   \* oldest first
          files       \* the project files

vars == <<versions, files>>

Version(m, tree) == [message |-> m, files |-> tree]

Init ==
  /\ files \in Trees
  /\ versions \in {<<>>} \cup {<<Version(m, files)>> : m \in Messages}

\* The newest version takes over the files as they are.
UpToDate ==
  IF versions = <<>> THEN <<>>
  ELSE [versions EXCEPT ![Len(versions)].files = files]

Write == files' \in Trees /\ UNCHANGED versions

Take(m) ==
  /\ \A i \in DOMAIN versions : versions[i].message # m
  /\ versions' = Append(versions, Version(m, files))
  /\ UNCHANGED files

Refresh == versions' = UpToDate /\ UNCHANGED files

Restore(m) ==
  \E kept \in {versions, UpToDate} : \E i \in DOMAIN kept :
    /\ kept[i].message = m
    /\ files' = kept[i].files
    /\ versions' = kept

Drop(i) ==
  /\ versions' = RemoveAt(versions, i)
  /\ UNCHANGED files

KeepNewest ==
  /\ Len(versions) > KeepLimit
  /\ versions' = SubSeq(versions, Len(versions) - KeepLimit + 1, Len(versions))
  /\ UNCHANGED files

Reset == versions' = <<>> /\ files' \in Trees

Next ==
  \/ Write
  \/ Refresh
  \/ \E m \in Messages : Take(m) \/ Restore(m)
  \/ \E i \in DOMAIN versions : Drop(i)
  \/ KeepNewest
  \/ Reset

Spec == Init /\ [][Next]_vars
=============================================================================
