------------------------- MODULE ConversationStore -------------------------
(***************************************************************************)
(* Conversations with their messages, the summary that stands for older    *)
(* messages, and the attachments they refer to: store/conversation.ts,     *)
(* lib/attachments/store.ts, the compression of contexts, and the commands *)
(* of the chat panel (ChatInterface.tsx, ChatInput.tsx) that change them.  *)
(*                                                                         *)
(* A message is a prompt with its attachments, or one of the               *)
(* assistant: an answer, a call whose result is missing because the user   *)
(* stopped it, a call of the memory tool, or an error.  Attachment blobs   *)
(* are removed one by one after the command that released them; the store  *)
(* is persisted some time after each change, and a reload finds what was   *)
(* persisted.  Runs are here only as far as they add and drop messages;    *)
(* GenerationRun has the rest of them.  Files, templates, titles, pins and *)
(* archives do not matter here.                                            *)
(***************************************************************************)
EXTENDS Naturals, Sequences, FiniteSets

CONSTANTS Ids,           \* conversations that may ever exist
          Attachments,
          None,
          MaxMessages,   \* bound on the messages of a conversation
          MaxRuns,       \* bound on runs
          Careful        \* users let a command finish before they act on what
                         \* it works on, and keep what a summary stands for

ASSUME ConversationAssumption ==
  /\ None \notin Ids \cup Attachments
  /\ MaxMessages \in Nat
  /\ MaxRuns \in Nat
  /\ Careful \in BOOLEAN

VARIABLES
  conversations,  \* None before an id exists and after it was deleted
  ids,            \* ids that have been used
  activeId,
  blobs,          \* attachment storage
  releasing,      \* attachments whose removal is on its way
  draft,          \* attachments of the input field
  upload,         \* a file being stored for the input field
  rollbackInfo,   \* place of the answer rolled back to, or 0
  run,            \* the prompt being worked on
  compression,    \* the summary being written
  clearing,       \* what /clear or a reset waits for
  wiping,         \* a clear of all storage domains is between two of them
  disk,           \* conversations and activeId as persisted
  runs,           \* number of runs so far
  unwanted        \* attachments whose last use the user has discarded

store == <<conversations, ids, activeId>>
storage == <<blobs, releasing, unwanted>>
panel == <<draft, upload, rollbackInfo, clearing>>
work == <<run, compression, runs>>
vars == <<store, storage, panel, work, wiping, disk>>

Prompts == 1..MaxRuns   \* named by their runs
Kinds == {"answer", "partial", "memory", "error"}
Message == [kind : {"user"}, prompt : Prompts, atts : SUBSET Attachments]
             \cup [kind : Kinds]
NoSummary == [from |-> 0, covered |-> {}]
Summary == [from : 0..MaxMessages, covered : SUBSET Prompts]
Conversation == [messages : Seq(Message), summary : Summary]
NewConversation == [messages |-> <<>>, summary |-> NoSummary]

IsPrompt(m) == m.kind = "user"
ElementsOf(s) == {s[i] : i \in DOMAIN s}
Existing == {c \in Ids : conversations[c] # None}

Upload == [att : Attachments, draft : SUBSET Attachments]
Work == [conv : Ids, atts : SUBSET Attachments, added : BOOLEAN]
Compression == [conv : Ids, summary : Summary]

ASSUME NoneAssumption ==
  /\ None \notin Conversation \cup Upload \cup Work \cup Compression
  /\ \A atts \in SUBSET Attachments : None # atts

\* The active conversation is one that exists, also on disk, and what works
\* on a conversation names one that was there.
TypeOK ==
  /\ conversations \in [Ids -> Conversation \cup {None}]
  /\ \A c \in Existing : Len(conversations[c].messages) <= MaxMessages
  /\ Existing \subseteq ids /\ ids \subseteq Ids
  /\ activeId \in Existing \cup {None}
  /\ blobs \subseteq Attachments /\ releasing \subseteq Attachments
  /\ unwanted \subseteq Attachments /\ draft \subseteq Attachments
  /\ upload \in Upload \cup {None}
  /\ rollbackInfo \in 0..MaxMessages
  /\ run = None \/ (run \in Work /\ run.conv \in ids)
  /\ compression = None \/ (compression \in Compression /\ compression.conv \in ids)
  /\ clearing = None \/ clearing \in SUBSET Attachments
  /\ wiping \in BOOLEAN
  /\ disk.conversations \in [Ids -> Conversation \cup {None}]
  /\ disk.activeId \in {c \in Ids : disk.conversations[c] # None} \cup {None}
  /\ runs \in 0..MaxRuns

Init ==
  /\ conversations = [c \in Ids |-> None]
  /\ ids = {}
  /\ activeId = None
  /\ blobs = {} /\ releasing = {} /\ unwanted = {}
  /\ draft = {} /\ upload = None /\ rollbackInfo = 0 /\ clearing = None
  /\ run = None /\ compression = None /\ runs = 0
  /\ wiping = FALSE
  /\ disk = [conversations |-> conversations, activeId |-> None]

-----------------------------------------------------------------------------
(* Attachments.                                                             *)

\* collectAttachmentIds
AttachmentIds(messages) ==
  UNION {m.atts : m \in {n \in ElementsOf(messages) : IsPrompt(n)}}

UsedBy(convs) == UNION {AttachmentIds(conversations[c].messages) : c \in convs}

\* getUnreferencedAttachmentIds, with all conversations but c retained
Unreferenced_itself(c) == AttachmentIds(conversations[c].messages)
Unreferenced(c) == AttachmentIds(conversations[c].messages) \ UsedBy(Existing \ {c})

\* The attachments of a prompt on its way into another conversation than c.
InRun(c) == IF run # None /\ run.conv # c THEN run.atts ELSE {}

\* The user discards these uses; what is used elsewhere is still wanted.
Discard(atts, convs, elsewhere) == unwanted' = unwanted \cup (atts \ (UsedBy(convs) \cup elsewhere))

\* deleteAttachment settles.
RemoveBlob(a) ==
  /\ a \in releasing
  /\ releasing' = releasing \ {a}
  /\ blobs' = blobs \ {a}
  /\ UNCHANGED <<store, unwanted, panel, work, wiping, disk>>

-----------------------------------------------------------------------------
(* The store.                                                               *)

\* Nothing is at work that the user waits for.
Settled == Careful => clearing = None /\ upload = None /\ ~wiping

\* A switch to another conversation ends the run of this one as far as its
\* messages are concerned; the input field stays as it is.
MayLeave == Settled /\ (Careful => rollbackInfo = 0)

SetActive(c) ==
  /\ activeId' = c
  /\ run' = IF run # None /\ run.conv # c THEN None ELSE run

CreateConversation(c) ==
  /\ MayLeave
  /\ c \notin ids
  /\ conversations' = [conversations EXCEPT ![c] = NewConversation]
  /\ ids' = ids \cup {c}
  /\ SetActive(c)
  /\ UNCHANGED <<storage, panel, compression, runs, wiping, disk>>

ForkConversation(c) ==
  /\ MayLeave
  /\ c \notin ids /\ activeId # None
  /\ conversations' = [conversations EXCEPT ![c] = conversations[activeId]]
  /\ ids' = ids \cup {c}
  /\ SetActive(c)
  /\ UNCHANGED <<storage, panel, compression, runs, wiping, disk>>

SwitchConversation(c) ==
  /\ MayLeave
  /\ c \in Existing \ {activeId}
  /\ SetActive(c)
  /\ UNCHANGED <<conversations, ids, storage, panel, compression, runs, wiping, disk>>

\* The latest of the others becomes the active one when c was it; which one
\* that is, is left open.
ActiveWithout_unchanged(c, next) == next = activeId
ActiveWithout(c, next) ==
  IF activeId # c THEN next = activeId
  ELSE IF Existing = {c} THEN next = None ELSE next \in Existing \ {c}

\* The blobs nobody else refers to are released.
DeleteConversation(c, next) ==
  /\ MayLeave
  /\ c \in Existing
  /\ ActiveWithout(c, next)
  /\ conversations' = [conversations EXCEPT ![c] = None]
  /\ SetActive(next)
  /\ releasing' = releasing \cup Unreferenced(c)
  /\ Discard(AttachmentIds(conversations[c].messages), Existing \ {c}, draft \cup InRun(c))
  /\ UNCHANGED <<ids, blobs, panel, compression, runs, wiping, disk>>

\* zustand's persist middleware, some time after a change.
Stored == [conversations |-> conversations, activeId |-> activeId]

Persist ==
  /\ disk # Stored
  /\ disk' = Stored
  /\ UNCHANGED <<store, storage, panel, work, wiping>>

\* The window is reloaded, or the application ends and starts again.
Reload ==
  /\ conversations' = disk.conversations
  /\ activeId' = disk.activeId
  /\ draft' = {} /\ upload' = None /\ rollbackInfo' = 0 /\ clearing' = None
  /\ run' = None /\ compression' = None /\ releasing' = {} /\ wiping' = FALSE
  /\ UNCHANGED <<ids, blobs, unwanted, runs, disk>>

-----------------------------------------------------------------------------
(* The input field.                                                         *)

\* processFiles stores the file before it adds it to the attachments it saw.
UploadStarts(a) ==
  /\ Settled
  /\ upload = None
  /\ a \notin blobs \cup unwanted \cup UsedBy(Existing) \cup draft \cup InRun(None)
  /\ upload' = [att |-> a, draft |-> draft]
  /\ UNCHANGED <<store, storage, draft, rollbackInfo, clearing, work, wiping, disk>>

Uploaded ==
  /\ upload # None
  /\ blobs' = blobs \cup {upload.att}
  /\ draft' = upload.draft \cup {upload.att}
  /\ upload' = None
  /\ UNCHANGED <<store, releasing, unwanted, rollbackInfo, clearing, work, wiping, disk>>

RemoveAttachment(a) ==
  /\ Settled
  /\ a \in draft
  /\ draft' = draft \ {a}
  /\ releasing' = releasing \cup {a}
  /\ Discard({a}, Existing, draft' \cup InRun(None))
  /\ UNCHANGED <<store, blobs, upload, rollbackInfo, clearing, work, wiping, disk>>

-----------------------------------------------------------------------------
(* Messages.                                                                *)

Messages == conversations[activeId].messages
From == conversations[activeId].summary.from

SetMessages(messages) ==
  conversations' = [conversations EXCEPT ![activeId].messages = messages]

\* filter, for one kind of messages: from the first n of them, those to keep.
Without(kind, messages) ==
  LET kept[n \in 0..Len(messages)] ==
        IF n = 0 THEN <<>>
        ELSE IF messages[n].kind = kind THEN kept[n - 1] ELSE Append(kept[n - 1], messages[n])
  IN  kept[Len(messages)]

WithoutErrors(messages) == Without("error", messages)

\* findAssistantGroupEnd: the end of the answers that begin at place p.
GroupEnd(messages, p) ==
  IF p > Len(messages) THEN Len(messages)
  ELSE CHOOSE j \in (p - 1)..Len(messages) :
         /\ \A i \in p..j : ~IsPrompt(messages[i])
         /\ j = Len(messages) \/ IsPrompt(messages[j + 1])

\* What Careful users do not touch while its summary is written.
Undisturbed == ~(Careful /\ compression # None /\ compression.conv = activeId)

\* handleRollback; the files are those of that answer from here on.
Rollback(p) ==
  /\ Settled /\ run = None /\ activeId # None /\ Undisturbed
  /\ p \in DOMAIN Messages /\ Messages[p].kind = "answer"
  /\ Careful => GroupEnd(Messages, p) > From
  /\ rollbackInfo' = p
  /\ UNCHANGED <<store, storage, draft, upload, clearing, work, wiping, disk>>

DismissRollback ==
  /\ rollbackInfo' = 0 /\ rollbackInfo # 0
  /\ UNCHANGED <<store, storage, draft, upload, clearing, work, wiping, disk>>

\* handleSubmit
Submit ==
  /\ Settled /\ run = None /\ activeId # None
  /\ runs < MaxRuns /\ runs' = runs + 1
  /\ draft' = {}
  /\ IF rollbackInfo # 0
     THEN /\ Undisturbed
          /\ SetMessages(SubSeq(Messages, 1, GroupEnd(Messages, rollbackInfo)))
     ELSE UNCHANGED conversations
  /\ rollbackInfo' = 0
  /\ run' = [conv |-> activeId, atts |-> draft, added |-> FALSE]
  /\ UNCHANGED <<ids, activeId, storage, upload, clearing, compression, wiping, disk>>

\* generate, once its preparation is over; a run whose conversation was left
\* has ended by then, and loses the prompt.
PromptAdded ==
  /\ run # None /\ ~run.added
  /\ Len(Messages) < MaxMessages
  /\ SetMessages(Append(WithoutErrors(Messages),
                   [kind |-> "user", prompt |-> runs, atts |-> run.atts]))
  /\ run' = [run EXCEPT !.added = TRUE]
  /\ UNCHANGED <<ids, activeId, storage, panel, compression, runs, wiping, disk>>

\* filterMemoryMessages
WithoutMemories(messages) == Without("memory", messages)

\* The run ends with an answer, or with an error in the place of older ones;
\* what it told the memory tool is dropped.
RunEnds(kind) ==
  /\ run # None /\ run.added
  /\ Len(Messages) < MaxMessages
  /\ SetMessages(WithoutMemories(
       Append(IF kind = "error" THEN WithoutErrors(Messages) ELSE Messages, [kind |-> kind])))
  /\ run' = None
  /\ UNCHANGED <<ids, activeId, storage, panel, compression, runs, wiping, disk>>

\* stop, before the run wrote anything or after a call.
RunStops ==
  /\ run # None
  /\ run' = None
  /\ UNCHANGED <<store, storage, panel, compression, runs, wiping, disk>>

RunStopsAfter(kind) ==
  /\ run # None /\ run.added
  /\ Len(Messages) < MaxMessages
  /\ SetMessages(Append(Messages, [kind |-> kind]))
  /\ run' = None
  /\ UNCHANGED <<ids, activeId, storage, panel, compression, runs, wiping, disk>>

\* retry drops errors and calls without result, then works on the last prompt.
Retry ==
  /\ Settled /\ run = None /\ activeId # None /\ Undisturbed
  /\ runs < MaxRuns /\ runs' = runs + 1
  /\ Careful => \A i \in DOMAIN Messages : Messages[i].kind = "partial" => i > From
  /\ SetMessages(Without("partial", WithoutErrors(Messages)))
  /\ run' = [conv |-> activeId, atts |-> {}, added |-> TRUE]
  /\ UNCHANGED <<ids, activeId, storage, panel, compression, wiping, disk>>

\* review and healthCheck, whose prompt comes later, and continueTask, which
\* adds none; the draft is not for them.
RunBesideDraft(added) ==
  /\ Settled /\ run = None /\ activeId # None
  /\ runs < MaxRuns /\ runs' = runs + 1
  /\ run' = [conv |-> activeId, atts |-> {}, added |-> added]
  /\ UNCHANGED <<store, storage, panel, compression, wiping, disk>>

-----------------------------------------------------------------------------
(* Summaries.                                                               *)

PromptsIn(messages) == {m.prompt : m \in {n \in ElementsOf(messages) : IsPrompt(n)}}

\* compressContext: everything before the last prompt, the messages an older
\* summary stands for by that summary.
Compressed(conv) ==
  LET places == {i \in DOMAIN conv.messages : IsPrompt(conv.messages[i])}
      last == CHOOSE i \in places : \A j \in places : j <= i
      older == SubSeq(conv.messages, conv.summary.from + 1, last - 1)
  IN  [from |-> last - 1, covered |-> conv.summary.covered \cup PromptsIn(older)]

\* /compact, the palette or onCompact; a stop does not end it.
CompressContext ==
  /\ activeId # None /\ compression = None
  /\ Careful => /\ rollbackInfo = 0 /\ clearing = None
                /\ \A i \in DOMAIN Messages : Messages[i].kind # "memory"
  /\ Cardinality(PromptsIn(Messages)) >= 2
  /\ compression' = [conv |-> activeId, summary |-> Compressed(conversations[activeId])]
  /\ UNCHANGED <<store, storage, panel, run, runs, wiping, disk>>

\* setCompressedContextForConversation
SetCompressedContext_active(c, summary) ==
  conversations' = IF activeId = None THEN conversations
                   ELSE [conversations EXCEPT ![activeId].summary = summary]
SetCompressedContext(c, summary) ==
  conversations' = IF c \notin Existing THEN conversations
                   ELSE [conversations EXCEPT ![c].summary = summary]

CompressionEnds ==
  /\ compression # None
  /\ SetCompressedContext(compression.conv, compression.summary)
  /\ compression' = None
  /\ UNCHANGED <<ids, activeId, storage, panel, run, runs, wiping, disk>>

\* The failure is told in the conversation if it is still the active one.
CompressionFails ==
  /\ compression # None
  /\ IF activeId = compression.conv /\ activeId \in Existing
     THEN Len(Messages) < MaxMessages /\ SetMessages(Append(Messages, [kind |-> "answer"]))
     ELSE UNCHANGED conversations
  /\ compression' = None
  /\ UNCHANGED <<ids, activeId, storage, panel, run, runs, wiping, disk>>

-----------------------------------------------------------------------------
(* /clear and the reset of the project, which awaits the same removals and  *)
(* ends with the same change of the messages; and the clear of all storage. *)

ClearStarts ==
  /\ Settled /\ run = None /\ activeId # None /\ clearing = None /\ Undisturbed
  /\ clearing' = Unreferenced(activeId) \cup draft
  /\ releasing' = releasing \cup clearing'
  /\ Discard(AttachmentIds(Messages) \cup draft, Existing \ {activeId}, {})
  /\ UNCHANGED <<store, blobs, draft, upload, rollbackInfo, work, wiping, disk>>

\* clearContext, on the conversation that is the active one by now.
ClearContext_keepsSummary(c) ==
  conversations' = IF c = None THEN conversations
                   ELSE [conversations EXCEPT ![c].messages = <<>>]
ClearContext(c) ==
  conversations' = IF c = None THEN conversations
                   ELSE [conversations EXCEPT ![c] = NewConversation]

ClearEnds ==
  /\ clearing # None
  /\ clearing \cap releasing = {}
  /\ ClearContext(activeId)
  /\ draft' = {} /\ rollbackInfo' = 0 /\ clearing' = None
  /\ UNCHANGED <<ids, activeId, storage, upload, work, wiping, disk>>

\* The domain of the conversations, with what is persisted of it.
WipeConversations ==
  /\ Settled /\ ~wiping
  /\ wiping' = TRUE
  /\ conversations' = [c \in Ids |-> None]
  /\ SetActive(None)
  /\ disk' = [conversations |-> conversations', activeId |-> None]
  /\ unwanted' = unwanted \cup blobs \cup draft \cup UsedBy(Existing)
  /\ UNCHANGED <<ids, blobs, releasing, panel, compression, runs>>

\* The domain of the attachments, which is the last one.
WipeAttachments ==
  /\ wiping
  /\ blobs' = {}
  /\ wiping' = FALSE
  /\ UNCHANGED <<store, releasing, unwanted, panel, work, disk>>

-----------------------------------------------------------------------------
\* A bound: a change of the store is persisted before the next one.
StoreStep ==
  /\ disk = Stored
  /\ \/ \E c \in Ids : CreateConversation(c) \/ ForkConversation(c) \/ SwitchConversation(c)
     \/ \E c \in Ids, next \in Ids \cup {None} : DeleteConversation(c, next)
     \/ Submit \/ PromptAdded \/ Retry
     \/ \E kind \in {"answer", "error"} : RunEnds(kind)
     \/ \E kind \in {"partial", "memory"} : RunStopsAfter(kind)
     \/ CompressionEnds \/ CompressionFails
     \/ ClearEnds \/ WipeConversations

OtherStep ==
  \/ Persist \/ Reload
  \/ \E a \in Attachments : UploadStarts(a) \/ RemoveAttachment(a) \/ RemoveBlob(a)
  \/ Uploaded \/ RunStops
  \/ \E added \in BOOLEAN : RunBesideDraft(added)
  \/ \E p \in 1..MaxMessages : Rollback(p)
  \/ DismissRollback
  \/ CompressContext \/ ClearStarts \/ WipeAttachments

Next == StoreStep \/ OtherStep

Spec == Init /\ [][Next]_vars

-----------------------------------------------------------------------------
(* Properties.                                                              *)

\* An attachment that a message or the input field refers to can be read,
\* unless the user discarded its last use at some time: a fork keeps what it
\* shares with a deleted or cleared conversation, also across reloads
\* (getUnreferencedAttachmentIds, deleteConversation).
BlobsOutliveReferences ==
  UsedBy(Existing) \cup draft \cup InRun(None) \subseteq blobs \cup unwanted

\* Every prompt of a conversation reaches the model again, as a message after
\* the place where the summary ends or through the summary itself
\* (messagesForConversationContinuation, compressContext).
PromptsReachTheModel ==
  \A c \in Existing :
    LET conv == conversations[c]
    IN  \A i \in DOMAIN conv.messages : IsPrompt(conv.messages[i]) =>
          i > conv.summary.from \/ conv.messages[i].prompt \in conv.summary.covered
=============================================================================
