------------------------------ MODULE Timeline ------------------------------
(***************************************************************************)
(* One conversation on one device: its stored messages, the summary row the   *)
(* chats list shows, and the bubbles the chat materializes from the messages   *)
(* and their amendments (saveMessages, recomputeAmendedSummaries, toMessages). *)
(*                                                                         *)
(* A message is its place in the order of ids.  A text is the id of the       *)
(* message whose body it is: of an original, or of the edit that replaced it.  *)
(* An amendment is by the sender of its target: the chat offers the actions   *)
(* on own messages only.  Saves of one device do not overlap, and the senders' *)
(* clocks give no two originals one timestamp.                                *)
(***************************************************************************)
EXTENDS Integers, FiniteSets, Sequences

CONSTANTS
  MaxLog,        \* bound: messages of the conversation
  MaxTimes,      \* bound: originals, with timestamps 1..MaxTimes
  MaxCuts,       \* bound: tabs closed during a save
  OrphansFirst   \* may an amendment be stored before its original?

ASSUME TimelineAssumption == {MaxLog, MaxTimes, MaxCuts} \subseteq Nat /\ OrphansFirst \in BOOLEAN

VARIABLES
  lLog,     \* what was sent: kind, timestamp and, of an amendment, its target
  lHas,     \* the messages of the `messages` store
  lRow,     \* the conversation's summary row
  lSave,    \* the running saveMessages
  lCuts,
  lStale    \* a save was cut between its two writes, and nothing repaired the row since

lVars == <<lLog, lHas, lRow, lSave, lCuts, lStale>>

Ids       == DOMAIN lLog
Originals == {i \in Ids : lLog[i].kind \in {"text", "media"}}
TimeOf(i) == lLog[i].ts

Logged    == [kind : {"text", "media", "edit", "delete"}, ts : 0..MaxTimes, target : 0..MaxLog]
Summaries == [text : 0..MaxLog, ts : 0..MaxTimes, deleted : BOOLEAN]
SaveState == [pc : {"idle", "read", "write", "history", "rewrite"}, batch : SUBSET (1..MaxLog),
              existing : Summaries, history : SUBSET (1..MaxLog)]

NoSummary == [text |-> 0, ts |-> 0, deleted |-> FALSE]
NoSave    == [pc |-> "idle", batch |-> {}, existing |-> NoSummary, history |-> {}]

TimelineTypeOK ==
  /\ lLog \in Seq(Logged) /\ Len(lLog) <= MaxLog
  /\ \A i \in Ids : /\ i \in Originals <=> lLog[i].target = 0
                    /\ i \notin Originals => lLog[i].target \in Originals \cap 1..(i - 1)
  /\ lHas \subseteq Ids
  /\ lRow \in Summaries
  /\ lRow = NoSummary <=> lHas \cap Originals = {}
  /\ lSave \in SaveState /\ lSave.batch \cup lSave.history \subseteq Ids
  /\ lStale \in BOOLEAN

TimelineInit ==
  /\ lLog = <<>> /\ lHas = {}
  /\ lRow = NoSummary /\ lSave = NoSave
  /\ lCuts = 0 /\ lStale = FALSE

Latest(S) == CHOOSE i \in S : \A j \in S : TimeOf(j) <= TimeOf(i)

-----------------------------------------------------------------------------
(* Sending.                                                                *)

\* sendTextMessage, sendMediaMessage: sent_at is the sender's clock, so the
\* timestamps need not follow the ids.
SendOriginal(kind, ts) ==
  /\ Len(lLog) < MaxLog
  /\ \A i \in Originals : TimeOf(i) # ts
  /\ lLog' = Append(lLog, [kind |-> kind, ts |-> ts, target |-> 0])
  /\ UNCHANGED <<lHas, lRow, lSave, lCuts, lStale>>

\* sendAmendment, from any device of the sender: an edit can follow a delete.
SendAmendment(action, i) ==
  /\ Len(lLog) < MaxLog
  /\ i \in Originals
  /\ lLog' = Append(lLog, [kind |-> action, ts |-> 0, target |-> i])
  /\ UNCHANGED <<lHas, lRow, lSave, lCuts, lStale>>

-----------------------------------------------------------------------------
(* The bubbles and the summary.                                            *)

\* The amendments of message i in S, applied oldest first; a delete is terminal.
Chain(i, S)     == {a \in S \ Originals : lLog[a].target = i}
IsDeleted(i, S) == \E a \in Chain(i, S) : lLog[a].kind = "delete"
Edits(i, S)     == {a \in Chain(i, S) : lLog[a].kind = "edit"}
LastOf(T)       == CHOOSE a \in T : \A b \in T : b <= a

\* toMessages: what the bubble of message i shows.
Bubble(i, S) ==
  IF IsDeleted(i, S) THEN [text |-> 0, deleted |-> TRUE]
  ELSE [text |-> IF Edits(i, S) = {} THEN i ELSE LastOf(Edits(i, S)), deleted |-> FALSE]

\* The preview of a media message is its placeholder, whatever its caption.
RowText(i, S) == IF lLog[i].kind = "media" \/ Edits(i, S) = {} THEN i ELSE LastOf(Edits(i, S))

\* summarizeConversation, of a history that has an original.
Summarize(S) ==
  LET i == Latest(S \cap Originals)
      deleted == IsDeleted(i, S)
  IN  [text |-> IF deleted THEN 0 ELSE RowText(i, S), ts |-> TimeOf(i), deleted |-> deleted]

\* A slip: a batch's newest message always becomes the summary.
Replaces(existing, i) == [text |-> i, ts |-> TimeOf(i), deleted |-> FALSE]

\* The row saveMessages writes: an existing summary that is newer is kept.
Merged(existing, i) ==
  IF existing.ts > TimeOf(i) THEN existing
  ELSE [text |-> i, ts |-> TimeOf(i), deleted |-> FALSE]

-----------------------------------------------------------------------------
(* saveMessages.                                                           *)

\* What a sync brings: messages that are not stored, in any grouping, since a
\* message whose session key is missing is skipped until the key arrives.
Deliverable(B) ==
  /\ B # {} /\ B \subseteq Ids \ lHas
  /\ OrphansFirst \/ \A a \in B \ Originals : lLog[a].target \in lHas \cup B

StartSave(B) ==
  /\ lSave.pc = "idle"
  /\ Deliverable(B)
  /\ lSave' = [NoSave EXCEPT !.pc = "read", !.batch = B]
  /\ UNCHANGED <<lLog, lHas, lRow, lCuts, lStale>>

\* Phase 1: the existing summaries.
ReadSummaries ==
  /\ lSave.pc = "read"
  /\ lSave' = [lSave EXCEPT !.pc = "write", !.existing = lRow]
  /\ UNCHANGED <<lLog, lHas, lRow, lCuts, lStale>>

\* A batch with an amendment reconciles the summary after its writes.
NeedsReconcile(B) == B \ Originals # {}

\* Phase 2: messages and summaries in one transaction.
WriteBatch ==
  LET new == lSave.batch \cap Originals
      row == IF new = {} THEN lRow ELSE Merged(lSave.existing, Latest(new))
  IN
  /\ lSave.pc = "write"
  /\ lHas' = lHas \cup lSave.batch
  /\ lRow' = row
  /\ lStale' = (lStale /\ row.ts = lRow.ts)
  /\ lSave' = IF NeedsReconcile(lSave.batch) THEN [lSave EXCEPT !.pc = "history"] ELSE NoSave
  /\ UNCHANGED <<lLog, lCuts>>

\* recomputeAmendedSummaries: the whole history is read ...
ReadHistory ==
  /\ lSave.pc = "history"
  /\ lSave' = [lSave EXCEPT !.pc = "rewrite", !.history = lHas, !.existing = lRow]
  /\ UNCHANGED <<lLog, lHas, lRow, lCuts, lStale>>

\* ... and a summary that changed is written.
RewriteSummary ==
  LET S == lSave.history IN
  /\ lSave.pc = "rewrite"
  /\ lRow' = IF lSave.existing = NoSummary \/ S \cap Originals = {} \/ Summarize(S) = lSave.existing
             THEN lRow ELSE Summarize(S)
  /\ lSave' = NoSave
  /\ lStale' = FALSE
  /\ UNCHANGED <<lLog, lHas, lCuts>>

\* The tab is closed.  Messages that are stored are skipped by the next sync, so
\* an amendment whose reconcile pass was cut is not reconciled by it.
CutSave ==
  /\ lSave.pc # "idle" /\ lCuts < MaxCuts
  /\ lCuts' = lCuts + 1
  /\ lSave' = NoSave
  /\ lStale' = (lStale \/ lSave.pc \in {"history", "rewrite"})
  /\ UNCHANGED <<lLog, lHas, lRow>>

TimelineNext ==
  \/ \E kind \in {"text", "media"}, ts \in 1..MaxTimes : SendOriginal(kind, ts)
  \/ \E action \in {"edit", "delete"}, i \in Ids : SendAmendment(action, i)
  \/ \E B \in SUBSET Ids : StartSave(B)
  \/ ReadSummaries \/ WriteBatch \/ ReadHistory \/ RewriteSummary \/ CutSave

\* Between saves the chats list shows what the chat shows last: the row has the
\* time of the last bubble, is marked deleted when it is, and has its text (of a
\* media message, its placeholder), in whatever groups and order the originals,
\* the edits and the deletes were stored (db.ts: the summary "mirrors the chat's
\* last bubble").  A tab closed between the two writes of a save leaves a row
\* that is repaired by the next amendment or by a newer message.
SummaryMirrorsLastBubble ==
  (lSave.pc = "idle" /\ lHas \cap Originals # {} /\ ~lStale) =>
    LET i == Latest(lHas \cap Originals)
        b == Bubble(i, lHas)
    IN  /\ lRow.ts = TimeOf(i)
        /\ lRow.deleted = b.deleted
        /\ lRow.text = IF lLog[i].kind = "media" /\ ~b.deleted THEN i ELSE b.text

-----------------------------------------------------------------------------
(* Why the row mirrors the bubble while no amendment comes before its         *)
(* original.                                                               *)

ClocksDiffer ==
  /\ \A i \in Originals : TimeOf(i) # 0
  /\ \A i, j \in Originals : TimeOf(i) = TimeOf(j) => i = j

\* What is stored, and what is about to be, has no orphan.
NoOrphans(S) == \A a \in S \ Originals : lLog[a].target \in S

SaveIsAlone ==
  /\ NoOrphans(lHas)
  /\ lSave.pc \in {"read", "write"} => lSave.batch \cap lHas = {} /\ NoOrphans(lHas \cup lSave.batch)
  /\ lSave.pc = "write" => lSave.existing = lRow
  /\ lSave.pc = "rewrite" => lSave.existing = lRow /\ lSave.history = lHas

\* The time of the row is that of the last bubble, also between the two writes
\* of a save.
RowIsTimed ==
  lHas \cap Originals # {} => lRow.ts = TimeOf(Latest(lHas \cap Originals))

RowIsCurrent ==
  (lSave.pc \in {"idle", "read", "write"} /\ lHas \cap Originals # {} /\ ~lStale) => lRow = Summarize(lHas)

TimelineInv == TimelineTypeOK /\ ClocksDiffer /\ SaveIsAlone /\ RowIsTimed /\ RowIsCurrent

TimelineSpec == TimelineInit /\ [][TimelineNext]_lVars
=============================================================================
