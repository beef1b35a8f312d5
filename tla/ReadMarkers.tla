---------------------------- MODULE ReadMarkers ----------------------------
(***************************************************************************)
(* The read marker of one conversation on the devices of its owner: the       *)
(* watermark in each device's conversation row, the blob that carries the     *)
(* marker between devices, the chat view that advances it, and the inbox      *)
(* sync that merges it (useChat, syncReadMarkers, markConversationRead).      *)
(*                                                                         *)
(* A message is its timestamp; all are incoming and none is an amendment.    *)
(* A marker of 0 is one that is absent.  The steps are those between two      *)
(* awaits: the watermark is read in one transaction and written in another.  *)
(***************************************************************************)
EXTENDS Naturals, FiniteSets

CONSTANTS
  ReadDevices,  \* devices of the owner
  MaxStamp,     \* bound: messages, with timestamps 1..MaxStamp
  MaxOpens,     \* bound: times a chat is opened
  MaxOffline    \* bound: calls that fail

ASSUME ReadAssumption == {MaxStamp, MaxOpens, MaxOffline} \subseteq Nat

VARIABLES
  wSent,     \* the newest message in the inbox
  wHas,      \* wHas[d]: the messages stored on device d
  wRow,      \* wRow[d]: its conversation row: does it exist, lastReadTimestamp
  wRemote,   \* read_markers.json
  wSync,     \* wSync[d]: the running syncAndPublish or push
  wView,     \* wView[d]: the chat view
  wDue,      \* the devices whose push timer runs
  wOpens,
  wOffline

wVars == <<wSent, wHas, wRow, wRemote, wSync, wView, wDue, wOpens, wOffline>>

Stamps == 1..MaxStamp
Newest(S) == CHOOSE x \in S \cup {0} : \A y \in S : y <= x

NoSync   == [pc |-> "idle", remote |-> 0, merged |-> 0]
NoView   == [pc |-> "closed", boundary |-> 0, latest |-> 0, shown |-> {}]
NoRow    == [exists |-> FALSE, read |-> 0]

SyncState == [pc : {"idle", "get", "merge", "mark", "put"}, remote : 0..MaxStamp, merged : 0..MaxStamp]
ViewState == [pc : {"closed", "load", "mark", "write", "open"}, boundary : 0..MaxStamp,
              latest : 0..MaxStamp, shown : SUBSET Stamps]

MarkersTypeOK ==
  /\ wSent \in 0..MaxStamp /\ wRemote \in 0..MaxStamp
  /\ wHas \in [ReadDevices -> SUBSET Stamps]
  /\ wRow \in [ReadDevices -> [exists : BOOLEAN, read : 0..MaxStamp]]
  /\ wSync \in [ReadDevices -> SyncState] /\ wView \in [ReadDevices -> ViewState]
  /\ \A d \in ReadDevices : wView[d].shown \subseteq wHas[d] /\ (wHas[d] # {} => wRow[d].exists)
  /\ wDue \subseteq ReadDevices

MarkersInit ==
  /\ wSent = 0 /\ wRemote = 0
  /\ wHas = [d \in ReadDevices |-> {}]
  /\ wRow = [d \in ReadDevices |-> NoRow]
  /\ wSync = [d \in ReadDevices |-> NoSync]
  /\ wView = [d \in ReadDevices |-> NoView]
  /\ wDue = {} /\ wOpens = 0 /\ wOffline = 0

SetSync(d, s) == wSync' = [wSync EXCEPT ![d] = s]
SetView(d, v) == wView' = [wView EXCEPT ![d] = v]

-----------------------------------------------------------------------------
(* The inbox sync and the push.                                            *)

MessageArrives ==
  /\ wSent < MaxStamp
  /\ wSent' = wSent + 1
  /\ UNCHANGED <<wHas, wRow, wRemote, wSync, wView, wDue, wOpens, wOffline>>

\* saveMessages: the summary it writes carries no lastReadTimestamp.
SavedRow(row) == [exists |-> TRUE, read |-> 0]

\* syncAndPublish: what is new in the inbox is saved, then the markers are
\* reconciled.
StartSyncAndPublish(d) ==
  LET new == 1..wSent \ wHas[d] IN
  /\ wSync[d].pc = "idle"
  /\ wHas' = [wHas EXCEPT ![d] = @ \cup new]
  /\ wRow' = IF new = {} THEN wRow ELSE [wRow EXCEPT ![d] = SavedRow(@)]
  /\ SetSync(d, [NoSync EXCEPT !.pc = "get"])
  /\ UNCHANGED <<wSent, wRemote, wView, wDue, wOpens, wOffline>>

\* scheduleReadMarkerPush: the timer's call merges and pushes as a sync does.
PushDue(d) ==
  /\ d \in wDue /\ wSync[d].pc = "idle"
  /\ wDue' = wDue \ {d}
  /\ SetSync(d, [NoSync EXCEPT !.pc = "get"])
  /\ UNCHANGED <<wSent, wHas, wRow, wRemote, wView, wOpens, wOffline>>

\* fetchReadMarkers; where the GET fails there are no remote markers.
GetRemote(d) ==
  /\ wSync[d].pc = "get"
  /\ \/ SetSync(d, [wSync[d] EXCEPT !.pc = "merge", !.remote = wRemote]) /\ UNCHANGED wOffline
     \/ /\ wOffline < MaxOffline /\ wOffline' = wOffline + 1
        /\ SetSync(d, [wSync[d] EXCEPT !.pc = "merge", !.remote = 0])
  /\ UNCHANGED <<wSent, wHas, wRow, wRemote, wView, wDue, wOpens>>

\* A slip: what the other devices wrote replaces what this one knows.
RemoteWins(local, remote) == IF remote = 0 THEN local ELSE remote

MergeMarkers(local, remote) == IF remote > local THEN remote ELSE local

\* loadReadMarkers and mergeMarkers; then markConversationRead decides.
LoadAndMerge(d) ==
  LET s == wSync[d]
      local == wRow[d].read
      merged == MergeMarkers(local, s.remote)
  IN
  /\ s.pc = "merge"
  /\ SetSync(d, [s EXCEPT !.merged = merged,
                          !.pc = IF merged > local /\ wRow[d].exists THEN "mark"
                                 ELSE IF merged > s.remote THEN "put" ELSE "idle"])
  /\ UNCHANGED <<wSent, wHas, wRow, wRemote, wView, wDue, wOpens, wOffline>>

\* The second transaction of markConversationRead.
MarkMerged(d) ==
  LET s == wSync[d] IN
  /\ s.pc = "mark"
  /\ wRow' = [wRow EXCEPT ![d].read = s.merged]
  /\ SetSync(d, [s EXCEPT !.pc = IF s.merged > s.remote THEN "put" ELSE "idle"])
  /\ UNCHANGED <<wSent, wHas, wRemote, wView, wDue, wOpens, wOffline>>

\* uploadReadMarkers: the last PUT wins; one that fails is logged.
PutRemote(d) ==
  /\ wSync[d].pc = "put"
  /\ SetSync(d, NoSync)
  /\ \/ wRemote' = wSync[d].merged /\ UNCHANGED wOffline
     \/ wOffline < MaxOffline /\ wOffline' = wOffline + 1 /\ UNCHANGED wRemote
  /\ UNCHANGED <<wSent, wHas, wRow, wView, wDue, wOpens>>

-----------------------------------------------------------------------------
(* The chat view (useChat).                                                *)

\* The boundary of the "New" divider is frozen before anything is marked read.
OpenChat(d) ==
  /\ wView[d].pc = "closed"
  /\ wOpens < MaxOpens
  /\ wOpens' = wOpens + 1
  /\ SetView(d, [NoView EXCEPT !.pc = "load", !.boundary = wRow[d].read])
  /\ UNCHANGED <<wSent, wHas, wRow, wRemote, wSync, wDue, wOffline>>

\* The rows are loaded and shown together; the newest of them is to be marked.
LoadChat(d) ==
  /\ wView[d].pc = "load"
  /\ SetView(d, [wView[d] EXCEPT !.shown = wHas[d], !.latest = Newest(wHas[d]),
                                 !.pc = IF wHas[d] = {} THEN "open" ELSE "mark"])
  /\ UNCHANGED <<wSent, wHas, wRow, wRemote, wSync, wDue, wOpens, wOffline>>

\* markConversationRead: a mark that would not advance is no write.
CheckMark(d) ==
  /\ wView[d].pc = "mark"
  /\ SetView(d, [wView[d] EXCEPT !.pc = IF wView[d].latest > wRow[d].read THEN "write" ELSE "open"])
  /\ UNCHANGED <<wSent, wHas, wRow, wRemote, wSync, wDue, wOpens, wOffline>>

\* It advanced: the badges are recomputed and a push is scheduled.
WriteMark(d) ==
  /\ wView[d].pc = "write"
  /\ wRow' = [wRow EXCEPT ![d].read = wView[d].latest]
  /\ wDue' = wDue \cup {d}
  /\ SetView(d, [wView[d] EXCEPT !.pc = "open"])
  /\ UNCHANGED <<wSent, wHas, wRemote, wSync, wOpens, wOffline>>

\* An inbox update re-reads the open chat and marks what it now shows.
RefreshChat(d) ==
  /\ wView[d].pc = "open" /\ wView[d].shown # wHas[d]
  /\ SetView(d, [wView[d] EXCEPT !.pc = "load"])
  /\ UNCHANGED <<wSent, wHas, wRow, wRemote, wSync, wDue, wOpens, wOffline>>

\* A view that is closed shows nothing more; a mark on its way is still made.
CloseChat(d) ==
  /\ wView[d].pc \in {"load", "open"}
  /\ SetView(d, NoView)
  /\ UNCHANGED <<wSent, wHas, wRow, wRemote, wSync, wDue, wOpens, wOffline>>

SyncStep(d) == StartSyncAndPublish(d) \/ PushDue(d) \/ GetRemote(d) \/ LoadAndMerge(d)
               \/ MarkMerged(d) \/ PutRemote(d)
ViewStep(d) == LoadChat(d) \/ CheckMark(d) \/ WriteMark(d) \/ RefreshChat(d)

MarkersNext ==
  \/ MessageArrives
  \/ \E d \in ReadDevices : SyncStep(d) \/ ViewStep(d) \/ OpenChat(d) \/ CloseChat(d)

MarkersSpec == MarkersInit /\ [][MarkersNext]_wVars

\* unreadCounts
Unread(d) == {m \in wHas[d] : m > wRow[d].read}

\* The devices agree in the end: once nothing new arrives and every device
\* keeps syncing, all of them show the same messages as unread, those above
\* the shared marker, whatever pushes, merges, saves and views overlapped
\* (syncReadMarkers: "idempotent and convergent").
MarkersConverge ==
  <>[](\A d \in ReadDevices : wHas[d] = 1..wSent /\ Unread(d) = {m \in 1..wSent : m > wRemote})
=============================================================================
