----------------------------- MODULE DeviceSync -----------------------------
(***************************************************************************)
(* The devices of one account syncing the mailbox of InboxStore.           *)
(*                                                                         *)
(* A device is one browser profile: its IndexedDB keeps a live cursor, the *)
(* decrypted messages, the inbound Megolm sessions and the archives        *)
(* already ingested.  A tab of a device runs syncAndPublish -> syncMessages*)
(* -> fetchMessages: list and fetch `live/` after the cursor, list and     *)
(* fetch the archives not ingested, save the cursor, ask the server to     *)
(* compact, save the messages, mark the archives.  Every IndexedDB         *)
(* transaction and every request is one step; within one tab a second sync *)
(* joins the one in flight (syncInFlight), so a tab runs one at a time.    *)
(*                                                                         *)
(* A message is opened with the Megolm session its `megolm.key_share`      *)
(* carries: KeyOf[m] is the id of that share, written before m by the      *)
(* sender.  A share in LostShares[d] is encrypted to a sharing key device d *)
(* does not have (the account's credentials were rotated before d logged   *)
(* in): d gets its session only from the key backup, once another device   *)
(* has opened the share.                                                   *)
(***************************************************************************)
EXTENDS InboxStore

CONSTANTS
  Devices,        \* the browser profiles of the account
  Tabs,           \* the open tabs
  DeviceOf,       \* DeviceOf[t]: the device tab t belongs to
  Shares,         \* the messages that are key shares
  KeyOf,          \* KeyOf[m]: the share that carries the session of m
  LostShares,     \* LostShares[d]: the shares device d cannot open
  LateArrivals,   \* ids that may arrive after larger ones were listed
  Retried,        \* ids whose send may be retried after it was stored
  SyncPage,       \* keys per page of the client's listing (50 in the code)
  MaxFaults       \* bound: failed requests, aborted handlers, closed tabs

ASSUME DevicesAssumption == DeviceOf \in [Tabs -> Devices]
ASSUME SharesAssumption ==
  /\ Shares \subseteq Messages
  /\ LostShares \in [Devices -> SUBSET Shares]
  /\ KeyOf \in [Messages \ Shares -> Shares]
ASSUME SyncPageAssumption == SyncPage \in Nat \ {0}
ASSUME MaxFaultsAssumption == MaxFaults \in Nat

VARIABLES
  cursor,     \* cursor[d]: the stored live cursor, -1 when there is none
  saved,      \* saved[d]: ids of the messages in IndexedDB
  known,      \* known[d]: the shares whose session the device holds
  ingested,   \* ingested[d]: keys of the archives marked ingested
  tab,        \* tab[t]: local variables of the sync tab t is running
  faults      \* how many faults have happened

deviceVars == <<cursor, saved, known, ingested, tab, faults>>
storeVars  == vars
allVars    == <<live, archives, nextKey, today, job,
                cursor, saved, known, ingested, tab, faults>>

Texts == Messages \ Shares    \* what a user can see: not the key shares

-----------------------------------------------------------------------------
TabPhases == {"idle", "list", "relist", "getLive", "listArchives",
              "getArchives", "cursor", "compact", "save", "mark"}

IdleTab == [pc |-> "idle", todo |-> {}, lastKey |-> -1, fetched |-> {},
            got |-> {}, seen |-> {}, skip |-> {}, todoArchives |-> {},
            candidates |-> {}]

Tab == [pc           : TabPhases,
        todo         : SUBSET Messages,        \* live keys still to GET
        lastKey      : Messages \cup {-1},     \* last key of the live page
        fetched      : SUBSET Messages,        \* envelopes read from live/
        got          : SUBSET Texts,           \* opened by this sync
        seen         : SUBSET Messages,        \* seenMsgIds
        skip         : SUBSET Nat,             \* archives already ingested
        todoArchives : SUBSET Archive,         \* archives still to GET
        candidates   : SUBSET Nat]             \* ingestedCandidates

DeviceTypeOK ==
  /\ TypeOK
  /\ cursor \in [Devices -> Messages \cup {-1}]
  /\ saved \in [Devices -> SUBSET Texts]
  /\ known \in [Devices -> SUBSET Shares]
  /\ ingested \in [Devices -> SUBSET Nat]
  /\ tab \in [Tabs -> Tab]
  /\ faults \in 0..MaxFaults

DeviceInit ==
  /\ Init
  /\ cursor = [d \in Devices |-> -1]
  /\ saved = [d \in Devices |-> {}]
  /\ known = [d \in Devices |-> {}]
  /\ ingested = [d \in Devices |-> {}]
  /\ tab = [t \in Tabs |-> IdleTab]
  /\ faults = 0

SetTab(t, r) == tab' = [tab EXCEPT ![t] = r]

(* A step that fails uses up one fault; every other step leaves the count. *)
Fault   == faults < MaxFaults /\ faults' = faults + 1
NoFault == faults' = faults

-----------------------------------------------------------------------------
(* The sync of one tab.                                                    *)

(* useInboxSync: mount, a new_message event or coming back online.         *)
StartSync(t) ==
  /\ tab[t].pc = "idle"
  /\ SetTab(t, [IdleTab EXCEPT !.pc = "list"])
  /\ NoFault
  /\ UNCHANGED <<storeVars, cursor, saved, known, ingested>>

(* syncLive: one page after the stored cursor, which is exclusive.         *)
LivePage(c) == {k \in After(c) : Cardinality({j \in After(c) : j < k}) < SyncPage}

TakePage(t, page) ==
  \E last \in IF page = {} THEN {-1} ELSE {k \in page : IsLast(k, page)} :
    SetTab(t, [tab[t] EXCEPT !.pc = "getLive", !.todo = page, !.lastKey = last])

SyncList(t) ==
  /\ \/ tab[t].pc = "list" /\ TakePage(t, LivePage(cursor[DeviceOf[t]]))
     \/ tab[t].pc = "relist" /\ TakePage(t, LivePage(-1))
  /\ NoFault
  /\ UNCHANGED <<storeVars, cursor, saved, known, ingested>>

(* The listing fails: it is repeated without the cursor, once.             *)
SyncListFails(t) ==
  /\ \/ tab[t].pc = "list" /\ SetTab(t, [tab[t] EXCEPT !.pc = "relist"])
     \/ tab[t].pc = "relist" /\ SetTab(t, IdleTab)
  /\ Fault
  /\ UNCHANGED <<storeVars, cursor, saved, known, ingested>>

(* GET the next envelope.  One that is gone or cannot be fetched is        *)
(* skipped: the rest of the page, and the cursor, do not wait for it.      *)
SyncGetLive(t) ==
  /\ tab[t].pc = "getLive"
  /\ \E k \in tab[t].todo :
       /\ IsFirst(k, tab[t].todo)
       /\ \/ /\ NoFault
             /\ SetTab(t, [tab[t] EXCEPT
                             !.todo = tab[t].todo \ {k},
                             !.fetched = tab[t].fetched \cup ({k} \cap live)])
          \/ /\ Fault
             /\ SetTab(t, [tab[t] EXCEPT !.todo = tab[t].todo \ {k}])
  /\ UNCHANGED <<storeVars, cursor, saved, known, ingested>>

(* A slip: a key share is taken for a message.                             *)
OpenableOrShare(E, keys) == {m \in E : m \in Shares \/ KeyOf[m] \in keys}

(* processEnvelopes: first every key share among the envelopes E, then     *)
(* every message not seen whose session the device holds.                  *)
Learned(d, E)     == (E \cap Shares) \ LostShares[d]
Openable(E, keys) == {m \in E \cap Texts : KeyOf[m] \in keys}

(* A slip: an envelope that was fetched counts as seen, opened or not.     *)
SyncOpenLiveSeesAll(t) ==
  LET d    == DeviceOf[t]
      keys == known[d] \cup Learned(d, tab[t].fetched)
  IN  /\ tab[t].pc = "getLive"
      /\ tab[t].todo = {}
      /\ known' = [known EXCEPT ![d] = keys]
      /\ SetTab(t, [tab[t] EXCEPT
                      !.pc = "listArchives", !.fetched = {},
                      !.got = Openable(tab[t].fetched, keys),
                      !.seen = saved[d] \cup tab[t].fetched,
                      !.skip = ingested[d]])
      /\ NoFault
      /\ UNCHANGED <<storeVars, cursor, saved, ingested>>

(* The page is read: open it, then load the ids already stored and the     *)
(* archives already ingested.                                              *)
SyncOpenLive(t) ==
  LET d    == DeviceOf[t]
      keys == known[d] \cup Learned(d, tab[t].fetched)
      got  == Openable(tab[t].fetched, keys)
  IN  /\ tab[t].pc = "getLive"
      /\ tab[t].todo = {}
      /\ known' = [known EXCEPT ![d] = keys]
      /\ SetTab(t, [tab[t] EXCEPT
                      !.pc = "listArchives", !.fetched = {}, !.got = got,
                      !.seen = saved[d] \cup got, !.skip = ingested[d]])
      /\ NoFault
      /\ UNCHANGED <<storeVars, cursor, saved, ingested>>

(* syncArchive: list every archive; the ones marked ingested are not read. *)
(* A failed listing leaves this sync without archives.                     *)
SyncListArchives(t) ==
  /\ tab[t].pc = "listArchives"
  /\ \/ /\ NoFault
        /\ SetTab(t, [tab[t] EXCEPT
                        !.pc = "getArchives",
                        !.todoArchives = {a \in archives : a.key \notin tab[t].skip}])
     \/ /\ Fault
        /\ SetTab(t, [tab[t] EXCEPT !.pc = "getArchives"])
  /\ UNCHANGED <<storeVars, cursor, saved, known, ingested>>

(* A slip: an archive that was read may be marked, opened in full or not.  *)
SyncGetArchiveOnce(t) ==
  /\ tab[t].pc = "getArchives"
  /\ \E a \in tab[t].todoArchives :
       LET d    == DeviceOf[t]
           keys == known[d] \cup Learned(d, a.msgs)
           new  == Openable(a.msgs \ tab[t].seen, keys)
       IN  /\ a \in archives
           /\ known' = [known EXCEPT ![d] = keys]
           /\ SetTab(t, [tab[t] EXCEPT
                !.todoArchives = tab[t].todoArchives \ {a},
                !.got = tab[t].got \cup new,
                !.seen = tab[t].seen \cup new,
                !.candidates = tab[t].candidates \cup {a.key}])
           /\ NoFault
  /\ UNCHANGED <<storeVars, cursor, saved, ingested>>

(* GET and open the next archive (the days in order, the archives of a day *)
(* in any order: see InboxStore).  It may be marked ingested only if no    *)
(* envelope was left for want of its session.  One that is gone or cannot  *)
(* be fetched is left for later.                                           *)
SyncGetArchive(t) ==
  /\ tab[t].pc = "getArchives"
  /\ \E a \in tab[t].todoArchives :
       LET d       == DeviceOf[t]
           rest    == tab[t].todoArchives \ {a}
           keys    == known[d] \cup Learned(d, a.msgs)
           new     == (a.msgs \cap Texts) \ tab[t].seen
           opened  == Openable(new, keys)
       IN  /\ \A b \in tab[t].todoArchives : a.day <= b.day
           /\ \/ /\ a \in archives
                 /\ known' = [known EXCEPT ![d] = keys]
                 /\ SetTab(t, [tab[t] EXCEPT
                      !.todoArchives = rest,
                      !.got = tab[t].got \cup opened,
                      !.seen = tab[t].seen \cup opened,
                      !.candidates = IF opened = new
                                     THEN tab[t].candidates \cup {a.key}
                                     ELSE tab[t].candidates])
                 /\ NoFault
              \/ /\ \/ a \notin archives /\ NoFault
                    \/ Fault
                 /\ SetTab(t, [tab[t] EXCEPT !.todoArchives = rest])
                 /\ UNCHANGED known
  /\ UNCHANGED <<storeVars, cursor, saved, ingested>>

(* fetchMessages ends: save the cursor before the messages are saved.      *)
SyncSaveCursor(t) ==
  /\ tab[t].pc = "getArchives"
  /\ tab[t].todoArchives = {}
  /\ IF tab[t].lastKey = -1
     THEN /\ SetTab(t, [tab[t] EXCEPT !.pc = "save"])
          /\ UNCHANGED cursor
     ELSE /\ SetTab(t, [tab[t] EXCEPT !.pc = "compact"])
          /\ cursor' = [cursor EXCEPT ![DeviceOf[t]] = tab[t].lastKey]
  /\ NoFault
  /\ UNCHANGED <<storeVars, saved, known, ingested>>

(* triggerCompaction up to the last key listed; its outcome is ignored and *)
(* the request may be lost.                                                *)
SyncCompact(t) ==
  /\ tab[t].pc = "compact"
  /\ SetTab(t, [tab[t] EXCEPT !.pc = "save"])
  /\ \/ NoFault /\ \E h \in Handlers : StartCompact(h, tab[t].lastKey)
     \/ Fault /\ UNCHANGED storeVars
  /\ UNCHANGED <<cursor, saved, known, ingested>>

(* A slip: a failed save does not stop the marking.                        *)
SyncSaveThenMark(t) ==
  /\ tab[t].pc = "save"
  /\ \/ /\ NoFault
        /\ saved' = [saved EXCEPT ![DeviceOf[t]] = @ \cup tab[t].got]
     \/ Fault /\ UNCHANGED saved
  /\ SetTab(t, IF tab[t].candidates = {} THEN IdleTab
               ELSE [IdleTab EXCEPT !.pc = "mark",
                                    !.candidates = tab[t].candidates])
  /\ UNCHANGED <<storeVars, cursor, known, ingested>>

(* saveMessages; when it fails nothing is marked.                          *)
SyncSaveMessages(t) ==
  /\ tab[t].pc = "save"
  /\ \/ /\ NoFault
        /\ saved' = [saved EXCEPT ![DeviceOf[t]] = @ \cup tab[t].got]
        /\ SetTab(t, IF tab[t].candidates = {} THEN IdleTab
                     ELSE [IdleTab EXCEPT !.pc = "mark",
                                          !.candidates = tab[t].candidates])
     \/ /\ Fault
        /\ tab[t].got # {}
        /\ SetTab(t, IdleTab)
        /\ UNCHANGED saved
  /\ UNCHANGED <<storeVars, cursor, known, ingested>>

(* markArchiveIngested, one archive after the other; a failure skips one.  *)
SyncMark(t) ==
  /\ tab[t].pc = "mark"
  /\ \E k \in tab[t].candidates :
       /\ SetTab(t, IF tab[t].candidates = {k} THEN IdleTab
                    ELSE [tab[t] EXCEPT !.candidates = tab[t].candidates \ {k}])
       /\ \/ /\ NoFault
             /\ ingested' = [ingested EXCEPT ![DeviceOf[t]] = @ \cup {k}]
          \/ Fault /\ UNCHANGED ingested
  /\ UNCHANGED <<storeVars, cursor, saved, known>>

(* The tab is closed, reloaded or killed: what was in memory is gone.      *)
CloseTab(t) ==
  /\ tab[t].pc # "idle"
  /\ SetTab(t, IdleTab)
  /\ Fault
  /\ UNCHANGED <<storeVars, cursor, saved, known, ingested>>

(* restoreSessionKeys, at the start of the app: every session some device  *)
(* of the account has backed up.  A backup is taken as written with the    *)
(* device's own copy of the session (addInbound, then backupSessionKey).   *)
BackedUp == UNION {known[d] : d \in Devices}

RestoreKeys(d) ==
  /\ known' = [known EXCEPT ![d] = @ \cup BackedUp]
  /\ known' # known
  /\ NoFault
  /\ UNCHANGED <<storeVars, cursor, saved, ingested, tab>>

SyncStep(t) ==
  \/ SyncList(t)
  \/ SyncGetLive(t)
  \/ SyncOpenLive(t)
  \/ SyncListArchives(t)
  \/ SyncGetArchive(t)
  \/ SyncSaveCursor(t)
  \/ SyncCompact(t)
  \/ SyncSaveMessages(t)
  \/ SyncMark(t)

-----------------------------------------------------------------------------
(* The server, driven by the senders and by the tabs.                      *)

(* An envelope is stored.  The sender of m stored its share first.  Unless *)
(* m is a late arrival its ULID is above every cursor: it was minted, and  *)
(* its PUT applied, before anything larger was listed.                     *)
Arrive(m) ==
  /\ IF m \in Stored THEN m \in Retried
     ELSE m \in LateArrivals \/ \A d \in Devices : m > cursor[d]
  /\ m \in Texts => KeyOf[m] \in Stored
  /\ Deliver(m)
  /\ UNCHANGED deviceVars

ServerStep(h) ==
  /\ \/ ListMore(h)
     \/ ListDone(h)
     \/ GetLive(h)
     \/ ListArchives(h)
     \/ GetArchive(h)
     \/ PutArchive(h)
     \/ DeleteObjects(h)
  /\ UNCHANGED deviceVars

ServerAborts(h) ==
  /\ Abort(h)
  /\ Fault
  /\ UNCHANGED <<cursor, saved, known, ingested, tab>>

DeviceNext ==
  \/ \E m \in Messages : Arrive(m)
  \/ \E h \in Handlers : ServerStep(h) \/ ServerAborts(h)
  \/ Midnight /\ UNCHANGED deviceVars
  \/ \E t \in Tabs : StartSync(t) \/ SyncStep(t) \/ SyncListFails(t) \/ CloseTab(t)
  \/ \E d \in Devices : RestoreKeys(d)

DeviceSpec == DeviceInit /\ [][DeviceNext]_allVars

(* What runs goes on: a request the server took is served, a sync that     *)
(* started goes on, the app is opened again and again.  Nothing makes a    *)
(* sender send, a request fail or a tab close.                             *)
Fairness ==
  /\ \A h \in Handlers : WF_allVars(ServerStep(h))
  /\ \A t \in Tabs : WF_allVars(StartSync(t)) /\ WF_allVars(SyncStep(t))
  /\ \A d \in Devices : WF_allVars(RestoreKeys(d))

FairDeviceSpec == DeviceSpec /\ Fairness

-----------------------------------------------------------------------------
(* An archive marked ingested is never read again, so every message in it  *)
(* must be in IndexedDB (inbox-sync.ts: "Marking before this point ...     *)
(* would risk skipping an archive whose messages never landed").           *)
IngestedIsSaved ==
  \A d \in Devices : \A a \in archives :
    a.key \in ingested[d] => a.msgs \cap Texts \subseteq saved[d]

(* With nothing in progress, a message a device has not saved can still    *)
(* reach it: above its cursor in live/, or in an archive it will read.     *)
Quiet ==
  /\ \A t \in Tabs : tab[t].pc = "idle"
  /\ \A h \in Handlers : job[h].pc = "idle"

Reachable(d, m) ==
  \/ m \in live /\ m > cursor[d]
  \/ \E a \in archives : m \in a.msgs /\ a.key \notin ingested[d]

NothingStranded ==
  Quiet => \A d \in Devices : \A m \in (Stored \cap Texts) \ saved[d] :
             Reachable(d, m)

(* Invariant I2: "A send that reaches committed remote state ... must      *)
(* eventually be visible in the recipient's UI".                           *)
EventuallyVisible ==
  \A d \in Devices : \A m \in Texts : (m \in Stored) ~> (m \in saved[d])

(* What compaction has archived reaches every device (invariant I12:       *)
(* concurrent clients "converge to the same exactly-once message set").    *)
ArchivedIsVisible ==
  \A d \in Devices : \A m \in Texts :
    (m \in Content(archives)) ~> (m \in saved[d])

(* A message stranded below a cursor surfaces with the next traffic above  *)
(* it, whose compaction sweeps it into an archive.                         *)
SweptByTraffic ==
  \A d \in Devices : \A m \in Texts :
    (m \in live /\ \E n \in live : m < n /\ n > cursor[d])
      ~> (m \in saved[d])

-----------------------------------------------------------------------------
(* Why marking is safe: a key names one archive for good, what a sync has  *)
(* seen it has opened or found saved, and of an archive it may mark        *)
(* everything was seen.                                                    *)
KeysAreUnique ==
  /\ \A a, b \in archives : a.key = b.key => a = b
  /\ \A d \in Devices : \A k \in ingested[d] : k < nextKey

SyncHolds(t) ==
  LET held == saved[DeviceOf[t]] \cup tab[t].got IN
  /\ tab[t].seen \subseteq held
  /\ \A k \in tab[t].candidates : k < nextKey
  /\ \A a \in archives : a.key \in tab[t].candidates => a.msgs \cap Texts \subseteq held
  /\ tab[t].pc \in {"list", "relist", "getLive"} => tab[t].candidates = {}
  /\ tab[t].pc = "mark" => tab[t].got = {}
  /\ tab[t].pc = "compact" => tab[t].lastKey \in Messages

DeviceInv ==
  /\ DeviceTypeOK /\ CompactionInv
  /\ KeysAreUnique
  /\ \A t \in Tabs : SyncHolds(t)
  /\ IngestedIsSaved

(* Why nothing is stranded: what is live at or below a cursor is on its    *)
(* way to an archive, with the request of a tab or the work of a handler.  *)
Takes(h, m) ==
  \/ /\ job[h].pc = "list" /\ m <= job[h].upTo
     /\ m \in job[h].listed \/ m > job[h].cursor
  \/ job[h].pc \in {"getLive", "getArchives"} /\ m \in job[h].listed

OnItsWay(m) ==
  \/ \E t \in Tabs : tab[t].pc = "compact" /\ m <= tab[t].lastKey
  \/ \E h \in Handlers : Takes(h, m)

PassedIsTaken ==
  (LateArrivals = {} /\ faults = 0) =>
    \A d \in Devices : \A m \in live \ Content(archives) : m <= cursor[d] => OnItsWay(m)
=============================================================================
