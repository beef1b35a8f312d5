-------------------------- MODULE DeviceSyncProofs --------------------------
(***************************************************************************)
(* Proofs about DeviceSync, for any devices, tabs and messages, any key    *)
(* shares that a device cannot open, any number of concurrent compactions  *)
(* and any number of failures.                                             *)
(***************************************************************************)
EXTENDS DeviceSync, InboxStoreProofs

-----------------------------------------------------------------------------
(* The devices drive the store of InboxStore.                              *)

(* What a device does to the mailbox is a step of the mailbox's handlers.  *)
LEMMA StoreSteps ==
  ASSUME \A t \in Tabs : tab[t].pc = "compact" => tab[t].lastKey \in Messages,
         [DeviceNext]_allVars
  PROVE  [Next]_vars
<1>1. ASSUME NEW m \in Messages, Arrive(m) PROVE Next
  BY <1>1 DEF Arrive, Next
<1>2. ASSUME NEW h \in Handlers, ServerStep(h) \/ ServerAborts(h) PROVE Next
  BY <1>2 DEF ServerStep, ServerAborts, Next, Compaction
<1>3. ASSUME NEW t \in Tabs, SyncCompact(t) PROVE [Next]_vars
  BY <1>3 DEF SyncCompact, Next, Compaction, storeVars
<1>4. ASSUME NEW t \in Tabs,
             StartSync(t) \/ SyncListFails(t) \/ CloseTab(t) \/ SyncList(t) \/ SyncGetLive(t) \/ SyncOpenLive(t)
             \/ SyncListArchives(t) \/ SyncGetArchive(t) \/ SyncSaveCursor(t) \/ SyncSaveMessages(t) \/ SyncMark(t)
      PROVE  UNCHANGED vars
  BY <1>4 DEF StartSync, SyncListFails, CloseTab, SyncList, SyncGetLive, SyncOpenLive, SyncListArchives,
     SyncGetArchive, SyncSaveCursor, SyncSaveMessages, SyncMark, storeVars
<1>5. ASSUME NEW d \in Devices, RestoreKeys(d) PROVE UNCHANGED vars
  BY <1>5 DEF RestoreKeys, storeVars
<1>6. CASE Midnight
  BY <1>6 DEF Next
<1>7. CASE UNCHANGED allVars
  BY <1>7 DEF allVars, vars
<1>. QED  BY <1>1, <1>2, <1>3, <1>4, <1>5, <1>6, <1>7 DEF DeviceNext, SyncStep

(* The only archive that appears is new, and has the next key.             *)
LEMMA ArchivesStep ==
  ASSUME TypeOK, [Next]_vars
  PROVE  /\ nextKey \in Nat /\ nextKey' \in Nat /\ nextKey <= nextKey'
         /\ \A a \in archives' : a \in archives \/ (a.key = nextKey /\ nextKey < nextKey')
         /\ \A a, b \in archives' : a \notin archives /\ b \notin archives => a = b
<1>0. nextKey \in Nat
  BY DEF TypeOK
<1>1. ASSUME NEW h \in Handlers, PutArchive(h)
      PROVE  /\ nextKey' = nextKey + 1
             /\ archives' = archives \cup {NewArchive(h)} /\ NewArchive(h).key = nextKey
  BY <1>1 DEF PutArchive, NewArchive
<1>2. ASSUME NEW h \in Handlers, Compaction(h), ~PutArchive(h)
      PROVE  nextKey' = nextKey /\ archives' \subseteq archives
  BY <1>2 DEF Compaction, StartCompact, ListMore, ListDone, GetLive, ListArchives, GetArchive, DeleteObjects, Abort
<1>3. CASE (\E m \in Messages : Deliver(m)) \/ Midnight \/ UNCHANGED vars
  BY <1>0, <1>3 DEF Deliver, Midnight, vars
<1>. QED  BY <1>0, <1>1, <1>2, <1>3 DEF Next

-----------------------------------------------------------------------------
(* What a sync holds, while the store moves and while a tab moves.         *)

LEMMA DeviceInvInit == DeviceInit => DeviceInv
<1>. SUFFICES ASSUME DeviceInit PROVE DeviceInv
  OBVIOUS
<1>1. CompactionInv
  BY InvInit DEF DeviceInit
<1>2. IdleTab \in Tab
  BY DEF IdleTab, Tab, TabPhases
<1>3. DeviceTypeOK
  BY <1>1, <1>2, MaxFaultsAssumption DEF DeviceInit, DeviceTypeOK, CompactionInv
<1>4. archives = {} /\ \A t \in Tabs : tab[t] = IdleTab
  BY DEF DeviceInit, Init
<1>5. \A t \in Tabs : SyncHolds(t)
  BY <1>4 DEF SyncHolds, IdleTab
<1>6. KeysAreUnique /\ IngestedIsSaved
  BY <1>4 DEF KeysAreUnique, IngestedIsSaved, DeviceInit
<1>. QED  BY <1>1, <1>3, <1>5, <1>6 DEF DeviceInv

(* What the devices' tabs do may be seen as one tab that becomes r, and    *)
(* what the server does as no tab that moves: the store may move in any    *)
(* case.                                                                   *)
LEMMA DeviceKeeps ==
  ASSUME DeviceInv, [Next]_vars,
         cursor' \in [Devices -> Messages \cup {-1}], saved' \in [Devices -> SUBSET Texts],
         known' \in [Devices -> SUBSET Shares], ingested' \in [Devices -> SUBSET Nat],
         tab' \in [Tabs -> Tab], faults' \in 0..MaxFaults,
         \A d \in Devices : saved[d] \subseteq saved'[d],
         \A d \in Devices : \A k \in ingested'[d] \ ingested[d] :
           k < nextKey /\ \A a \in archives : a.key = k => a.msgs \cap Texts \subseteq saved'[d],
         \A t \in Tabs : tab'[t] = tab[t] \/
           LET held == saved'[DeviceOf[t]] \cup tab'[t].got IN
           /\ tab'[t].seen \subseteq held
           /\ \A k \in tab'[t].candidates : k < nextKey
           /\ \A a \in archives : a.key \in tab'[t].candidates => a.msgs \cap Texts \subseteq held
           /\ tab'[t].pc \in {"list", "relist", "getLive"} => tab'[t].candidates = {}
           /\ tab'[t].pc = "mark" => tab'[t].got = {}
           /\ tab'[t].pc = "compact" => tab'[t].lastKey \in Messages
  PROVE  DeviceInv'
<1>0. TypeOK /\ CompactionInv
  BY DEF DeviceInv, DeviceTypeOK
<1>1. TypeOK'
  BY <1>0, TypeStep
<1>2. CompactionInv'
  BY <1>0, <1>1, InvStep
<1>3. DeviceTypeOK'
  BY <1>1 DEF DeviceTypeOK
<1>4. /\ nextKey \in Nat /\ nextKey' \in Nat /\ nextKey <= nextKey'
      /\ \A a \in archives' : a \in archives \/ (a.key = nextKey /\ nextKey < nextKey')
      /\ \A a, b \in archives' : a \notin archives /\ b \notin archives => a = b
  BY <1>0, ArchivesStep
<1>5. \A a \in archives : a.key \in Nat /\ a.key < nextKey
  BY <1>0 DEF TypeOK, CompactionInv, KeysAreFresh, Archive
<1>6. \A d \in Devices : \A k \in ingested'[d] : k \in Nat /\ k < nextKey
  BY DEF DeviceInv, KeysAreUnique, DeviceTypeOK
<1>7. KeysAreUnique'
  <2>1. ASSUME NEW a \in archives', NEW b \in archives', a.key = b.key PROVE a = b
    BY <1>4, <1>5, <2>1 DEF DeviceInv, KeysAreUnique
  <2>2. ASSUME NEW d \in Devices, NEW k \in ingested'[d] PROVE k < nextKey'
    BY <1>4, <1>6
  <2>. QED  BY <2>1, <2>2 DEF KeysAreUnique
<1>8. ASSUME NEW t \in Tabs PROVE SyncHolds(t)'
  <2>. DEFINE held == saved'[DeviceOf[t]] \cup tab'[t].got
  <2>d. DeviceOf[t] \in Devices
    BY DevicesAssumption
  <2>1. /\ tab'[t].seen \subseteq held
        /\ \A k \in tab'[t].candidates : k < nextKey
        /\ \A a \in archives : a.key \in tab'[t].candidates => a.msgs \cap Texts \subseteq held
        /\ tab'[t].pc \in {"list", "relist", "getLive"} => tab'[t].candidates = {}
        /\ tab'[t].pc = "mark" => tab'[t].got = {}
        /\ tab'[t].pc = "compact" => tab'[t].lastKey \in Messages
    BY <2>d DEF DeviceInv, SyncHolds
  <2>2. \A k \in tab'[t].candidates : k \in Nat
    BY DEF Tab
  <2>3. \A k \in tab'[t].candidates : k < nextKey'
    BY <1>4, <2>1, <2>2
  <2>4. \A a \in archives' : a.key \in tab'[t].candidates => a \in archives
    BY <1>4, <2>1, <2>2
  <2>. QED  BY <2>1, <2>3, <2>4 DEF SyncHolds
<1>9. IngestedIsSaved'
  <2>. SUFFICES ASSUME NEW d \in Devices, NEW a \in archives', a.key \in ingested'[d]
                PROVE  a.msgs \cap Texts \subseteq saved'[d]
    BY DEF IngestedIsSaved
  <2>1. a \in archives
    BY <1>4, <1>6
  <2>2. CASE a.key \in ingested[d]
    BY <2>1, <2>2 DEF DeviceInv, IngestedIsSaved
  <2>3. CASE a.key \notin ingested[d]
    BY <2>1, <2>3
  <2>. QED  BY <2>2, <2>3
<1>. QED  BY <1>2, <1>3, <1>7, <1>8, <1>9 DEF DeviceInv

(* A tab that becomes r.                                                   *)
LEMMA TabBecomes ==
  ASSUME DeviceInv, NEW t \in Tabs, NEW r \in Tab, SetTab(t, r), [Next]_vars,
         cursor' \in [Devices -> Messages \cup {-1}], saved' \in [Devices -> SUBSET Texts],
         known' \in [Devices -> SUBSET Shares], faults' \in 0..MaxFaults,
         \A d \in Devices : saved[d] \subseteq saved'[d], UNCHANGED ingested,
         r.seen \subseteq saved'[DeviceOf[t]] \cup r.got,
         \A k \in r.candidates : k < nextKey,
         \A a \in archives : a.key \in r.candidates => a.msgs \cap Texts \subseteq saved'[DeviceOf[t]] \cup r.got,
         r.pc \in {"list", "relist", "getLive"} => r.candidates = {},
         r.pc = "mark" => r.got = {},
         r.pc = "compact" => r.lastKey \in Messages
  PROVE  DeviceInv'
<1>1. tab' \in [Tabs -> Tab] /\ tab'[t] = r /\ \A u \in Tabs : u # t => tab'[u] = tab[u]
  BY DEF SetTab, DeviceInv, DeviceTypeOK
<1>2. ingested' \in [Devices -> SUBSET Nat]
  BY DEF DeviceInv, DeviceTypeOK
<1>. QED  BY <1>1, <1>2, DeviceKeeps

(* What a tab that goes on without saving anything has to keep.            *)
LEMMA TabReads ==
  ASSUME DeviceInv, NEW t \in Tabs, NEW r \in Tab, SetTab(t, r), UNCHANGED vars,
         known' \in [Devices -> SUBSET Shares], faults' \in 0..MaxFaults,
         UNCHANGED <<cursor, saved, ingested>>,
         r.seen \subseteq tab[t].seen \cup r.got, tab[t].got \subseteq r.got,
         r.candidates \subseteq tab[t].candidates, r.pc \notin {"compact", "mark"},
         r.pc \in {"list", "relist", "getLive"} => tab[t].pc \in {"list", "relist", "getLive"}
  PROVE  DeviceInv'
<1>1. SyncHolds(t) /\ DeviceTypeOK
  BY DEF DeviceInv
<1>2. [Next]_vars
  OBVIOUS
<1>3. /\ cursor' \in [Devices -> Messages \cup {-1}] /\ saved' \in [Devices -> SUBSET Texts]
      /\ \A d \in Devices : saved[d] \subseteq saved'[d]
  BY <1>1 DEF DeviceTypeOK
<1>4. /\ r.seen \subseteq saved'[DeviceOf[t]] \cup r.got
      /\ \A k \in r.candidates : k < nextKey
      /\ \A a \in archives : a.key \in r.candidates => a.msgs \cap Texts \subseteq saved'[DeviceOf[t]] \cup r.got
      /\ r.pc \in {"list", "relist", "getLive"} => r.candidates = {}
  BY <1>1 DEF SyncHolds
<1>. QED  BY <1>2, <1>3, <1>4, TabBecomes

(* A tab that starts over or gives up holds nothing.                       *)
LEMMA TabRestarts ==
  ASSUME DeviceInv, NEW t \in Tabs, NEW pc \in {"idle", "list"}, SetTab(t, [IdleTab EXCEPT !.pc = pc]),
         [Next]_vars, UNCHANGED <<cursor, known, ingested>>, faults' \in 0..MaxFaults,
         saved' \in [Devices -> SUBSET Texts], \A d \in Devices : saved[d] \subseteq saved'[d]
  PROVE  DeviceInv'
<1>. DEFINE r == [IdleTab EXCEPT !.pc = pc]
<1>1. r \in Tab /\ r.seen = {} /\ r.candidates = {} /\ r.pc \notin {"compact", "mark"}
  BY DEF IdleTab, Tab, TabPhases
<1>2. SetTab(t, r)
  OBVIOUS
<1>3. cursor' \in [Devices -> Messages \cup {-1}] /\ known' \in [Devices -> SUBSET Shares]
  BY DEF DeviceInv, DeviceTypeOK
<1>. HIDE DEF r
<1>. QED  BY <1>1, <1>2, <1>3, TabBecomes

LEMMA FaultsAreCounted ==
  ASSUME DeviceInv, Fault \/ NoFault
  PROVE  faults' \in 0..MaxFaults
BY MaxFaultsAssumption DEF DeviceInv, DeviceTypeOK, Fault, NoFault

-----------------------------------------------------------------------------
(* The steps of a tab.                                                     *)

LEMMA StartKeeps ==
  ASSUME DeviceInv, NEW t \in Tabs, StartSync(t) \/ CloseTab(t)
  PROVE  DeviceInv'
<1>1. IdleTab = [IdleTab EXCEPT !.pc = "idle"]
  BY DEF IdleTab
<1>2. \E pc \in {"idle", "list"} : SetTab(t, [IdleTab EXCEPT !.pc = pc])
  BY <1>1 DEF StartSync, CloseTab
<1>3. UNCHANGED <<vars, cursor, saved, known, ingested>> /\ (Fault \/ NoFault)
  BY DEF StartSync, CloseTab, storeVars
<1>4. saved' \in [Devices -> SUBSET Texts] /\ \A d \in Devices : saved[d] \subseteq saved'[d]
  BY <1>3 DEF DeviceInv, DeviceTypeOK
<1>. QED  BY <1>2, <1>3, <1>4, FaultsAreCounted, TabRestarts

LEMMA ListKeeps ==
  ASSUME DeviceInv, NEW t \in Tabs, SyncList(t)
  PROVE  DeviceInv'
<1>1. PICK c : TakePage(t, LivePage(c))
  BY DEF SyncList
<1>2. PICK last \in IF LivePage(c) = {} THEN {-1} ELSE {k \in LivePage(c) : IsLast(k, LivePage(c))} :
        SetTab(t, [tab[t] EXCEPT !.pc = "getLive", !.todo = LivePage(c), !.lastKey = last])
  BY <1>1 DEF TakePage
<1>3. LivePage(c) \subseteq Messages
  BY DEF LivePage, After, DeviceInv, DeviceTypeOK, TypeOK
<1>4. last \in Messages \cup {-1}
  BY <1>2, <1>3
<1>. DEFINE r == [tab[t] EXCEPT !.pc = "getLive", !.todo = LivePage(c), !.lastKey = last]
<1>5. tab[t] \in Tab
  BY DEF DeviceInv, DeviceTypeOK
<1>6. /\ r \in Tab /\ r.seen = tab[t].seen /\ r.got = tab[t].got
      /\ r.candidates = tab[t].candidates /\ r.pc \notin {"compact", "mark"}
      /\ tab[t].pc \in {"list", "relist"}
  BY <1>3, <1>4, <1>5 DEF SyncList, Tab, TabPhases
<1>7. SetTab(t, r)
  BY <1>2
<1>. HIDE DEF r
<1>8. UNCHANGED <<vars, cursor, saved, known, ingested>> /\ NoFault /\ known \in [Devices -> SUBSET Shares]
  BY DEF SyncList, storeVars, DeviceInv, DeviceTypeOK
<1>. QED  BY <1>6, <1>7, <1>8, FaultsAreCounted, TabReads

LEMMA ListFailsKeeps ==
  ASSUME DeviceInv, NEW t \in Tabs, SyncListFails(t)
  PROVE  DeviceInv'
<1>1. UNCHANGED <<vars, cursor, saved, known, ingested>> /\ Fault /\ known \in [Devices -> SUBSET Shares]
  BY DEF SyncListFails, storeVars, DeviceInv, DeviceTypeOK
<1>. DEFINE r == [tab[t] EXCEPT !.pc = "relist"]
<1>2. CASE SetTab(t, r)
  <2>1. tab[t] \in Tab
    BY DEF DeviceInv, DeviceTypeOK
  <2>2. /\ r \in Tab /\ r.seen = tab[t].seen /\ r.got = tab[t].got
        /\ r.candidates = tab[t].candidates /\ r.pc \notin {"compact", "mark"}
        /\ tab[t].pc \in {"list", "relist"}
    BY <2>1 DEF SyncListFails, Tab, TabPhases
  <2>. HIDE DEF r
  <2>. QED  BY <1>1, <1>2, <2>2, FaultsAreCounted, TabReads
<1>3. CASE SetTab(t, IdleTab)
  <2>1. SetTab(t, [IdleTab EXCEPT !.pc = "idle"])
    BY <1>3 DEF IdleTab
  <2>2. saved' \in [Devices -> SUBSET Texts] /\ \A d \in Devices : saved[d] \subseteq saved'[d]
    BY <1>1 DEF DeviceInv, DeviceTypeOK
  <2>. QED  BY <1>1, <2>1, <2>2, FaultsAreCounted, TabRestarts
<1>. QED  BY <1>2, <1>3 DEF SyncListFails

LEMMA GetLiveKeeps ==
  ASSUME DeviceInv, NEW t \in Tabs, SyncGetLive(t)
  PROVE  DeviceInv'
<1>1. UNCHANGED <<vars, cursor, saved, known, ingested>> /\ (Fault \/ NoFault)
      /\ known \in [Devices -> SUBSET Shares]
  BY DEF SyncGetLive, storeVars, DeviceInv, DeviceTypeOK
<1>2. PICK k \in tab[t].todo :
        \/ SetTab(t, [tab[t] EXCEPT !.todo = tab[t].todo \ {k}, !.fetched = tab[t].fetched \cup ({k} \cap live)])
        \/ SetTab(t, [tab[t] EXCEPT !.todo = tab[t].todo \ {k}])
  BY DEF SyncGetLive
<1>3. tab[t] \in Tab /\ tab[t].pc = "getLive" /\ live \subseteq Messages
  BY DEF DeviceInv, DeviceTypeOK, TypeOK, SyncGetLive
<1>4. PICK r \in Tab : /\ SetTab(t, r) /\ r.seen = tab[t].seen /\ r.got = tab[t].got
                       /\ r.candidates = tab[t].candidates /\ r.pc \notin {"compact", "mark"}
  <2>. DEFINE r1 == [tab[t] EXCEPT !.todo = tab[t].todo \ {k}, !.fetched = tab[t].fetched \cup ({k} \cap live)]
              r2 == [tab[t] EXCEPT !.todo = tab[t].todo \ {k}]
  <2>1. /\ r1 \in Tab /\ r1.seen = tab[t].seen /\ r1.got = tab[t].got
        /\ r1.candidates = tab[t].candidates /\ r1.pc \notin {"compact", "mark"}
    BY <1>3 DEF Tab
  <2>2. /\ r2 \in Tab /\ r2.seen = tab[t].seen /\ r2.got = tab[t].got
        /\ r2.candidates = tab[t].candidates /\ r2.pc \notin {"compact", "mark"}
    BY <1>3 DEF Tab
  <2>3. SetTab(t, r1) \/ SetTab(t, r2)
    BY <1>2
  <2>. HIDE DEF r1, r2
  <2>. QED  BY <2>1, <2>2, <2>3
<1>. QED  BY <1>1, <1>3, <1>4, FaultsAreCounted, TabReads

(* What processEnvelopes learns and opens.                                 *)
LEMMA OpenedIsText ==
  ASSUME DeviceInv, NEW d \in Devices, NEW E
  PROVE  /\ known[d] \cup Learned(d, E) \subseteq Shares
         /\ [known EXCEPT ![d] = known[d] \cup Learned(d, E)] \in [Devices -> SUBSET Shares]
         /\ \A keys : Openable(E, keys) \subseteq E \cap Texts
<1>1. known \in [Devices -> SUBSET Shares]
  BY DEF DeviceInv, DeviceTypeOK
<1>2. known[d] \cup Learned(d, E) \subseteq Shares
  BY <1>1 DEF Learned
<1>. QED  BY <1>1, <1>2 DEF Openable

LEMMA OpenLiveKeeps ==
  ASSUME DeviceInv, NEW t \in Tabs, SyncOpenLive(t)
  PROVE  DeviceInv'
<1>. DEFINE d == DeviceOf[t]
            keys == known[d] \cup Learned(d, tab[t].fetched)
            got == Openable(tab[t].fetched, keys)
            r == [tab[t] EXCEPT !.pc = "listArchives", !.fetched = {}, !.got = got,
                                !.seen = saved[d] \cup got, !.skip = ingested[d]]
<1>0. d \in Devices
  BY DevicesAssumption
<1>1. /\ UNCHANGED <<vars, cursor, saved, ingested>> /\ NoFault
      /\ known' = [known EXCEPT ![d] = keys] /\ SetTab(t, r)
  BY DEF SyncOpenLive, storeVars
<1>2. got \subseteq Texts /\ known' \in [Devices -> SUBSET Shares]
  BY <1>0, <1>1, OpenedIsText
<1>. HIDE DEF keys, got
<1>3. /\ tab[t] \in Tab /\ saved[d] \subseteq Messages /\ ingested[d] \subseteq Nat /\ Texts \subseteq Messages
      /\ saved \in [Devices -> SUBSET Texts] /\ cursor \in [Devices -> Messages \cup {-1}]
  BY <1>0 DEF DeviceInv, DeviceTypeOK, Texts
<1>4. /\ r \in Tab /\ r.got = got /\ r.seen = saved[d] \cup got
      /\ r.candidates = tab[t].candidates /\ r.pc \notin {"compact", "mark"}
  BY <1>2, <1>3 DEF Tab, TabPhases
<1>. HIDE DEF r
<1>5. tab[t].candidates = {}
  BY DEF DeviceInv, SyncHolds, SyncOpenLive
<1>. QED  BY <1>0, <1>1, <1>2, <1>3, <1>4, <1>5, FaultsAreCounted, TabBecomes

LEMMA ListArchivesKeeps ==
  ASSUME DeviceInv, NEW t \in Tabs, SyncListArchives(t)
  PROVE  DeviceInv'
<1>1. UNCHANGED <<vars, cursor, saved, known, ingested>> /\ (Fault \/ NoFault)
      /\ known \in [Devices -> SUBSET Shares]
  BY DEF SyncListArchives, storeVars, DeviceInv, DeviceTypeOK
<1>2. tab[t] \in Tab /\ archives \subseteq Archive
  BY DEF DeviceInv, DeviceTypeOK, TypeOK
<1>3. PICK r \in Tab : /\ SetTab(t, r) /\ r.seen = tab[t].seen /\ r.got = tab[t].got
                       /\ r.candidates = tab[t].candidates /\ r.pc = "getArchives"
  <2>. DEFINE todo == {a \in archives : a.key \notin tab[t].skip}
              r1 == [tab[t] EXCEPT !.pc = "getArchives", !.todoArchives = todo]
              r2 == [tab[t] EXCEPT !.pc = "getArchives"]
  <2>1. /\ r1 \in Tab /\ r1.seen = tab[t].seen /\ r1.got = tab[t].got
        /\ r1.candidates = tab[t].candidates /\ r1.pc = "getArchives"
    BY <1>2 DEF Tab, TabPhases
  <2>2. /\ r2 \in Tab /\ r2.seen = tab[t].seen /\ r2.got = tab[t].got
        /\ r2.candidates = tab[t].candidates /\ r2.pc = "getArchives"
    BY <1>2 DEF Tab, TabPhases
  <2>3. SetTab(t, r1) \/ SetTab(t, r2)
    BY DEF SyncListArchives
  <2>. HIDE DEF r1, r2
  <2>. QED  BY <2>1, <2>2, <2>3
<1>. QED  BY <1>1, <1>3, FaultsAreCounted, TabReads

(* An archive becomes a candidate only when all of it was opened or seen.  *)
LEMMA GetArchiveKeeps ==
  ASSUME DeviceInv, NEW t \in Tabs, SyncGetArchive(t)
  PROVE  DeviceInv'
<1>. DEFINE d == DeviceOf[t]
<1>0. d \in Devices
  BY DevicesAssumption
<1>1. UNCHANGED <<vars, cursor, saved, ingested>> /\ tab[t].pc = "getArchives"
  BY DEF SyncGetArchive, storeVars
<1>2. /\ tab[t] \in Tab /\ archives \subseteq Archive /\ Texts \subseteq Messages
      /\ known \in [Devices -> SUBSET Shares]
      /\ saved \in [Devices -> SUBSET Texts] /\ cursor \in [Devices -> Messages \cup {-1}]
  BY DEF DeviceInv, DeviceTypeOK, TypeOK, Texts
<1>3. /\ tab[t].seen \subseteq saved[d] \cup tab[t].got
      /\ \A k \in tab[t].candidates : k < nextKey
      /\ \A b \in archives : b.key \in tab[t].candidates => b.msgs \cap Texts \subseteq saved[d] \cup tab[t].got
  BY DEF DeviceInv, SyncHolds
<1>4. ASSUME NEW a \in tab[t].todoArchives, a \in archives, NoFault,
             known' = [known EXCEPT ![d] = known[d] \cup Learned(d, a.msgs)],
             LET new == (a.msgs \cap Texts) \ tab[t].seen
                 opened == Openable(new, known[d] \cup Learned(d, a.msgs))
             IN  SetTab(t, [tab[t] EXCEPT !.todoArchives = tab[t].todoArchives \ {a},
                                          !.got = tab[t].got \cup opened,
                                          !.seen = tab[t].seen \cup opened,
                                          !.candidates = IF opened = new THEN tab[t].candidates \cup {a.key}
                                                         ELSE tab[t].candidates])
      PROVE  DeviceInv'
  <2>. DEFINE new == (a.msgs \cap Texts) \ tab[t].seen
              opened == Openable(new, known[d] \cup Learned(d, a.msgs))
              C == IF opened = new THEN tab[t].candidates \cup {a.key} ELSE tab[t].candidates
              r == [tab[t] EXCEPT !.todoArchives = tab[t].todoArchives \ {a},
                                  !.got = tab[t].got \cup opened,
                                  !.seen = tab[t].seen \cup opened, !.candidates = C]
  <2>1. opened \subseteq Texts /\ known' \in [Devices -> SUBSET Shares]
    <3>1. opened \subseteq Texts
      BY DEF Openable
    <3>2. Learned(d, a.msgs) \subseteq Shares
      BY DEF Learned
    <3>. QED  BY <1>0, <1>2, <1>4, <3>1, <3>2
  <2>2. SetTab(t, r)
    BY <1>4
  <2>3. a.key \in Nat /\ a.key < nextKey
    BY <1>2, <1>4 DEF Archive, DeviceInv, CompactionInv, KeysAreFresh
  <2>4. \A k \in C : k < nextKey
    BY <1>3, <2>3
  <2>5. \A b \in archives : b.key \in C => b.msgs \cap Texts \subseteq saved[d] \cup (tab[t].got \cup opened)
    <3>1. ASSUME NEW b \in archives, opened = new, b.key = a.key
          PROVE  b.msgs \cap Texts \subseteq saved[d] \cup (tab[t].got \cup opened)
      <4>1. b = a
        BY <1>4, <3>1 DEF DeviceInv, KeysAreUnique
      <4>. QED  BY <1>3, <3>1, <4>1
    <3>. QED  BY <1>3, <3>1
  <2>. HIDE DEF opened, C
  <2>6. /\ r \in Tab /\ r.got = tab[t].got \cup opened /\ r.seen = tab[t].seen \cup opened
        /\ r.candidates = C /\ r.pc = "getArchives"
    <3>1. C \subseteq Nat
      BY <1>2, <2>3 DEF C, Tab
    <3>. QED  BY <1>1, <1>2, <2>1, <3>1 DEF Tab
  <2>. HIDE DEF r
  <2>. QED  BY <1>0, <1>1, <1>2, <1>3, <1>4, <2>1, <2>2, <2>4, <2>5, <2>6, FaultsAreCounted, TabBecomes
<1>5. ASSUME NEW a \in tab[t].todoArchives, Fault \/ NoFault, UNCHANGED known,
             SetTab(t, [tab[t] EXCEPT !.todoArchives = tab[t].todoArchives \ {a}])
      PROVE  DeviceInv'
  <2>. DEFINE r == [tab[t] EXCEPT !.todoArchives = tab[t].todoArchives \ {a}]
  <2>1. SetTab(t, r)
    BY <1>5
  <2>2. /\ r \in Tab /\ r.seen = tab[t].seen /\ r.got = tab[t].got
        /\ r.candidates = tab[t].candidates /\ r.pc = "getArchives"
    BY <1>1, <1>2 DEF Tab
  <2>. HIDE DEF r
  <2>. QED  BY <1>1, <1>2, <1>5, <2>1, <2>2, FaultsAreCounted, TabReads
<1>. QED  BY <1>4, <1>5 DEF SyncGetArchive

LEMMA SaveCursorKeeps ==
  ASSUME DeviceInv, NEW t \in Tabs, SyncSaveCursor(t)
  PROVE  DeviceInv'
<1>. DEFINE pc == IF tab[t].lastKey = -1 THEN "save" ELSE "compact"
            r == [tab[t] EXCEPT !.pc = pc]
<1>0. DeviceOf[t] \in Devices
  BY DevicesAssumption
<1>1. /\ UNCHANGED <<vars, saved, known, ingested>> /\ NoFault
      /\ SetTab(t, r) /\ (pc = "compact" => tab[t].lastKey # -1)
      /\ cursor' = cursor \/ cursor' = [cursor EXCEPT ![DeviceOf[t]] = tab[t].lastKey]
  BY DEF SyncSaveCursor, storeVars
<1>2. /\ tab[t] \in Tab /\ known \in [Devices -> SUBSET Shares]
      /\ saved \in [Devices -> SUBSET Texts] /\ cursor \in [Devices -> Messages \cup {-1}]
  BY DEF DeviceInv, DeviceTypeOK
<1>3. cursor' \in [Devices -> Messages \cup {-1}]
  BY <1>0, <1>1, <1>2 DEF Tab
<1>4. /\ r \in Tab /\ r.seen = tab[t].seen /\ r.got = tab[t].got /\ r.candidates = tab[t].candidates
      /\ r.pc \in {"save", "compact"} /\ (r.pc = "compact" => r.lastKey \in Messages)
  BY <1>1, <1>2 DEF Tab, TabPhases
<1>. HIDE DEF pc, r
<1>5. SyncHolds(t)
  BY DEF DeviceInv
<1>. QED  BY <1>1, <1>2, <1>3, <1>4, <1>5, FaultsAreCounted, TabBecomes DEF SyncHolds

LEMMA CompactKeeps ==
  ASSUME DeviceInv, NEW t \in Tabs, SyncCompact(t)
  PROVE  DeviceInv'
<1>. DEFINE r == [tab[t] EXCEPT !.pc = "save"]
<1>1. UNCHANGED <<cursor, saved, known, ingested>> /\ (Fault \/ NoFault) /\ SetTab(t, r)
  BY DEF SyncCompact
<1>2. /\ tab[t] \in Tab /\ known \in [Devices -> SUBSET Shares]
      /\ saved \in [Devices -> SUBSET Texts] /\ cursor \in [Devices -> Messages \cup {-1}]
  BY DEF DeviceInv, DeviceTypeOK
<1>3. /\ r \in Tab /\ r.seen = tab[t].seen /\ r.got = tab[t].got /\ r.candidates = tab[t].candidates
      /\ r.pc = "save"
  BY <1>2 DEF Tab, TabPhases
<1>. HIDE DEF r
<1>4. [Next]_vars
  BY StoreSteps DEF DeviceInv, SyncHolds, DeviceNext, SyncStep
<1>5. SyncHolds(t)
  BY DEF DeviceInv
<1>. QED  BY <1>1, <1>2, <1>3, <1>4, <1>5, FaultsAreCounted, TabBecomes DEF SyncHolds

(* What was opened is saved before any archive is marked.                  *)
LEMMA SaveMessagesKeeps ==
  ASSUME DeviceInv, NEW t \in Tabs, SyncSaveMessages(t)
  PROVE  DeviceInv'
<1>0. DeviceOf[t] \in Devices
  BY DevicesAssumption
<1>1. UNCHANGED <<vars, cursor, known, ingested>> /\ (Fault \/ NoFault)
  BY DEF SyncSaveMessages, storeVars
<1>2. /\ tab[t] \in Tab /\ known \in [Devices -> SUBSET Shares]
      /\ saved \in [Devices -> SUBSET Texts] /\ cursor \in [Devices -> Messages \cup {-1}]
  BY DEF DeviceInv, DeviceTypeOK
<1>3. CASE SetTab(t, IdleTab)
  <2>1. SetTab(t, [IdleTab EXCEPT !.pc = "idle"])
    BY <1>3 DEF IdleTab
  <2>2. saved' \in [Devices -> SUBSET Texts] /\ \A d \in Devices : saved[d] \subseteq saved'[d]
    BY <1>0, <1>2 DEF SyncSaveMessages, Tab
  <2>. QED  BY <1>1, <2>1, <2>2, FaultsAreCounted, TabRestarts
<1>4. CASE /\ saved' = [saved EXCEPT ![DeviceOf[t]] = @ \cup tab[t].got]
           /\ SetTab(t, [IdleTab EXCEPT !.pc = "mark", !.candidates = tab[t].candidates])
  <2>. DEFINE r == [IdleTab EXCEPT !.pc = "mark", !.candidates = tab[t].candidates]
  <2>1. SetTab(t, r)
    BY <1>4
  <2>2. r \in Tab /\ r.seen = {} /\ r.got = {} /\ r.candidates = tab[t].candidates /\ r.pc = "mark"
    BY <1>2 DEF IdleTab, Tab, TabPhases
  <2>. HIDE DEF r
  <2>3. /\ saved' \in [Devices -> SUBSET Texts] /\ saved'[DeviceOf[t]] = saved[DeviceOf[t]] \cup tab[t].got
        /\ \A d \in Devices : saved[d] \subseteq saved'[d]
    BY <1>0, <1>2, <1>4 DEF Tab
  <2>4. /\ \A k \in tab[t].candidates : k < nextKey
        /\ \A a \in archives : a.key \in tab[t].candidates =>
             a.msgs \cap Texts \subseteq saved[DeviceOf[t]] \cup tab[t].got
    BY DEF DeviceInv, SyncHolds
  <2>5. \A a \in archives : a.key \in r.candidates => a.msgs \cap Texts \subseteq saved'[DeviceOf[t]] \cup r.got
    BY <2>2, <2>3, <2>4
  <2>. QED  BY <1>1, <1>2, <2>1, <2>2, <2>3, <2>4, <2>5, FaultsAreCounted, TabBecomes
<1>. QED  BY <1>3, <1>4 DEF SyncSaveMessages

(* An archive is marked once everything in it is saved.                    *)
LEMMA MarkKeeps ==
  ASSUME DeviceInv, NEW t \in Tabs, SyncMark(t)
  PROVE  DeviceInv'
<1>. DEFINE d == DeviceOf[t]
<1>0. d \in Devices
  BY DevicesAssumption
<1>1. UNCHANGED <<vars, cursor, saved, known>> /\ tab[t].pc = "mark" /\ (Fault \/ NoFault)
  BY DEF SyncMark, storeVars
<1>2. /\ tab[t] \in Tab /\ tab \in [Tabs -> Tab] /\ known \in [Devices -> SUBSET Shares]
      /\ saved \in [Devices -> SUBSET Texts] /\ cursor \in [Devices -> Messages \cup {-1}]
      /\ ingested \in [Devices -> SUBSET Nat]
  BY DEF DeviceInv, DeviceTypeOK
<1>3. PICK k \in tab[t].candidates :
        /\ SetTab(t, IdleTab) \/ SetTab(t, [tab[t] EXCEPT !.candidates = tab[t].candidates \ {k}])
        /\ ingested' = [ingested EXCEPT ![d] = @ \cup {k}] \/ UNCHANGED ingested
  BY DEF SyncMark
<1>4. PICK r \in Tab : /\ SetTab(t, r) /\ r.seen \subseteq tab[t].seen \cup r.got /\ r.candidates \subseteq tab[t].candidates
                       /\ r.pc \in {"idle", "mark"} /\ (r.pc = "mark" => r.got = {})
                       /\ (r.pc = "idle" => r.candidates = {})
  <2>. DEFINE r2 == [tab[t] EXCEPT !.candidates = tab[t].candidates \ {k}]
  <2>1. IdleTab \in Tab /\ IdleTab.seen = {} /\ IdleTab.candidates = {} /\ IdleTab.pc = "idle"
    BY DEF IdleTab, Tab, TabPhases
  <2>2. /\ r2 \in Tab /\ r2.seen = tab[t].seen /\ r2.got = tab[t].got
        /\ r2.candidates \subseteq tab[t].candidates /\ r2.pc = "mark"
    BY <1>1, <1>2 DEF Tab
  <2>3. SetTab(t, IdleTab) \/ SetTab(t, r2)
    BY <1>3
  <2>4. tab[t].got = {}
    BY <1>1 DEF DeviceInv, SyncHolds
  <2>. HIDE DEF r2
  <2>. QED  BY <2>1, <2>2, <2>3, <2>4
<1>5. /\ tab[t].seen \subseteq saved[d] /\ tab[t].got = {}
      /\ \A j \in tab[t].candidates : j < nextKey
      /\ \A a \in archives : a.key \in tab[t].candidates => a.msgs \cap Texts \subseteq saved[d]
  BY <1>1 DEF DeviceInv, SyncHolds
<1>6. ingested' \in [Devices -> SUBSET Nat] /\ \A e \in Devices : \A j \in ingested'[e] \ ingested[e] : e = d /\ j = k
  <2>1. k \in Nat
    BY <1>2 DEF Tab
  <2>. QED  BY <1>0, <1>2, <1>3, <2>1
<1>7. /\ tab' \in [Tabs -> Tab] /\ tab'[t] = r
      /\ \A u \in Tabs : u # t => tab'[u] = tab[u]
  BY <1>2, <1>4 DEF SetTab
<1>8. /\ r.seen \subseteq saved'[d] \cup r.got
      /\ \A j \in r.candidates : j < nextKey
      /\ \A a \in archives : a.key \in r.candidates => a.msgs \cap Texts \subseteq saved'[d] \cup r.got
      /\ (r.pc = "mark" => r.got = {}) /\ r.pc \notin {"compact", "list", "relist", "getLive"}
  BY <1>1, <1>4, <1>5
<1>9. faults' \in 0..MaxFaults /\ [Next]_vars
  BY <1>1, FaultsAreCounted
<1>. QED  BY <1>0, <1>1, <1>2, <1>5, <1>6, <1>7, <1>8, <1>9, DeviceKeeps

-----------------------------------------------------------------------------
(* The other steps.                                                        *)

(* The senders, the server and the night leave the devices alone.          *)
LEMMA ServerKeeps ==
  ASSUME DeviceInv, [Next]_vars, UNCHANGED <<cursor, saved, known, ingested, tab>>, faults' \in 0..MaxFaults
  PROVE  DeviceInv'
BY DeviceKeeps DEF DeviceInv, DeviceTypeOK

LEMMA RestoreKeeps ==
  ASSUME DeviceInv, NEW d \in Devices, RestoreKeys(d)
  PROVE  DeviceInv'
<1>1. UNCHANGED <<vars, cursor, saved, ingested, tab>> /\ NoFault
      /\ known' = [known EXCEPT ![d] = @ \cup BackedUp]
  BY DEF RestoreKeys, storeVars
<1>2. known' \in [Devices -> SUBSET Shares]
  BY <1>1 DEF BackedUp, DeviceInv, DeviceTypeOK
<1>. QED  BY <1>1, <1>2, FaultsAreCounted, DeviceKeeps DEF DeviceInv, DeviceTypeOK

LEMMA DeviceStep == ASSUME DeviceInv, [DeviceNext]_allVars PROVE DeviceInv'
<1>0. faults \in 0..MaxFaults /\ [Next]_vars
  BY StoreSteps DEF DeviceInv, DeviceTypeOK, SyncHolds
<1>1. ASSUME NEW m \in Messages, Arrive(m) PROVE DeviceInv'
  BY <1>0, <1>1, ServerKeeps DEF Arrive, deviceVars
<1>2. ASSUME NEW h \in Handlers, ServerStep(h) \/ ServerAborts(h) PROVE DeviceInv'
  BY <1>0, <1>2, ServerKeeps, FaultsAreCounted DEF ServerStep, ServerAborts, deviceVars
<1>3. CASE Midnight /\ UNCHANGED deviceVars
  BY <1>0, <1>3, ServerKeeps DEF deviceVars
<1>4. CASE UNCHANGED allVars
  BY <1>0, <1>4, ServerKeeps DEF allVars, vars
<1>5. ASSUME NEW t \in Tabs, StartSync(t) \/ SyncStep(t) \/ SyncListFails(t) \/ CloseTab(t) PROVE DeviceInv'
  BY <1>5, StartKeeps, ListKeeps, ListFailsKeeps, GetLiveKeeps, OpenLiveKeeps, ListArchivesKeeps,
     GetArchiveKeeps, SaveCursorKeeps, CompactKeeps, SaveMessagesKeeps, MarkKeeps DEF SyncStep
<1>6. ASSUME NEW d \in Devices, RestoreKeys(d) PROVE DeviceInv'
  BY <1>6, RestoreKeeps
<1>. QED  BY <1>1, <1>2, <1>3, <1>4, <1>5, <1>6 DEF DeviceNext

-----------------------------------------------------------------------------
(* What the devices can rely on.                                           *)

(* The devices and their tabs keep what syncing relies on, whatever fails. *)
THEOREM DeviceInvariant == DeviceSpec => []DeviceInv
BY DeviceInvInit, DeviceStep, PTL DEF DeviceSpec

(* IndexedDB and the locals of a sync keep their types.                    *)
THEOREM DeviceTypeCorrect == DeviceSpec => []DeviceTypeOK
<1>1. DeviceInv => DeviceTypeOK
  BY DEF DeviceInv
<1>. QED  BY <1>1, DeviceInvariant, PTL

(* An archive that is never read again holds nothing that is not saved,    *)
(* whatever syncs of however many tabs overlap and wherever they fail.     *)
THEOREM MarkingIsSafe == DeviceSpec => []IngestedIsSaved
<1>1. DeviceInv => IngestedIsSaved
  BY DEF DeviceInv
<1>. QED  BY <1>1, DeviceInvariant, PTL

(* The devices and the server together implement the mailbox: what a       *)
(* sender stored stays readable under the syncs and the compactions that   *)
(* the tabs ask for.                                                       *)
THEOREM DevicesKeepTheMailbox == DeviceSpec => ImplementsMailbox
<1>1. DeviceInit => Init
  BY DEF DeviceInit
<1>2. DeviceInv /\ [DeviceNext]_allVars => [Next]_vars
  BY StoreSteps DEF DeviceInv, SyncHolds
<1>3. DeviceSpec => Spec
  BY <1>1, <1>2, DeviceInvariant, PTL DEF DeviceSpec, Spec
<1>. QED  BY <1>3, Refinement, PTL

-----------------------------------------------------------------------------
(* Nothing is stranded below a cursor.                                     *)

(* What an archive holds stays in the archives.                            *)
LEMMA ContentStep ==
  ASSUME CompactionInv, [Next]_vars
  PROVE  Content(archives) \subseteq Content(archives')
<1>1. CASE archives \subseteq archives'
  BY <1>1, ContentMonotone
<1>2. ASSUME NEW h \in Handlers, DeleteObjects(h) PROVE Content(archives) \subseteq Content(archives')
  <2>1. PICK L \in SUBSET job[h].todo, A \in SUBSET job[h].todoArchives :
          live' = live \ L /\ archives' = archives \ A
    BY <1>2 DEF DeleteObjects
  <2>2. job[h].pc = "delete"
    BY <1>2 DEF DeleteObjects
  <2>. QED  BY <2>1, <2>2, DeleteKeepsContent
<1>3. ASSUME NEW h \in Handlers, Compaction(h), ~DeleteObjects(h) PROVE archives \subseteq archives'
  BY <1>3 DEF Compaction, StartCompact, ListMore, ListDone, GetLive, ListArchives, GetArchive, PutArchive, Abort
<1>. QED  BY <1>1, <1>2, <1>3 DEF Next, Deliver, Midnight, vars

(* A handler does not let go of what it is to take before it is archived.  *)
LEMMA HandlerTakes ==
  ASSUME CompactionInv, NEW h \in Handlers, ServerStep(h), NEW m \in live,
         m \notin Content(archives'), Takes(h, m)
  PROVE  Takes(h, m)'
<1>. DEFINE j == job[h]
<1>t. /\ job \in [Handlers -> Job] /\ j \in Job /\ TypeOK
      /\ m \in Nat /\ live \subseteq Messages
  BY MessagesAssumption DEF CompactionInv, TypeOK
<1>r. ASSUME NEW r, SetJob(h, r) PROVE job'[h] = r
  BY <1>t, <1>r DEF SetJob
<1>1. CASE ListMore(h)
  <2>1. PICK k \in Page(j.cursor) :
          /\ IsLast(k, Page(j.cursor)) /\ k <= j.upTo
          /\ SetJob(h, [j EXCEPT !.listed = j.listed \cup WithinBoundary(h), !.cursor = k])
    BY <1>1 DEF ListMore
  <2>2. /\ job'[h].pc = "list" /\ job'[h].upTo = j.upTo /\ job'[h].cursor = k
        /\ job'[h].listed = j.listed \cup WithinBoundary(h)
    BY <1>t, <1>r, <1>1, <2>1 DEF ListMore, Job
  <2>3. m <= j.upTo /\ (m \in j.listed \/ m > j.cursor)
    BY <1>1 DEF Takes, ListMore
  <2>4. CASE m \in j.listed
    BY <2>2, <2>3, <2>4 DEF Takes
  <2>5. CASE m > j.cursor /\ m <= k
    <3>1. m \in Page(j.cursor)
      BY <1>t, <2>5, PageReaches DEF After
    <3>2. m \in WithinBoundary(h)
      BY <2>3, <3>1 DEF WithinBoundary
    <3>. QED  BY <2>2, <2>3, <3>2 DEF Takes
  <2>6. CASE ~(m <= k)
    <3>1. k \in Nat
      BY <1>t, MessagesAssumption DEF Page, After
    <3>2. m > k
      BY <1>t, <2>6, <3>1
    <3>. QED  BY <2>2, <2>3, <3>2 DEF Takes
  <2>. QED  BY <2>3, <2>4, <2>5, <2>6
<1>2. CASE ListDone(h)
  <2>. DEFINE all == j.listed \cup WithinBoundary(h)
  <2>1. m <= j.upTo /\ (m \in j.listed \/ j.cursor < m)
    BY <1>t, <1>2 DEF Takes, ListDone, Job
  <2>2. m \in all
    BY <1>t, <1>2, <2>1, LastPageReaches
  <2>3. SetJob(h, [j EXCEPT !.pc = "getLive", !.listed = all, !.todo = all, !.upTo = 0, !.cursor = -1])
    BY <1>2, <2>2 DEF ListDone
  <2>. HIDE DEF all
  <2>4. job'[h].pc = "getLive" /\ job'[h].listed = all
    BY <1>t, <1>r, <2>3 DEF Job
  <2>. QED  BY <2>2, <2>4 DEF Takes
<1>3. CASE GetLive(h) \/ ListArchives(h) \/ GetArchive(h)
  <2>1. j.pc \in {"getLive", "getArchives"} /\ m \in j.listed
    BY <1>3 DEF Takes, GetLive, ListArchives, GetArchive
  <2>2. CASE GetLive(h)
    BY <1>t, <1>r, <2>1, <2>2 DEF GetLive, Takes, Job
  <2>3. CASE ListArchives(h)
    BY <1>t, <1>r, <2>1, <2>3 DEF ListArchives, Takes, Job
  <2>4. CASE GetArchive(h)
    BY <1>t, <1>r, <2>1, <2>4 DEF GetArchive, Takes, Job
  <2>. QED  BY <1>3, <2>2, <2>3, <2>4
<1>4. CASE PutArchive(h)
  <2>1. j.pc = "getArchives" /\ archives' = archives \cup {NewArchive(h)} /\ NewArchive(h).msgs = j.merged
    BY <1>4 DEF PutArchive, NewArchive
  <2>2. m \in j.merged \cup Content(archives)
    BY <2>1 DEF Takes, CompactionInv, HandlerInv, ReadLiveIsKept
  <2>. QED  BY <2>1, <2>2, ContentAdd
<1>5. CASE DeleteObjects(h)
  BY <1>5 DEF DeleteObjects, Takes
<1>. QED  BY <1>1, <1>2, <1>3, <1>4, <1>5 DEF ServerStep

(* The request of a tab that asks for a compaction becomes a handler's work. *)
LEMMA RequestTakes ==
  ASSUME CompactionInv, NEW h \in Handlers, NEW u \in Messages, StartCompact(h, u), NEW m \in Messages, m <= u
  PROVE  Takes(h, m)'
<1>1. job' = [job EXCEPT ![h] = [IdleJob EXCEPT !.pc = "list", !.upTo = u]]
  BY DEF StartCompact, SetJob
<1>2. job'[h] = [IdleJob EXCEPT !.pc = "list", !.upTo = u]
  BY <1>1 DEF CompactionInv, TypeOK
<1>3. job'[h].pc = "list" /\ job'[h].upTo = u /\ job'[h].cursor = -1
  BY <1>2 DEF IdleJob
<1>. QED  BY <1>3, MessagesAssumption DEF Takes

LEMMA PassedStep ==
  ASSUME DeviceInv, PassedIsTaken, [DeviceNext]_allVars
  PROVE  PassedIsTaken'
<1>. SUFFICES ASSUME LateArrivals = {}, faults' = 0, NEW d \in Devices,
                     NEW m \in live' \ Content(archives'), m <= cursor'[d]
              PROVE  OnItsWay(m)'
  BY DEF PassedIsTaken
<1>t. /\ CompactionInv /\ TypeOK /\ [Next]_vars /\ job \in [Handlers -> Job]
      /\ tab \in [Tabs -> Tab] /\ cursor \in [Devices -> Messages \cup {-1}] /\ faults \in Nat
  BY StoreSteps, MaxFaultsAssumption DEF DeviceInv, DeviceTypeOK, SyncHolds, TypeOK
<1>f. ~Fault
  BY <1>t DEF Fault
<1>0. faults = 0
  BY <1>t, <1>f DEF DeviceNext, Arrive, deviceVars, ServerStep, ServerAborts, StartSync, SyncStep, SyncListFails,
     CloseTab, SyncList, SyncGetLive, SyncOpenLive, SyncListArchives, SyncGetArchive, SyncSaveCursor, SyncCompact,
     SyncSaveMessages, SyncMark, RestoreKeys, NoFault, allVars
<1>c. m \notin Content(archives)
  BY <1>t, ContentStep
<1>w. m \in live /\ m <= cursor[d] => OnItsWay(m)
  BY <1>0, <1>c DEF PassedIsTaken
<1>1. CASE UNCHANGED <<live, job, cursor, tab>>
  BY <1>1, <1>w DEF OnItsWay, Takes
<1>2. ASSUME NEW n \in Messages, Arrive(n) PROVE OnItsWay(m)'
  <2>1. live' = live \cup {n} /\ UNCHANGED <<job, cursor, tab>>
    BY <1>2 DEF Arrive, Deliver, deviceVars
  <2>2. CASE m \in live
    BY <1>w, <2>1, <2>2 DEF OnItsWay, Takes
  <2>3. CASE m \notin live
    <3>1. m = n /\ n \notin Stored
      BY <1>c, <2>1, <2>3 DEF Stored
    <3>2. m > cursor[d]
      BY <1>2, <3>1 DEF Arrive
    <3>3. m \in Nat /\ cursor[d] \in Int
      <4>1. cursor[d] \in Messages \cup {-1}
        BY <1>t
      <4>2. m \in Messages
        BY <3>1, <1>2
      <4>3. \A x \in Messages : x \in Nat /\ x \in Int
        BY MessagesAssumption
      <4>4. cursor[d] \in Messages \/ cursor[d] = -1
        BY <4>1
      <4>5. -1 \in Int
        OBVIOUS
      <4>. QED  BY <4>2, <4>3, <4>4, <4>5
    <3>. QED  BY <2>1, <3>2, <3>3
  <2>. QED  BY <2>2, <2>3
<1>3. ASSUME NEW h \in Handlers, ServerStep(h) PROVE OnItsWay(m)'
  <2>1. m \in live /\ UNCHANGED <<cursor, tab>>
    BY <1>3 DEF ServerStep, ListMore, ListDone, GetLive, ListArchives, GetArchive, PutArchive, DeleteObjects, deviceVars
  <2>2. \A g \in Handlers : g # h => job'[g] = job[g]
    BY <1>t, <1>3 DEF ServerStep, ListMore, ListDone, GetLive, ListArchives, GetArchive, PutArchive, DeleteObjects, SetJob
  <2>3. ASSUME NEW g \in Handlers, Takes(g, m) PROVE Takes(g, m)'
    <3>1. CASE g = h
      BY <1>t, <1>3, <2>1, <2>3, <3>1, HandlerTakes
    <3>2. CASE g # h
      BY <2>2, <2>3, <3>2 DEF Takes
    <3>. QED  BY <3>1, <3>2
  <2>. QED  BY <1>w, <2>1, <2>3 DEF OnItsWay
<1>4. ASSUME NEW t \in Tabs, SyncCompact(t) PROVE OnItsWay(m)'
  <2>1. PICK h \in Handlers : StartCompact(h, tab[t].lastKey)
    BY <1>4, <1>f DEF SyncCompact
  <2>2. /\ m \in live /\ UNCHANGED cursor /\ job[h].pc = "idle" /\ tab[t].lastKey \in Messages /\ m \in Messages
        /\ \A g \in Handlers : g # h => job'[g] = job[g]
        /\ \A u \in Tabs : u # t => tab'[u] = tab[u]
    BY <1>t, <1>4, <2>1 DEF SyncCompact, StartCompact, SetJob, SetTab, DeviceInv, SyncHolds, TypeOK
  <2>3. CASE m <= tab[t].lastKey
    BY <1>t, <2>1, <2>2, <2>3, RequestTakes DEF OnItsWay
  <2>4. ASSUME NEW u \in Tabs, u # t, tab[u].pc = "compact", m <= tab[u].lastKey PROVE OnItsWay(m)'
    BY <2>2, <2>4 DEF OnItsWay
  <2>5. ASSUME NEW g \in Handlers, Takes(g, m) PROVE OnItsWay(m)'
    <3>1. g # h
      BY <2>2, <2>5 DEF Takes
    <3>. QED  BY <2>2, <2>5, <3>1 DEF OnItsWay, Takes
  <2>. QED  BY <1>w, <2>2, <2>3, <2>4, <2>5 DEF OnItsWay
<1>5. ASSUME NEW t \in Tabs, SyncSaveCursor(t) PROVE OnItsWay(m)'
  <2>1. /\ UNCHANGED <<live, job>> /\ tab[t].pc = "getArchives"
        /\ \A u \in Tabs : u # t => tab'[u] = tab[u]
    BY <1>t, <1>5 DEF SyncSaveCursor, storeVars, vars, SetTab
  <2>2. CASE cursor'[d] = cursor[d]
    BY <1>w, <2>1, <2>2 DEF OnItsWay, Takes
  <2>3. CASE cursor'[d] # cursor[d]
    <3>1. /\ tab[t].lastKey # -1 /\ cursor' = [cursor EXCEPT ![DeviceOf[t]] = tab[t].lastKey]
          /\ SetTab(t, [tab[t] EXCEPT !.pc = "compact"])
      BY <1>5, <2>3 DEF SyncSaveCursor
    <3>2. cursor'[d] = tab[t].lastKey
      BY <1>t, <2>3, <3>1
    <3>3. tab'[t].pc = "compact" /\ tab'[t].lastKey = tab[t].lastKey
      BY <1>t, <3>1 DEF SetTab, Tab
    <3>. QED  BY <3>2, <3>3 DEF OnItsWay
  <2>. QED  BY <2>2, <2>3
<1>6. ASSUME NEW t \in Tabs,
             \/ StartSync(t) \/ SyncList(t) \/ SyncGetLive(t) \/ SyncOpenLive(t) \/ SyncListArchives(t)
             \/ SyncGetArchive(t) \/ SyncSaveMessages(t) \/ SyncMark(t)
      PROVE OnItsWay(m)'
  <2>1. /\ UNCHANGED <<live, job, cursor>> /\ tab[t].pc # "compact"
        /\ \A u \in Tabs : u # t => tab'[u] = tab[u]
    BY <1>t, <1>6 DEF StartSync, SyncList, TakePage, SyncGetLive, SyncOpenLive, SyncListArchives, SyncGetArchive,
       SyncSaveMessages, SyncMark, storeVars, vars, SetTab
  <2>. QED  BY <1>w, <2>1 DEF OnItsWay, Takes
<1>7. ASSUME NEW x, SyncListFails(x) \/ CloseTab(x) \/ ServerAborts(x) PROVE FALSE
  BY <1>f, <1>7 DEF SyncListFails, CloseTab, ServerAborts
<1>8. CASE (\E e \in Devices : RestoreKeys(e)) \/ (Midnight /\ UNCHANGED deviceVars) \/ UNCHANGED allVars
  BY <1>1, <1>8 DEF RestoreKeys, Midnight, deviceVars, storeVars, vars, allVars
<1>. QED  BY <1>2, <1>3, <1>4, <1>5, <1>6, <1>7, <1>8 DEF DeviceNext, SyncStep

(* Until something fails, and unless an id arrives after a larger one was  *)
(* listed: at rest, a message a device has not saved is above its cursor   *)
(* or in an archive it will read, whatever key shares it could not open,   *)
(* and however many tabs, devices and compactions there were.              *)
THEOREM NothingIsStranded ==
  ASSUME LateArrivals = {}
  PROVE  DeviceSpec => [](faults = 0 => NothingStranded)
<1>1. DeviceInit => PassedIsTaken
  <2>. SUFFICES ASSUME DeviceInit PROVE PassedIsTaken
    OBVIOUS
  <2>1. live = {}
    BY DEF DeviceInit, Init
  <2>. QED  BY <2>1 DEF PassedIsTaken
<1>2. DeviceInv /\ PassedIsTaken /\ [DeviceNext]_allVars => PassedIsTaken'
  BY PassedStep
<1>3. ASSUME DeviceInv, PassedIsTaken, faults = 0, Quiet, NEW d \in Devices,
             NEW m \in (Stored \cap Texts) \ saved[d]
      PROVE  Reachable(d, m)
  <2>1. CASE m \in Content(archives)
    <3>1. PICK a \in archives : m \in a.msgs
      BY <2>1, ContentMember
    <3>2. a.key \notin ingested[d]
      BY <1>3, <3>1 DEF DeviceInv, IngestedIsSaved
    <3>. QED  BY <3>1, <3>2 DEF Reachable
  <2>2. CASE m \notin Content(archives)
    <3>1. m \in live
      BY <2>2 DEF Stored
    <3>2. ~OnItsWay(m)
      BY <1>3 DEF Quiet, OnItsWay, Takes
    <3>3. ~(m <= cursor[d])
      BY <1>3, <2>2, <3>1, <3>2 DEF PassedIsTaken
    <3>4. m \in Nat /\ cursor[d] \in Int
      <4>1. cursor[d] \in Messages \cup {-1} /\ live \subseteq Messages
        BY <1>3 DEF DeviceInv, DeviceTypeOK, TypeOK
      <4>2. m \in Messages
        BY <3>1, <4>1
      <4>3. \A x \in Messages : x \in Nat /\ x \in Int
        BY MessagesAssumption
      <4>4. cursor[d] \in Messages \/ cursor[d] = -1
        BY <4>1
      <4>5. -1 \in Int
        OBVIOUS
      <4>. QED  BY <4>2, <4>3, <4>4, <4>5
    <3>. QED  BY <3>1, <3>3, <3>4 DEF Reachable
  <2>. QED  BY <2>1, <2>2
<1>4. DeviceInv /\ PassedIsTaken => (faults = 0 => NothingStranded)
  BY <1>3 DEF NothingStranded
<1>. QED  BY <1>1, <1>2, <1>4, DeviceInvariant, PTL DEF DeviceSpec
=============================================================================
