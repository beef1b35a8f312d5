-------------------------- MODULE InboxStoreProofs --------------------------
(***************************************************************************)
(* Proofs about InboxStore, for any set of message ids, any number of      *)
(* concurrent compactions, any page size and any bounds.                   *)
(***************************************************************************)
EXTENDS InboxStore, FiniteSetTheorems, TLAPS

-----------------------------------------------------------------------------
(* What `Content` does on the sets of archives the steps build.            *)

(* An id is in the content of a set of archives exactly when one of them   *)
(* holds it (compaction reads archives one by one).                        *)
LEMMA ContentMember ==
  ASSUME NEW A, NEW m
  PROVE  m \in Content(A) <=> \E a \in A : m \in a.msgs
BY DEF Content

(* More archives hold more.                                                *)
LEMMA ContentMonotone ==
  ASSUME NEW A, NEW B, A \subseteq B
  PROVE  Content(A) \subseteq Content(B)
BY DEF Content

(* Writing one archive adds what it holds (PutArchive).                    *)
LEMMA ContentAdd ==
  ASSUME NEW A, NEW a
  PROVE  Content(A \cup {a}) = Content(A) \cup a.msgs
BY DEF Content

(* The content of typed archives is a set of message ids.                  *)
LEMMA ContentType ==
  ASSUME NEW A \in SUBSET Archive
  PROVE  Content(A) \subseteq Messages
BY DEF Content, Archive

-----------------------------------------------------------------------------
(* The type invariant: no handler step leaves the types of the store and   *)
(* of the handler's locals.                                                *)

LEMMA IdleJobType == IdleJob \in Job
BY DEF IdleJob, Job, Phases

(* Writing a typed job into the table keeps the table typed.               *)
LEMMA SetJobType ==
  ASSUME job \in [Handlers -> Job], NEW h \in Handlers, NEW r \in Job,
         SetJob(h, r)
  PROVE  job' \in [Handlers -> Job]
BY DEF SetJob

(* Each step of a compaction handler keeps the store and the table typed.  *)
LEMMA CompactionType ==
  ASSUME TypeOK, NEW h \in Handlers, Compaction(h)
  PROVE  TypeOK'
<1>. USE MessagesAssumption
<1>. DEFINE j == job[h]
<1>0. j \in Job /\ job \in [Handlers -> Job]
  BY DEF TypeOK
<1>j. ASSUME NEW r \in Job, SetJob(h, r),
             UNCHANGED <<live, archives, nextKey, today>>
      PROVE  TypeOK'
  BY <1>0, <1>j, SetJobType DEF TypeOK
<1>1. ASSUME NEW u \in Messages, StartCompact(h, u)
      PROVE  TypeOK'
  <2>1. [IdleJob EXCEPT !.pc = "list", !.upTo = u] \in Job
    BY IdleJobType DEF IdleJob, Job, Phases
  <2>. QED  BY <1>1, <1>j, <2>1 DEF StartCompact
<1>2. CASE ListMore(h)
  <2>1. PICK k \in Page(j.cursor) :
          SetJob(h, [j EXCEPT !.listed = j.listed \cup WithinBoundary(h),
                              !.cursor = k])
    BY <1>2 DEF ListMore
  <2>2. k \in Nat /\ WithinBoundary(h) \subseteq Messages
    BY DEF WithinBoundary, Page, After, TypeOK
  <2>3. [j EXCEPT !.listed = j.listed \cup WithinBoundary(h), !.cursor = k]
          \in Job
    BY <1>0, <2>2 DEF Job
  <2>. QED  BY <1>2, <1>j, <2>1, <2>3 DEF ListMore
<1>3. CASE ListDone(h)
  <2>. DEFINE all == j.listed \cup WithinBoundary(h)
              r == IF all = {} THEN IdleJob
                   ELSE [j EXCEPT !.pc = "getLive", !.listed = all, !.todo = all,
                                  !.upTo = 0, !.cursor = -1]
  <2>1. WithinBoundary(h) \subseteq Messages
    BY DEF WithinBoundary, Page, After, TypeOK
  <2>2. r \in Job
    BY <1>0, <2>1, IdleJobType DEF Job, Phases
  <2>3. SetJob(h, r) /\ UNCHANGED <<live, archives, nextKey, today>>
    BY <1>3 DEF ListDone
  <2>. HIDE DEF r
  <2>. QED  BY <1>j, <2>2, <2>3
<1>4. CASE GetLive(h)
  <2>1. PICK k \in j.todo :
          SetJob(h, [j EXCEPT !.todo = j.todo \ {k},
                              !.merged = j.merged \cup ({k} \cap live)])
    BY <1>4 DEF GetLive
  <2>2. [j EXCEPT !.todo = j.todo \ {k},
                  !.merged = j.merged \cup ({k} \cap live)] \in Job
    BY <1>0 DEF Job, TypeOK
  <2>. QED  BY <1>4, <1>j, <2>1, <2>2 DEF GetLive
<1>5. CASE ListArchives(h)
  <2>. DEFINE same == {a \in archives : a.day = today}
              r == [j EXCEPT !.pc = "getArchives", !.day = today,
                             !.existing = same, !.todoArchives = same]
  <2>1. r \in Job
    BY <1>0 DEF Job, Phases, TypeOK
  <2>2. SetJob(h, r) /\ UNCHANGED <<live, archives, nextKey, today>>
    BY <1>5 DEF ListArchives
  <2>. HIDE DEF r
  <2>. QED  BY <1>j, <2>1, <2>2
<1>6. CASE GetArchive(h)
  <2>1. PICK a \in j.todoArchives :
          SetJob(h, [j EXCEPT
                       !.todoArchives = j.todoArchives \ {a},
                       !.merged = j.merged \cup Content({a} \cap archives)])
    BY <1>6 DEF GetArchive
  <2>2. Content({a} \cap archives) \subseteq Messages
    BY ContentType DEF TypeOK
  <2>3. [j EXCEPT !.todoArchives = j.todoArchives \ {a},
                  !.merged = j.merged \cup Content({a} \cap archives)] \in Job
    BY <1>0, <2>2 DEF Job
  <2>. QED  BY <1>6, <1>j, <2>1, <2>3 DEF GetArchive
<1>7. CASE PutArchive(h)
  <2>. DEFINE r == [j EXCEPT !.pc = "delete", !.todo = j.listed,
                             !.todoArchives = j.existing]
  <2>1. NewArchive(h) \in Archive
    BY <1>0 DEF NewArchive, Archive, Job, TypeOK
  <2>2. r \in Job
    BY <1>0 DEF Job, Phases
  <2>3. /\ SetJob(h, r)
        /\ archives' = archives \cup {NewArchive(h)}
        /\ nextKey' = nextKey + 1
        /\ UNCHANGED <<live, today>>
    BY <1>7 DEF PutArchive
  <2>. HIDE DEF r
  <2>. QED  BY <1>0, <2>1, <2>2, <2>3, SetJobType DEF TypeOK
<1>8. CASE DeleteObjects(h)
  <2>1. PICK L \in SUBSET j.todo, A \in SUBSET j.todoArchives :
          /\ live' = live \ L
          /\ archives' = archives \ A
          /\ SetJob(h, IF L = j.todo /\ A = j.todoArchives THEN IdleJob
                       ELSE [j EXCEPT !.todo = j.todo \ L,
                                      !.todoArchives = j.todoArchives \ A])
          /\ UNCHANGED <<nextKey, today>>
    BY <1>8 DEF DeleteObjects
  <2>. DEFINE r == IF L = j.todo /\ A = j.todoArchives THEN IdleJob
                   ELSE [j EXCEPT !.todo = j.todo \ L,
                                  !.todoArchives = j.todoArchives \ A]
  <2>2. r \in Job
    BY <1>0, IdleJobType DEF Job
  <2>3. SetJob(h, r)
    BY <2>1
  <2>. HIDE DEF r
  <2>. QED  BY <1>0, <2>1, <2>2, <2>3, SetJobType DEF TypeOK
<1>9. CASE Abort(h)
  BY <1>9, <1>j, IdleJobType DEF Abort
<1>. QED  BY <1>1, <1>2, <1>3, <1>4, <1>5, <1>6, <1>7, <1>8, <1>9 DEF Compaction

(* No step of the store leaves the types.                                  *)
LEMMA TypeStep == ASSUME TypeOK, [Next]_vars PROVE TypeOK'
<1>1. ASSUME NEW m \in Messages, Deliver(m) PROVE TypeOK'
  BY <1>1 DEF Deliver, TypeOK
<1>2. ASSUME NEW h \in Handlers, Compaction(h) PROVE TypeOK'
  BY <1>2, CompactionType
<1>3. CASE Midnight
  BY <1>3 DEF Midnight, TypeOK
<1>4. CASE UNCHANGED vars
  BY <1>4 DEF vars, TypeOK
<1>. QED  BY <1>1, <1>2, <1>3, <1>4 DEF Next

(* The store and the handlers' locals keep their types.                    *)
THEOREM TypeCorrect == Spec => []TypeOK
<1>1. Init => TypeOK
  BY IdleJobType DEF Init, TypeOK
<1>2. TypeOK /\ [Next]_vars => TypeOK'
  BY TypeStep
<1>. QED  BY <1>1, <1>2, PTL DEF Spec

-----------------------------------------------------------------------------
(* How a change of the store affects a handler that does not move.         *)

(* A delivery or a new archive disturbs no handler: what it relies on is   *)
(* still there, and a fresh archive is none of those it listed.            *)
LEMMA GrowKeepsHandler ==
  ASSUME CompactionInv, NEW g \in Handlers, job'[g] = job[g],
         live \subseteq live', archives \subseteq archives',
         \A a \in archives' : a \notin archives => a.key = nextKey
  PROVE  HandlerInv(g)'
<1>. USE DEF CompactionInv, HandlerInv, Stored
<1>1. Content(archives) \subseteq Content(archives)'
  BY ContentMonotone
<1>2. job[g].existing \cap archives' \subseteq job[g].existing \cap archives
  <2>1. nextKey \in Nat /\ \A b \in job[g].existing : b.key < nextKey
    BY DEF KeysAreFresh, TypeOK
  <2>. QED  BY <2>1
<1>3. ReadIsStored(g)'
  BY <1>1 DEF ReadIsStored
<1>4. WorkIsListed(g)'
  BY DEF WorkIsListed
<1>5. ReadLiveIsKept(g)'
  BY <1>1 DEF ReadLiveIsKept
<1>6. ReadArchivesAreMerged(g)'
  <2>1. Content(job[g].existing \cap archives')
          \subseteq Content(job[g].existing \cap archives)
    BY <1>2, ContentMonotone
  <2>2. Content((job[g].existing \ job[g].todoArchives) \cap archives')
          \subseteq Content((job[g].existing \ job[g].todoArchives) \cap archives)
    BY <1>2, ContentMonotone
  <2>. QED  BY <2>1, <2>2 DEF ReadArchivesAreMerged
<1>7. MergedIsWritten(g)'
  <2>1. Content(Younger(g)) \subseteq Content(Younger(g)')
    BY ContentMonotone DEF Younger
  <2>. QED  BY <2>1 DEF MergedIsWritten
<1>. QED  BY <1>3, <1>4, <1>5, <1>6, <1>7

(* What handler h deletes is held by an archive h will not delete: if an   *)
(* archive it listed still exists then h has merged it, and everything     *)
(* merged is in an archive younger than any it listed.                     *)
LEMMA DeletedIsYounger ==
  ASSUME CompactionInv, NEW h \in Handlers, job[h].pc = "delete",
         NEW A \in SUBSET job[h].todoArchives,
         NEW a \in archives, a \in A, NEW m \in a.msgs
  PROVE  \E y \in archives \ A : /\ m \in y.msgs
                                 /\ y.key > a.key
<1>. USE DEF CompactionInv, HandlerInv
<1>1. a \in job[h].existing
  BY DEF WorkIsListed
<1>2. m \in job[h].merged
  <2>1. m \in Content(job[h].existing \cap archives)
    BY <1>1, ContentMember
  <2>. QED  BY <2>1 DEF ReadArchivesAreMerged
<1>3. m \in Content(Younger(h))
  BY <1>2 DEF MergedIsWritten
<1>4. PICK y \in Younger(h) : m \in y.msgs
  BY <1>3, ContentMember
<1>5. y \in archives /\ \A b \in job[h].existing : b.key < y.key
  BY DEF Younger
<1>6. y \notin A
  <2>1. y.key \in Nat
    BY <1>5 DEF TypeOK, Archive
  <2>. QED  BY <1>5, <2>1 DEF WorkIsListed
<1>7. a.key \in Nat /\ y.key \in Nat
  BY <1>5 DEF TypeOK, Archive
<1>. QED  BY <1>1, <1>4, <1>5, <1>6, <1>7

(* The same deletion seen from the whole store: the archives together, and *)
(* the store, hold what they held (store_compact loses nothing).           *)
LEMMA DeleteKeepsContent ==
  ASSUME CompactionInv, NEW h \in Handlers, job[h].pc = "delete",
         NEW L \in SUBSET job[h].todo, NEW A \in SUBSET job[h].todoArchives,
         live' = live \ L, archives' = archives \ A
  PROVE  /\ Content(archives)' = Content(archives)
         /\ Stored' = Stored
<1>1. Content(archives) \subseteq Content(archives \ A)
  <2>1. SUFFICES ASSUME NEW m \in Content(archives)
                 PROVE  m \in Content(archives \ A)
    OBVIOUS
  <2>2. PICK a \in archives : m \in a.msgs
    BY ContentMember
  <2>3. CASE a \notin A
    BY <2>2, <2>3, ContentMember
  <2>4. CASE a \in A
    <3>1. \E y \in archives \ A : m \in y.msgs
      BY <2>2, <2>4, DeletedIsYounger
    <3>. QED  BY <3>1, ContentMember
  <2>. QED  BY <2>3, <2>4
<1>2. Content(archives \ A) \subseteq Content(archives)
  BY ContentMonotone
<1>3. L \subseteq Content(archives)
  <2>1. L \subseteq job[h].listed
    BY DEF CompactionInv, HandlerInv, WorkIsListed
  <2>2. job[h].listed \subseteq job[h].merged \cup Content(archives)
    BY DEF CompactionInv, HandlerInv, ReadLiveIsKept
  <2>3. job[h].merged \subseteq Content(Younger(h))
    BY DEF CompactionInv, HandlerInv, MergedIsWritten
  <2>4. Content(Younger(h)) \subseteq Content(archives)
    BY ContentMonotone DEF Younger
  <2>. QED  BY <2>1, <2>2, <2>3, <2>4
<1>. QED  BY <1>1, <1>2, <1>3 DEF Stored

(* A deletion by h disturbs no other handler g: of two archives one of     *)
(* which g relies on, the surviving one is younger still.                  *)
LEMMA DeleteKeepsHandler ==
  ASSUME CompactionInv, NEW h \in Handlers, job[h].pc = "delete",
         NEW L \in SUBSET job[h].todo, NEW A \in SUBSET job[h].todoArchives,
         live' = live \ L, archives' = archives \ A,
         NEW g \in Handlers, job'[g] = job[g]
  PROVE  HandlerInv(g)'
<1>1. Content(archives)' = Content(archives) /\ Stored' = Stored
  BY DeleteKeepsContent
<1>. USE DEF CompactionInv, HandlerInv
<1>2. ReadIsStored(g)'
  BY <1>1 DEF ReadIsStored
<1>3. WorkIsListed(g)'
  BY DEF WorkIsListed
<1>4. ReadLiveIsKept(g)'
  BY <1>1 DEF ReadLiveIsKept
<1>5. ReadArchivesAreMerged(g)'
  <2>1. Content(job[g].existing \cap archives')
          \subseteq Content(job[g].existing \cap archives)
    BY ContentMonotone
  <2>2. Content((job[g].existing \ job[g].todoArchives) \cap archives')
          \subseteq Content((job[g].existing \ job[g].todoArchives) \cap archives)
    BY ContentMonotone
  <2>. QED  BY <2>1, <2>2 DEF ReadArchivesAreMerged
<1>6. MergedIsWritten(g)'
  <2>1. SUFFICES ASSUME job[g].pc = "delete", NEW m \in job[g].merged
                 PROVE  m \in Content(Younger(g)')
    BY DEF MergedIsWritten
  <2>2. m \in Content(Younger(g))
    BY <2>1 DEF MergedIsWritten
  <2>3. PICK x \in Younger(g) : m \in x.msgs
    BY <2>2, ContentMember
  <2>4. x \in archives /\ \A b \in job[g].existing : b.key < x.key
    BY DEF Younger
  <2>5. PICK y \in archives \ A : m \in y.msgs /\ y.key >= x.key
    <3>1. CASE x \in A
      <4>1. PICK y \in archives \ A : m \in y.msgs /\ y.key > x.key
        BY <2>3, <2>4, <3>1, DeletedIsYounger
      <4>2. x.key \in Nat /\ y.key \in Nat
        BY <2>4 DEF TypeOK, Archive
      <4>. QED  BY <4>1, <4>2
    <3>2. CASE x \notin A
      <4>1. x.key \in Nat
        BY <2>4 DEF TypeOK, Archive
      <4>. QED  BY <2>3, <2>4, <3>2, <4>1
    <3>. QED  BY <3>1, <3>2
  <2>6. \A b \in job[g].existing : b.key < y.key
    <3>1. /\ x.key \in Nat /\ y.key \in Nat
          /\ \A b \in job[g].existing : b.key \in Nat
      BY <2>4 DEF TypeOK, Archive, Job
    <3>. QED  BY <2>4, <2>5, <3>1
  <2>7. y \in Younger(g)'
    BY <2>5, <2>6 DEF Younger
  <2>. QED  BY <2>5, <2>7, ContentMember
<1>. QED  BY <1>2, <1>3, <1>4, <1>5, <1>6

-----------------------------------------------------------------------------
(* How a step of a handler affects the handler itself.                     *)

(* An idle or listing handler that holds nothing satisfies its invariant   *)
(* (a new request of store_compact, a finished or an abandoned one).       *)
LEMMA FreshHandler ==
  ASSUME NEW h \in Handlers, job'[h].listed = {}, job'[h].todo = {},
         job'[h].existing = {}, job'[h].todoArchives = {},
         job'[h].merged = {}, job'[h].pc \in {"idle", "list"}
  PROVE  HandlerInv(h)'
BY DEF HandlerInv, ReadIsStored, WorkIsListed, ReadLiveIsKept,
       ReadArchivesAreMerged, MergedIsWritten

(* A page of the live listing holds only live objects.                     *)
LEMMA PageIsLive ==
  ASSUME NEW h \in Handlers
  PROVE  WithinBoundary(h) \subseteq live
BY DEF WithinBoundary, Page, After

(* Listing, reading and writing keep the invariant of the handler at work. *)
LEMMA ReadKeepsOwn ==
  ASSUME CompactionInv, NEW h \in Handlers,
         ListMore(h) \/ ListDone(h) \/ GetLive(h) \/ ListArchives(h)
           \/ GetArchive(h)
  PROVE  HandlerInv(h)'
<1>. DEFINE j == job[h]
<1>0. j \in Job /\ job \in [Handlers -> Job]
  BY DEF CompactionInv, TypeOK
<1>s. UNCHANGED <<live, archives>>
  BY DEF ListMore, ListDone, GetLive, ListArchives, GetArchive
<1>c. Content(archives)' = Content(archives) /\ Stored' = Stored
  BY <1>s DEF Stored
<1>h. HandlerInv(h)
  BY DEF CompactionInv
<1>. USE DEF HandlerInv, ReadIsStored, WorkIsListed, ReadLiveIsKept,
             ReadArchivesAreMerged, MergedIsWritten
<1>1. CASE ListMore(h)
  <2>1. PICK k \in Page(j.cursor) :
          job' = [job EXCEPT ![h] =
                    [j EXCEPT !.listed = j.listed \cup WithinBoundary(h),
                              !.cursor = k]]
    BY <1>1 DEF ListMore, SetJob
  <2>2. job'[h] = [j EXCEPT !.listed = j.listed \cup WithinBoundary(h),
                            !.cursor = k]
    BY <1>0, <2>1
  <2>3. /\ job'[h].pc = "list"
        /\ job'[h].listed = j.listed \cup WithinBoundary(h)
        /\ job'[h].todo = j.todo
        /\ job'[h].existing = j.existing
        /\ job'[h].todoArchives = j.todoArchives
        /\ job'[h].merged = j.merged
    BY <1>0, <1>1, <2>2 DEF Job, ListMore
  <2>. QED  BY <1>c, <1>h, <2>3, PageIsLive DEF Stored
<1>2. CASE ListDone(h)
  <2>. DEFINE all == j.listed \cup WithinBoundary(h)
  <2>1. job'[h] = IF all = {} THEN IdleJob
                  ELSE [j EXCEPT !.pc = "getLive", !.listed = all, !.todo = all,
                                 !.upTo = 0, !.cursor = -1]
    BY <1>0, <1>2 DEF ListDone, SetJob
  <2>2. CASE all = {}
    BY <2>1, <2>2, FreshHandler DEF IdleJob
  <2>3. CASE all # {}
    <3>1. /\ job'[h].pc = "getLive"
          /\ job'[h].listed = all
          /\ job'[h].todo = all
          /\ job'[h].existing = j.existing
          /\ job'[h].todoArchives = j.todoArchives
          /\ job'[h].merged = j.merged
      BY <1>0, <2>1, <2>3 DEF Job
    <3>. QED  BY <1>c, <1>h, <3>1, PageIsLive DEF Stored
  <2>. QED  BY <2>2, <2>3
<1>3. CASE GetLive(h)
  <2>1. j.pc = "getLive"
    BY <1>3 DEF GetLive
  <2>2. PICK k \in j.todo :
          job' = [job EXCEPT ![h] =
                    [j EXCEPT !.todo = j.todo \ {k},
                              !.merged = j.merged \cup ({k} \cap live)]]
    BY <1>3 DEF GetLive, SetJob
  <2>3. /\ job'[h].pc = j.pc
        /\ job'[h].listed = j.listed
        /\ job'[h].todo = j.todo \ {k}
        /\ job'[h].existing = j.existing
        /\ job'[h].todoArchives = j.todoArchives
        /\ job'[h].merged = j.merged \cup ({k} \cap live)
    BY <1>0, <2>2 DEF Job
  <2>4. k \in j.listed /\ k \in Stored
    BY <1>h
  <2>5. j.listed \ (j.todo \ {k})
          \subseteq (j.merged \cup ({k} \cap live)) \cup Content(archives)
    BY <1>h, <2>1, <2>4 DEF Stored
  <2>. QED  BY <1>c, <1>h, <2>1, <2>3, <2>5 DEF Stored
<1>4. CASE ListArchives(h)
  <2>. DEFINE same == {a \in archives : a.day = today}
  <2>1. j.pc = "getLive" /\ j.todo = {}
    BY <1>4 DEF ListArchives
  <2>2. /\ job'[h].pc = "getArchives"
        /\ job'[h].listed = j.listed
        /\ job'[h].todo = j.todo
        /\ job'[h].existing = same
        /\ job'[h].todoArchives = same
        /\ job'[h].merged = j.merged
    BY <1>0, <1>4 DEF ListArchives, SetJob, Job
  <2>3. Content(same \ same) = {}
    BY ContentMember
  <2>4. (same \ same) \cap archives = same \ same
    OBVIOUS
  <2>. HIDE DEF same
  <2>. QED  BY <1>c, <1>h, <1>s, <2>1, <2>2, <2>3, <2>4
<1>5. CASE GetArchive(h)
  <2>1. j.pc = "getArchives"
    BY <1>5 DEF GetArchive
  <2>2. PICK a \in j.todoArchives :
          job' = [job EXCEPT ![h] =
                   [j EXCEPT
                     !.todoArchives = j.todoArchives \ {a},
                     !.merged = j.merged \cup Content({a} \cap archives)]]
    BY <1>5 DEF GetArchive, SetJob
  <2>3. /\ job'[h].pc = j.pc
        /\ job'[h].listed = j.listed
        /\ job'[h].todo = j.todo
        /\ job'[h].existing = j.existing
        /\ job'[h].todoArchives = j.todoArchives \ {a}
        /\ job'[h].merged = j.merged \cup Content({a} \cap archives)
    BY <1>0, <2>2 DEF Job
  <2>4. Content({a} \cap archives) \subseteq Stored
    BY ContentMonotone DEF Stored
  <2>5. Content((j.existing \ (j.todoArchives \ {a})) \cap archives)
          \subseteq j.merged \cup Content({a} \cap archives)
    <3>1. SUFFICES
            ASSUME NEW m \in Content((j.existing \ (j.todoArchives \ {a}))
                                       \cap archives)
            PROVE  m \in j.merged \cup Content({a} \cap archives)
      OBVIOUS
    <3>2. PICK x \in (j.existing \ (j.todoArchives \ {a})) \cap archives :
            m \in x.msgs
      BY ContentMember
    <3>3. CASE x = a
      BY <3>2, <3>3, ContentMember
    <3>4. CASE x # a
      <4>1. m \in Content((j.existing \ j.todoArchives) \cap archives)
        BY <3>2, <3>4, ContentMember
      <4>. QED  BY <1>h, <2>1, <4>1
    <3>. QED  BY <3>3, <3>4
  <2>. QED  BY <1>c, <1>h, <1>s, <2>1, <2>3, <2>4, <2>5
<1>. QED  BY <1>1, <1>2, <1>3, <1>4, <1>5

(* The new archive is younger than any the handler listed and holds all it *)
(* has merged.                                                             *)
LEMMA PutKeepsOwn ==
  ASSUME CompactionInv, NEW h \in Handlers, PutArchive(h)
  PROVE  HandlerInv(h)'
<1>. DEFINE j == job[h]
<1>0. j \in Job /\ job \in [Handlers -> Job] /\ nextKey \in Nat
  BY DEF CompactionInv, TypeOK
<1>1. /\ j.pc = "getArchives"
      /\ j.todoArchives = {}
      /\ live' = live
      /\ archives' = archives \cup {NewArchive(h)}
  BY DEF PutArchive
<1>2. /\ job'[h].pc = "delete"
      /\ job'[h].listed = j.listed
      /\ job'[h].todo = j.listed
      /\ job'[h].existing = j.existing
      /\ job'[h].todoArchives = j.existing
      /\ job'[h].merged = j.merged
  BY <1>0 DEF PutArchive, SetJob, Job
<1>3. Content(archives)' = Content(archives) \cup j.merged
  BY <1>1, ContentAdd DEF NewArchive
<1>h. HandlerInv(h)
  BY DEF CompactionInv
<1>4. ReadIsStored(h)'
  BY <1>h, <1>1, <1>2, <1>3 DEF HandlerInv, ReadIsStored, Stored
<1>5. WorkIsListed(h)'
  BY <1>2 DEF WorkIsListed
<1>6. ReadLiveIsKept(h)'
  BY <1>h, <1>1, <1>2, <1>3 DEF HandlerInv, ReadLiveIsKept
<1>7. ReadArchivesAreMerged(h)'
  <2>1. Content((j.existing \ j.todoArchives) \cap archives) \subseteq j.merged
    BY <1>h, <1>1 DEF HandlerInv, ReadArchivesAreMerged
  <2>2. j.existing \cap archives' = (j.existing \ j.todoArchives) \cap archives
    <3>1. NewArchive(h) \notin j.existing
      <4>1. NewArchive(h).key = nextKey
        BY DEF NewArchive
      <4>2. \A b \in j.existing : b.key < nextKey
        BY DEF CompactionInv, KeysAreFresh
      <4>. QED  BY <1>0, <4>1, <4>2
    <3>. QED  BY <1>1, <3>1
  <2>. QED  BY <1>2, <2>1, <2>2 DEF ReadArchivesAreMerged
<1>8. MergedIsWritten(h)'
  <2>1. NewArchive(h) \in Younger(h)'
    <3>1. NewArchive(h).key = nextKey
      BY DEF NewArchive
    <3>. QED  BY <1>1, <1>2, <3>1 DEF Younger, CompactionInv, KeysAreFresh
  <2>2. NewArchive(h).msgs = j.merged
    BY DEF NewArchive
  <2>. QED  BY <1>2, <2>1, <2>2, ContentMember DEF MergedIsWritten
<1>. QED  BY <1>4, <1>5, <1>6, <1>7, <1>8 DEF HandlerInv

(* Deleting part of its batch keeps the handler's own invariant.           *)
LEMMA DeleteKeepsOwn ==
  ASSUME CompactionInv, NEW h \in Handlers, job[h].pc = "delete",
         NEW L \in SUBSET job[h].todo, NEW A \in SUBSET job[h].todoArchives,
         live' = live \ L, archives' = archives \ A,
         SetJob(h, [job[h] EXCEPT !.todo = job[h].todo \ L,
                                  !.todoArchives = job[h].todoArchives \ A])
  PROVE  HandlerInv(h)'
<1>. DEFINE j == job[h]
<1>0. j \in Job /\ job \in [Handlers -> Job]
  BY DEF CompactionInv, TypeOK
<1>1. /\ job'[h].pc = "delete"
      /\ job'[h].listed = j.listed
      /\ job'[h].todo = j.todo \ L
      /\ job'[h].existing = j.existing
      /\ job'[h].todoArchives = j.todoArchives \ A
      /\ job'[h].merged = j.merged
  BY <1>0 DEF SetJob, Job
<1>2. Content(archives)' = Content(archives) /\ Stored' = Stored
  BY DeleteKeepsContent
<1>h. HandlerInv(h)
  BY DEF CompactionInv
<1>3. ReadIsStored(h)'
  BY <1>h, <1>1, <1>2 DEF HandlerInv, ReadIsStored
<1>4. WorkIsListed(h)'
  BY <1>h, <1>1 DEF HandlerInv, WorkIsListed
<1>5. ReadLiveIsKept(h)'
  BY <1>h, <1>1, <1>2 DEF HandlerInv, ReadLiveIsKept
<1>6. ReadArchivesAreMerged(h)'
  <2>1. Content(j.existing \cap archives') \subseteq Content(j.existing \cap archives)
    BY ContentMonotone
  <2>. QED  BY <1>h, <1>1, <2>1 DEF HandlerInv, ReadArchivesAreMerged
<1>7. MergedIsWritten(h)'
  <2>1. Younger(h) \subseteq Younger(h)'
    <3>1. SUFFICES ASSUME NEW y \in Younger(h), y \in A PROVE FALSE
      BY <1>1 DEF Younger
    <3>2. y \in j.existing /\ y.key < y.key
      BY <1>h, <3>1 DEF HandlerInv, WorkIsListed, Younger
    <3>3. y.key \in Nat
      BY <1>0, <3>2 DEF Job, Archive
    <3>. QED  BY <3>2, <3>3
  <2>2. Content(Younger(h)) \subseteq Content(Younger(h)')
    BY <2>1, ContentMonotone
  <2>. QED  BY <1>h, <1>1, <2>2 DEF HandlerInv, MergedIsWritten
<1>. QED  BY <1>3, <1>4, <1>5, <1>6, <1>7 DEF HandlerInv

-----------------------------------------------------------------------------
(* The invariant is inductive.                                             *)

(* Archive keys stay fresh: only PutArchive adds one, and it takes nextKey.*)
LEMMA FreshKeysStep ==
  ASSUME CompactionInv, [Next]_vars
  PROVE  KeysAreFresh'
<1>. USE DEF CompactionInv, KeysAreFresh
<1>0. nextKey \in Nat /\ job \in [Handlers -> Job]
  BY DEF TypeOK
<1>n. /\ \A a \in archives : a.key \in Nat
      /\ \A g \in Handlers : \A b \in job[g].existing : b.key \in Nat
  BY <1>0 DEF TypeOK, Archive, Job
<1>1. ASSUME NEW m \in Messages, Deliver(m) PROVE KeysAreFresh'
  BY <1>1 DEF Deliver
<1>2. ASSUME NEW h \in Handlers, Compaction(h) PROVE KeysAreFresh'
  <2>1. /\ nextKey' = nextKey \/ nextKey' = nextKey + 1
        /\ \A a \in archives' : a \in archives \/ (a.key = nextKey /\ nextKey' = nextKey + 1)
    <3>1. CASE PutArchive(h)
      <4>1. NewArchive(h).key = nextKey
        BY DEF NewArchive
      <4>. QED  BY <3>1, <4>1 DEF PutArchive
    <3>2. CASE DeleteObjects(h)
      BY <3>2 DEF DeleteObjects
    <3>3. CASE ~PutArchive(h) /\ ~DeleteObjects(h)
      BY <1>2, <3>3 DEF Compaction, StartCompact, ListMore, ListDone, GetLive,
                        ListArchives, GetArchive, Abort
    <3>. QED  BY <3>1, <3>2, <3>3
  <2>2. \A g \in Handlers : \A b \in job'[g].existing :
          b \in job[g].existing \/ b \in archives
    <3>1. \A g \in Handlers \ {h} : job'[g] = job[g]
      BY <1>0, <1>2 DEF Compaction, StartCompact, ListMore, ListDone, GetLive,
                       ListArchives, GetArchive, PutArchive, DeleteObjects,
                       Abort, SetJob
    <3>2. job'[h].existing \subseteq job[h].existing \cup archives
      <4>0. job[h] \in Job
        BY <1>0
      <4>. USE DEF SetJob, Job, IdleJob
      <4>1. ASSUME NEW u \in Messages, StartCompact(h, u)
            PROVE  job'[h].existing = {}
        BY <1>0, <4>1 DEF StartCompact
      <4>2. ListMore(h) => job'[h].existing = job[h].existing
        BY <1>0, <4>0 DEF ListMore
      <4>3. ListDone(h) => job'[h].existing \subseteq job[h].existing
        BY <1>0, <4>0 DEF ListDone
      <4>4. GetLive(h) => job'[h].existing = job[h].existing
        BY <1>0, <4>0 DEF GetLive
      <4>5. ListArchives(h) => job'[h].existing \subseteq archives
        BY <1>0, <4>0 DEF ListArchives
      <4>6. GetArchive(h) => job'[h].existing = job[h].existing
        BY <1>0, <4>0 DEF GetArchive
      <4>7. PutArchive(h) => job'[h].existing = job[h].existing
        BY <1>0, <4>0 DEF PutArchive
      <4>8. DeleteObjects(h) => job'[h].existing \subseteq job[h].existing
        BY <1>0, <4>0 DEF DeleteObjects
      <4>9. Abort(h) => job'[h].existing = {}
        BY <1>0 DEF Abort
      <4>. QED  BY <1>2, <4>1, <4>2, <4>3, <4>4, <4>5, <4>6, <4>7, <4>8, <4>9
                DEF Compaction
    <3>. QED  BY <3>1, <3>2
  <2>. QED  BY <1>0, <1>n, <2>1, <2>2
<1>3. CASE Midnight
  BY <1>3 DEF Midnight
<1>4. CASE UNCHANGED vars
  BY <1>4 DEF vars
<1>. QED  BY <1>1, <1>2, <1>3, <1>4 DEF Next

(* One step of the system keeps the invariant and is a step of the mailbox *)
(* or a stutter.                                                           *)
LEMMA InvStep ==
  ASSUME CompactionInv, TypeOK', [Next]_vars
  PROVE  CompactionInv' /\ [M!Next]_Stored
<1>0. KeysAreFresh'
  BY FreshKeysStep
<1>t. job \in [Handlers -> Job]
  BY DEF CompactionInv, TypeOK
<1>1. ASSUME NEW m \in Messages, Deliver(m)
      PROVE  CompactionInv' /\ [M!Next]_Stored
  <2>1. live \subseteq live' /\ archives' = archives /\ job' = job
    BY <1>1 DEF Deliver
  <2>2. ASSUME NEW g \in Handlers PROVE HandlerInv(g)'
    BY <2>1, GrowKeepsHandler
  <2>3. Stored' = Stored \cup {m}
    BY <1>1 DEF Deliver, Stored
  <2>. QED  BY <1>0, <2>2, <2>3 DEF CompactionInv, M!Next, M!Accept
<1>2. ASSUME NEW h \in Handlers, Compaction(h)
      PROVE  CompactionInv' /\ [M!Next]_Stored
  <2>o. ASSUME NEW g \in Handlers, g # h PROVE job'[g] = job[g]
    BY <1>t, <1>2, <2>o DEF Compaction, StartCompact, ListMore, ListDone,
       GetLive, ListArchives, GetArchive, PutArchive, DeleteObjects, Abort,
       SetJob
  <2>u. ASSUME UNCHANGED <<live, archives>>, HandlerInv(h)'
        PROVE  CompactionInv' /\ [M!Next]_Stored
    <3>1. ASSUME NEW g \in Handlers, g # h PROVE HandlerInv(g)'
      BY <2>o, <2>u, <3>1, GrowKeepsHandler
    <3>2. Stored' = Stored
      BY <2>u DEF Stored
    <3>. QED  BY <1>0, <2>u, <3>1, <3>2 DEF CompactionInv
  <2>i. ASSUME SetJob(h, IdleJob) PROVE HandlerInv(h)'
    BY <1>t, <2>i, FreshHandler DEF SetJob, IdleJob
  <2>1. ASSUME NEW u \in Messages, StartCompact(h, u)
        PROVE  CompactionInv' /\ [M!Next]_Stored
    <3>1. HandlerInv(h)'
      BY <1>t, <2>1, FreshHandler DEF StartCompact, SetJob, IdleJob
    <3>. QED  BY <2>1, <2>u, <3>1 DEF StartCompact
  <2>2. CASE ListMore(h) \/ ListDone(h) \/ GetLive(h) \/ ListArchives(h)
               \/ GetArchive(h)
    <3>1. HandlerInv(h)'
      BY <2>2, ReadKeepsOwn
    <3>2. UNCHANGED <<live, archives>>
      BY <2>2 DEF ListMore, ListDone, GetLive, ListArchives, GetArchive
    <3>. QED  BY <2>u, <3>1, <3>2
  <2>3. CASE PutArchive(h)
    <3>1. /\ live' = live
          /\ archives' = archives \cup {NewArchive(h)}
          /\ NewArchive(h).key = nextKey
          /\ NewArchive(h).msgs = job[h].merged
      BY <2>3 DEF PutArchive, NewArchive
    <3>2. ASSUME NEW g \in Handlers PROVE HandlerInv(g)'
      BY <2>3, <2>o, <3>1, GrowKeepsHandler, PutKeepsOwn
    <3>3. Stored' = Stored
      <4>1. job[h].merged \subseteq Stored
        BY DEF CompactionInv, HandlerInv, ReadIsStored
      <4>. QED  BY <3>1, <4>1, ContentAdd DEF Stored
    <3>. QED  BY <1>0, <3>2, <3>3 DEF CompactionInv
  <2>4. CASE DeleteObjects(h)
    <3>1. job[h].pc = "delete"
      BY <2>4 DEF DeleteObjects
    <3>2. PICK L \in SUBSET job[h].todo, A \in SUBSET job[h].todoArchives :
            /\ live' = live \ L
            /\ archives' = archives \ A
            /\ \/ SetJob(h, IdleJob)
               \/ SetJob(h, [job[h] EXCEPT
                              !.todo = job[h].todo \ L,
                              !.todoArchives = job[h].todoArchives \ A])
      BY <2>4 DEF DeleteObjects
    <3>3. HandlerInv(h)'
      BY <2>i, <3>1, <3>2, DeleteKeepsOwn
    <3>4. ASSUME NEW g \in Handlers, g # h PROVE HandlerInv(g)'
      BY <2>o, <3>1, <3>2, <3>4, DeleteKeepsHandler
    <3>5. Stored' = Stored
      BY <3>1, <3>2, DeleteKeepsContent
    <3>. QED  BY <1>0, <3>3, <3>4, <3>5 DEF CompactionInv
  <2>5. CASE Abort(h)
    BY <2>5, <2>i, <2>u DEF Abort
  <2>. QED  BY <1>2, <2>1, <2>2, <2>3, <2>4, <2>5 DEF Compaction
<1>3. CASE Midnight \/ UNCHANGED vars
  <2>1. UNCHANGED <<live, archives, job>>
    BY <1>3 DEF Midnight, vars
  <2>2. ASSUME NEW g \in Handlers PROVE HandlerInv(g)'
    BY <2>1, GrowKeepsHandler
  <2>3. Stored' = Stored
    BY <2>1 DEF Stored
  <2>. QED  BY <1>0, <2>2, <2>3 DEF CompactionInv
<1>. QED  BY <1>1, <1>2, <1>3 DEF Next

(* The empty mailbox with no compaction running satisfies the invariant.   *)
LEMMA InvInit == Init => CompactionInv
<1>. SUFFICES ASSUME Init PROVE CompactionInv
  OBVIOUS
<1>1. TypeOK
  BY IdleJobType DEF Init, TypeOK
<1>2. ASSUME NEW h \in Handlers PROVE job[h] = IdleJob
  BY DEF Init
<1>3. ASSUME NEW h \in Handlers PROVE HandlerInv(h)
  BY <1>2 DEF HandlerInv, ReadIsStored, WorkIsListed, ReadLiveIsKept,
              ReadArchivesAreMerged, MergedIsWritten, IdleJob
<1>4. KeysAreFresh
  BY <1>2 DEF KeysAreFresh, Init, IdleJob
<1>. QED  BY <1>1, <1>3, <1>4 DEF CompactionInv

(* Every handler of store_compact keeps the five facts, however many run.  *)
THEOREM CompactionInvariant == Spec => []CompactionInv
<1>1. CompactionInv /\ TypeOK' /\ [Next]_vars => CompactionInv'
  BY InvStep
<1>. QED  BY <1>1, InvInit, TypeCorrect, PTL DEF Spec

(* No batch delete of store_compact removes the last copy of anything.     *)
THEOREM CoveredDeletes == Spec => []DeletesOnlyCovered
<1>1. CompactionInv => DeletesOnlyCovered
  <2>. SUFFICES ASSUME CompactionInv, NEW h \in Handlers, job[h].pc = "delete"
                PROVE  /\ Content(job[h].todoArchives \cap archives)
                              \subseteq Content(Younger(h))
                       /\ job[h].todo \cap live
                              \subseteq Content(archives \ job[h].existing)
    BY DEF DeletesOnlyCovered
  <2>. USE DEF CompactionInv, HandlerInv
  <2>1. Content(job[h].existing \cap archives) \subseteq Content(Younger(h))
    BY DEF ReadArchivesAreMerged, MergedIsWritten
  <2>2. Content(job[h].todoArchives \cap archives)
          \subseteq Content(job[h].existing \cap archives)
    BY ContentMonotone DEF WorkIsListed
  <2>3. Younger(h) \subseteq archives \ job[h].existing
    <3>1. \A a \in archives : a.key \in Nat
      BY DEF TypeOK, Archive
    <3>. QED  BY <3>1 DEF Younger
  <2>4. Content(Younger(h)) \subseteq Content(archives \ job[h].existing)
    BY <2>3, ContentMonotone
  <2>5. Content(archives) \subseteq Content(archives \ job[h].existing)
    <3>1. SUFFICES ASSUME NEW m \in Content(archives)
                   PROVE  m \in Content(archives \ job[h].existing)
      OBVIOUS
    <3>2. PICK a \in archives : m \in a.msgs
      BY ContentMember
    <3>3. CASE a \in job[h].existing
      <4>1. m \in Content(job[h].existing \cap archives)
        BY <3>2, <3>3, ContentMember
      <4>. QED  BY <2>1, <2>4, <4>1
    <3>4. CASE a \notin job[h].existing
      BY <3>2, <3>4, ContentMember
    <3>. QED  BY <3>3, <3>4
  <2>6. job[h].todo \subseteq job[h].merged \cup Content(archives)
    BY DEF WorkIsListed, ReadLiveIsKept
  <2>7. job[h].merged \subseteq Content(Younger(h))
    BY DEF MergedIsWritten
  <2>. QED  BY <2>1, <2>2, <2>4, <2>5, <2>6, <2>7
<1>. QED  BY <1>1, CompactionInvariant, PTL

(* Send and compaction together implement the mailbox: what was accepted   *)
(* stays readable, and nothing else ever appears.                          *)
THEOREM Refinement == Spec => ImplementsMailbox
<1>1. Init => M!Init
  BY DEF Init, M!Init, Stored, Content
<1>2. CompactionInv /\ TypeOK' /\ [Next]_vars => [M!Next]_Stored
  BY InvStep
<1>. QED  BY <1>1, <1>2, CompactionInvariant, TypeCorrect, PTL
          DEF Spec, ImplementsMailbox, M!Spec

-----------------------------------------------------------------------------
(* The listing of live objects and the archives of a day.                  *)

(* A page is a beginning of what follows the cursor.                       *)
LEMMA PageReaches ==
  ASSUME live \subseteq Messages, NEW c, NEW k \in Page(c), NEW m \in After(c), m <= k
  PROVE  m \in Page(c)
<1>. DEFINE below(x) == {j \in After(c) : j < x}
<1>1. k \in Nat /\ m \in Nat /\ After(c) \subseteq Nat
  BY MessagesAssumption DEF Page, After
<1>2. below(m) \subseteq below(k) /\ below(k) \subseteq 0..k
  BY <1>1
<1>3. IsFiniteSet(below(k)) /\ IsFiniteSet(below(m))
  <2>1. IsFiniteSet(0..k)
    BY <1>1, FS_Interval
  <2>2. IsFiniteSet(below(k))
    BY <1>2, <2>1, FS_Subset
  <2>. QED  BY <1>2, <2>2, FS_Subset
<1>4. Cardinality(below(m)) <= Cardinality(below(k))
  BY <1>2, <1>3, FS_Subset
<1>5. Cardinality(below(m)) \in Nat /\ Cardinality(below(k)) \in Nat
  BY <1>3, FS_CardinalityType
<1>6. Cardinality(below(k)) < PageSize
  BY DEF Page
<1>7. Cardinality(below(m)) < PageSize
  BY <1>4, <1>5, <1>6, PageSizeAssumption
<1>. QED  BY <1>7 DEF Page

(* What the listing loop leaves for its last page is on it, up to the      *)
(* boundary.                                                               *)
LEMMA LastPageReaches ==
  ASSUME TypeOK, NEW h \in Handlers, ListDone(h),
         NEW m \in live, job[h].cursor < m, m <= job[h].upTo
  PROVE  m \in WithinBoundary(h)
<1>. DEFINE c == job[h].cursor
<1>1. m \in After(c) /\ m \in Nat /\ job[h].upTo \in Nat
  BY MessagesAssumption DEF TypeOK, Job, After
<1>2. m \in Page(c)
  <2>1. CASE ~Truncated(c)
    BY <1>1, <2>1 DEF Truncated
  <2>2. ASSUME NEW k \in Page(c), k > job[h].upTo PROVE m \in Page(c)
    <3>1. k \in Nat
      BY MessagesAssumption DEF Page, After, TypeOK
    <3>. QED  BY <1>1, <2>2, <3>1, PageReaches DEF TypeOK
  <2>. QED  BY <2>1, <2>2 DEF ListDone
<1>. QED  BY <1>2 DEF WithinBoundary

(* Stopping at the first page past the boundary skips nothing.             *)
THEOREM ListingIsComplete == Spec => ListsUpToBoundary
<1>1. ASSUME TypeOK, [Next]_vars, NEW h \in Handlers, job[h].pc = "list", job'[h].pc = "getLive"
      PROVE  {m \in live : job[h].cursor < m /\ m <= job[h].upTo} \subseteq job'[h].listed
  <2>t. job \in [Handlers -> Job] /\ job[h] \in Job
    BY <1>1 DEF TypeOK
  <2>1. ListDone(h)
    <3>1. \E g \in Handlers : Compaction(g)
      BY <1>1 DEF Next, Deliver, Midnight, vars
    <3>2. PICK g \in Handlers : Compaction(g)
      BY <3>1
    <3>3. g = h
      BY <1>1, <2>t, <3>2 DEF Compaction, StartCompact, ListMore, ListDone, GetLive, ListArchives, GetArchive,
         PutArchive, DeleteObjects, Abort, SetJob
    <3>4. ASSUME NEW r, SetJob(h, r) PROVE job'[h] = r
      BY <2>t, <3>4 DEF SetJob
    <3>5. ASSUME NEW u, StartCompact(h, u) PROVE job'[h].pc = "list"
      BY <3>4, <3>5 DEF StartCompact, IdleJob
    <3>6. ASSUME ListMore(h) PROVE job'[h].pc = "list"
      BY <2>t, <3>4, <3>6 DEF ListMore, Job
    <3>7. ASSUME Abort(h) PROVE job'[h].pc = "idle"
      BY <3>4, <3>7 DEF Abort, IdleJob
    <3>8. ~(GetLive(h) \/ ListArchives(h) \/ GetArchive(h) \/ PutArchive(h) \/ DeleteObjects(h))
      BY <1>1 DEF GetLive, ListArchives, GetArchive, PutArchive, DeleteObjects
    <3>. QED
      BY <1>1, <3>2, <3>3, <3>5, <3>6, <3>7, <3>8 DEF Compaction
  <2>2. job'[h].listed = job[h].listed \cup WithinBoundary(h)
    BY <1>1, <2>t, <2>1 DEF ListDone, SetJob, IdleJob, Job
  <2>. QED  BY <1>1, <2>1, <2>2, LastPageReaches
<1>2. TypeOK /\ [Next]_vars =>
        [\A h \in Handlers : job[h].pc = "list" /\ job'[h].pc = "getLive" =>
           {m \in live : job[h].cursor < m /\ m <= job[h].upTo} \subseteq job'[h].listed]_vars
  BY <1>1
<1>. QED  BY <1>2, TypeCorrect, PTL DEF Spec, ListsUpToBoundary

(* Of a handler that is alone: the archives of its day are those it listed *)
(* and, once that is written, its own.                                     *)
OfDay(h) == {a \in archives : a.day = job[h].day}

DayIsKept ==
  \A h \in Handlers :
    /\ job[h].pc = "getArchives" => OfDay(h) = job[h].existing
    /\ job[h].pc = "delete" =>
         \E a : a \notin job[h].existing /\ OfDay(h) = job[h].todoArchives \cup {a}

LEMMA DayStep ==
  ASSUME CompactionInv, DayIsKept, [Next]_vars, \A g, h \in Handlers : g = h
  PROVE  DayIsKept'
<1>. SUFFICES ASSUME NEW h \in Handlers
              PROVE  /\ job'[h].pc = "getArchives" => OfDay(h)' = job'[h].existing
                     /\ job'[h].pc = "delete" =>
                          \E a : a \notin job'[h].existing /\ OfDay(h)' = job'[h].todoArchives \cup {a}
  BY DEF DayIsKept
<1>t. job \in [Handlers -> Job] /\ job[h] \in Job
  BY DEF CompactionInv, TypeOK
<1>1. CASE UNCHANGED <<archives, job>>
  BY <1>1 DEF DayIsKept, OfDay
<1>2. CASE (\E u \in Messages : StartCompact(h, u)) \/ ListMore(h) \/ ListDone(h) \/ GetLive(h) \/ Abort(h)
  <2>1. job'[h].pc \in {"idle", "list", "getLive"}
    <3>0. ASSUME NEW r, SetJob(h, r) PROVE job'[h] = r
      BY <1>t, <3>0 DEF SetJob
    <3>1. ASSUME NEW u, StartCompact(h, u) PROVE job'[h].pc = "list"
      BY <3>0, <3>1 DEF StartCompact, IdleJob
    <3>2. CASE ListMore(h)
      BY <1>t, <3>0, <3>2 DEF ListMore, Job
    <3>3. CASE ListDone(h)
      <4>. DEFINE all == job[h].listed \cup WithinBoundary(h)
                  r == IF all = {} THEN IdleJob
                       ELSE [job[h] EXCEPT !.pc = "getLive", !.listed = all, !.todo = all,
                                           !.upTo = 0, !.cursor = -1]
      <4>1. SetJob(h, r)
        BY <3>3 DEF ListDone
      <4>2. r.pc \in {"idle", "getLive"}
        BY <1>t DEF IdleJob, Job
      <4>. HIDE DEF r
      <4>. QED  BY <3>0, <4>1, <4>2
    <3>4. CASE GetLive(h)
      BY <1>t, <3>0, <3>4 DEF GetLive, Job
    <3>5. CASE Abort(h)
      BY <3>0, <3>5 DEF Abort, IdleJob
    <3>. QED  BY <1>2, <3>1, <3>2, <3>3, <3>4, <3>5
  <2>. QED  BY <2>1
<1>3. CASE ListArchives(h)
  BY <1>t, <1>3 DEF ListArchives, SetJob, OfDay, Job
<1>4. CASE GetArchive(h)
  <2>1. /\ archives' = archives /\ job[h].pc = "getArchives" /\ job'[h].pc = "getArchives"
        /\ job'[h].day = job[h].day /\ job'[h].existing = job[h].existing
    BY <1>t, <1>4 DEF GetArchive, SetJob, Job
  <2>. QED  BY <2>1 DEF DayIsKept, OfDay
<1>5. CASE PutArchive(h)
  <2>1. /\ archives' = archives \cup {NewArchive(h)} /\ job[h].pc = "getArchives" /\ job'[h].pc = "delete"
        /\ job'[h].day = job[h].day /\ job'[h].existing = job[h].existing
        /\ job'[h].todoArchives = job[h].existing
    BY <1>t, <1>5 DEF PutArchive, SetJob, Job
  <2>2. NewArchive(h).day = job[h].day /\ NewArchive(h).key = nextKey
    BY DEF NewArchive
  <2>3. NewArchive(h) \notin job[h].existing
    BY <1>t, <2>2 DEF CompactionInv, KeysAreFresh, Job, Archive
  <2>4. OfDay(h)' = job[h].existing \cup {NewArchive(h)}
    BY <2>1, <2>2 DEF DayIsKept, OfDay
  <2>. QED  BY <2>1, <2>3, <2>4
<1>6. CASE DeleteObjects(h)
  <2>1. PICK A \in SUBSET job[h].todoArchives :
          /\ archives' = archives \ A
          /\ \/ SetJob(h, IdleJob)
             \/ \E L : SetJob(h, [job[h] EXCEPT !.todo = job[h].todo \ L,
                                                !.todoArchives = job[h].todoArchives \ A])
    BY <1>6 DEF DeleteObjects
  <2>2. CASE SetJob(h, IdleJob)
    BY <1>t, <2>2 DEF SetJob, IdleJob
  <2>3. ASSUME NEW L, SetJob(h, [job[h] EXCEPT !.todo = job[h].todo \ L,
                                               !.todoArchives = job[h].todoArchives \ A])
        PROVE  /\ job'[h].pc = job[h].pc /\ job'[h].day = job[h].day /\ job'[h].existing = job[h].existing
               /\ job'[h].todoArchives = job[h].todoArchives \ A
    BY <1>t, <2>3 DEF SetJob, Job
  <2>4. job[h].pc = "delete" /\ job[h].todoArchives \subseteq job[h].existing
    BY <1>6 DEF DeleteObjects, CompactionInv, HandlerInv, WorkIsListed
  <2>5. PICK a : a \notin job[h].existing /\ OfDay(h) = job[h].todoArchives \cup {a}
    BY <2>4 DEF DayIsKept
  <2>6. ASSUME job'[h].day = job[h].day PROVE OfDay(h)' = (job[h].todoArchives \ A) \cup {a}
    <3>1. OfDay(h)' = OfDay(h) \ A
      BY <2>1, <2>6 DEF OfDay
    <3>. QED  BY <2>1, <2>4, <2>5, <3>1
  <2>. QED  BY <2>1, <2>2, <2>3, <2>4, <2>5, <2>6
<1>. QED
  <2>1. ASSUME NEW g \in Handlers, Compaction(g) PROVE Compaction(h)
    BY <2>1
  <2>2. CASE (\E m \in Messages : Deliver(m)) \/ Midnight \/ UNCHANGED vars
    BY <1>1, <2>2 DEF Deliver, Midnight, vars
  <2>3. CASE Compaction(h)
    BY <1>2, <1>3, <1>4, <1>5, <1>6, <2>3 DEF Compaction
  <2>. QED  BY <2>1, <2>2, <2>3 DEF Next

(* A compaction that is alone and runs to its end leaves one archive of    *)
(* its day, whatever earlier failures had left there.                      *)
THEOREM OneArchiveIsLeft ==
  ASSUME \A g, h \in Handlers : g = h
  PROVE  Spec => OneArchivePerDay
<1>1. Init => DayIsKept
  BY DEF Init, DayIsKept, IdleJob
<1>2. CompactionInv /\ DayIsKept /\ [Next]_vars => DayIsKept'
  BY DayStep
<1>3. ASSUME CompactionInv, DayIsKept, [Next]_vars, NEW h \in Handlers,
             job[h].pc = "delete", job'[h].pc = "idle", <<live, archives>>' # <<live, archives>>
      PROVE  Cardinality({a \in archives' : a.day = job[h].day}) = 1
  <2>t. job \in [Handlers -> Job] /\ job[h] \in Job
    BY <1>3 DEF CompactionInv, TypeOK
  <2>1. DeleteObjects(h)
    <3>1. ASSUME NEW g \in Handlers, Compaction(g) PROVE DeleteObjects(h)
      <4>1. Compaction(h)
        BY <3>1
      <4>. QED
        BY <1>3, <2>t, <4>1 DEF Compaction, StartCompact, ListMore, ListDone, GetLive, ListArchives, GetArchive,
           PutArchive, Abort
    <3>2. ASSUME NEW m \in Messages, Deliver(m) PROVE FALSE
      BY <1>3, <3>2 DEF Deliver
    <3>. QED  BY <1>3, <3>1, <3>2 DEF Next, Midnight, vars
  <2>2. archives' = archives \ job[h].todoArchives
    BY <1>3, <2>t, <2>1 DEF DeleteObjects, SetJob, Job
  <2>3. PICK a : a \notin job[h].existing /\ OfDay(h) = job[h].todoArchives \cup {a}
    BY <1>3 DEF DayIsKept
  <2>4. job[h].todoArchives \subseteq job[h].existing
    BY <1>3 DEF CompactionInv, HandlerInv, WorkIsListed
  <2>5. {b \in archives' : b.day = job[h].day} = {a}
    BY <2>2, <2>3, <2>4 DEF OfDay
  <2>. QED  BY <2>5, FS_Singleton
<1>4. CompactionInv /\ DayIsKept /\ [Next]_vars =>
        [\A h \in Handlers :
           job[h].pc = "delete" /\ job'[h].pc = "idle" /\ <<live, archives>>' # <<live, archives>> =>
             Cardinality({a \in archives' : a.day = job[h].day}) = 1]_vars
  BY <1>3
<1>. QED  BY <1>1, <1>2, <1>4, CompactionInvariant, PTL DEF Spec, OneArchivePerDay
=============================================================================
