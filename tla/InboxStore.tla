----------------------------- MODULE InboxStore -----------------------------
(***************************************************************************)
(* One mailbox of the object store and the server handlers that write it:  *)
(* `POST /v1/send` (a PUT under `live/`) and `POST /v1/store/compact`      *)
(* (list and read `live/`, merge with the archives of the day, PUT a new   *)
(* archive, delete what was merged).  Nothing serialises two compactions   *)
(* of one mailbox (two devices, two tabs, a retry): each handler is a      *)
(* process whose every store call is one step, so that any other handler   *)
(* or a delivery may run between two calls.                                *)
(*                                                                         *)
(* A message id is a ULID; the keys of `live/` sort as the ids do, so an   *)
(* id is a natural number.  An archive key is `{day}-{ULID}`: `key` stands *)
(* for the ULID, fresh for every PUT, and counts the PUTs.  Two handlers   *)
(* may write in another order than they minted, so no order of listing is  *)
(* assumed of archives.                                                    *)
(***************************************************************************)
EXTENDS Integers, FiniteSets

CONSTANTS
  Messages,     \* the ids a sender may use, each a natural number
  Handlers,     \* the compaction requests that may be in progress at once
  PageSize,     \* keys per page of a live listing (100 in the code)
  LastDay,      \* bound: the last UTC day of the run, counted from 0
  MaxArchives   \* bound: how many archives may be written

ASSUME MessagesAssumption == Messages \subseteq Nat
ASSUME PageSizeAssumption == PageSize \in Nat \ {0}
ASSUME BoundsAssumption   == LastDay \in Nat /\ MaxArchives \in Nat

VARIABLES
  live,      \* ids of the objects under `live/`
  archives,  \* the archive objects that exist
  nextKey,   \* the ULID the next archive will get
  today,     \* the UTC day
  job        \* job[h]: the local variables of compaction handler h

vars == <<live, archives, nextKey, today, job>>

Archive == [key : Nat, day : Nat, msgs : SUBSET Messages]

-----------------------------------------------------------------------------
(* Local state of a handler.  `listed` is to_compact, `existing` is        *)
(* existing_archive_keys and `merged` the entries read so far.  `todo` and *)
(* `todoArchives` are the objects still to GET, then those still to DELETE.*)

Phases == {"idle", "list", "getLive", "getArchives", "delete"}

Job == [pc           : Phases,
        upTo         : Nat,
        cursor       : Nat \cup {-1},
        listed       : SUBSET Messages,
        todo         : SUBSET Messages,
        day          : Nat,
        existing     : SUBSET Archive,
        todoArchives : SUBSET Archive,
        merged       : SUBSET Messages]

IdleJob == [pc |-> "idle", upTo |-> 0, cursor |-> -1, listed |-> {},
            todo |-> {}, day |-> 0, existing |-> {}, todoArchives |-> {},
            merged |-> {}]

TypeOK ==
  /\ live \subseteq Messages
  /\ archives \subseteq Archive
  /\ nextKey \in Nat
  /\ today \in Nat
  /\ job \in [Handlers -> Job]

Init ==
  /\ live = {}
  /\ archives = {}
  /\ nextKey = 0
  /\ today = 0
  /\ job = [h \in Handlers |-> IdleJob]

-----------------------------------------------------------------------------
(* The ids a set of archives holds, and what a reader can find. *)
Content(A) == UNION {a.msgs : a \in A}
Stored     == live \cup Content(archives)

(* One page of list_objects: the first PageSize keys after the exclusive   *)
(* cursor, and whether more follow.                                        *)
After(c)      == {k \in live : k > c}
Page(c)       == {k \in After(c) : Cardinality({j \in After(c) : j < k}) < PageSize}
Truncated(c)  == Page(c) # After(c)
IsLast(k, S)  == k \in S /\ \A j \in S : j <= k
IsFirst(k, S) == k \in S /\ \A j \in S : k <= j

-----------------------------------------------------------------------------
(* `send`: PUT inbox/{to}/live/{msg_id}.  The sender retries an ambiguous  *)
(* failure with the same id, so an id may be put again at any time.        *)
Deliver(m) ==
  /\ live' = live \cup {m}
  /\ UNCHANGED <<archives, nextKey, today, job>>

(* Handler h's locals become r.                                            *)
SetJob(h, r) == job' = [job EXCEPT ![h] = r]

(* A slip: only the key the client named is listed, not those below it.    *)
StartCompactAtBoundary(h, u) ==
  /\ job[h].pc = "idle"
  /\ SetJob(h, [IdleJob EXCEPT !.pc = "list", !.upTo = u, !.cursor = u - 1])
  /\ UNCHANGED <<live, archives, nextKey, today>>

(* `store_compact` accepts a request: everything up to id u.               *)
StartCompact(h, u) ==
  /\ job[h].pc = "idle"
  /\ SetJob(h, [IdleJob EXCEPT !.pc = "list", !.upTo = u])
  /\ UNCHANGED <<live, archives, nextKey, today>>

(* A slip: the boundary is exclusive.                                      *)
BelowBoundary(h) == {k \in Page(job[h].cursor) : k < job[h].upTo}

(* One page of the live listing.  The loop goes on while the page is       *)
(* truncated and its last key is not past the boundary.                    *)
WithinBoundary(h) == {k \in Page(job[h].cursor) : k <= job[h].upTo}

ListMore(h) ==
  /\ job[h].pc = "list"
  /\ Truncated(job[h].cursor)
  /\ \E k \in Page(job[h].cursor) :
       /\ IsLast(k, Page(job[h].cursor))
       /\ k <= job[h].upTo
       /\ SetJob(h, [job[h] EXCEPT
                       !.listed = job[h].listed \cup WithinBoundary(h),
                       !.cursor = k])
  /\ UNCHANGED <<live, archives, nextKey, today>>

(* A slip: the listing loop stops after its first page.                    *)
ListFirstPageOnly(h) ==
  /\ job[h].pc = "list"
  /\ LET all == job[h].listed \cup WithinBoundary(h)
     IN  SetJob(h, IF all = {} THEN IdleJob
                   ELSE [job[h] EXCEPT !.pc = "getLive", !.listed = all,
                                       !.todo = all])
  /\ UNCHANGED <<live, archives, nextKey, today>>

(* The listing ends; its upTo and cursor are not used again.               *)
ListDone(h) ==
  /\ job[h].pc = "list"
  /\ \/ ~Truncated(job[h].cursor)
     \/ \E k \in Page(job[h].cursor) : k > job[h].upTo
  /\ LET all == job[h].listed \cup WithinBoundary(h)
     IN  SetJob(h, IF all = {} THEN IdleJob      \* 200, archived: 0
                   ELSE [job[h] EXCEPT !.pc = "getLive", !.listed = all,
                                       !.todo = all, !.upTo = 0, !.cursor = -1])
  /\ UNCHANGED <<live, archives, nextKey, today>>

(* GET the next listed object; one deleted since the listing is skipped.   *)
GetLive(h) ==
  /\ job[h].pc = "getLive"
  /\ \E k \in job[h].todo :
       /\ IsFirst(k, job[h].todo)
       /\ SetJob(h, [job[h] EXCEPT
                       !.todo = job[h].todo \ {k},
                       !.merged = job[h].merged \cup ({k} \cap live)])
  /\ UNCHANGED <<live, archives, nextKey, today>>

(* Every listed object was read: take the day and list its archives.       *)
ListArchives(h) ==
  /\ job[h].pc = "getLive"
  /\ job[h].todo = {}
  /\ LET same == {a \in archives : a.day = today}
     IN  SetJob(h, [job[h] EXCEPT !.pc = "getArchives", !.day = today,
                                  !.existing = same, !.todoArchives = same])
  /\ UNCHANGED <<live, archives, nextKey, today>>

(* A slip: what an archive of the day holds is not carried over.           *)
GetArchiveUnmerged(h) ==
  /\ job[h].pc = "getArchives"
  /\ \E a \in job[h].todoArchives :
       SetJob(h, [job[h] EXCEPT !.todoArchives = job[h].todoArchives \ {a}])
  /\ UNCHANGED <<live, archives, nextKey, today>>

(* GET one of the archives; one that is gone is skipped.                   *)
GetArchive(h) ==
  /\ job[h].pc = "getArchives"
  /\ \E a \in job[h].todoArchives :
       SetJob(h, [job[h] EXCEPT
                    !.todoArchives = job[h].todoArchives \ {a},
                    !.merged = job[h].merged \cup Content({a} \cap archives)])
  /\ UNCHANGED <<live, archives, nextKey, today>>

(* A slip: the key is the day alone, so it does not tell archives apart.   *)
DailyArchive(h) == [key |-> 0, day |-> job[h].day, msgs |-> job[h].merged]

(* PUT the merged archive.  The two batches to delete come next.           *)
NewArchive(h) == [key |-> nextKey, day |-> job[h].day, msgs |-> job[h].merged]

(* A slip: the archives to delete are those of the day at the time of the  *)
(* PUT, not those that were read.                                          *)
PutThenDeleteTheDay(h) ==
  /\ job[h].pc = "getArchives"
  /\ job[h].todoArchives = {}
  /\ nextKey < MaxArchives
  /\ archives' = archives \cup {NewArchive(h)}
  /\ nextKey' = nextKey + 1
  /\ SetJob(h, [job[h] EXCEPT !.pc = "delete", !.todo = job[h].listed,
                   !.todoArchives = {a \in archives : a.day = job[h].day}])
  /\ UNCHANGED <<live, today>>

(* A slip: the merged archives are not deleted.                            *)
PutKeepingOld(h) ==
  /\ job[h].pc = "getArchives"
  /\ job[h].todoArchives = {}
  /\ nextKey < MaxArchives
  /\ archives' = archives \cup {NewArchive(h)}
  /\ nextKey' = nextKey + 1
  /\ SetJob(h, [job[h] EXCEPT !.pc = "delete", !.todo = job[h].listed])
  /\ UNCHANGED <<live, today>>

PutArchive(h) ==
  /\ job[h].pc = "getArchives"
  /\ job[h].todoArchives = {}
  /\ nextKey < MaxArchives
  /\ archives' = archives \cup {NewArchive(h)}
  /\ nextKey' = nextKey + 1
  /\ SetJob(h, [job[h] EXCEPT !.pc = "delete", !.todo = job[h].listed,
                              !.todoArchives = job[h].existing])
  /\ UNCHANGED <<live, today>>

(* delete_objects is one request, but the object store applies it key by   *)
(* key: others may run between two deletions, in any order.                *)
DeleteObjects(h) ==
  /\ job[h].pc = "delete"
  /\ \E L \in SUBSET job[h].todo, A \in SUBSET job[h].todoArchives :
       /\ L # {} \/ A # {}
       /\ live' = live \ L
       /\ archives' = archives \ A
       /\ SetJob(h, IF L = job[h].todo /\ A = job[h].todoArchives
                    THEN IdleJob
                    ELSE [job[h] EXCEPT
                            !.todo = job[h].todo \ L,
                            !.todoArchives = job[h].todoArchives \ A])
  /\ UNCHANGED <<nextKey, today>>

(* The handler ends early: a store call failed, the client hung up, the    *)
(* process died, or some keys of the batch were not deleted.  What it has  *)
(* already written stays; a PUT reported as failed may have been applied   *)
(* (PutArchive, then Abort).                                               *)
Abort(h) ==
  /\ job[h].pc # "idle"
  /\ SetJob(h, IdleJob)
  /\ UNCHANGED <<live, archives, nextKey, today>>

Midnight ==
  /\ today < LastDay
  /\ today' = today + 1
  /\ UNCHANGED <<live, archives, nextKey, job>>

Compaction(h) ==
  \/ \E u \in Messages : StartCompact(h, u)
  \/ ListMore(h)
  \/ ListDone(h)
  \/ GetLive(h)
  \/ ListArchives(h)
  \/ GetArchive(h)
  \/ PutArchive(h)
  \/ DeleteObjects(h)
  \/ Abort(h)

Next ==
  \/ \E m \in Messages : Deliver(m)
  \/ \E h \in Handlers : Compaction(h)
  \/ Midnight

Spec == Init /\ [][Next]_vars

-----------------------------------------------------------------------------
(* Refinement: compaction implements the mailbox that never loses anything *)
(* and never makes anything up, whatever the interleaving (store_compact:  *)
(* "No object is deleted before the new archive is durably written").      *)
M == INSTANCE Mailbox WITH stored <- Stored

ImplementsMailbox == M!Spec

(* The archives younger than every archive handler h listed.               *)
Younger(h) == {a \in archives : \A b \in job[h].existing : b.key < a.key}

(* store_compact may delete only what an archive it will not delete holds; *)
(* and that archive must be younger than any it listed, else the batch of  *)
(* another compaction, listed earlier, could still remove it.              *)
DeletesOnlyCovered ==
  \A h \in Handlers :
    job[h].pc = "delete" =>
      /\ Content(job[h].todoArchives \cap archives) \subseteq Content(Younger(h))
      /\ job[h].todo \cap live \subseteq Content(archives \ job[h].existing)

(* The listing loop of store_compact ends only when every live key after   *)
(* its cursor and up to the boundary is in to_compact: stopping at the     *)
(* first page past the boundary skips nothing.                             *)
ListsUpToBoundary ==
  [][\A h \in Handlers :
       job[h].pc = "list" /\ job'[h].pc = "getLive" =>
         {m \in live : job[h].cursor < m /\ m <= job[h].upTo}
           \subseteq job'[h].listed]_vars

(* Several archives of one day pile up when a compaction fails before it   *)
(* deletes; the next one that runs to its end leaves exactly one           *)
(* (docs/specs/mvp-v0.1.md: "At steady state there is exactly one archive  *)
(* per date").  For one handler: two compactions that overlap may leave    *)
(* both of their archives until the next.                                  *)
OneArchivePerDay ==
  [][\A h \in Handlers :
       job[h].pc = "delete" /\ job'[h].pc = "idle"
       /\ <<live, archives>>' # <<live, archives>> =>
         Cardinality({a \in archives' : a.day = job[h].day}) = 1]_vars

-----------------------------------------------------------------------------
(* The inductive invariant behind both: for handler h, what it has read is *)
(* stored; a listed object it no longer has to read was merged or is in an *)
(* archive; an archive it has read, if it still exists, is merged; and     *)
(* once its own archive is written, everything merged is held by an        *)
(* archive younger than any it listed.                                     *)
KeysAreFresh ==
  /\ \A a \in archives : a.key < nextKey
  /\ \A h \in Handlers : \A a \in job[h].existing : a.key < nextKey

ReadIsStored(h) ==
  /\ job[h].listed \subseteq Stored
  /\ job[h].merged \subseteq Stored

WorkIsListed(h) ==
  /\ job[h].todo \subseteq job[h].listed
  /\ job[h].todoArchives \subseteq job[h].existing

ReadLiveIsKept(h) ==
  /\ job[h].pc = "getLive" =>
       job[h].listed \ job[h].todo \subseteq job[h].merged \cup Content(archives)
  /\ job[h].pc \in {"getArchives", "delete"} =>
       job[h].listed \subseteq job[h].merged \cup Content(archives)

ReadArchivesAreMerged(h) ==
  /\ job[h].pc = "getArchives" =>
       Content((job[h].existing \ job[h].todoArchives) \cap archives)
         \subseteq job[h].merged
  /\ job[h].pc = "delete" =>
       Content(job[h].existing \cap archives) \subseteq job[h].merged

MergedIsWritten(h) ==
  job[h].pc = "delete" => job[h].merged \subseteq Content(Younger(h))

HandlerInv(h) ==
  /\ ReadIsStored(h)
  /\ WorkIsListed(h)
  /\ ReadLiveIsKept(h)
  /\ ReadArchivesAreMerged(h)
  /\ MergedIsWritten(h)

(* The invariant the proofs of InboxStoreProofs induct over: every handler *)
(* of store_compact keeps the five facts above.                            *)
CompactionInv ==
  /\ TypeOK
  /\ KeysAreFresh
  /\ \A h \in Handlers : HandlerInv(h)
=============================================================================
