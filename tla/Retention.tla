----------------------------- MODULE Retention -----------------------------
(***************************************************************************)
(* One sweep of the retention cleanup (cleanup.rs) while users go on using   *)
(* their accounts.  The sweep pages over handles/, reads what it needs of    *)
(* each account call by call, and deletes what matches a policy; a call that *)
(* fails is counted and the sweep goes on.  The dates are told apart only    *)
(* by which side of the threshold of `opts.now` they are.                    *)
(***************************************************************************)
EXTENDS Naturals, FiniteSets

CONSTANTS HandleKeys,    \* 1 .. n: the keys under handles/, in key order
          SweepPage,     \* HANDLES_PAGE_SIZE
          SweepBatch     \* batch_size of the options

ASSUME RetentionAssumption ==
    /\ HandleKeys \in SUBSET (Nat \ {0}) /\ IsFiniteSet(HandleKeys)
    /\ SweepPage \in Nat \ {0} /\ SweepBatch \in Nat

VARIABLES
    tHandle,    \* [HandleKeys -> "free", "live", a fresh "reserved" or an "expired" tombstone]
    tUser,      \* [HandleKeys -> what the policies read of the account behind it]
    tSweep,     \* the sweep
    tDry,       \* dry_run
    tNever,     \* history: the handles that have had one owner since the sweep began, and
                \*  matched no policy
    tAlways,    \* history: the handles that matched one all the time
    tDeleted    \* history: the handles the sweep deleted, for a policy

tVars == <<tHandle, tUser, tSweep, tDry, tNever, tAlways, tDeleted>>

\* unnamed: no display_name, and created before the grace period.  silent: last_active
\* is set and too old.
Account0 == [exists : BOOLEAN, unnamed : BOOLEAN, silent : BOOLEAN, inbox : SUBSET {"live", "archive"}]
SweepState == [pc : {"list", "key", "profile", "first", "second", "wipe", "rest", "handle",
                     "tombstone", "done"},
               page : SUBSET HandleKeys, cursor : HandleKeys \cup {0}, more : BOOLEAN,
               silent : BOOLEAN, deleted : 0 .. SweepBatch, errors : Nat]

NoUser == [exists |-> FALSE, unnamed |-> FALSE, silent |-> FALSE, inbox |-> {}]

\* What the policies are about, read at one instant.
MatchesPolicy(h, handle, user) ==
    \/ handle[h] = "expired"
    \/ /\ handle[h] = "live" /\ user[h].exists
       /\ user[h].silent \/ (user[h].unnamed /\ user[h].inbox = {})

RetentionInit ==
    /\ tHandle \in [HandleKeys -> {"free", "live", "reserved", "expired"}]
    /\ tUser \in [HandleKeys -> {NoUser} \cup {u \in Account0 : u.exists}]
    /\ \A h \in HandleKeys : tUser[h].exists <=> tHandle[h] = "live"
    /\ tSweep = [pc |-> "list", page |-> {}, cursor |-> 0, more |-> TRUE, silent |-> FALSE,
               deleted |-> 0, errors |-> 0]
    /\ tDry \in BOOLEAN
    /\ tAlways = {h \in HandleKeys : MatchesPolicy(h, tHandle, tUser)}
    /\ tNever = HandleKeys \ tAlways
    /\ tDeleted = {}

-----------------------------------------------------------------------------
\* The sweep.  `page` is what is left of the listed page, its first key the one at work.

At(pc) == tSweep.pc = pc
FirstOf(keys) == CHOOSE k \in keys : \A j \in keys : k <= j
Current == FirstOf(tSweep.page)
Goto(pc) == tSweep' = [tSweep EXCEPT !.pc = pc]
NextKey == [tSweep EXCEPT !.pc = "key", !.page = @ \ {Current}]

\* A call of the store fails: errors += 1, and on with the next key.
CallFails == tSweep' = [NextKey EXCEPT !.errors = @ + 1]

\* A slip: the last page is taken to be one key larger.
NoMoreButOne(keys) == Cardinality(keys) <= SweepPage + 1

\* No next_cursor: the page holds all the keys that are left.
NoMore(keys) == Cardinality(keys) <= SweepPage

\* One page of a listing, which is in the order of the keys.
FirstKeys(keys) == {k \in keys : Cardinality({j \in keys : j <= k}) <= SweepPage}

\* list_objects("handles/"), start-after the last key of the page before.
ListHandles ==
    /\ At("list")
    /\ IF tSweep.deleted < SweepBatch /\ tSweep.more
       THEN LET keys == {h \in HandleKeys : tHandle[h] # "free" /\ h > tSweep.cursor}
                page == FirstKeys(keys) IN
            \E last \in IF page = {} THEN {tSweep.cursor} ELSE {k \in page : \A j \in page : j <= k} :
                tSweep' = [tSweep EXCEPT !.pc = "key", !.page = page, !.more = ~NoMore(keys),
                                         !.cursor = last]
       ELSE Goto("done")
    /\ UNCHANGED <<tHandle, tUser, tDry, tNever, tAlways, tDeleted>>

\* The next key of the page: GET its projection, and go by what it says.
EvaluateHandle ==
    /\ At("key")
    /\ CASE tSweep.page = {} \/ tSweep.deleted >= SweepBatch -> Goto("list")
         [] OTHER -> \/ CASE tHandle[Current] = "free"     -> CallFails
                          [] tHandle[Current] = "live"     -> Goto("profile")
                          [] tHandle[Current] = "expired"  -> Goto("tombstone")
                          [] tHandle[Current] = "reserved" -> tSweep' = NextKey
                     \/ CallFails
    /\ UNCHANGED <<tHandle, tUser, tDry, tNever, tAlways, tDeleted>>

\* Only the policy of the silent accounts is left.
IfSilent(silent) == IF silent THEN Goto("wipe") ELSE tSweep' = NextKey

\* GET the profile: a dangling handle is kept; an unnamed account is looked into first.
EvaluateProfile ==
    /\ At("profile")
    /\ LET u == tUser[Current] IN
       \/ CASE ~u.exists             -> tSweep' = NextKey
            [] u.exists /\ u.unnamed  -> tSweep' = [tSweep EXCEPT !.pc = "first", !.silent = u.silent]
            [] u.exists /\ ~u.unnamed -> IfSilent(u.silent)
       \/ CallFails
    /\ UNCHANGED <<tHandle, tUser, tDry, tNever, tAlways, tDeleted>>

\* A slip: the archives are listed before the live messages.
ArchivesFirst == <<"archive", "live">>

\* The listings of inbox_empty.
ListingOrder == <<"live", "archive">>

\* One of its listings: with a message found, the account is not an abandoned one.
ListInbox(i) ==
    /\ At(IF i = 1 THEN "first" ELSE "second")
    /\ \/ IF ListingOrder[i] \in tUser[Current].inbox THEN IfSilent(tSweep.silent)
          ELSE Goto(IF i = 1 THEN "second" ELSE "wipe")
       \/ CallFails
    /\ UNCHANGED <<tHandle, tUser, tDry, tNever, tAlways, tDeleted>>

Counted == [NextKey EXCEPT !.deleted = @ + 1]

\* A match in a dry run is only counted.
DryMatch ==
    /\ At("wipe") \/ At("tombstone")
    /\ tDry
    /\ tSweep' = Counted
    /\ UNCHANGED <<tHandle, tUser, tDry, tNever, tAlways, tDeleted>>

\* delete_user: the objects of the account, profile first, each prefix page by page.
WipeAccount ==
    /\ At("wipe") /\ ~tDry
    /\ \/ /\ tUser' = [tUser EXCEPT ![Current] = [NoUser EXCEPT !.inbox = tUser[Current].inbox]]
          /\ Goto("rest")
       \/ CallFails /\ UNCHANGED tUser
    /\ UNCHANGED <<tHandle, tDry, tNever, tAlways, tDeleted>>

WipeInbox ==
    /\ At("rest")
    /\ \/ /\ tUser' = [tUser EXCEPT ![Current].inbox = {}]
          /\ Goto("handle")
       \/ CallFails /\ UNCHANGED tUser
    /\ UNCHANGED <<tHandle, tDry, tNever, tAlways, tDeleted>>

\* ... then the handle; a tombstone is a handle and nothing else.
DeleteHandle ==
    /\ At("handle") \/ (At("tombstone") /\ ~tDry)
    /\ \/ /\ tHandle' = [tHandle EXCEPT ![Current] = "free"]
          /\ tDeleted' = tDeleted \cup {Current}
          /\ tSweep' = Counted
       \/ CallFails /\ UNCHANGED <<tHandle, tDeleted>>
    /\ UNCHANGED <<tUser, tDry, tNever, tAlways>>

Sweep == \/ ListHandles \/ EvaluateHandle \/ EvaluateProfile \/ ListInbox(1) \/ ListInbox(2)
         \/ DryMatch \/ WipeAccount \/ WipeInbox \/ DeleteHandle

-----------------------------------------------------------------------------
\* The users, through the server (its handlers are the matter of Account): they are
\* active, named, written to and compacted, leave, and come.

UserDoes(h) ==
    /\ ~At("done")
    /\ \/ /\ tUser[h].exists
          /\ \/ tUser' = [tUser EXCEPT ![h].silent = FALSE]
             \/ tUser' = [tUser EXCEPT ![h].unnamed = FALSE]
             \/ tUser' = [tUser EXCEPT ![h].inbox = @ \cup {"live"}]
             \/ /\ "live" \in tUser[h].inbox
                /\ tUser' = [tUser EXCEPT ![h].inbox = {"archive"}]
          /\ UNCHANGED tHandle
       \/ /\ tUser[h].exists
          /\ tUser' = [tUser EXCEPT ![h] = NoUser]
          /\ tHandle' = [tHandle EXCEPT ![h] = "reserved"]
       \/ /\ tHandle[h] \in {"free", "expired"}
          /\ tUser' = [tUser EXCEPT ![h] = [NoUser EXCEPT !.exists = TRUE]]
          /\ tHandle' = [tHandle EXCEPT ![h] = "live"]
    /\ tNever' = IF tHandle' # tHandle \/ MatchesPolicy(h, tHandle', tUser')
                 THEN tNever \ {h} ELSE tNever
    /\ tAlways' = IF MatchesPolicy(h, tHandle', tUser') THEN tAlways ELSE tAlways \ {h}
    /\ UNCHANGED <<tSweep, tDry, tDeleted>>

RetentionNext == Sweep \/ \E h \in HandleKeys : UserDoes(h)

RetentionSpec == RetentionInit /\ [][RetentionNext]_tVars

-----------------------------------------------------------------------------
RetentionTypeOK ==
    /\ tHandle \in [HandleKeys -> {"free", "live", "reserved", "expired"}]
    /\ tUser \in [HandleKeys -> Account0]
    /\ tSweep \in SweepState /\ tDry \in BOOLEAN
    /\ tNever \cup tAlways \subseteq HandleKeys /\ tDeleted \subseteq HandleKeys

(***************************************************************************)
(* A handle that matched no policy at any instant of the sweep is spared,    *)
(* although its account was read in several calls with compactions, logins   *)
(* and messages between them.  (A handle that changes hands while the sweep  *)
(* looks at it may lose what it has become: a reservation written since the  *)
(* profile was read, or an account registered over an expired tombstone.)    *)
(***************************************************************************)
SparesTheLiving ==
    /\ tDeleted \cap tNever = {}
    /\ At("rest") \/ At("handle") => Current \notin tNever

(***************************************************************************)
(* A sweep that ended below its batch size without an error has deleted      *)
(* every handle that matched all the time, whatever page it was on; a dry    *)
(* run has deleted nothing.                                                  *)
(***************************************************************************)
SweepIsComplete ==
    /\ At("done") /\ tSweep.errors = 0 /\ tSweep.deleted < SweepBatch /\ ~tDry =>
         tAlways \subseteq tDeleted
    /\ tDry => tDeleted = {}

-----------------------------------------------------------------------------
\* Why: what the sweep is at work on, and what it has read of it.
Working == tSweep.pc \in {"profile", "first", "second", "wipe", "rest", "handle", "tombstone"}

SweepIsAt ==
    /\ Working => tSweep.page # {} /\ tSweep.deleted < SweepBatch
    /\ At("list") /\ tSweep.deleted < SweepBatch => tSweep.page = {}
    /\ tDry => tDeleted = {} /\ ~At("rest") /\ ~At("handle")

\* A spared handle whose account was unnamed has had messages since, and the listing
\* that missed them in one place finds them in the other.
SparedSoFar ==
    /\ tDeleted \cap tNever = {}
    /\ \A h \in tNever : ~MatchesPolicy(h, tHandle, tUser)
    /\ Working /\ Current \in tNever =>
         /\ tSweep.pc \in {"profile", "first", "second"} /\ tHandle[Current] = "live"
         /\ ~At("profile") => ~tSweep.silent /\ tUser[Current].inbox # {}
         /\ At("second") => "archive" \in tUser[Current].inbox

\* The handles a complete sweep has yet to delete.
Due == IF tSweep.errors = 0 /\ ~tDry THEN tAlways \ tDeleted ELSE {}

DueMatch == \A h \in Due : MatchesPolicy(h, tHandle, tUser) \/ ((At("rest") \/ At("handle")) /\ h = Current)

Ahead(h) == h \in tSweep.page \/ (tSweep.more /\ h > tSweep.cursor)

NothingSkipped == tSweep.deleted < SweepBatch => \A h \in Due : Ahead(h) /\ ~At("done")

WorkIsDue ==
    Working /\ Current \in Due =>
        /\ tSweep.pc \in {"profile", "first", "second"} => tHandle[Current] = "live"
        /\ tSweep.pc \in {"first", "second"} => (tUser[Current].silent => tSweep.silent)

RetentionInv == RetentionTypeOK /\ SweepIsAt /\ SparedSoFar /\ DueMatch /\ NothingSkipped /\ WorkIsDue
=============================================================================
