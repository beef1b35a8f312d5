---------------------------- MODULE SessionStore ----------------------------
(***************************************************************************)
(* One browser's storage and the account it belongs to: localStorage names    *)
(* the owner, one IndexedDB database, the same for every account, holds its    *)
(* keys and its data (auth.ts, useSession, useLogin, openDB, deleteDatabase).  *)
(*                                                                         *)
(* A tab keeps its database connection open; a deletion waits for the          *)
(* connections of the other tabs, and what opens the database meanwhile waits  *)
(* behind it.  What a tab has in memory is gone when it is closed.             *)
(***************************************************************************)
EXTENDS Naturals, FiniteSets

CONSTANTS
  BrowserTabs,
  LocalUsers,   \* accounts that use the browser
  Nobody,
  NarrowRaces   \* may a sync that outlives its session write after the next sign-in's
                \* wipe, and a tab start while another stores its sign-in?

ASSUME StoreAssumption == Nobody \notin LocalUsers /\ NarrowRaces \in BOOLEAN

VARIABLES
  oOwner,   \* localStorage's userId, with the token and the rest
  oKeys,    \* the `keys` store: whose sharing key, whose backup key
  oData,    \* the accounts whose messages, sessions, cursors ... the database holds
  oTab,     \* oTab[t]: where tab t is, its session, its open connection
  oSync     \* oSync[t]: the account for which tab t is syncing

oVars == <<oOwner, oKeys, oData, oTab, oSync>>

Anyone == LocalUsers \cup {Nobody}
KeyNames == {"sharing", "backup"}

ClosedTab == [pc |-> "closed", user |-> Nobody, open |-> FALSE]

StoreTypeOK ==
  /\ oOwner \in Anyone
  /\ oKeys \in [KeyNames -> Anyone]
  /\ oData \subseteq LocalUsers
  /\ oTab \in [BrowserTabs -> [pc : {"closed", "queued", "keys", "out", "owner", "wipe", "local",
                                     "sharing", "backup", "in", "teardown", "wipeout"},
                               user : Anyone, open : BOOLEAN]]
  /\ oSync \in [BrowserTabs -> Anyone]
  /\ \A t \in BrowserTabs : oTab[t].pc = "closed" => oTab[t] = ClosedTab /\ oSync[t] = Nobody

StoreInit ==
  /\ oOwner = Nobody
  /\ oKeys = [k \in KeyNames |-> Nobody]
  /\ oData = {}
  /\ oTab = [t \in BrowserTabs |-> ClosedTab]
  /\ oSync = [t \in BrowserTabs |-> Nobody]

TabGoes(t, pc)       == oTab' = [oTab EXCEPT ![t].pc = pc]
Opened(t, pc, u)     == oTab' = [oTab EXCEPT ![t] = [pc |-> pc, user |-> u, open |-> TRUE]]
Deleting             == {t \in BrowserTabs : oTab[t].pc \in {"wipe", "wipeout"}}
\* openDB: the tab has its connection, or no deletion is ahead of it.
CanOpen(t)           == oTab[t].open \/ Deleting = {}
\* Leftovers of an earlier session: syncs of another account than u.
Leftover(u)          == {t \in BrowserTabs : oSync[t] \notin {Nobody, u}}

-----------------------------------------------------------------------------
(* Starting a tab (loadSession).                                           *)

\* localStorage is read; where it is complete the database is opened next, in the
\* same task.
StartTab(t) ==
  /\ oTab[t].pc = "closed"
  /\ NarrowRaces \/ \A x \in BrowserTabs : oTab[x].pc \notin {"local", "sharing", "backup"}
  /\ oTab' = [oTab EXCEPT ![t] =
       IF oOwner = Nobody THEN [@ EXCEPT !.pc = "out"]
       ELSE [pc |-> IF Deleting = {} THEN "keys" ELSE "queued", user |-> oOwner, open |-> Deleting = {}]]
  /\ UNCHANGED <<oOwner, oKeys, oData, oSync>>

\* The tab that was deleting the database was closed: it is opened after all.
OpenAtLast(t) ==
  /\ oTab[t].pc = "queued" /\ Deleting = {}
  /\ Opened(t, "keys", oTab[t].user)
  /\ UNCHANGED <<oOwner, oKeys, oData, oSync>>

\* The session is restored if both keys are there.
LoadKeys(t) ==
  /\ oTab[t].pc = "keys"
  /\ IF Nobody \in {oKeys[k] : k \in KeyNames}
     THEN Opened(t, "out", Nobody) ELSE TabGoes(t, "in")
  /\ UNCHANGED <<oOwner, oKeys, oData, oSync>>

CloseTab(t) ==
  /\ oTab[t].pc # "closed"
  /\ oTab' = [oTab EXCEPT ![t] = ClosedTab]
  /\ oSync' = [oSync EXCEPT ![t] = Nobody]
  /\ UNCHANGED <<oOwner, oKeys, oData>>

-----------------------------------------------------------------------------
(* Signing in (useLogin, useRegister) and saveSession.                     *)

\* The server accepted the proof: saveSession begins.  One tab signs in at a time.
SubmitLogin(t, u) ==
  /\ oTab[t].pc = "out"
  /\ \A x \in BrowserTabs : oTab[x].pc \notin {"owner", "wipe", "local", "sharing", "backup"}
  /\ oTab' = [oTab EXCEPT ![t].pc = "owner", ![t].user = u]
  /\ UNCHANGED <<oOwner, oKeys, oData, oSync>>

\* A changed password is saved under the account that is signed in.
SaveRotated(t) ==
  /\ oTab[t].pc = "in"
  /\ \A x \in BrowserTabs : oTab[x].pc \notin {"owner", "wipe", "local", "sharing", "backup"}
  /\ TabGoes(t, "owner")
  /\ UNCHANGED <<oOwner, oKeys, oData, oSync>>

\* A slip: a browser without an owner has nothing to wipe.
TrustsNull(u) == oOwner \notin {Nobody, u}

\* A null owner counts as a mismatch.
OwnerChanged(u) == oOwner # u

\* wipeIfAccountChanged: deleteDatabase closes the tab's own connection.
CheckOwner(t) ==
  /\ oTab[t].pc = "owner"
  /\ IF OwnerChanged(oTab[t].user)
     THEN oTab' = [oTab EXCEPT ![t].pc = "wipe", ![t].open = FALSE]
     ELSE TabGoes(t, "local")
  /\ UNCHANGED <<oOwner, oKeys, oData, oSync>>

\* The last connection closed: the database is gone, and what waited to open it
\* opens an empty one.  A tab that was starting finds no keys.
Wiped(t) ==
  [x \in BrowserTabs |->
     IF x = t THEN [oTab[t] EXCEPT !.pc = IF @ = "wipe" THEN "local" ELSE "out",
                                   !.user = IF oTab[t].pc = "wipe" THEN @ ELSE Nobody]
     ELSE IF oTab[x].pc = "queued" THEN [pc |-> "out", user |-> Nobody, open |-> TRUE]
     ELSE oTab[x]]

DatabaseDeleted(t) ==
  /\ t \in Deleting
  /\ oTab[t].pc = "wipe" => NarrowRaces \/ Leftover(oTab[t].user) = {}
  /\ \A x \in BrowserTabs : ~oTab[x].open
  /\ oKeys' = [k \in KeyNames |-> Nobody]
  /\ oData' = {}
  /\ oTab' = Wiped(t)
  /\ UNCHANGED <<oOwner, oSync>>

\* localStorage is written in one task ...
StoreLocal(t) ==
  /\ oTab[t].pc = "local"
  /\ oOwner' = oTab[t].user
  /\ TabGoes(t, "sharing")
  /\ UNCHANGED <<oKeys, oData, oSync>>

\* ... and the two keys each in a transaction; then the tab is signed in.
PutKey(t) ==
  /\ oTab[t].pc \in KeyNames
  /\ CanOpen(t)
  /\ oKeys' = [oKeys EXCEPT ![oTab[t].pc] = oTab[t].user]
  /\ Opened(t, IF oTab[t].pc = "sharing" THEN "backup" ELSE "in", oTab[t].user)
  /\ UNCHANGED <<oOwner, oData, oSync>>

-----------------------------------------------------------------------------
(* A session at work, and its end.                                         *)

StartTabSync(t) ==
  /\ oTab[t].pc = "in" /\ oSync[t] = Nobody
  /\ oSync' = [oSync EXCEPT ![t] = oTab[t].user]
  /\ UNCHANGED <<oOwner, oKeys, oData, oTab>>

\* A write of the sync; nothing stops one whose session has ended meanwhile, and
\* it opens the database again.
SyncWrites(t) ==
  /\ oSync[t] # Nobody
  /\ CanOpen(t)
  /\ oData' = oData \cup {oSync[t]}
  /\ oTab' = [oTab EXCEPT ![t].open = TRUE]
  /\ UNCHANGED <<oOwner, oKeys, oSync>>

EndTabSync(t) ==
  /\ oSync[t] # Nobody
  /\ oSync' = [oSync EXCEPT ![t] = Nobody]
  /\ UNCHANGED <<oOwner, oKeys, oData, oTab>>

\* The user logs out or deletes the account, or a call is answered with
\* device_revoked or key_version_stale: the session is dropped first.
Teardown(t) ==
  /\ oTab[t].pc = "in"
  /\ TabGoes(t, "teardown")
  /\ UNCHANGED <<oOwner, oKeys, oData, oSync>>

\* clearSession, a task later: clearToken, then deleteDatabase.
ClearSession(t) ==
  /\ oTab[t].pc = "teardown"
  /\ oOwner' = Nobody
  /\ oTab' = [oTab EXCEPT ![t].pc = "wipeout", ![t].open = FALSE]
  /\ UNCHANGED <<oKeys, oData, oSync>>

\* handleUnauthorized: the token is cleared and the database stays.
Unauthorized(t) ==
  /\ oTab[t].pc = "in"
  /\ oOwner' = Nobody
  /\ oTab' = [oTab EXCEPT ![t].pc = "out", ![t].user = Nobody]
  /\ UNCHANGED <<oKeys, oData, oSync>>

StoreNext == \E t \in BrowserTabs :
  \/ StartTab(t) \/ OpenAtLast(t) \/ LoadKeys(t) \/ CloseTab(t)
  \/ \E u \in LocalUsers : SubmitLogin(t, u)
  \/ SaveRotated(t) \/ CheckOwner(t) \/ DatabaseDeleted(t) \/ StoreLocal(t) \/ PutKey(t)
  \/ StartTabSync(t) \/ SyncWrites(t) \/ EndTabSync(t)
  \/ Teardown(t) \/ ClearSession(t) \/ Unauthorized(t)

StoreSpec == StoreInit /\ [][StoreNext]_oVars

\* One account at a time: what the database holds, keys and data, belongs to the
\* account that localStorage names, and a tab at work for another account finds
\* no owner named, whatever tabs were closed during a sign-in, a logout or a wipe
\* (saveSession: without the wipe "authenticating as account B on a browser that
\* last held account A inherits A's cached messages").
OneOwner ==
  oOwner # Nobody =>
    /\ oData \subseteq {oOwner}
    /\ \A k \in KeyNames : oKeys[k] \in {oOwner, Nobody}
    /\ \A t \in BrowserTabs : oTab[t].pc = "in" => oTab[t].user = oOwner

-----------------------------------------------------------------------------
(* What makes it so: whoever is named, or is about to be, has the browser to   *)
(* itself, tabs that are starting and syncs that go on included; one tab signs  *)
(* in at a time; and a tab that has a session has the database open, so that   *)
(* a wipe waits for it.                                                      *)
SigningIn(t) == oTab[t].pc \in {"owner", "wipe", "local", "sharing", "backup"}

HasItAlone(u) ==
  /\ oData \subseteq {u}
  /\ \A k \in KeyNames : oKeys[k] \in {u, Nobody}
  /\ \A t \in BrowserTabs :
       /\ oTab[t].pc \in {"queued", "keys", "in"} => oTab[t].user = u
       /\ oSync[t] \in {u, Nobody}

SessionsHoldOpen == \A t \in BrowserTabs :
  /\ oTab[t].pc \in {"keys", "in", "teardown"} => oTab[t].open
  /\ SigningIn(t) \/ oTab[t].pc \in {"queued", "keys", "in"} => oTab[t].user \in LocalUsers

StoreInv ==
  /\ StoreTypeOK
  /\ SessionsHoldOpen
  /\ \A t, x \in BrowserTabs : SigningIn(t) /\ SigningIn(x) => t = x
  /\ oOwner # Nobody => HasItAlone(oOwner)
  /\ \A t \in BrowserTabs :
       /\ oTab[t].pc \in {"local", "sharing", "backup"} => HasItAlone(oTab[t].user)
       /\ oTab[t].pc \in {"sharing", "backup"} => oOwner \in {oTab[t].user, Nobody}
=============================================================================
