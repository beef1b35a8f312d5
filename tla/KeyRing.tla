------------------------------ MODULE KeyRing ------------------------------
(***************************************************************************)
(* The backup keys of one account, as its devices keep them: the change of   *)
(* password, the chain of wrapped keys it appends to, the blobs sealed under *)
(* the keys, and the walk that leads from the current key to an older one.   *)
(*                                                                         *)
(* A key is the password and the salt it is derived from.  A sealed blob is  *)
(* the version it names and the key that opens it.  The server accepts a     *)
(* rotation as module Account says: for the successor of the committed       *)
(* version, signed by the committed key.  A device whose token is refused    *)
(* signs out; until then it goes on under the credential it has.             *)
(***************************************************************************)
EXTENDS Integers, FiniteSets

CONSTANTS
  KeyDevices,    \* the devices of the account
  KeyPasswords,  \* the passwords its user may choose
  KeySessions,   \* message sessions whose keys are backed up
  MaxSalt,       \* bound: salts drawn, one per attempt to rotate
  Overlapping,   \* whether two devices may rotate at the same time
  ChainFaults    \* whether a GET of the chain may fail

ASSUME KeyRingAssumption ==
  KeyPasswords # {} /\ MaxSalt \in Nat \ {0} /\ Overlapping \in BOOLEAN /\ ChainFaults \in BOOLEAN

VARIABLES
  kAccount,   \* the committed credential: its key_version and key
  kSalt,      \* salts drawn so far
  kChain,     \* keys/{uid}/key_chain.json: the links
  kBlob,      \* kBlob[s]: the sealed backup of session s
  kContacts,  \* users/{uid}/contacts.json, sealed
  kDev        \* kDev[d]: the session and the running flow of device d

kVars == <<kAccount, kSalt, kChain, kBlob, kContacts, kDev>>

\* deriveSecretFromPassword and deriveKeys: the key is a function of both, and
\* two different pairs give two different keys.
Derive(password, salt) == [pw |-> password, salt |-> salt]

KeysOfRing == [pw : KeyPasswords, salt : 1..MaxSalt]
NoKey      == [pw |-> "none", salt |-> 0]
Versions   == 1..MaxSalt
Cred       == [kv : Versions, key : KeysOfRing]

\* backupEncrypt under the envelope's version; an old blob names none (0).
Sealed(v, key)  == [v |-> v, key |-> key]
Opens(box, key) == key # NoKey /\ box.key = key
NoBlob          == Sealed(0, NoKey)
VersionOf(box)  == IF box.v > 0 THEN box.v ELSE 1

SignedOut == [pc |-> "out", kv |-> 0, key |-> NoKey, readKv |-> 0, readKey |-> NoKey,
              new |-> NoKey, got |-> {}, memo |-> [v \in Versions |-> NoKey], pending |-> {}]
SignedIn(c) == [SignedOut EXCEPT !.pc = "in", !.kv = c.kv, !.key = c.key]

\* The flow ends and its locals with it; the session stays.
AtRest(r) == [r EXCEPT !.pc = "in", !.readKv = 0, !.readKey = NoKey, !.new = NoKey, !.got = {}]

SomeKey  == KeysOfRing \cup {NoKey}
SealedBy == [v : 0..MaxSalt, key : SomeKey]
Links    == [from : Versions, to : 2..(MaxSalt + 1), old : KeysOfRing, new : KeysOfRing]
DeviceState ==
  [pc : {"out", "in", "chain", "put", "post", "save", "revoke"}, kv : 0..MaxSalt, key : SomeKey,
   readKv : 0..MaxSalt, readKey : SomeKey, new : SomeKey, got : SUBSET Links,
   memo : [Versions -> SomeKey], pending : SUBSET KeySessions]

KeyRingTypeOK ==
  /\ kAccount \in Cred
  /\ kSalt \in 1..MaxSalt
  /\ kChain \subseteq Links /\ \A l \in kChain : l.to = l.from + 1
  /\ kBlob \in [KeySessions -> SealedBy] /\ kContacts \in SealedBy
  /\ kDev \in [KeyDevices -> DeviceState]
  /\ \A d \in KeyDevices :
       /\ kDev[d].pc # "out" => [kv |-> kDev[d].kv, key |-> kDev[d].key] \in Cred
       /\ kDev[d].kv <= kAccount.kv

\* One device is signed in (which one and with which password does not matter);
\* one session has a blob of before the versions.
KeyRingInit ==
  LET k     == Derive(CHOOSE p \in KeyPasswords : TRUE, 1)
      first == CHOOSE d \in KeyDevices : TRUE
      old   == CHOOSE s \in KeySessions : TRUE
  IN
  /\ kAccount = [kv |-> 1, key |-> k]
  /\ kSalt = 1
  /\ kChain = {}
  /\ kBlob = [s \in KeySessions |-> IF s = old THEN Sealed(0, k) ELSE NoBlob]
  /\ kContacts = NoBlob
  /\ kDev = [d \in KeyDevices |-> IF d = first THEN SignedIn(kAccount) ELSE SignedOut]

-----------------------------------------------------------------------------
(* The walk.                                                               *)

\* A slip: the version is not advanced.
LinkToItself(from, old, new) == [from |-> from, to |-> from, old |-> old, new |-> new]

\* buildChainLink: the old key wrapped under the new one, for one hop.
Link(from, old, new) == [from |-> from, to |-> from + 1, old |-> old, new |-> new]

\* A slip: the abandoned link of an earlier attempt is the one that is kept.
FirstLinkWins(chain, l) ==
  IF \E m \in chain : m.from = l.from /\ m.to = l.to THEN chain ELSE chain \cup {l}

\* appendChainLink: one link per hop.
WithLink(chain, l) == {m \in chain : ~(m.from = l.from /\ m.to = l.to)} \cup {l}

\* One hop of the walk: the key of version v, from the one above it.  What is
\* memoized is taken; of the links of the hop, one that the key above opens.  A
\* hop without one ends the walk.
Below(v, above, memo, chain) ==
  LET opening == {l \in chain : l.from = v /\ l.to = v + 1 /\ l.new = above} IN
  IF v < 1 \/ above = NoKey THEN NoKey
  ELSE IF memo[v] # NoKey THEN memo[v]
  ELSE IF opening = {} THEN NoKey ELSE (CHOOSE l \in opening : TRUE).old

\* The keys met on the way from version kv, under key, down to version 1.
Path(kv, key, memo, chain) ==
  LET path[i \in 0..MaxSalt] ==      \* i versions down from kv
        IF i = 0 THEN key ELSE Below(kv - i, path[i - 1], memo, chain)
  IN [v \in Versions |-> IF v <= kv THEN path[kv - v] ELSE NoKey]

\* resolveBackupKey: the key of version v, or NoKey where it throws.
ResolveBackupKey(kv, key, memo, chain, v) ==
  CASE v > kv                      -> NoKey
    [] v < kv /\ memo[v] # NoKey   -> memo[v]
    [] OTHER                       -> Path(kv, key, memo, chain)[v]

-----------------------------------------------------------------------------
(* Changing the password.                                                  *)

At(d, pc)       == kDev[d].pc = pc
Becomes(d, r)   == kDev' = [kDev EXCEPT ![d] = r]
Rotating        == {"chain", "put", "post", "save"}

SignIn(d) ==
  /\ At(d, "out")
  /\ Becomes(d, SignedIn(kAccount))
  /\ UNCHANGED <<kAccount, kSalt, kChain, kBlob, kContacts>>

\* The credential the rotation starts from: what the profile says.
CurrentOf(d) == kAccount

\* submit up to writing-chain: the profile is read, the current password is
\* checked against it, and the new key gets a salt of its own.
StartRotation(d) ==
  /\ At(d, "in")
  /\ kSalt < MaxSalt
  /\ Overlapping \/ \A e \in KeyDevices : kDev[e].pc \notin Rotating
  /\ \E current, new \in KeyPasswords :
       LET c == CurrentOf(d) IN
       /\ Derive(current, c.key.salt) = c.key
       /\ Becomes(d, [kDev[d] EXCEPT !.pc = "chain", !.readKv = c.kv, !.readKey = c.key,
                                     !.new = Derive(new, kSalt + 1)])
  /\ kSalt' = kSalt + 1
  /\ UNCHANGED <<kAccount, kChain, kBlob, kContacts>>

\* fetchChain: any failure reads as the empty chain.
FetchChain(d) ==
  /\ At(d, "chain")
  /\ \E got \in {kChain} \cup (IF ChainFaults THEN {{}} ELSE {}) :
       Becomes(d, [kDev[d] EXCEPT !.pc = "put", !.got = got])
  /\ UNCHANGED <<kAccount, kSalt, kChain, kBlob, kContacts>>

\* appendChainLink: the whole list is written back.  The PUT may fail with or
\* without being applied; the form then shows the error.
PutChain(d) ==
  LET r == kDev[d]
      next == WithLink(r.got, Link(r.readKv, r.readKey, r.new))
  IN
  /\ At(d, "put")
  /\ \/ kChain' = next /\ Becomes(d, [r EXCEPT !.pc = "post", !.got = {}])
     \/ kChain' \in {kChain, next} /\ Becomes(d, AtRest(r))
  /\ UNCHANGED <<kAccount, kSalt, kBlob, kContacts>>

\* rotateKeys, signed by the old key (signContinuity): the server commits it,
\* or answers that the version is stale, or the call fails on either side of
\* the commit.
PostRotation(d) ==
  LET r == kDev[d]
      accepted == r.readKv = kAccount.kv /\ r.readKey = kAccount.key
  IN
  /\ At(d, "post")
  /\ \/ /\ accepted
        /\ kAccount' = [kv |-> r.readKv + 1, key |-> r.new]
        /\ \/ Becomes(d, [r EXCEPT !.pc = "save"])
           \/ Becomes(d, AtRest(r))
     \/ ~accepted /\ Becomes(d, SignedOut) /\ UNCHANGED kAccount
     \/ Becomes(d, AtRest(r)) /\ UNCHANGED kAccount
  /\ UNCHANGED <<kSalt, kChain, kBlob, kContacts>>

\* The session is swapped in place; the memo and the queue stay.
SwapSession(d) ==
  LET r == kDev[d] IN
  /\ At(d, "save")
  /\ Becomes(d, [AtRest(r) EXCEPT !.kv = r.readKv + 1, !.key = r.new])
  /\ UNCHANGED <<kAccount, kSalt, kChain, kBlob, kContacts>>

\* The tab is closed, or an error ends the flow: the session is the old one.
AbandonRotation(d) ==
  /\ kDev[d].pc \in Rotating
  /\ Becomes(d, AtRest(kDev[d]))
  /\ UNCHANGED <<kAccount, kSalt, kChain, kBlob, kContacts>>

\* The token of a superseded version is refused: clearSession.
RefusedAsStale(d) ==
  /\ kDev[d].pc \in {"in", "revoke"}
  /\ kDev[d].kv < kAccount.kv
  /\ Becomes(d, SignedOut)
  /\ UNCHANGED <<kAccount, kSalt, kChain, kBlob, kContacts>>

-----------------------------------------------------------------------------
(* Revoking a device: the proof carries the version read before the password *)
(* was stretched, and the server compares it with the committed one.         *)

StartRevoke(d) ==
  /\ At(d, "in")
  /\ \E entered \in KeyPasswords :
       Becomes(d, [kDev[d] EXCEPT !.pc = "revoke", !.readKv = kAccount.kv,
                                  !.readKey = Derive(entered, kAccount.key.salt)])
  /\ UNCHANGED <<kAccount, kSalt, kChain, kBlob, kContacts>>

PostRevoke(d, e) ==
  LET r == kDev[d]
      accepted == r.readKv = kAccount.kv /\ r.readKey = kAccount.key
  IN
  /\ At(d, "revoke") /\ e # d
  /\ kDev' = IF accepted THEN [kDev EXCEPT ![d] = AtRest(r), ![e] = SignedOut]
             ELSE [kDev EXCEPT ![d] = AtRest(r)]
  /\ UNCHANGED <<kAccount, kSalt, kChain, kBlob, kContacts>>

-----------------------------------------------------------------------------
(* What is sealed under the keys, and what opens it.                       *)

\* backupSessionKey; where it fails the session waits in the retry queue.
BackupSessionKey(d, s) ==
  LET r == kDev[d] IN
  /\ r.pc # "out"
  /\ \/ /\ kBlob' = [kBlob EXCEPT ![s] = Sealed(r.kv, r.key)]
        /\ UNCHANGED kDev
     \/ /\ Becomes(d, [r EXCEPT !.pending = @ \cup {s}])
        /\ UNCHANGED kBlob
  /\ UNCHANGED <<kAccount, kSalt, kChain, kContacts>>

\* flushPendingKeyBackups: sealed anew under the key the device has now.
FlushPending(d, s) ==
  LET r == kDev[d] IN
  /\ r.pc # "out" /\ s \in r.pending
  /\ kBlob' = [kBlob EXCEPT ![s] = Sealed(r.kv, r.key)]
  /\ Becomes(d, [r EXCEPT !.pending = @ \ {s}])
  /\ UNCHANGED <<kAccount, kSalt, kChain, kContacts>>

UploadContacts(d) ==
  /\ kDev[d].pc # "out"
  /\ kContacts' = Sealed(kDev[d].kv, kDev[d].key)
  /\ UNCHANGED <<kAccount, kSalt, kChain, kBlob, kDev>>

\* The blobs a device reads: the session keys and the contacts.
Boxes == {kBlob[s] : s \in KeySessions} \cup {kContacts}

\* restoreSessionKeys, restoreContacts: every key the walk recovers on the way
\* to a blob of an older version is kept (putBackupKey).
Restore(d, box) ==
  LET r == kDev[d]
      v == VersionOf(box)
      path == Path(r.kv, r.key, r.memo, kChain)
  IN
  /\ r.pc # "out" /\ box # NoBlob /\ v < r.kv
  /\ Becomes(d, [r EXCEPT !.memo = [u \in Versions |->
                   IF v <= u /\ u < r.kv /\ @[u] = NoKey THEN path[u] ELSE @[u]]])
  /\ UNCHANGED <<kAccount, kSalt, kChain, kBlob, kContacts>>

KeyRingNext ==
  \E d \in KeyDevices :
    \/ SignIn(d) \/ StartRotation(d) \/ FetchChain(d) \/ PutChain(d) \/ PostRotation(d)
    \/ SwapSession(d) \/ AbandonRotation(d) \/ RefusedAsStale(d) \/ StartRevoke(d)
    \/ \E e \in KeyDevices : PostRevoke(d, e)
    \/ \E s \in KeySessions : BackupSessionKey(d, s) \/ FlushPending(d, s)
    \/ UploadContacts(d)
    \/ \E box \in Boxes : Restore(d, box)

\* The holder of a credential, with what it has memoized, opens every blob whose
\* version is not newer than its own.
OpensAll(kv, key, memo) ==
  \A box \in Boxes \ {NoBlob} :
    VersionOf(box) <= kv =>
      Opens(box, ResolveBackupKey(kv, key, memo, kChain, VersionOf(box)))

\* No backup is ever lost to a change of password: a fresh sign-in under the
\* committed credential opens every blob in the store, whatever attempts
\* failed on the way, and so does every signed-in device for the versions up to
\* its own, through what it has memoized (useRotateKeys, appendChainLink,
\* resolveBackupKey, ADR-0012).
HistoryReachable ==
  /\ OpensAll(kAccount.kv, kAccount.key, [v \in Versions |-> NoKey])
  /\ \A d \in KeyDevices : kDev[d].pc # "out" => OpensAll(kDev[d].kv, kDev[d].key, kDev[d].memo)

-----------------------------------------------------------------------------
(* Why nothing is lost while rotations do not overlap and every GET of the    *)
(* chain answers: the committed keys form one history, and all that is kept    *)
(* anywhere is of that history.                                            *)

\* The links of a hop.
Hop(v) == {l \in kChain : l.from = v /\ l.to = v + 1}

\* A rotation starts from the committed credential with a salt of its own, and
\* the link it has put is the one in the chain.
FlowIsCurrent(r) ==
  /\ r.pc \in Rotating => r.new \in KeysOfRing
  /\ r.pc \in {"chain", "put", "post"} =>
       r.readKv = kAccount.kv /\ r.readKey = kAccount.key /\ r.readKv < kSalt
  /\ r.pc = "put" => r.got = kChain
  /\ r.pc = "post" => Hop(r.readKv) = {Link(r.readKv, r.readKey, r.new)}
  /\ r.pc = "save" => kAccount.kv = r.readKv + 1 /\ kAccount.key = r.new

OneRotation ==
  /\ kAccount.kv <= kSalt
  /\ \A d \in KeyDevices : FlowIsCurrent(kDev[d])
  /\ \A d, e \in KeyDevices : kDev[d].pc \in Rotating /\ kDev[e].pc \in Rotating => d = e

\* H[v] is the key that version v was committed with: the account has the last
\* one, and the chain leads down to the first.
Committed(H) ==
  /\ H[kAccount.kv] = kAccount.key
  /\ \A v \in Versions : v < kAccount.kv => Hop(v) = {Link(v, H[v], H[v + 1])}

\* The key of a session, and what it has memoized.
HoldsHistory(H, kv, key, memo) ==
  /\ kv \in Versions /\ kv <= kAccount.kv /\ key = H[kv]
  /\ \A v \in Versions : memo[v] # NoKey => v <= kAccount.kv /\ memo[v] = H[v]

\* A blob is sealed under the key of the version it names.
SealedInHistory(H, box) ==
  box # NoBlob => VersionOf(box) <= kAccount.kv /\ box.key = H[VersionOf(box)]

IsHistory(H) ==
  /\ Committed(H)
  /\ \A d \in KeyDevices :
       kDev[d].pc # "out" => HoldsHistory(H, kDev[d].kv, kDev[d].key, kDev[d].memo)
  /\ \A box \in Boxes : SealedInHistory(H, box)

KeyRingInv ==
  /\ KeyRingTypeOK /\ OneRotation
  /\ \E H \in [Versions -> KeysOfRing] : IsHistory(H)

KeyRingSpec == KeyRingInit /\ [][KeyRingNext]_kVars
=============================================================================
