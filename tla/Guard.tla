------------------------------- MODULE Guard -------------------------------
(***************************************************************************)
(* The request guard of the server with its two in-process caches           *)
(* (guard.rs, cache.rs, token.rs), seen from one account, and the handlers  *)
(* that change what the guard checks: add_device, delete_device,            *)
(* revoke_device, rotate_keys and delete_profile (routes.rs).               *)
(*                                                                          *)
(* A request that misses a cache asks the store, and writes the answer into *)
(* the cache when it arrives: the file may be gone by then, and the entry   *)
(* evicted already.  Every await of the code is a state of the request.     *)
(* Time passes in Tick, and a request takes at most RequestTime ticks.      *)
(***************************************************************************)
EXTENDS Naturals, FiniteSets

CONSTANTS GuardDevices, GuardRequests,
          DeviceTtl,     \* DEVICE_CACHE_TTL in ticks
          ProfileTtl,    \* PROFILE_CACHE_TTL in ticks
          RequestTime,   \* bound: ticks a request takes
          MaxKv          \* bound: key versions

ASSUME GuardAssumption ==
    /\ DeviceTtl \in Nat \ {0} /\ ProfileTtl \in Nat \ {0}
    /\ RequestTime \in Nat \ {0} /\ MaxKv \in Nat \ {0}

VARIABLES
    gFiles,    \* the devices whose file is in the store
    gKv,       \* the key_version of the stored profile, 0 when it is deleted
    gTokens,   \* the tokens issued: <<device, key_version>>
    gSeen,     \* DeviceCache: the ticks each entry is still fresh, 0 without one
    gProfile,  \* ProfileCache: the cached key_version and its freshness
    gReq,      \* the requests in the server
    gGone,     \* history: ticks since a device's file was deleted
    gOld,      \* history: ticks since a key_version was superseded
    gOut,      \* history: devices evicted while no request was about to cache them
    gKvOut     \* history: the same, for the key_version

gVars == <<gFiles, gKv, gTokens, gSeen, gProfile, gReq, gGone, gOld, gOut, gKvOut>>

Kvs == 1 .. MaxKv

\* History stops counting here: a little more than the longest a stale answer can last.
HistoryCap == (IF DeviceTtl > ProfileTtl THEN DeviceTtl ELSE ProfileTtl) + 2 * RequestTime

NoRequest == [pc |-> "idle"]

\* `rotates` is a request of rotate-keys (AuthedUserNoKv); `to` are the devices a handler
\* works on and `read` what it read of the profile.
Request == [pc : {"head", "headOk", "get", "getOk", "in", "evict", "evictKv", "wipe", "write"},
            rotates : BOOLEAN, dev : GuardDevices, kv : Kvs, to : SUBSET GuardDevices,
            read : 0 .. MaxKv, age : 0 .. RequestTime]

GuardInit ==
    /\ gFiles = GuardDevices
    /\ gKv = 1
    /\ gTokens = GuardDevices \X {1}
    /\ gSeen = [d \in GuardDevices |-> 0]
    /\ gProfile = [kv |-> 1, left |-> 0]
    /\ gReq = [r \in GuardRequests |-> NoRequest]
    /\ gGone = [d \in GuardDevices |-> 0]
    /\ gOld = [k \in Kvs |-> 0]
    /\ gOut = {}
    /\ gKvOut = FALSE

-----------------------------------------------------------------------------
\* The steps of `authenticate` that run without an await.

Entered(q) == [q EXCEPT !.pc = "in"]

\* The token's key_version must be the current one; a mismatch is KeyVersionStale.
WithVersion(q, current) == IF q.kv = current THEN Entered(q) ELSE NoRequest

\* The profile cache, or the profile; rotate-keys (AuthedUserNoKv) skips the check.
AskVersion(q) ==
    CASE q.rotates                          -> Entered(q)
      [] ~q.rotates /\ gProfile.left > 0    -> WithVersion(q, gProfile.kv)
      [] ~q.rotates /\ ~(gProfile.left > 0) -> [q EXCEPT !.pc = "get"]

\* The device cache, or a HEAD of the device's file.
AskDevice(q) == IF gSeen[q.dev] > 0 THEN AskVersion(q) ELSE [q EXCEPT !.pc = "head"]

\* A request with a token issued earlier: its HMAC stands for having been issued.
Arrive(r) ==
    \E t \in gTokens, rotates \in BOOLEAN :
        /\ gReq[r] = NoRequest
        /\ gReq' = [gReq EXCEPT ![r] = AskDevice(
               [pc |-> "head", rotates |-> rotates, dev |-> t[1], kv |-> t[2],
                to |-> {}, read |-> 0, age |-> 0])]
        /\ UNCHANGED <<gFiles, gKv, gTokens, gSeen, gProfile, gGone, gOld, gOut, gKvOut>>

\* head_object answers: the device is there, or it was revoked.
HeadDevice(r) ==
    /\ gReq[r].pc = "head"
    /\ gReq' = [gReq EXCEPT ![r] = IF gReq[r].dev \in gFiles
                                   THEN [gReq[r] EXCEPT !.pc = "headOk"] ELSE NoRequest]
    /\ UNCHANGED <<gFiles, gKv, gTokens, gSeen, gProfile, gGone, gOld, gOut, gKvOut>>

\* The answer arrives: device_cache.set, then on to the key version.
CacheDevice(r) ==
    /\ gReq[r].pc = "headOk"
    /\ gSeen' = [gSeen EXCEPT ![gReq[r].dev] = DeviceTtl]
    /\ gReq' = [gReq EXCEPT ![r] = AskVersion(gReq[r])]
    /\ UNCHANGED <<gFiles, gKv, gTokens, gProfile, gGone, gOld, gOut, gKvOut>>

\* get_object of the profile answers: its key_version, or no account (401).
GetProfile(r) ==
    /\ gReq[r].pc = "get"
    /\ gReq' = [gReq EXCEPT ![r] = IF gKv # 0
                                   THEN [gReq[r] EXCEPT !.pc = "getOk", !.read = gKv]
                                   ELSE NoRequest]
    /\ UNCHANGED <<gFiles, gKv, gTokens, gSeen, gProfile, gGone, gOld, gOut, gKvOut>>

\* The answer arrives: profile_cache.set, then the comparison.
CacheProfile(r) ==
    /\ gReq[r].pc = "getOk"
    /\ gProfile' = [kv |-> gReq[r].read, left |-> ProfileTtl]
    /\ gReq' = [gReq EXCEPT ![r] = WithVersion([gReq[r] EXCEPT !.read = 0], gReq[r].read)]
    /\ UNCHANGED <<gFiles, gKv, gTokens, gSeen, gGone, gOld, gOut, gKvOut>>

-----------------------------------------------------------------------------
\* The handlers.

Handling(r, rotates) == gReq[r].pc = "in" /\ gReq[r].rotates = rotates

\* Any handler that changes nothing the guard reads.
Serve(r) ==
    /\ Handling(r, FALSE)
    /\ gReq' = [gReq EXCEPT ![r] = NoRequest]
    /\ UNCHANGED <<gFiles, gKv, gTokens, gSeen, gProfile, gGone, gOld, gOut, gKvOut>>

\* delete_device (the calling device) and revoke_device (any, while there is a profile
\* to check the proof against): the file first.
RemoveDevice(r) ==
    /\ Handling(r, FALSE)
    /\ \E d \in GuardDevices :
        /\ d = gReq[r].dev \/ gKv # 0
        /\ gFiles' = gFiles \ {d}
        /\ gReq' = [gReq EXCEPT ![r].pc = "evict", ![r].to = {d}]
    /\ UNCHANGED <<gKv, gTokens, gSeen, gProfile, gGone, gOld, gOut, gKvOut>>

\* A request that read the file of d and has not cached it yet.
AboutToCache(d) == \E r \in GuardRequests : gReq[r].pc = "headOk" /\ gReq[r].dev = d

\* History: the devices whose entries are evicted for good, unless somebody logs in.
CutOff(to) == {d \in to : d \notin gFiles /\ ~AboutToCache(d)}

\* A slip: nothing is evicted, the time to live is relied on.
NotWithout(devs) == gSeen

\* The cache without the entries of these devices: device_cache.invalidate.
Without(devs) == [d \in GuardDevices |-> IF d \in devs THEN 0 ELSE gSeen[d]]

\* ... then its cache entry.
EvictDevice(r) ==
    /\ gReq[r].pc = "evict"
    /\ gSeen' = Without(gReq[r].to)
    /\ gOut' = gOut \cup CutOff(gReq[r].to)
    /\ gReq' = [gReq EXCEPT ![r] = NoRequest]
    /\ UNCHANGED <<gFiles, gKv, gTokens, gProfile, gGone, gOld, gKvOut>>

\* rotate_keys: its own precondition on the key_version, the write, the token.
RotateKeys(r) ==
    /\ Handling(r, TRUE)
    /\ IF gReq[r].kv = gKv /\ gKv < MaxKv
       THEN /\ gKv' = gKv + 1
            /\ gTokens' = gTokens \cup {<<gReq[r].dev, gKv + 1>>}
            /\ gKvOut' = FALSE
            /\ gReq' = [gReq EXCEPT ![r].pc = "evictKv"]
       ELSE /\ gReq' = [gReq EXCEPT ![r] = NoRequest]
            /\ UNCHANGED <<gKv, gTokens, gKvOut>>
    /\ UNCHANGED <<gFiles, gSeen, gProfile, gGone, gOld, gOut>>

\* ... then profile_cache.invalidate.
EvictProfile(r) ==
    /\ gReq[r].pc = "evictKv"
    /\ gProfile' = [gProfile EXCEPT !.left = 0]
    /\ gKvOut' = (gKv # 0 /\ \A s \in GuardRequests :
                      gReq[s].pc = "getOk" => gReq[s].read = gKv)
    /\ gReq' = [gReq EXCEPT ![r] = NoRequest]
    /\ UNCHANGED <<gFiles, gKv, gTokens, gSeen, gGone, gOld, gOut>>

\* delete_profile lists the account's objects and evicts the listed devices ...
WipeEvict(r) ==
    /\ Handling(r, FALSE) /\ gKv # 0
    /\ gSeen' = Without(gFiles)
    /\ gReq' = [gReq EXCEPT ![r].pc = "wipe", ![r].to = gFiles]
    /\ UNCHANGED <<gFiles, gKv, gTokens, gProfile, gGone, gOld, gOut, gKvOut>>

\* ... then deletes what it listed, the profile with the devices.
WipeDelete(r) ==
    /\ gReq[r].pc = "wipe"
    /\ gFiles' = gFiles \ gReq[r].to
    /\ gKv' = 0
    /\ gKvOut' = FALSE
    /\ gReq' = [gReq EXCEPT ![r] = NoRequest]
    /\ UNCHANGED <<gTokens, gSeen, gProfile, gGone, gOld, gOut>>

\* add_device reads the profile and compares the proof's key_version with it; the
\* device id is the client's.
StartLogin(r, d) ==
    /\ gReq[r] = NoRequest /\ gKv # 0
    /\ gReq' = [gReq EXCEPT ![r] = [pc |-> "write", rotates |-> FALSE, dev |-> d, kv |-> gKv,
                                    to |-> {}, read |-> 0, age |-> 0]]
    /\ UNCHANGED <<gFiles, gKv, gTokens, gSeen, gProfile, gGone, gOld, gOut, gKvOut>>

\* ... then it writes the device's file and answers with a token.
FinishLogin(r) ==
    /\ gReq[r].pc = "write"
    /\ gFiles' = gFiles \cup {gReq[r].dev}
    /\ gTokens' = gTokens \cup {<<gReq[r].dev, gReq[r].kv>>}
    /\ gGone' = [gGone EXCEPT ![gReq[r].dev] = 0]
    /\ gOut' = gOut \ {gReq[r].dev}
    /\ gReq' = [gReq EXCEPT ![r] = NoRequest]
    /\ UNCHANGED <<gKv, gSeen, gProfile, gOld, gKvOut>>

-----------------------------------------------------------------------------
\* A slip: a stale entry stays, as if every look at the cache renewed it.
NotAged(left) == left

\* elapsed() grows; an entry is trusted while elapsed() < ttl.
Aged(left) == IF left > 0 THEN left - 1 ELSE 0

GuardTick ==
    /\ \A r \in GuardRequests : gReq[r] # NoRequest => gReq[r].age < RequestTime
    /\ gSeen' = [d \in GuardDevices |-> Aged(gSeen[d])]
    /\ gProfile' = [gProfile EXCEPT !.left = Aged(gProfile.left)]
    /\ gReq' = [r \in GuardRequests |-> IF gReq[r] = NoRequest THEN NoRequest
                                        ELSE [gReq[r] EXCEPT !.age = @ + 1]]
    /\ gGone' = [d \in GuardDevices |->
                   IF d \in gFiles \/ gGone[d] = HistoryCap THEN gGone[d] ELSE gGone[d] + 1]
    /\ gOld' = [k \in Kvs |->
                   IF k = gKv \/ (gKv # 0 /\ k > gKv) \/ gOld[k] = HistoryCap
                   THEN gOld[k] ELSE gOld[k] + 1]
    /\ UNCHANGED <<gFiles, gKv, gTokens, gOut, gKvOut>>

Authenticate(r) == Arrive(r) \/ HeadDevice(r) \/ CacheDevice(r) \/ GetProfile(r) \/ CacheProfile(r)

Handle(r) ==
    \/ Serve(r) \/ RemoveDevice(r) \/ EvictDevice(r) \/ RotateKeys(r) \/ EvictProfile(r)
    \/ WipeEvict(r) \/ WipeDelete(r) \/ FinishLogin(r)
    \/ \E d \in GuardDevices : StartLogin(r, d)

GuardNext == GuardTick \/ \E r \in GuardRequests : Authenticate(r) \/ Handle(r)

GuardSpec == GuardInit /\ [][GuardNext]_gVars

-----------------------------------------------------------------------------
GuardTypeOK ==
    /\ gFiles \subseteq GuardDevices
    /\ gKv \in 0 .. MaxKv
    /\ gTokens \subseteq GuardDevices \X Kvs
    /\ gSeen \in [GuardDevices -> 0 .. DeviceTtl]
    /\ gProfile \in [kv : Kvs, left : 0 .. ProfileTtl]
    /\ gReq \in [GuardRequests -> Request \cup {NoRequest}]
    /\ gGone \in [GuardDevices -> 0 .. HistoryCap]
    /\ gOld \in [Kvs -> 0 .. HistoryCap]
    /\ gOut \subseteq GuardDevices
    /\ gKvOut \in BOOLEAN

(***************************************************************************)
(* "Both self-heal within their TTL" (guard.rs): no request is accepted     *)
(* with a device whose file is gone, or a key_version that was superseded,  *)
(* longer than the TTL and the time of the two requests involved, the one   *)
(* that filled the cache and the one that used it.                          *)
(***************************************************************************)
CutOffWithinTtl ==
    [][\A r \in GuardRequests :
         (gReq[r].pc # "in" /\ gReq'[r].pc = "in") =>
           LET q == gReq'[r] IN
           /\ gGone[q.dev] < DeviceTtl + 2 * RequestTime
           /\ ~q.rotates => gOld[q.kv] < ProfileTtl + 2 * RequestTime]_gVars

(***************************************************************************)
(* A removal or a rotation that evicted its entry while no request was      *)
(* about to write an older answer cuts the device, or the old key_version,  *)
(* off at once: the cache holds nothing stale about it again.               *)
(***************************************************************************)
EvictedStaysOut ==
    /\ \A d \in gOut : gSeen[d] = 0
    /\ gKvOut /\ gProfile.left > 0 => gProfile.kv = gKv

-----------------------------------------------------------------------------
(* What makes it so: nobody is about to cache what was evicted for good, and *)
(* what the requests read of the profile since then is current.             *)
CutOffStays == \A d \in gOut : d \notin gFiles /\ gSeen[d] = 0 /\ ~AboutToCache(d)
VersionStays ==
    gKvOut => /\ gKv # 0
              /\ gProfile.left > 0 => gProfile.kv = gKv
              /\ \A r \in GuardRequests : gReq[r].pc = "getOk" => gReq[r].read = gKv

ReadsAreVersions == \A r \in GuardRequests : gReq[r].pc = "getOk" => gReq[r].read # 0

GuardInv ==
    /\ GuardTypeOK
    /\ ReadsAreVersions
    /\ CutOffStays
    /\ VersionStays

-----------------------------------------------------------------------------
\* Why both heal: an answer is at most as old as its request when it is cached, is
\* trusted for a TTL from then on, and passed its check at most a request ago.
HistoryStarts ==
    /\ \A d \in gFiles : gGone[d] = 0
    /\ gKv # 0 => \A k \in Kvs : k >= gKv => gOld[k] = 0

DeviceHeals ==
    /\ \A d \in GuardDevices : gSeen[d] > 0 => gGone[d] + gSeen[d] <= DeviceTtl + RequestTime
    /\ \A r \in GuardRequests :
         /\ gReq[r].pc = "headOk" => gGone[gReq[r].dev] <= gReq[r].age
         /\ gReq[r].pc \in {"get", "getOk"} =>
              gGone[gReq[r].dev] < DeviceTtl + RequestTime + gReq[r].age

VersionHeals ==
    /\ gProfile.left > 0 => gOld[gProfile.kv] + gProfile.left <= ProfileTtl + RequestTime
    /\ \A r \in GuardRequests : gReq[r].pc = "getOk" => gOld[gReq[r].read] <= gReq[r].age

HealInv == GuardInv /\ HistoryStarts /\ DeviceHeals /\ VersionHeals
=============================================================================
