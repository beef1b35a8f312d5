-------------------------- MODULE ServerEdgeProofs ---------------------------
(***************************************************************************)
(* Proofs about the parts of ServerEdge - the request guard, the proof of     *)
(* work of a registration, the media quota, the delivery of a message and    *)
(* the retention sweep - and about their composition, for any devices,       *)
(* requests, forms, blobs, messages, handles and times to live.              *)
(***************************************************************************)
EXTENDS ServerEdge, OrderLemmas, FiniteSetTheorems, TLAPS

-----------------------------------------------------------------------------
(* The guard.                                                               *)

(* The steps of authenticate that run without an await leave a request in the *)
(* handler, refused, or waiting for an answer: none is about to cache one.    *)

LEMMA EnteredType == ASSUME NEW q \in Request PROVE Entered(q) \in Request /\ Entered(q).pc = "in"
BY DEF Entered, Request

LEMMA WithVersionType ==
  ASSUME NEW q \in Request, NEW k
  PROVE  /\ WithVersion(q, k) \in Request \cup {NoRequest}
         /\ WithVersion(q, k).pc \in {"in", "idle"}
BY EnteredType DEF WithVersion, NoRequest

LEMMA AskVersionType ==
  ASSUME NEW q \in Request
  PROVE  /\ AskVersion(q) \in Request \cup {NoRequest}
         /\ AskVersion(q).pc \in {"in", "idle", "get"}
<1>1. CASE q.rotates
  BY <1>1, EnteredType DEF AskVersion
<1>2. CASE ~q.rotates /\ gProfile.left > 0
  BY <1>2, WithVersionType DEF AskVersion
<1>3. CASE ~q.rotates /\ ~(gProfile.left > 0)
  <2>1. AskVersion(q) = [q EXCEPT !.pc = "get"]
    BY <1>3, Zenon DEF AskVersion
  <2>. QED  BY <2>1 DEF Request
<1>. QED  BY <1>1, <1>2, <1>3 DEF Request

LEMMA AskDeviceType ==
  ASSUME NEW q \in Request
  PROVE  /\ AskDevice(q) \in Request \cup {NoRequest}
         /\ AskDevice(q).pc \in {"in", "idle", "get", "head"}
<1>1. [q EXCEPT !.pc = "head"] \in Request /\ [q EXCEPT !.pc = "head"].pc = "head"
  BY DEF Request
<1>. QED  BY <1>1, AskVersionType DEF AskDevice

(* A request that a step replaces; the others stay as they are.            *)
LEMMA RequestTyped ==
  ASSUME GuardTypeOK, NEW r \in GuardRequests, gReq[r].pc # "idle"  PROVE gReq[r] \in Request
BY DEF GuardTypeOK, NoRequest

LEMMA NextRequest ==
  ASSUME GuardTypeOK, NEW r \in GuardRequests, NEW q \in Request \cup {NoRequest},
         gReq' = [gReq EXCEPT ![r] = q]
  PROVE  /\ gReq' \in [GuardRequests -> Request \cup {NoRequest}]
         /\ gReq'[r] = q
         /\ \A s \in GuardRequests : s # r => gReq'[s] = gReq[s]
BY DEF GuardTypeOK

(* A request that neither is about to cache its device nor has read the       *)
(* profile endangers nothing that was evicted.                             *)
LEMMA HarmlessRequest ==
  ASSUME ReadsAreVersions, CutOffStays, VersionStays, NEW r \in GuardRequests,
         gReq'[r].pc \notin {"headOk", "getOk"},
         \A s \in GuardRequests : s # r => gReq'[s] = gReq[s],
         UNCHANGED <<gFiles, gKv, gSeen, gProfile, gOut, gKvOut>>
  PROVE  ReadsAreVersions' /\ CutOffStays' /\ VersionStays'
<1>1. CutOffStays'
  BY DEF CutOffStays, AboutToCache
<1>2. ReadsAreVersions' /\ VersionStays'
  BY DEF ReadsAreVersions, VersionStays
<1>. QED  BY <1>1, <1>2

LEMMA GuardInvInit == GuardInit => GuardInv
<1>. SUFFICES ASSUME GuardInit PROVE GuardInv
  OBVIOUS
<1>. USE GuardAssumption DEF GuardInit
<1>1. 0 \in 0 .. HistoryCap
  BY DEF HistoryCap
<1>2. GuardTypeOK
  <2>1. gSeen \in [GuardDevices -> 0 .. DeviceTtl] /\ gProfile \in [kv : Kvs, left : 0 .. ProfileTtl]
    BY DEF Kvs
  <2>2. gReq \in [GuardRequests -> Request \cup {NoRequest}]
    OBVIOUS
  <2>3. gTokens \subseteq GuardDevices \X Kvs /\ gKv \in 0 .. MaxKv
    BY DEF Kvs
  <2>. QED  BY <1>1, <2>1, <2>2, <2>3 DEF GuardTypeOK
<1>3. ReadsAreVersions /\ CutOffStays /\ VersionStays
  BY DEF ReadsAreVersions, CutOffStays, VersionStays, NoRequest
<1>. QED  BY <1>2, <1>3 DEF GuardInv

-----------------------------------------------------------------------------
(* authenticate.                                                           *)

LEMMA ArriveKeeps == ASSUME GuardInv, NEW r \in GuardRequests, Arrive(r) PROVE GuardInv'
<1>. USE DEF GuardInv
<1>1. PICK t \in gTokens, rotates \in BOOLEAN :
        gReq' = [gReq EXCEPT ![r] = AskDevice(
            [pc |-> "head", rotates |-> rotates, dev |-> t[1], kv |-> t[2],
             to |-> {}, read |-> 0, age |-> 0])]
  BY DEF Arrive
<1>. DEFINE q == [pc |-> "head", rotates |-> rotates, dev |-> t[1], kv |-> t[2],
                  to |-> {}, read |-> 0, age |-> 0]
<1>2. q \in Request
  BY GuardAssumption DEF GuardTypeOK, Request, Kvs
<1>3. UNCHANGED <<gFiles, gKv, gTokens, gSeen, gProfile, gGone, gOld, gOut, gKvOut>>
  BY DEF Arrive
<1>. HIDE DEF q
<1>4. gReq' = [gReq EXCEPT ![r] = AskDevice(q)]
  BY <1>1 DEF q
<1>5. /\ gReq' \in [GuardRequests -> Request \cup {NoRequest}]
      /\ gReq'[r] = AskDevice(q)
      /\ \A s \in GuardRequests : s # r => gReq'[s] = gReq[s]
  BY <1>2, <1>4, AskDeviceType, NextRequest
<1>6. GuardTypeOK'
  BY <1>3, <1>5 DEF GuardTypeOK
<1>7. gReq'[r].pc \notin {"headOk", "getOk"}
  BY <1>2, <1>5, AskDeviceType
<1>. QED  BY <1>3, <1>5, <1>6, <1>7, HarmlessRequest

(* head_object sees the file: it is not cut off.                           *)
LEMMA HeadKeeps == ASSUME GuardInv, NEW r \in GuardRequests, HeadDevice(r) PROVE GuardInv'
<1>. USE DEF GuardInv
<1>1. /\ gReq[r].pc = "head" /\ gReq[r] \in Request
      /\ UNCHANGED <<gFiles, gKv, gTokens, gSeen, gProfile, gGone, gOld, gOut, gKvOut>>
  BY RequestTyped DEF HeadDevice
<1>2. CASE gReq[r].dev \in gFiles
  <2>. DEFINE q == [gReq[r] EXCEPT !.pc = "headOk"]
  <2>1. q \in Request /\ q.pc = "headOk" /\ q.dev = gReq[r].dev
    BY <1>1 DEF Request
  <2>2. gReq' = [gReq EXCEPT ![r] = q]
    BY <1>2 DEF HeadDevice
  <2>. HIDE DEF q
  <2>3. /\ gReq' \in [GuardRequests -> Request \cup {NoRequest}] /\ gReq'[r] = q
        /\ \A s \in GuardRequests : s # r => gReq'[s] = gReq[s]
    BY <2>1, <2>2, NextRequest
  <2>4. GuardTypeOK'
    BY <1>1, <2>3 DEF GuardTypeOK
  <2>5. CutOffStays'
    BY <1>1, <1>2, <2>1, <2>3 DEF CutOffStays, AboutToCache
  <2>6. ReadsAreVersions' /\ VersionStays'
    BY <1>1, <2>1, <2>3 DEF ReadsAreVersions, VersionStays
  <2>. QED  BY <2>4, <2>5, <2>6
<1>3. CASE gReq[r].dev \notin gFiles
  <2>1. gReq' = [gReq EXCEPT ![r] = NoRequest]
    BY <1>3 DEF HeadDevice
  <2>2. /\ gReq' \in [GuardRequests -> Request \cup {NoRequest}] /\ gReq'[r] = NoRequest
        /\ \A s \in GuardRequests : s # r => gReq'[s] = gReq[s]
    BY <2>1, NextRequest
  <2>3. GuardTypeOK'
    BY <1>1, <2>2 DEF GuardTypeOK
  <2>. QED  BY <1>1, <2>2, <2>3, HarmlessRequest DEF NoRequest
<1>. QED  BY <1>2, <1>3

(* device_cache.set: who is about to call it has a device that is not cut off. *)
LEMMA CacheDeviceKeeps == ASSUME GuardInv, NEW r \in GuardRequests, CacheDevice(r) PROVE GuardInv'
<1>. USE DEF GuardInv
<1>1. /\ gReq[r].pc = "headOk" /\ gReq[r] \in Request /\ gReq[r].dev \in GuardDevices
      /\ gSeen' = [gSeen EXCEPT ![gReq[r].dev] = DeviceTtl]
      /\ gReq' = [gReq EXCEPT ![r] = AskVersion(gReq[r])]
      /\ UNCHANGED <<gFiles, gKv, gTokens, gProfile, gGone, gOld, gOut, gKvOut>>
  BY RequestTyped DEF CacheDevice, Request
<1>2. /\ gReq' \in [GuardRequests -> Request \cup {NoRequest}] /\ gReq'[r] = AskVersion(gReq[r])
      /\ \A s \in GuardRequests : s # r => gReq'[s] = gReq[s]
  BY <1>1, AskVersionType, NextRequest
<1>3. gReq'[r].pc \notin {"headOk", "getOk"}
  BY <1>1, <1>2, AskVersionType
<1>4. GuardTypeOK'
  <2>1. DeviceTtl \in 0 .. DeviceTtl
    BY GuardAssumption
  <2>2. gSeen' \in [GuardDevices -> 0 .. DeviceTtl]
    BY <1>1, <2>1, Zenon DEF GuardTypeOK
  <2>. QED  BY <1>1, <1>2, <2>2 DEF GuardTypeOK
<1>5. gReq[r].dev \notin gOut
  BY <1>1 DEF CutOffStays, AboutToCache
<1>6. CutOffStays'
  BY <1>1, <1>2, <1>3, <1>5 DEF CutOffStays, AboutToCache, GuardTypeOK
<1>7. ReadsAreVersions' /\ VersionStays'
  BY <1>1, <1>2, <1>3 DEF ReadsAreVersions, VersionStays
<1>. QED  BY <1>4, <1>6, <1>7

LEMMA GetKeeps == ASSUME GuardInv, NEW r \in GuardRequests, GetProfile(r) PROVE GuardInv'
<1>. USE DEF GuardInv
<1>1. /\ gReq[r].pc = "get" /\ gReq[r] \in Request
      /\ UNCHANGED <<gFiles, gKv, gTokens, gSeen, gProfile, gGone, gOld, gOut, gKvOut>>
  BY RequestTyped DEF GetProfile
<1>2. CASE gKv # 0
  <2>. DEFINE q == [gReq[r] EXCEPT !.pc = "getOk", !.read = gKv]
  <2>1. q \in Request /\ q.pc = "getOk" /\ q.read = gKv
    BY <1>1 DEF Request, GuardTypeOK
  <2>2. gReq' = [gReq EXCEPT ![r] = q]
    BY <1>2 DEF GetProfile
  <2>. HIDE DEF q
  <2>3. /\ gReq' \in [GuardRequests -> Request \cup {NoRequest}] /\ gReq'[r] = q
        /\ \A s \in GuardRequests : s # r => gReq'[s] = gReq[s]
    BY <2>1, <2>2, NextRequest
  <2>4. GuardTypeOK'
    BY <1>1, <2>3 DEF GuardTypeOK
  <2>5. CutOffStays'
    BY <1>1, <2>1, <2>3 DEF CutOffStays, AboutToCache
  <2>6. ReadsAreVersions' /\ VersionStays'
    BY <1>1, <1>2, <2>1, <2>3 DEF ReadsAreVersions, VersionStays
  <2>. QED  BY <2>4, <2>5, <2>6
<1>3. CASE gKv = 0
  <2>1. gReq' = [gReq EXCEPT ![r] = NoRequest]
    BY <1>3 DEF GetProfile
  <2>2. /\ gReq' \in [GuardRequests -> Request \cup {NoRequest}] /\ gReq'[r] = NoRequest
        /\ \A s \in GuardRequests : s # r => gReq'[s] = gReq[s]
    BY <2>1, NextRequest
  <2>3. GuardTypeOK'
    BY <1>1, <2>2 DEF GuardTypeOK
  <2>. QED  BY <1>1, <2>2, <2>3, HarmlessRequest DEF NoRequest
<1>. QED  BY <1>2, <1>3

(* profile_cache.set: while an eviction holds, what was read is current.    *)
LEMMA CacheProfileKeeps == ASSUME GuardInv, NEW r \in GuardRequests, CacheProfile(r) PROVE GuardInv'
<1>. USE DEF GuardInv
<1>. DEFINE q == [gReq[r] EXCEPT !.read = 0]
<1>1. /\ gReq[r].pc = "getOk" /\ gReq[r] \in Request
      /\ gProfile' = [kv |-> gReq[r].read, left |-> ProfileTtl]
      /\ gReq' = [gReq EXCEPT ![r] = WithVersion(q, gReq[r].read)]
      /\ UNCHANGED <<gFiles, gKv, gTokens, gSeen, gGone, gOld, gOut, gKvOut>>
  BY RequestTyped DEF CacheProfile
<1>2. q \in Request
  <2>1. 0 \in 0 .. MaxKv
    BY GuardAssumption
  <2>. QED  BY <1>1, <2>1 DEF Request
<1>. HIDE DEF q
<1>3. /\ gReq' \in [GuardRequests -> Request \cup {NoRequest}]
      /\ gReq'[r] = WithVersion(q, gReq[r].read)
      /\ \A s \in GuardRequests : s # r => gReq'[s] = gReq[s]
  BY <1>1, <1>2, WithVersionType, NextRequest
<1>4. gReq'[r].pc \notin {"headOk", "getOk"}
  BY <1>2, <1>3, WithVersionType
<1>5. CutOffStays'
  BY <1>1, <1>3, <1>4 DEF CutOffStays, AboutToCache
<1>6. ReadsAreVersions' /\ VersionStays'
  BY <1>1, <1>3, <1>4 DEF ReadsAreVersions, VersionStays
<1>7. GuardTypeOK'
  <2>1. gReq[r].read \in Kvs
    BY <1>1, GuardAssumption DEF ReadsAreVersions, Request, Kvs
  <2>2. gProfile' \in [kv : Kvs, left : 0 .. ProfileTtl]
    BY <1>1, <2>1, GuardAssumption
  <2>. QED  BY <1>1, <1>3, <2>2 DEF GuardTypeOK
<1>. QED  BY <1>5, <1>6, <1>7

-----------------------------------------------------------------------------
(* The handlers.                                                           *)

(* A handler that ends, or goes on without having touched the store.       *)
LEMMA ServeKeeps == ASSUME GuardInv, NEW r \in GuardRequests, Serve(r) PROVE GuardInv'
<1>. USE DEF GuardInv
<1>1. /\ gReq' = [gReq EXCEPT ![r] = NoRequest]
      /\ UNCHANGED <<gFiles, gKv, gTokens, gSeen, gProfile, gGone, gOld, gOut, gKvOut>>
  BY DEF Serve
<1>2. /\ gReq' \in [GuardRequests -> Request \cup {NoRequest}] /\ gReq'[r] = NoRequest
      /\ \A s \in GuardRequests : s # r => gReq'[s] = gReq[s]
  BY <1>1, NextRequest
<1>3. GuardTypeOK'
  BY <1>1, <1>2 DEF GuardTypeOK
<1>. QED  BY <1>1, <1>2, <1>3, HarmlessRequest DEF NoRequest

(* delete_device, revoke_device: fewer files.                              *)
LEMMA RemoveKeeps == ASSUME GuardInv, NEW r \in GuardRequests, RemoveDevice(r) PROVE GuardInv'
<1>. USE DEF GuardInv
<1>1. PICK d \in GuardDevices :
        /\ gFiles' = gFiles \ {d}
        /\ gReq' = [gReq EXCEPT ![r].pc = "evict", ![r].to = {d}]
  BY DEF RemoveDevice
<1>. DEFINE q == [gReq[r] EXCEPT !.pc = "evict", !.to = {d}]
<1>2. /\ gReq[r] \in Request
      /\ UNCHANGED <<gKv, gTokens, gSeen, gProfile, gGone, gOld, gOut, gKvOut>>
  BY RequestTyped DEF RemoveDevice, Handling
<1>3. q \in Request /\ q.pc = "evict"
  BY <1>2 DEF Request
<1>4. gReq' = [gReq EXCEPT ![r] = q]
  BY <1>1 DEF GuardTypeOK
<1>. HIDE DEF q
<1>5. /\ gReq' \in [GuardRequests -> Request \cup {NoRequest}] /\ gReq'[r] = q
      /\ \A s \in GuardRequests : s # r => gReq'[s] = gReq[s]
  BY <1>3, <1>4, NextRequest
<1>6. GuardTypeOK'
  BY <1>1, <1>2, <1>5 DEF GuardTypeOK
<1>7. CutOffStays'
  BY <1>1, <1>2, <1>3, <1>5 DEF CutOffStays, AboutToCache
<1>8. ReadsAreVersions' /\ VersionStays'
  BY <1>2, <1>3, <1>5 DEF ReadsAreVersions, VersionStays
<1>. QED  BY <1>6, <1>7, <1>8

(* Evicting entries makes the cache emptier.                               *)
LEMMA WithoutType ==
  ASSUME GuardTypeOK, NEW devs
  PROVE  /\ Without(devs) \in [GuardDevices -> 0 .. DeviceTtl]
         /\ \A d \in GuardDevices : gSeen[d] = 0 \/ d \in devs => Without(devs)[d] = 0
BY GuardAssumption DEF GuardTypeOK, Without

(* device_cache.invalidate: what counts as cut off has no file, and nobody  *)
(* about to cache it.                                                      *)
LEMMA EvictKeeps == ASSUME GuardInv, NEW r \in GuardRequests, EvictDevice(r) PROVE GuardInv'
<1>. USE DEF GuardInv
<1>1. /\ gReq[r].pc = "evict" /\ gReq[r] \in Request
      /\ gSeen' = Without(gReq[r].to)
      /\ gOut' = gOut \cup CutOff(gReq[r].to)
      /\ gReq' = [gReq EXCEPT ![r] = NoRequest]
      /\ UNCHANGED <<gFiles, gKv, gTokens, gProfile, gGone, gOld, gKvOut>>
  BY RequestTyped DEF EvictDevice
<1>2. /\ gReq' \in [GuardRequests -> Request \cup {NoRequest}] /\ gReq'[r] = NoRequest
      /\ \A s \in GuardRequests : s # r => gReq'[s] = gReq[s]
  BY <1>1, NextRequest
<1>3. gReq[r].to \subseteq GuardDevices
  BY <1>1 DEF Request
<1>4. GuardTypeOK'
  <2>1. gOut' \subseteq GuardDevices
    BY <1>1, <1>3 DEF CutOff, GuardTypeOK
  <2>. QED  BY <1>1, <1>2, <2>1, WithoutType DEF GuardTypeOK
<1>5. CutOffStays'
  <2>. SUFFICES ASSUME NEW d \in gOut'
                PROVE  d \notin gFiles' /\ gSeen'[d] = 0 /\ ~AboutToCache(d)'
    BY DEF CutOffStays
  <2>1. d \in GuardDevices /\ d \notin gFiles /\ ~AboutToCache(d)
    BY <1>1, <1>3 DEF CutOff, CutOffStays, GuardTypeOK
  <2>2. gSeen'[d] = 0
    BY <1>1, <2>1, WithoutType DEF CutOff, CutOffStays
  <2>. QED  BY <1>1, <1>2, <2>1, <2>2 DEF AboutToCache, NoRequest
<1>6. ReadsAreVersions' /\ VersionStays'
  BY <1>1, <1>2 DEF ReadsAreVersions, VersionStays, NoRequest
<1>. QED  BY <1>4, <1>5, <1>6

(* rotate_keys writes the profile first, and the cache is stale until the    *)
(* eviction.                                                               *)
LEMMA RotateKeeps == ASSUME GuardInv, NEW r \in GuardRequests, RotateKeys(r) PROVE GuardInv'
<1>. USE DEF GuardInv
<1>1. /\ gReq[r].pc = "in" /\ gReq[r] \in Request
      /\ UNCHANGED <<gFiles, gSeen, gProfile, gGone, gOld, gOut>>
  BY RequestTyped DEF RotateKeys, Handling
<1>2. CASE gReq[r].kv = gKv /\ gKv < MaxKv
  <2>. DEFINE q == [gReq[r] EXCEPT !.pc = "evictKv"]
  <2>1. /\ gKv' = gKv + 1 /\ gTokens' = gTokens \cup {<<gReq[r].dev, gKv + 1>>}
        /\ gKvOut' = FALSE /\ gReq' = [gReq EXCEPT ![r].pc = "evictKv"]
    BY <1>2 DEF RotateKeys
  <2>2. q \in Request /\ q.pc = "evictKv"
    BY <1>1 DEF Request
  <2>3. gReq' = [gReq EXCEPT ![r] = q]
    BY <2>1 DEF GuardTypeOK
  <2>. HIDE DEF q
  <2>4. /\ gReq' \in [GuardRequests -> Request \cup {NoRequest}] /\ gReq'[r] = q
        /\ \A s \in GuardRequests : s # r => gReq'[s] = gReq[s]
    BY <2>2, <2>3, NextRequest
  <2>5. GuardTypeOK'
    <3>1. gKv' \in 0 .. MaxKv /\ gKv + 1 \in Kvs
      BY <1>2, <2>1, GuardAssumption DEF GuardTypeOK, Kvs
    <3>2. gReq[r].dev \in GuardDevices
      BY <1>1 DEF Request
    <3>3. gTokens' \subseteq GuardDevices \X Kvs
      BY <2>1, <3>1, <3>2 DEF GuardTypeOK
    <3>. QED  BY <1>1, <2>1, <2>4, <3>1, <3>3 DEF GuardTypeOK
  <2>6. CutOffStays' /\ ReadsAreVersions' /\ VersionStays'
    BY <1>1, <2>1, <2>2, <2>4 DEF CutOffStays, AboutToCache, ReadsAreVersions, VersionStays
  <2>. QED  BY <2>5, <2>6
<1>3. CASE ~(gReq[r].kv = gKv /\ gKv < MaxKv)
  <2>1. gReq' = [gReq EXCEPT ![r] = NoRequest] /\ UNCHANGED <<gKv, gTokens, gKvOut>>
    BY <1>3 DEF RotateKeys
  <2>2. /\ gReq' \in [GuardRequests -> Request \cup {NoRequest}] /\ gReq'[r] = NoRequest
        /\ \A s \in GuardRequests : s # r => gReq'[s] = gReq[s]
    BY <2>1, NextRequest
  <2>3. GuardTypeOK'
    BY <1>1, <2>1, <2>2 DEF GuardTypeOK
  <2>. QED  BY <1>1, <2>1, <2>2, <2>3, HarmlessRequest DEF NoRequest
<1>. QED  BY <1>2, <1>3

(* profile_cache.invalidate: the entry is gone, and whether it stays away is *)
(* a matter of who has read the profile before.                            *)
LEMMA EvictProfileKeeps == ASSUME GuardInv, NEW r \in GuardRequests, EvictProfile(r) PROVE GuardInv'
<1>. USE DEF GuardInv
<1>1. /\ gProfile' = [gProfile EXCEPT !.left = 0]
      /\ gKvOut' = (gKv # 0 /\ \A s \in GuardRequests :
                        gReq[s].pc = "getOk" => gReq[s].read = gKv)
      /\ gReq' = [gReq EXCEPT ![r] = NoRequest]
      /\ UNCHANGED <<gFiles, gKv, gTokens, gSeen, gGone, gOld, gOut>>
  BY DEF EvictProfile
<1>2. /\ gReq' \in [GuardRequests -> Request \cup {NoRequest}] /\ gReq'[r] = NoRequest
      /\ \A s \in GuardRequests : s # r => gReq'[s] = gReq[s]
  BY <1>1, NextRequest
<1>3. gProfile' \in [kv : Kvs, left : 0 .. ProfileTtl] /\ gProfile'.left = 0
  BY <1>1, GuardAssumption DEF GuardTypeOK
<1>4. gKvOut' \in BOOLEAN
  BY <1>1
<1>5. GuardTypeOK'
  BY <1>1, <1>2, <1>3, <1>4 DEF GuardTypeOK
<1>6. CutOffStays'
  BY <1>1, <1>2 DEF CutOffStays, AboutToCache, NoRequest
<1>7. ReadsAreVersions'
  BY <1>1, <1>2 DEF ReadsAreVersions, NoRequest
<1>8. VersionStays'
  <2>1. ASSUME gKvOut' PROVE gKv # 0 /\ \A s \in GuardRequests :
                                 gReq[s].pc = "getOk" => gReq[s].read = gKv
    BY <1>1, <2>1
  <2>2. ~(gProfile'.left > 0)
    BY <1>3
  <2>3. ASSUME gKvOut', NEW s \in GuardRequests, gReq'[s].pc = "getOk"
        PROVE  gReq'[s].read = gKv
    <3>1. gReq'[s] = gReq[s]
      BY <1>2, <2>3 DEF NoRequest
    <3>. QED  BY <2>1, <2>3, <3>1
  <2>. QED  BY <1>1, <2>1, <2>2, <2>3 DEF VersionStays
<1>. QED  BY <1>5, <1>6, <1>7, <1>8

(* delete_profile: the listed devices' entries, then their files and the     *)
(* profile.                                                                *)
LEMMA WipeKeeps ==
  ASSUME GuardInv, NEW r \in GuardRequests, WipeEvict(r) \/ WipeDelete(r)  PROVE GuardInv'
<1>. USE DEF GuardInv
<1>1. CASE WipeEvict(r)
  <2>. DEFINE q == [gReq[r] EXCEPT !.pc = "wipe", !.to = gFiles]
  <2>1. /\ gReq[r] \in Request /\ gSeen' = Without(gFiles)
        /\ gReq' = [gReq EXCEPT ![r].pc = "wipe", ![r].to = gFiles]
        /\ UNCHANGED <<gFiles, gKv, gTokens, gProfile, gGone, gOld, gOut, gKvOut>>
    BY <1>1, RequestTyped DEF WipeEvict, Handling
  <2>2. q \in Request /\ q.pc = "wipe"
    BY <2>1 DEF Request, GuardTypeOK
  <2>3. gReq' = [gReq EXCEPT ![r] = q]
    BY <2>1 DEF GuardTypeOK
  <2>. HIDE DEF q
  <2>4. /\ gReq' \in [GuardRequests -> Request \cup {NoRequest}] /\ gReq'[r] = q
        /\ \A s \in GuardRequests : s # r => gReq'[s] = gReq[s]
    BY <2>2, <2>3, NextRequest
  <2>5. GuardTypeOK'
    BY <2>1, <2>4, WithoutType DEF GuardTypeOK
  <2>6. CutOffStays'
    <3>1. \A d \in gOut : gSeen'[d] = 0
      BY <2>1, WithoutType DEF CutOffStays, GuardTypeOK
    <3>. QED  BY <2>1, <2>2, <2>4, <3>1 DEF CutOffStays, AboutToCache
  <2>7. ReadsAreVersions' /\ VersionStays'
    BY <2>1, <2>2, <2>4 DEF ReadsAreVersions, VersionStays
  <2>. QED  BY <2>5, <2>6, <2>7
<1>2. CASE WipeDelete(r)
  <2>1. /\ gFiles' = gFiles \ gReq[r].to /\ gKv' = 0 /\ gKvOut' = FALSE
        /\ gReq' = [gReq EXCEPT ![r] = NoRequest]
        /\ UNCHANGED <<gTokens, gSeen, gProfile, gGone, gOld, gOut>>
    BY <1>2 DEF WipeDelete
  <2>2. /\ gReq' \in [GuardRequests -> Request \cup {NoRequest}] /\ gReq'[r] = NoRequest
        /\ \A s \in GuardRequests : s # r => gReq'[s] = gReq[s]
    BY <2>1, NextRequest
  <2>3. GuardTypeOK'
    <3>1. gKv' \in 0 .. MaxKv
      BY <2>1, GuardAssumption
    <3>2. gFiles' \subseteq GuardDevices /\ gKvOut' \in BOOLEAN
      BY <2>1 DEF GuardTypeOK
    <3>. QED  BY <2>1, <2>2, <3>1, <3>2 DEF GuardTypeOK
  <2>4. CutOffStays' /\ ReadsAreVersions' /\ VersionStays'
    BY <2>1, <2>2 DEF CutOffStays, AboutToCache, ReadsAreVersions, VersionStays, NoRequest
  <2>. QED  BY <2>3, <2>4
<1>. QED  BY <1>1, <1>2

(* add_device: a device that logs in is not cut off any more.              *)
LEMMA LoginKeeps ==
  ASSUME GuardInv, NEW r \in GuardRequests,
         FinishLogin(r) \/ \E d \in GuardDevices : StartLogin(r, d)
  PROVE  GuardInv'
<1>. USE DEF GuardInv
<1>1. ASSUME NEW d \in GuardDevices, StartLogin(r, d) PROVE GuardInv'
  <2>. DEFINE q == [pc |-> "write", rotates |-> FALSE, dev |-> d, kv |-> gKv,
                    to |-> {}, read |-> 0, age |-> 0]
  <2>1. /\ gKv # 0 /\ gReq' = [gReq EXCEPT ![r] = q]
        /\ UNCHANGED <<gFiles, gKv, gTokens, gSeen, gProfile, gGone, gOld, gOut, gKvOut>>
    BY <1>1 DEF StartLogin
  <2>2. q \in Request /\ q.pc = "write"
    BY <2>1, GuardAssumption DEF Request, GuardTypeOK, Kvs
  <2>. HIDE DEF q
  <2>3. /\ gReq' \in [GuardRequests -> Request \cup {NoRequest}] /\ gReq'[r] = q
        /\ \A s \in GuardRequests : s # r => gReq'[s] = gReq[s]
    BY <2>1, <2>2, NextRequest
  <2>4. GuardTypeOK'
    BY <2>1, <2>3 DEF GuardTypeOK
  <2>. QED  BY <2>1, <2>2, <2>3, <2>4, HarmlessRequest
<1>2. CASE FinishLogin(r)
  <2>1. /\ gReq[r] \in Request
        /\ gFiles' = gFiles \cup {gReq[r].dev}
        /\ gTokens' = gTokens \cup {<<gReq[r].dev, gReq[r].kv>>}
        /\ gGone' = [gGone EXCEPT ![gReq[r].dev] = 0]
        /\ gOut' = gOut \ {gReq[r].dev}
        /\ gReq' = [gReq EXCEPT ![r] = NoRequest]
        /\ UNCHANGED <<gKv, gSeen, gProfile, gOld, gKvOut>>
    BY <1>2, RequestTyped DEF FinishLogin
  <2>2. /\ gReq' \in [GuardRequests -> Request \cup {NoRequest}] /\ gReq'[r] = NoRequest
        /\ \A s \in GuardRequests : s # r => gReq'[s] = gReq[s]
    BY <2>1, NextRequest
  <2>3. GuardTypeOK'
    <3>1. gReq[r].dev \in GuardDevices /\ gReq[r].kv \in Kvs
      BY <2>1 DEF Request
    <3>2. gGone' \in [GuardDevices -> 0 .. HistoryCap]
      <4>1. 0 \in 0 .. HistoryCap
        BY GuardAssumption DEF HistoryCap
      <4>. QED  BY <2>1, <3>1, <4>1, Zenon DEF GuardTypeOK
    <3>. QED  BY <2>1, <2>2, <3>1, <3>2 DEF GuardTypeOK
  <2>4. CutOffStays' /\ ReadsAreVersions' /\ VersionStays'
    BY <2>1, <2>2 DEF CutOffStays, AboutToCache, ReadsAreVersions, VersionStays, NoRequest
  <2>. QED  BY <2>3, <2>4
<1>. QED  BY <1>1, <1>2

-----------------------------------------------------------------------------
(* Time only lets the entries expire.                                      *)
LEMMA GuardTickKeeps == ASSUME GuardInv, GuardTick PROVE GuardInv'
<1>. USE DEF GuardInv
<1>1. /\ gSeen' = [d \in GuardDevices |-> Aged(gSeen[d])]
      /\ gProfile' = [gProfile EXCEPT !.left = Aged(gProfile.left)]
      /\ gReq' = [r \in GuardRequests |-> IF gReq[r] = NoRequest THEN NoRequest
                                          ELSE [gReq[r] EXCEPT !.age = @ + 1]]
      /\ UNCHANGED <<gFiles, gKv, gTokens, gOut, gKvOut>>
  BY DEF GuardTick
<1>2. \A r \in GuardRequests :
        /\ gReq'[r] \in Request \cup {NoRequest}
        /\ gReq'[r].pc = gReq[r].pc
        /\ gReq[r].pc # "idle" => gReq'[r].dev = gReq[r].dev /\ gReq'[r].read = gReq[r].read
  <2>. SUFFICES ASSUME NEW r \in GuardRequests
                PROVE  /\ gReq'[r] \in Request \cup {NoRequest}
                       /\ gReq'[r].pc = gReq[r].pc
                       /\ gReq[r].pc # "idle" => gReq'[r].dev = gReq[r].dev /\ gReq'[r].read = gReq[r].read
    OBVIOUS
  <2>1. CASE gReq[r] = NoRequest
    BY <1>1, <2>1 DEF NoRequest
  <2>2. CASE gReq[r] # NoRequest
    <3>1. gReq[r] \in Request /\ gReq[r].age < RequestTime
      BY <2>2 DEF GuardTypeOK, GuardTick
    <3>2. gReq'[r] = [gReq[r] EXCEPT !.age = gReq[r].age + 1]
      BY <1>1, <2>2
    <3>. QED  BY <3>1, <3>2, GuardAssumption DEF Request
  <2>. QED  BY <2>1, <2>2
<1>3. gSeen' \in [GuardDevices -> 0 .. DeviceTtl] /\ \A d \in GuardDevices : gSeen[d] = 0 => gSeen'[d] = 0
  BY <1>1, GuardAssumption DEF GuardTypeOK, Aged
<1>4. /\ gProfile' \in [kv : Kvs, left : 0 .. ProfileTtl]
      /\ gProfile'.kv = gProfile.kv /\ (gProfile'.left > 0 => gProfile.left > 0)
  BY <1>1, GuardAssumption DEF GuardTypeOK, Aged
<1>5. gGone' \in [GuardDevices -> 0 .. HistoryCap] /\ gOld' \in [Kvs -> 0 .. HistoryCap]
  <2>1. HistoryCap \in Nat
    BY GuardAssumption DEF HistoryCap
  <2>2. ASSUME NEW n \in 0 .. HistoryCap, n # HistoryCap PROVE n + 1 \in 0 .. HistoryCap
    BY <2>1, <2>2
  <2>3. gGone' \in [GuardDevices -> 0 .. HistoryCap]
    <3>1. gGone \in [GuardDevices -> 0 .. HistoryCap]
      BY DEF GuardTypeOK
    <3>2. gGone' = [d \in GuardDevices |->
                      IF d \in gFiles \/ gGone[d] = HistoryCap THEN gGone[d] ELSE gGone[d] + 1]
      BY DEF GuardTick
    <3>. QED  BY <2>2, <3>1, <3>2, Zenon
  <2>4. gOld' \in [Kvs -> 0 .. HistoryCap]
    <3>1. gOld \in [Kvs -> 0 .. HistoryCap]
      BY DEF GuardTypeOK
    <3>2. gOld' = [k \in Kvs |->
                     IF k = gKv \/ (gKv # 0 /\ k > gKv) \/ gOld[k] = HistoryCap
                     THEN gOld[k] ELSE gOld[k] + 1]
      BY DEF GuardTick
    <3>. QED  BY <2>2, <3>1, <3>2, Zenon
  <2>. QED  BY <2>3, <2>4
<1>6. GuardTypeOK'
  <2>1. gReq' \in [GuardRequests -> Request \cup {NoRequest}]
    BY <1>1, <1>2
  <2>. QED  BY <1>1, <1>3, <1>4, <1>5, <2>1 DEF GuardTypeOK
<1>7. CutOffStays'
  BY <1>1, <1>2, <1>3 DEF CutOffStays, AboutToCache, GuardTypeOK
<1>8. ReadsAreVersions' /\ VersionStays'
  BY <1>1, <1>2, <1>4 DEF ReadsAreVersions, VersionStays
<1>. QED  BY <1>6, <1>7, <1>8

LEMMA GuardStep == GuardInv /\ [GuardNext]_gVars => GuardInv'
<1>. SUFFICES ASSUME GuardInv, [GuardNext]_gVars PROVE GuardInv'
  OBVIOUS
<1>1. CASE GuardTick
  BY <1>1, GuardTickKeeps
<1>2. ASSUME NEW r \in GuardRequests, Authenticate(r) PROVE GuardInv'
  BY <1>2, ArriveKeeps, HeadKeeps, CacheDeviceKeeps, GetKeeps, CacheProfileKeeps DEF Authenticate
<1>3. ASSUME NEW r \in GuardRequests, Handle(r) PROVE GuardInv'
  BY <1>3, ServeKeeps, RemoveKeeps, EvictKeeps, RotateKeeps, EvictProfileKeeps, WipeKeeps,
     LoginKeeps DEF Handle
<1>4. CASE UNCHANGED gVars
  BY <1>4 DEF gVars, GuardInv, GuardTypeOK, ReadsAreVersions, CutOffStays, AboutToCache, VersionStays
<1>. QED  BY <1>1, <1>2, <1>3, <1>4 DEF GuardNext

-----------------------------------------------------------------------------
(* Every cache and every request keeps its type.                           *)
THEOREM GuardTypeCorrect == GuardSpec => []GuardTypeOK
<1>1. GuardInv => GuardTypeOK
  BY DEF GuardInv
<1>. QED  BY GuardInvInit, GuardStep, <1>1, PTL DEF GuardSpec

(* An eviction with no older answer on its way is final: neither the device  *)
(* nor the old key_version is accepted from the caches again.              *)
THEOREM EvictionIsFinal == GuardSpec => []EvictedStaysOut
<1>1. GuardInv => EvictedStaysOut
  BY DEF GuardInv, EvictedStaysOut, CutOffStays, VersionStays
<1>. QED  BY GuardInvInit, GuardStep, <1>1, PTL DEF GuardSpec

-----------------------------------------------------------------------------
(* The caches heal within their time to live.                              *)

(* What the caches say of a device or a version, as numbers.               *)
LEMMA GuardNumbers ==
  ASSUME GuardTypeOK
  PROVE  /\ \A d \in GuardDevices : gGone[d] \in Nat /\ gSeen[d] \in Nat
         /\ \A k \in Kvs : gOld[k] \in Nat
         /\ gProfile.kv \in Kvs /\ gProfile.left \in Nat
         /\ \A r \in GuardRequests : gReq[r].pc # "idle" =>
              /\ gReq[r] \in Request /\ gReq[r].dev \in GuardDevices /\ gReq[r].kv \in Kvs
              /\ gReq[r].age \in Nat /\ gReq[r].age <= RequestTime /\ gReq[r].read \in Nat
         /\ DeviceTtl \in Nat \ {0} /\ ProfileTtl \in Nat \ {0} /\ RequestTime \in Nat \ {0}
<1>1. HistoryCap \in Nat
  BY GuardAssumption DEF HistoryCap
<1>2. \A d \in GuardDevices : gGone[d] \in 0 .. HistoryCap /\ gSeen[d] \in 0 .. DeviceTtl
  BY DEF GuardTypeOK
<1>3. \A k \in Kvs : gOld[k] \in 0 .. HistoryCap
  BY DEF GuardTypeOK
<1>4. gProfile.kv \in Kvs /\ gProfile.left \in 0 .. ProfileTtl
  BY DEF GuardTypeOK
<1>5. ASSUME NEW r \in GuardRequests, gReq[r].pc # "idle"
      PROVE  /\ gReq[r] \in Request /\ gReq[r].dev \in GuardDevices /\ gReq[r].kv \in Kvs
             /\ gReq[r].age \in 0 .. RequestTime /\ gReq[r].read \in 0 .. MaxKv
  BY <1>5, RequestTyped DEF Request
<1>. QED  BY <1>1, <1>2, <1>3, <1>4, <1>5, GuardAssumption

(* A request that waits for no answer has nothing that could grow stale; an *)
(* eviction, a removal and a newer version only make the caches safer.      *)
LEMMA NothingToHeal ==
  ASSUME HealInv, NEW r \in GuardRequests,
         gReq'[r].pc \notin {"headOk", "get", "getOk"},
         \A s \in GuardRequests : s # r => gReq'[s] = gReq[s],
         \A d \in GuardDevices : gSeen'[d] \in {0, gSeen[d]},
         gProfile' = gProfile \/ gProfile'.left = 0,
         gFiles' \subseteq gFiles, gKv' # 0 => gKv # 0 /\ gKv' >= gKv,
         gKv' \in Nat, gKv \in Nat, UNCHANGED <<gGone, gOld>>
  PROVE  HistoryStarts' /\ DeviceHeals' /\ VersionHeals'
<1>. USE GuardNumbers DEF HealInv, GuardInv
<1>1. HistoryStarts'
  <2>1. \A d \in gFiles' : gGone'[d] = 0
    BY DEF HistoryStarts
  <2>2. ASSUME gKv' # 0, NEW k \in Kvs, k >= gKv' PROVE gOld'[k] = 0
    <3>1. k \in Nat /\ k >= gKv
      BY <2>2 DEF Kvs
    <3>. QED  BY <2>2, <3>1 DEF HistoryStarts
  <2>. QED  BY <2>1, <2>2 DEF HistoryStarts
<1>2. DeviceHeals'
  BY DEF DeviceHeals
<1>3. VersionHeals'
  BY DEF VersionHeals
<1>. QED  BY <1>1, <1>2, <1>3

(* What an accepted request promises.                                      *)
Accepted(q) ==
  /\ gGone[q.dev] < DeviceTtl + 2 * RequestTime
  /\ ~q.rotates => gOld[q.kv] < ProfileTtl + 2 * RequestTime

(* The profile cache, when it answers, answers with a version that was      *)
(* current less than its time to live and a request ago.                   *)
LEMMA AskVersionHeals ==
  ASSUME HealInv, NEW q \in Request, gGone[q.dev] < DeviceTtl + RequestTime + q.age
  PROVE  /\ AskVersion(q).pc \in {"in", "idle", "get"}
         /\ AskVersion(q).pc = "get" =>
              gGone[AskVersion(q).dev] < DeviceTtl + RequestTime + AskVersion(q).age
         /\ AskVersion(q).pc = "in" => Accepted(AskVersion(q))
<1>. USE GuardNumbers DEF HealInv, GuardInv
<1>0. /\ q.dev \in GuardDevices /\ q.kv \in Kvs /\ q.age \in Nat /\ q.age <= RequestTime
  BY DEF Request
<1>1. gGone[q.dev] < DeviceTtl + 2 * RequestTime
  BY <1>0
<1>2. /\ Entered(q).pc = "in" /\ Entered(q).dev = q.dev /\ Entered(q).kv = q.kv
      /\ Entered(q).rotates = q.rotates
  BY DEF Entered, Request
<1>3. CASE q.rotates
  BY <1>1, <1>2, <1>3 DEF AskVersion, Accepted
<1>4. CASE ~q.rotates /\ gProfile.left > 0
  <2>1. gOld[gProfile.kv] < ProfileTtl + 2 * RequestTime
    BY <1>4 DEF VersionHeals
  <2>2. AskVersion(q) = WithVersion(q, gProfile.kv)
    BY <1>4 DEF AskVersion
  <2>3. CASE q.kv = gProfile.kv
    BY <1>1, <1>2, <2>1, <2>2, <2>3 DEF WithVersion, Accepted
  <2>4. CASE q.kv # gProfile.kv
    BY <2>2, <2>4 DEF WithVersion, NoRequest
  <2>. QED  BY <2>3, <2>4
<1>5. CASE ~q.rotates /\ ~(gProfile.left > 0)
  <2>1. AskVersion(q) = [q EXCEPT !.pc = "get"]
    BY <1>5 DEF AskVersion
  <2>2. AskVersion(q).pc = "get" /\ AskVersion(q).dev = q.dev /\ AskVersion(q).age = q.age
    BY <2>1 DEF Request
  <2>. QED  BY <2>2
<1>. QED  BY <1>3, <1>4, <1>5

(* The requests a step leaves alone, and one whose next state is given.    *)
LEMMA RequestHeals ==
  ASSUME HealInv, NEW r \in GuardRequests,
         \A s \in GuardRequests : s # r => gReq'[s] = gReq[s],
         UNCHANGED <<gFiles, gKv, gGone, gOld>>,
         gReq'[r].pc = "headOk" => gGone[gReq'[r].dev] <= gReq'[r].age,
         gReq'[r].pc \in {"get", "getOk"} =>
           gGone[gReq'[r].dev] < DeviceTtl + RequestTime + gReq'[r].age,
         gReq'[r].pc = "getOk" => gOld[gReq'[r].read] <= gReq'[r].age,
         \A d \in GuardDevices : gSeen'[d] > 0 => gGone[d] + gSeen'[d] <= DeviceTtl + RequestTime,
         gProfile'.left > 0 => gOld[gProfile'.kv] + gProfile'.left <= ProfileTtl + RequestTime
  PROVE  HistoryStarts' /\ DeviceHeals' /\ VersionHeals'
<1>. USE DEF HealInv
<1>1. HistoryStarts'
  BY DEF HistoryStarts
<1>2. DeviceHeals'
  BY DEF DeviceHeals
<1>3. VersionHeals'
  BY DEF VersionHeals
<1>. QED  BY <1>1, <1>2, <1>3

(* A request that a step lets in was checked against caches this fresh.    *)
LetsInFresh ==
  \A r \in GuardRequests : gReq[r].pc # "in" /\ gReq'[r].pc = "in" => Accepted(gReq'[r])

Heals == HistoryStarts' /\ DeviceHeals' /\ VersionHeals' /\ LetsInFresh

LEMMA ArriveHeals == ASSUME HealInv, NEW r \in GuardRequests, Arrive(r) PROVE Heals
<1>. USE DEF HealInv, GuardInv
<1>1. PICK t \in gTokens, rotates \in BOOLEAN :
        gReq' = [gReq EXCEPT ![r] = AskDevice(
            [pc |-> "head", rotates |-> rotates, dev |-> t[1], kv |-> t[2],
             to |-> {}, read |-> 0, age |-> 0])]
  BY DEF Arrive
<1>. DEFINE q == [pc |-> "head", rotates |-> rotates, dev |-> t[1], kv |-> t[2],
                  to |-> {}, read |-> 0, age |-> 0]
<1>2. q \in Request /\ q.dev \in GuardDevices /\ q.age = 0 /\ [q EXCEPT !.pc = "head"].pc = "head"
  BY GuardAssumption DEF GuardTypeOK, Request, Kvs
<1>3. UNCHANGED <<gFiles, gKv, gTokens, gSeen, gProfile, gGone, gOld, gOut, gKvOut>>
  BY DEF Arrive
<1>. HIDE DEF q
<1>4. gReq' = [gReq EXCEPT ![r] = AskDevice(q)]
  BY <1>1 DEF q
<1>5. /\ gReq'[r] = AskDevice(q)
      /\ \A s \in GuardRequests : s # r => gReq'[s] = gReq[s]
  BY <1>2, <1>4, AskDeviceType, NextRequest
<1>6. /\ gReq'[r].pc \in {"in", "idle", "get", "head"}
      /\ gReq'[r].pc = "get" => gGone[gReq'[r].dev] < DeviceTtl + RequestTime + gReq'[r].age
      /\ gReq'[r].pc = "in" => Accepted(gReq'[r])
  <2>1. CASE gSeen[q.dev] > 0
    <3>1. gGone[q.dev] < DeviceTtl + RequestTime + q.age
      BY <1>2, <2>1, GuardNumbers DEF DeviceHeals
    <3>. QED  BY <1>2, <1>5, <2>1, <3>1, AskVersionHeals DEF AskDevice
  <2>2. CASE ~(gSeen[q.dev] > 0)
    BY <1>2, <1>5, <2>2 DEF AskDevice
  <2>. QED  BY <2>1, <2>2
<1>7. HistoryStarts' /\ DeviceHeals' /\ VersionHeals'
  BY <1>3, <1>5, <1>6, RequestHeals DEF DeviceHeals, VersionHeals
<1>. QED  BY <1>5, <1>6, <1>7 DEF Heals, LetsInFresh

(* HEAD saw the file: its device has not been gone for longer than since.   *)
LEMMA HeadHeals == ASSUME HealInv, NEW r \in GuardRequests, HeadDevice(r) PROVE Heals
<1>. USE DEF HealInv, GuardInv
<1>1. /\ gReq[r].pc = "head" /\ gReq[r] \in Request
      /\ UNCHANGED <<gFiles, gKv, gTokens, gSeen, gProfile, gGone, gOld, gOut, gKvOut>>
  BY RequestTyped DEF HeadDevice
<1>. DEFINE q == IF gReq[r].dev \in gFiles THEN [gReq[r] EXCEPT !.pc = "headOk"] ELSE NoRequest
<1>2. /\ q \in Request \cup {NoRequest}
      /\ q.pc = "idle" \/ (q.pc = "headOk" /\ q.dev \in gFiles /\ q.age \in Nat)
  <2>1. CASE gReq[r].dev \in gFiles
    BY <1>1, <2>1, GuardNumbers DEF Request
  <2>2. CASE gReq[r].dev \notin gFiles
    BY <2>2 DEF NoRequest
  <2>. QED  BY <2>1, <2>2
<1>3. gReq' = [gReq EXCEPT ![r] = q]
  BY DEF HeadDevice
<1>. HIDE DEF q
<1>4. gReq'[r] = q /\ \A s \in GuardRequests : s # r => gReq'[s] = gReq[s]
  BY <1>2, <1>3, NextRequest
<1>5. gReq'[r].pc = "headOk" => gGone[gReq'[r].dev] <= gReq'[r].age
  BY <1>2, <1>4 DEF HistoryStarts
<1>6. HistoryStarts' /\ DeviceHeals' /\ VersionHeals'
  BY <1>1, <1>2, <1>4, <1>5, RequestHeals DEF DeviceHeals, VersionHeals
<1>. QED  BY <1>2, <1>4, <1>6 DEF Heals, LetsInFresh

LEMMA CacheDeviceHeals == ASSUME HealInv, NEW r \in GuardRequests, CacheDevice(r) PROVE Heals
<1>. USE DEF HealInv, GuardInv
<1>1. /\ gReq[r].pc = "headOk" /\ gReq[r] \in Request /\ gReq[r].dev \in GuardDevices
      /\ gSeen' = [gSeen EXCEPT ![gReq[r].dev] = DeviceTtl]
      /\ gReq' = [gReq EXCEPT ![r] = AskVersion(gReq[r])]
      /\ UNCHANGED <<gFiles, gKv, gTokens, gProfile, gGone, gOld, gOut, gKvOut>>
  BY RequestTyped DEF CacheDevice, Request
<1>2. gReq'[r] = AskVersion(gReq[r]) /\ \A s \in GuardRequests : s # r => gReq'[s] = gReq[s]
  BY <1>1, AskVersionType, NextRequest
<1>3. gGone[gReq[r].dev] <= gReq[r].age
  BY <1>1 DEF DeviceHeals
<1>4. /\ gGone[gReq[r].dev] < DeviceTtl + RequestTime + gReq[r].age
      /\ gGone[gReq[r].dev] + DeviceTtl <= DeviceTtl + RequestTime
  BY <1>1, <1>3, GuardNumbers
<1>5. /\ gReq'[r].pc \in {"in", "idle", "get"}
      /\ gReq'[r].pc = "get" => gGone[gReq'[r].dev] < DeviceTtl + RequestTime + gReq'[r].age
      /\ gReq'[r].pc = "in" => Accepted(gReq'[r])
  BY <1>1, <1>2, <1>4, AskVersionHeals
<1>6. \A d \in GuardDevices : gSeen'[d] > 0 => gGone[d] + gSeen'[d] <= DeviceTtl + RequestTime
  BY <1>1, <1>4 DEF DeviceHeals, GuardTypeOK
<1>7. HistoryStarts' /\ DeviceHeals' /\ VersionHeals'
  BY <1>1, <1>2, <1>5, <1>6, RequestHeals DEF VersionHeals
<1>. QED  BY <1>2, <1>5, <1>7 DEF Heals, LetsInFresh

(* GET read the profile: its key_version is the current one.               *)
LEMMA GetHeals == ASSUME HealInv, NEW r \in GuardRequests, GetProfile(r) PROVE Heals
<1>. USE DEF HealInv, GuardInv
<1>1. /\ gReq[r].pc = "get" /\ gReq[r] \in Request
      /\ UNCHANGED <<gFiles, gKv, gTokens, gSeen, gProfile, gGone, gOld, gOut, gKvOut>>
  BY RequestTyped DEF GetProfile
<1>. DEFINE q == IF gKv # 0 THEN [gReq[r] EXCEPT !.pc = "getOk", !.read = gKv] ELSE NoRequest
<1>2. /\ q \in Request \cup {NoRequest}
      /\ \/ q.pc = "idle"
         \/ q.pc = "getOk" /\ gKv # 0 /\ q.read = gKv /\ q.dev = gReq[r].dev /\ q.age = gReq[r].age
  <2>1. CASE gKv # 0
    BY <1>1, <2>1 DEF Request, GuardTypeOK
  <2>2. CASE gKv = 0
    BY <2>2 DEF NoRequest
  <2>. QED  BY <2>1, <2>2
<1>3. gReq' = [gReq EXCEPT ![r] = q]
  BY DEF GetProfile
<1>. HIDE DEF q
<1>4. gReq'[r] = q /\ \A s \in GuardRequests : s # r => gReq'[s] = gReq[s]
  BY <1>2, <1>3, NextRequest
<1>5. gReq'[r].pc = "getOk" =>
        /\ gGone[gReq'[r].dev] < DeviceTtl + RequestTime + gReq'[r].age
        /\ gOld[gReq'[r].read] <= gReq'[r].age
  <2>. SUFFICES ASSUME q.pc = "getOk"
                PROVE  /\ gGone[q.dev] < DeviceTtl + RequestTime + q.age
                       /\ gOld[q.read] <= q.age
    BY <1>4
  <2>1. gKv # 0 /\ q.read = gKv /\ q.dev = gReq[r].dev /\ q.age = gReq[r].age
    BY <1>2
  <2>2. gGone[gReq[r].dev] < DeviceTtl + RequestTime + gReq[r].age
    BY <1>1 DEF DeviceHeals
  <2>3. gKv \in Kvs /\ gKv >= gKv
    BY <2>1, GuardAssumption DEF GuardTypeOK, Kvs
  <2>4. gOld[gKv] = 0
    BY <2>1, <2>3 DEF HistoryStarts
  <2>5. gReq[r].age \in Nat
    BY <1>1, GuardNumbers
  <2>. QED  BY <2>1, <2>2, <2>4, <2>5
<1>6. HistoryStarts' /\ DeviceHeals' /\ VersionHeals'
  BY <1>1, <1>2, <1>4, <1>5, RequestHeals DEF DeviceHeals, VersionHeals
<1>. QED  BY <1>2, <1>4, <1>6 DEF Heals, LetsInFresh

LEMMA CacheProfileHeals == ASSUME HealInv, NEW r \in GuardRequests, CacheProfile(r) PROVE Heals
<1>. USE DEF HealInv, GuardInv
<1>. DEFINE q == [gReq[r] EXCEPT !.read = 0]
<1>1. /\ gReq[r].pc = "getOk" /\ gReq[r] \in Request
      /\ gProfile' = [kv |-> gReq[r].read, left |-> ProfileTtl]
      /\ gReq' = [gReq EXCEPT ![r] = WithVersion(q, gReq[r].read)]
      /\ UNCHANGED <<gFiles, gKv, gTokens, gSeen, gGone, gOld, gOut, gKvOut>>
  BY RequestTyped DEF CacheProfile
<1>2. q \in Request /\ q.dev = gReq[r].dev /\ q.kv = gReq[r].kv
  <2>1. 0 \in 0 .. MaxKv
    BY GuardAssumption
  <2>. QED  BY <1>1, <2>1 DEF Request
<1>. HIDE DEF q
<1>3. /\ gReq'[r] = WithVersion(q, gReq[r].read)
      /\ \A s \in GuardRequests : s # r => gReq'[s] = gReq[s]
  BY <1>1, <1>2, WithVersionType, NextRequest
<1>4. /\ gGone[gReq[r].dev] < DeviceTtl + RequestTime + gReq[r].age
      /\ gOld[gReq[r].read] <= gReq[r].age
  BY <1>1 DEF DeviceHeals, VersionHeals
<1>5. gReq[r].read \in Kvs
  BY <1>1, GuardAssumption DEF ReadsAreVersions, Request, Kvs
<1>6. /\ gGone[gReq[r].dev] < DeviceTtl + 2 * RequestTime
      /\ gOld[gReq[r].read] < ProfileTtl + 2 * RequestTime
      /\ gOld[gReq[r].read] + ProfileTtl <= ProfileTtl + RequestTime
  BY <1>1, <1>4, <1>5, GuardNumbers
<1>7. /\ gReq'[r].pc \in {"in", "idle"}
      /\ gReq'[r].pc = "in" => Accepted(gReq'[r])
  <2>1. CASE q.kv = gReq[r].read
    <3>1. gReq'[r] = Entered(q)
      BY <1>3, <2>1 DEF WithVersion
    <3>2. gReq'[r].pc = "in" /\ gReq'[r].dev = q.dev /\ gReq'[r].kv = q.kv
      BY <1>2, <3>1 DEF Entered, Request
    <3>. QED  BY <1>2, <1>6, <2>1, <3>2 DEF Accepted
  <2>2. CASE q.kv # gReq[r].read
    BY <1>3, <2>2 DEF WithVersion, NoRequest
  <2>. QED  BY <2>1, <2>2
<1>8. gProfile'.left > 0 => gOld[gProfile'.kv] + gProfile'.left <= ProfileTtl + RequestTime
  BY <1>1, <1>6
<1>9. HistoryStarts' /\ DeviceHeals' /\ VersionHeals'
  BY <1>1, <1>3, <1>7, <1>8, RequestHeals DEF DeviceHeals
<1>. QED  BY <1>3, <1>7, <1>9 DEF Heals, LetsInFresh

(* A handler that ends or goes on: what it did to the store was no answer.  *)
LEMMA HandlerHeals ==
  ASSUME HealInv, NEW r \in GuardRequests, NEW q \in Request \cup {NoRequest},
         gReq' = [gReq EXCEPT ![r] = q],
         q.pc \in {"idle", "evict", "evictKv", "wipe", "write"},
         \A d \in GuardDevices : gSeen'[d] \in {0, gSeen[d]},
         gProfile' = gProfile \/ gProfile'.left = 0,
         gFiles' \subseteq gFiles, gKv' # 0 => gKv # 0 /\ gKv' >= gKv,
         gKv' \in Nat, gKv \in Nat, UNCHANGED <<gGone, gOld>>
  PROVE  Heals
<1>1. gReq'[r] = q /\ \A s \in GuardRequests : s # r => gReq'[s] = gReq[s]
  BY NextRequest DEF HealInv, GuardInv
<1>2. HistoryStarts' /\ DeviceHeals' /\ VersionHeals'
  BY <1>1, NothingToHeal
<1>. QED  BY <1>1, <1>2 DEF Heals, LetsInFresh

(* The handlers: none lets a request in, and none makes an answer older.    *)
LEMMA HandlersHeal == ASSUME HealInv, NEW r \in GuardRequests, Handle(r) PROVE Heals
<1>. USE DEF HealInv, GuardInv
<1>0. gKv \in Nat /\ gFiles \subseteq GuardDevices
  BY GuardAssumption DEF GuardTypeOK
<1>v. ASSUME gKv' \in {gKv, gKv + 1}, gKv # 0 \/ gKv' = gKv
      PROVE  gKv' \in Nat /\ (gKv' # 0 => gKv # 0 /\ gKv' >= gKv)
  BY <1>0, <1>v
<1>n. NoRequest.pc = "idle" /\ NoRequest \in Request \cup {NoRequest}
  BY DEF NoRequest
<1>w. ASSUME NEW devs, gSeen' = Without(devs) PROVE \A d \in GuardDevices : gSeen'[d] \in {0, gSeen[d]}
  BY <1>w DEF Without
<1>1. CASE Serve(r)
  <2>1. /\ gReq' = [gReq EXCEPT ![r] = NoRequest]
        /\ UNCHANGED <<gFiles, gKv, gSeen, gProfile, gGone, gOld>>
    BY <1>1 DEF Serve
  <2>2. \A d \in GuardDevices : gSeen'[d] \in {0, gSeen[d]}
    BY <2>1
  <2>. QED  BY <1>0, <1>v, <1>n, <2>1, <2>2, HandlerHeals
<1>2. ASSUME RemoveDevice(r) PROVE Heals
  <2>1. PICK d \in GuardDevices :
          /\ gFiles' = gFiles \ {d}
          /\ gReq' = [gReq EXCEPT ![r].pc = "evict", ![r].to = {d}]
    BY <1>2 DEF RemoveDevice
  <2>. DEFINE q == [gReq[r] EXCEPT !.pc = "evict", !.to = {d}]
  <2>2. gReq[r] \in Request /\ UNCHANGED <<gKv, gSeen, gProfile, gGone, gOld>>
    BY <1>2, RequestTyped DEF RemoveDevice, Handling
  <2>3. q \in Request \cup {NoRequest} /\ q.pc = "evict"
    BY <2>2 DEF Request
  <2>4. gReq' = [gReq EXCEPT ![r] = q]
    BY <2>1 DEF GuardTypeOK
  <2>. HIDE DEF q
  <2>5. \A e \in GuardDevices : gSeen'[e] \in {0, gSeen[e]}
    BY <2>2
  <2>. QED  BY <1>0, <1>v, <2>1, <2>2, <2>3, <2>4, <2>5, HandlerHeals
<1>3. CASE EvictDevice(r)
  <2>1. \A d \in GuardDevices : gSeen'[d] \in {0, gSeen[d]}
    BY <1>3, <1>w DEF EvictDevice
  <2>2. /\ gReq' = [gReq EXCEPT ![r] = NoRequest]
        /\ UNCHANGED <<gFiles, gKv, gProfile, gGone, gOld>>
    BY <1>3 DEF EvictDevice
  <2>. QED  BY <1>0, <1>v, <1>n, <2>1, <2>2, HandlerHeals
<1>4. CASE RotateKeys(r)
  <2>. DEFINE q == [gReq[r] EXCEPT !.pc = "evictKv"]
  <2>1. gReq[r] \in Request /\ UNCHANGED <<gFiles, gSeen, gProfile, gGone, gOld>>
    BY <1>4, RequestTyped DEF RotateKeys, Handling
  <2>2. q \in Request \cup {NoRequest} /\ q.pc = "evictKv"
    BY <2>1 DEF Request
  <2>3. CASE gReq[r].kv = gKv /\ gKv < MaxKv
    <3>1. gReq' = [gReq EXCEPT ![r] = q] /\ gKv' = gKv + 1
      BY <1>4, <2>3 DEF RotateKeys, GuardTypeOK
    <3>2. gKv # 0
      BY <2>1, <2>3, GuardAssumption DEF Request, Kvs
    <3>. HIDE DEF q
    <3>3. \A d \in GuardDevices : gSeen'[d] \in {0, gSeen[d]}
      BY <2>1
    <3>. QED  BY <1>0, <1>v, <2>1, <2>2, <3>1, <3>2, <3>3, HandlerHeals
  <2>4. CASE ~(gReq[r].kv = gKv /\ gKv < MaxKv)
    <3>1. gReq' = [gReq EXCEPT ![r] = NoRequest] /\ gKv' = gKv
      BY <1>4, <2>4 DEF RotateKeys
    <3>2. \A d \in GuardDevices : gSeen'[d] \in {0, gSeen[d]}
      BY <2>1
    <3>. QED  BY <1>0, <1>v, <1>n, <2>1, <3>1, <3>2, HandlerHeals
  <2>. QED  BY <2>3, <2>4
<1>5. CASE EvictProfile(r)
  <2>1. gProfile'.left = 0
    BY <1>5 DEF EvictProfile, GuardTypeOK
  <2>2. /\ gReq' = [gReq EXCEPT ![r] = NoRequest]
        /\ UNCHANGED <<gFiles, gKv, gSeen, gGone, gOld>>
    BY <1>5 DEF EvictProfile
  <2>3. \A d \in GuardDevices : gSeen'[d] \in {0, gSeen[d]}
    BY <2>2
  <2>. QED  BY <1>0, <1>v, <1>n, <2>1, <2>2, <2>3, HandlerHeals
<1>6. CASE WipeEvict(r)
  <2>. DEFINE q == [gReq[r] EXCEPT !.pc = "wipe", !.to = gFiles]
  <2>1. /\ gReq[r] \in Request /\ gSeen' = Without(gFiles)
        /\ gReq' = [gReq EXCEPT ![r].pc = "wipe", ![r].to = gFiles]
        /\ UNCHANGED <<gFiles, gKv, gProfile, gGone, gOld>>
    BY <1>6, RequestTyped DEF WipeEvict, Handling
  <2>2. q \in Request \cup {NoRequest} /\ q.pc = "wipe"
    BY <2>1, <1>0 DEF Request
  <2>3. gReq' = [gReq EXCEPT ![r] = q]
    BY <2>1 DEF GuardTypeOK
  <2>. HIDE DEF q
  <2>4. \A d \in GuardDevices : gSeen'[d] \in {0, gSeen[d]}
    BY <2>1, <1>w
  <2>. QED  BY <1>0, <1>v, <2>1, <2>2, <2>3, <2>4, HandlerHeals
<1>7. CASE WipeDelete(r)
  <2>1. /\ gReq' = [gReq EXCEPT ![r] = NoRequest] /\ gFiles' \subseteq gFiles /\ gKv' = 0
        /\ UNCHANGED <<gSeen, gProfile, gGone, gOld>>
    BY <1>7 DEF WipeDelete
  <2>2. \A d \in GuardDevices : gSeen'[d] \in {0, gSeen[d]}
    BY <2>1
  <2>. QED  BY <1>0, <1>v, <1>n, <2>1, <2>2, HandlerHeals
<1>8. ASSUME NEW d \in GuardDevices, StartLogin(r, d) PROVE Heals
  <2>. DEFINE q == [pc |-> "write", rotates |-> FALSE, dev |-> d, kv |-> gKv,
                    to |-> {}, read |-> 0, age |-> 0]
  <2>1. /\ gKv # 0 /\ gReq' = [gReq EXCEPT ![r] = q]
        /\ UNCHANGED <<gFiles, gKv, gSeen, gProfile, gGone, gOld>>
    BY <1>8 DEF StartLogin
  <2>2. q \in Request \cup {NoRequest} /\ q.pc = "write"
    BY <2>1, GuardAssumption DEF Request, GuardTypeOK, Kvs
  <2>. HIDE DEF q
  <2>3. \A e \in GuardDevices : gSeen'[e] \in {0, gSeen[e]}
    BY <2>1
  <2>. QED  BY <1>0, <1>v, <2>1, <2>2, <2>3, HandlerHeals
<1>9. CASE FinishLogin(r)
  <2>1. /\ gReq[r] \in Request /\ gReq[r].dev \in GuardDevices
        /\ gFiles' = gFiles \cup {gReq[r].dev}
        /\ gGone' = [gGone EXCEPT ![gReq[r].dev] = 0]
        /\ gReq' = [gReq EXCEPT ![r] = NoRequest]
        /\ UNCHANGED <<gKv, gSeen, gProfile, gOld>>
    BY <1>9, RequestTyped DEF FinishLogin, Request
  <2>2. gReq'[r] = NoRequest /\ \A s \in GuardRequests : s # r => gReq'[s] = gReq[s]
    BY <2>1, NextRequest
  <2>3. \A d \in GuardDevices : gGone'[d] = IF d = gReq[r].dev THEN 0 ELSE gGone[d]
    BY <2>1 DEF GuardTypeOK
  <2>4. HistoryStarts' /\ VersionHeals'
    BY <1>0, <2>1, <2>2, <2>3, <1>n DEF HistoryStarts, VersionHeals
  <2>5. DeviceHeals'
    <3>1. ASSUME NEW d \in GuardDevices, gSeen'[d] > 0
          PROVE  gGone'[d] + gSeen'[d] <= DeviceTtl + RequestTime
      <4>1. CASE d = gReq[r].dev
        <5>1. gSeen[d] <= DeviceTtl
          BY GuardAssumption DEF GuardTypeOK
        <5>. QED  BY <2>1, <2>3, <4>1, <5>1, GuardNumbers
      <4>2. CASE d # gReq[r].dev
        BY <2>1, <2>3, <3>1, <4>2 DEF DeviceHeals
      <4>. QED  BY <4>1, <4>2
    <3>2. ASSUME NEW s \in GuardRequests, gReq'[s].pc \in {"headOk", "get", "getOk"}
          PROVE  /\ gReq'[s].pc = "headOk" => gGone'[gReq'[s].dev] <= gReq'[s].age
                 /\ gReq'[s].pc \in {"get", "getOk"} =>
                      gGone'[gReq'[s].dev] < DeviceTtl + RequestTime + gReq'[s].age
      <4>1. s # r /\ gReq'[s] = gReq[s]
        BY <2>2, <3>2, <1>n
      <4>2. /\ gReq[s].dev \in GuardDevices /\ gReq[s].age \in Nat
            /\ gGone'[gReq[s].dev] \in Nat /\ gGone'[gReq[s].dev] <= gGone[gReq[s].dev]
        BY <2>3, <3>2, <4>1, GuardNumbers
      <4>. QED  BY <3>2, <4>1, <4>2, GuardNumbers DEF DeviceHeals
    <3>. QED  BY <3>1, <3>2 DEF DeviceHeals
  <2>. QED  BY <1>n, <2>2, <2>4, <2>5 DEF Heals, LetsInFresh
<1>. QED  BY <1>1, <1>2, <1>3, <1>4, <1>5, <1>6, <1>7, <1>8, <1>9 DEF Handle

(* A tick takes from an entry what it adds to the age of what it says.      *)
LEMMA TickHeals == ASSUME HealInv, GuardTick PROVE Heals
<1>. USE DEF HealInv, GuardInv
<1>1. /\ gSeen' = [d \in GuardDevices |-> Aged(gSeen[d])]
      /\ gProfile' = [gProfile EXCEPT !.left = Aged(gProfile.left)]
      /\ gReq' = [r \in GuardRequests |-> IF gReq[r] = NoRequest THEN NoRequest
                                          ELSE [gReq[r] EXCEPT !.age = @ + 1]]
      /\ gGone' = [d \in GuardDevices |->
                     IF d \in gFiles \/ gGone[d] = HistoryCap THEN gGone[d] ELSE gGone[d] + 1]
      /\ gOld' = [k \in Kvs |->
                     IF k = gKv \/ (gKv # 0 /\ k > gKv) \/ gOld[k] = HistoryCap
                     THEN gOld[k] ELSE gOld[k] + 1]
      /\ UNCHANGED <<gFiles, gKv>>
  BY DEF GuardTick
<1>2. ASSUME NEW r \in GuardRequests
      PROVE  /\ gReq'[r].pc = gReq[r].pc
             /\ gReq[r].pc # "idle" => /\ gReq'[r].dev = gReq[r].dev /\ gReq'[r].read = gReq[r].read
                                       /\ gReq'[r].age = gReq[r].age + 1
  <2>1. CASE gReq[r] = NoRequest
    BY <1>1, <2>1 DEF NoRequest
  <2>2. CASE gReq[r] # NoRequest
    <3>1. gReq[r] \in Request
      BY <2>2 DEF GuardTypeOK
    <3>2. gReq'[r] = [gReq[r] EXCEPT !.age = gReq[r].age + 1]
      BY <1>1, <2>2
    <3>. QED  BY <3>1, <3>2 DEF Request
  <2>. QED  BY <2>1, <2>2
<1>3. \A d \in GuardDevices :
        /\ gGone'[d] \in Nat /\ gGone'[d] <= gGone[d] + 1
        /\ d \in gFiles => gGone'[d] = gGone[d]
        /\ gSeen'[d] > 0 => gSeen[d] > 0 /\ gSeen'[d] = gSeen[d] - 1
  BY <1>1, GuardNumbers DEF Aged
<1>4. \A k \in Kvs : /\ gOld'[k] \in Nat /\ gOld'[k] <= gOld[k] + 1
                     /\ gKv # 0 /\ k >= gKv => gOld'[k] = gOld[k]
  <2>1. Kvs \subseteq Nat /\ gKv \in Nat
    BY DEF Kvs, GuardTypeOK
  <2>. QED  BY <1>1, <2>1, GuardNumbers
<1>5. /\ gProfile'.kv = gProfile.kv
      /\ gProfile'.left > 0 => gProfile.left > 0 /\ gProfile'.left = gProfile.left - 1
  <2>1. gProfile'.kv = gProfile.kv /\ gProfile'.left = Aged(gProfile.left)
    BY <1>1 DEF GuardTypeOK
  <2>. QED  BY <2>1, GuardNumbers DEF Aged
<1>6. HistoryStarts'
  <2>1. \A d \in gFiles' : gGone'[d] = 0
    BY <1>1, <1>3 DEF HistoryStarts, GuardTypeOK
  <2>2. gKv' # 0 => \A k \in Kvs : k >= gKv' => gOld'[k] = 0
    BY <1>1, <1>4 DEF HistoryStarts
  <2>. QED  BY <2>1, <2>2 DEF HistoryStarts
<1>7. DeviceHeals'
  <2>1. ASSUME NEW d \in GuardDevices, gSeen'[d] > 0
        PROVE  gGone'[d] + gSeen'[d] <= DeviceTtl + RequestTime
    <3>1. gGone[d] + gSeen[d] <= DeviceTtl + RequestTime
      BY <1>3, <2>1 DEF DeviceHeals
    <3>. QED  BY <1>3, <2>1, <3>1, GuardNumbers
  <2>2. ASSUME NEW r \in GuardRequests, gReq'[r].pc \in {"headOk", "get", "getOk"}
        PROVE  /\ gReq'[r].pc = "headOk" => gGone'[gReq'[r].dev] <= gReq'[r].age
               /\ gReq'[r].pc \in {"get", "getOk"} =>
                    gGone'[gReq'[r].dev] < DeviceTtl + RequestTime + gReq'[r].age
    <3>1. /\ gReq'[r].pc = gReq[r].pc /\ gReq'[r].dev = gReq[r].dev
          /\ gReq'[r].age = gReq[r].age + 1 /\ gReq[r].pc # "idle"
      BY <1>2, <2>2
    <3>2. gReq[r].dev \in GuardDevices /\ gReq[r].age \in Nat
      BY <3>1, GuardNumbers
    <3>3. gGone'[gReq[r].dev] <= gGone[gReq[r].dev] + 1 /\ gGone'[gReq[r].dev] \in Nat
      BY <1>3, <3>2
    <3>4. CASE gReq[r].pc = "headOk"
      <4>1. gGone[gReq[r].dev] <= gReq[r].age
        BY <3>4 DEF DeviceHeals
      <4>. QED  BY <3>1, <3>2, <3>3, <3>4, <4>1, GuardNumbers
    <3>5. CASE gReq[r].pc \in {"get", "getOk"}
      <4>1. gGone[gReq[r].dev] < DeviceTtl + RequestTime + gReq[r].age
        BY <3>5 DEF DeviceHeals
      <4>. QED  BY <3>1, <3>2, <3>3, <3>5, <4>1, GuardNumbers
    <3>. QED  BY <2>2, <3>1, <3>4, <3>5
  <2>. QED  BY <2>1, <2>2 DEF DeviceHeals
<1>8. VersionHeals'
  <2>1. ASSUME gProfile'.left > 0
        PROVE  gOld'[gProfile'.kv] + gProfile'.left <= ProfileTtl + RequestTime
    <3>1. gOld[gProfile.kv] + gProfile.left <= ProfileTtl + RequestTime
      BY <1>5, <2>1 DEF VersionHeals
    <3>2. gOld'[gProfile.kv] <= gOld[gProfile.kv] + 1 /\ gOld'[gProfile.kv] \in Nat
      BY <1>4, GuardNumbers
    <3>. QED  BY <1>5, <2>1, <3>1, <3>2, GuardNumbers
  <2>2. ASSUME NEW r \in GuardRequests, gReq'[r].pc = "getOk"
        PROVE  gOld'[gReq'[r].read] <= gReq'[r].age
    <3>1. /\ gReq[r].pc = "getOk" /\ gReq'[r].read = gReq[r].read
          /\ gReq'[r].age = gReq[r].age + 1
      BY <1>2, <2>2
    <3>2. gReq[r].read \in Kvs /\ gReq[r].age \in Nat
      BY <3>1, GuardNumbers, GuardAssumption DEF ReadsAreVersions, Kvs, Request
    <3>3. gOld[gReq[r].read] <= gReq[r].age
      BY <3>1 DEF VersionHeals
    <3>4. gOld'[gReq[r].read] <= gOld[gReq[r].read] + 1 /\ gOld'[gReq[r].read] \in Nat
      BY <1>4, <3>2
    <3>. QED  BY <3>1, <3>2, <3>3, <3>4, GuardNumbers
  <2>. QED  BY <2>1, <2>2 DEF VersionHeals
<1>9. LetsInFresh
  BY <1>2 DEF LetsInFresh
<1>. QED  BY <1>6, <1>7, <1>8, <1>9 DEF Heals

LEMMA HealStep == HealInv /\ [GuardNext]_gVars => HealInv' /\ LetsInFresh
<1>. SUFFICES ASSUME HealInv, [GuardNext]_gVars PROVE HealInv' /\ LetsInFresh
  OBVIOUS
<1>1. GuardInv'
  BY GuardStep DEF HealInv
<1>2. CASE GuardTick
  BY <1>1, <1>2, TickHeals DEF Heals, HealInv
<1>3. ASSUME NEW r \in GuardRequests, Authenticate(r) PROVE Heals
  BY <1>3, ArriveHeals, HeadHeals, CacheDeviceHeals, GetHeals, CacheProfileHeals DEF Authenticate
<1>4. ASSUME NEW r \in GuardRequests, Handle(r) PROVE Heals
  BY <1>4, HandlersHeal
<1>5. CASE UNCHANGED gVars
  <2>1. HistoryStarts' /\ DeviceHeals' /\ VersionHeals' /\ LetsInFresh
    BY <1>5 DEF gVars, HealInv, HistoryStarts, DeviceHeals, VersionHeals, LetsInFresh
  <2>. QED  BY <1>1, <2>1 DEF HealInv
<1>6. Heals => HealInv' /\ LetsInFresh
  BY <1>1 DEF Heals, HealInv
<1>. QED  BY <1>2, <1>3, <1>4, <1>5, <1>6 DEF GuardNext

(* "Both self-heal within their TTL": for any times to live and any number   *)
(* of requests in flight, no request gets past the guard with a device or a  *)
(* key_version gone for longer than its TTL and the two requests' times.     *)
THEOREM CachesHeal == GuardSpec => CutOffWithinTtl
<1>1. GuardInit => HealInv
  <2>. SUFFICES ASSUME GuardInit PROVE HealInv
    OBVIOUS
  <2>1. HistoryStarts /\ DeviceHeals /\ VersionHeals
    BY DEF GuardInit, HistoryStarts, DeviceHeals, VersionHeals, NoRequest
  <2>. QED  BY <2>1, GuardInvInit DEF HealInv
<1>2. LetsInFresh => \A r \in GuardRequests :
                       (gReq[r].pc # "in" /\ gReq'[r].pc = "in") =>
                         LET q == gReq'[r] IN
                         /\ gGone[q.dev] < DeviceTtl + 2 * RequestTime
                         /\ ~q.rotates => gOld[q.kv] < ProfileTtl + 2 * RequestTime
  BY DEF LetsInFresh, Accepted
<1>. QED  BY <1>1, <1>2, HealStep, PTL DEF GuardSpec, CutOffWithinTtl

-----------------------------------------------------------------------------
(* Registration.                                                            *)

LEMMA RegistrationInvInit == RegistrationInit => RegistrationInv
<1>. SUFFICES ASSUME RegistrationInit PROVE RegistrationInv
  OBVIOUS
<1>. USE RegistrationAssumption DEF RegistrationInit
<1>1. RegistrationTypeOK
  BY DEF RegistrationTypeOK, Steps, Answers
<1>2. BurnedOnce /\ OwnerIsTold /\ AnswerIsAwaited /\ RetryIsFresh /\ NeverRefusedForIdling
  BY DEF BurnedOnce, OwnerIsTold, AnswerIsAwaited, RetryIsFresh, NeverRefusedForIdling
<1>. QED  BY <1>1, <1>2 DEF RegistrationInv

-----------------------------------------------------------------------------
(* The proof of work.                                                      *)

(* new_challenge: a nonce nobody has used, with its whole life before it.    *)
LEMMA IssueKeeps ==
  ASSUME RegistrationInv, NEW f \in Forms, IssueChallenge(f)  PROVE RegistrationInv'
<1>. USE RegistrationAssumption DEF RegistrationInv
<1>1. UNCHANGED <<rStep, rBusy, rAnswer, rError, rOwner>> /\ rPow[f] = "asking"
  BY DEF IssueChallenge
<1>2. CASE /\ rPow' = [rPow EXCEPT ![f] = "solving"]
           /\ rLeft' = [rLeft EXCEPT ![f] = NonceTtl]
           /\ rBurned' = [rBurned EXCEPT ![f] = 0]
  <2>1. RegistrationTypeOK'
    BY <1>1, <1>2 DEF RegistrationTypeOK
  <2>2. BurnedOnce'
    BY <1>2 DEF BurnedOnce, RegistrationTypeOK
  <2>3. RetryIsFresh'
    <3>. SUFFICES ASSUME NEW g \in Forms,
                         \/ rStep'[g] = "reproving" /\ rPow'[g] \in {"solving", "ready"}
                         \/ rStep'[g] = "again" /\ rAnswer'[g] = "none"
                  PROVE  rLeft'[g] + rBusy'[g] >= NonceTtl
      BY DEF RetryIsFresh
    <3>1. CASE g = f
      BY <3>1, <1>1, <1>2 DEF RegistrationTypeOK
    <3>2. CASE g # f
      BY <3>2, <1>1, <1>2 DEF RegistrationTypeOK, RetryIsFresh
    <3>. QED  BY <3>1, <3>2
  <2>. QED  BY <1>1, <2>1, <2>2, <2>3 DEF OwnerIsTold, AnswerIsAwaited, NeverRefusedForIdling
<1>3. CASE rPow' = [rPow EXCEPT ![f] = "failed"] /\ UNCHANGED <<rLeft, rBurned>>
  <2>1. RegistrationTypeOK' /\ RetryIsFresh'
    BY <1>1, <1>3 DEF RegistrationTypeOK, RetryIsFresh
  <2>. QED  BY <1>1, <1>3, <2>1 DEF BurnedOnce, OwnerIsTold, AnswerIsAwaited, NeverRefusedForIdling
<1>. QED  BY <1>2, <1>3 DEF IssueChallenge

(* The worker's search takes what is left of it.                           *)
LEMMA SolveKeeps ==
  ASSUME RegistrationInv, NEW f \in Forms, SolveChallenge(f)  PROVE RegistrationInv'
<1>. USE DEF RegistrationInv
<1>1. /\ rPow[f] = "solving"
      /\ UNCHANGED <<rStep, rLeft, rBusy, rAnswer, rError, rOwner, rBurned>>
  BY DEF SolveChallenge
<1>2. PICK r \in {"ready", "failed"} : rPow' = [rPow EXCEPT ![f] = r]
  BY DEF SolveChallenge
<1>3. RegistrationTypeOK' /\ RetryIsFresh'
  BY <1>1, <1>2 DEF RegistrationTypeOK, RetryIsFresh
<1>. QED  BY <1>1, <1>3 DEF BurnedOnce, OwnerIsTold, AnswerIsAwaited, NeverRefusedForIdling

-----------------------------------------------------------------------------
(* handleRegister before its request.                                      *)

LEMMA SubmitKeeps ==
  ASSUME RegistrationInv, NEW f \in Forms, Submit(f)  PROVE RegistrationInv'
<1>. USE RegistrationAssumption DEF RegistrationInv
<1>1. /\ rStep[f] = "enter" /\ rStep' = [rStep EXCEPT ![f] = "proving"]
      /\ rPow' = [rPow EXCEPT ![f] = OrRun(rPow[f])]
      /\ rBusy' = [rBusy EXCEPT ![f] = 0] /\ rError' = [rError EXCEPT ![f] = "none"]
      /\ UNCHANGED <<rLeft, rAnswer, rOwner, rBurned>>
  BY DEF Submit
<1>2. RegistrationTypeOK'
  BY <1>1 DEF RegistrationTypeOK, Steps, OrRun
<1>3. RetryIsFresh'
  BY <1>1 DEF RegistrationTypeOK, RetryIsFresh
<1>4. BurnedOnce' /\ OwnerIsTold' /\ AnswerIsAwaited' /\ NeverRefusedForIdling'
  BY <1>1 DEF RegistrationTypeOK, BurnedOnce, OwnerIsTold, AnswerIsAwaited, NeverRefusedForIdling
<1>. QED  BY <1>2, <1>3, <1>4

LEMMA SettleKeeps ==
  ASSUME RegistrationInv, NEW f \in Forms, ProofSettles(f)  PROVE RegistrationInv'
<1>. USE RegistrationAssumption DEF RegistrationInv
<1>1. /\ rStep[f] \in {"proving", "inline", "reproving"}
      /\ UNCHANGED <<rLeft, rBusy, rAnswer, rOwner, rBurned>>
  BY DEF ProofSettles
<1>2. CASE /\ rPow[f] = "ready" /\ UNCHANGED <<rPow, rError>>
           /\ rStep' = [rStep EXCEPT ![f] = IF @ = "reproving" THEN "again" ELSE "deriving"]
  <2>1. RegistrationTypeOK' /\ RetryIsFresh'
    BY <1>1, <1>2 DEF RegistrationTypeOK, Steps, RetryIsFresh
  <2>2. BurnedOnce' /\ OwnerIsTold' /\ AnswerIsAwaited' /\ NeverRefusedForIdling'
    BY <1>1, <1>2
    DEF RegistrationTypeOK, BurnedOnce, OwnerIsTold, AnswerIsAwaited, NeverRefusedForIdling
  <2>. QED  BY <2>1, <2>2
<1>3. CASE /\ rStep[f] = "proving" /\ rStep' = [rStep EXCEPT ![f] = "inline"]
           /\ rPow' = [rPow EXCEPT ![f] = "asking"] /\ UNCHANGED rError
  <2>1. RegistrationTypeOK' /\ RetryIsFresh'
    BY <1>1, <1>3 DEF RegistrationTypeOK, Steps, RetryIsFresh
  <2>2. BurnedOnce' /\ OwnerIsTold' /\ AnswerIsAwaited' /\ NeverRefusedForIdling'
    BY <1>1, <1>3
    DEF RegistrationTypeOK, BurnedOnce, OwnerIsTold, AnswerIsAwaited, NeverRefusedForIdling
  <2>. QED  BY <2>1, <2>2
<1>4. CASE BackToForm(f, "failed") /\ UNCHANGED rPow
  <2>. USE DEF BackToForm
  <2>1. RegistrationTypeOK' /\ RetryIsFresh'
    BY <1>1, <1>4 DEF RegistrationTypeOK, Steps, RetryIsFresh
  <2>2. BurnedOnce' /\ OwnerIsTold' /\ AnswerIsAwaited' /\ NeverRefusedForIdling'
    BY <1>1, <1>4
    DEF RegistrationTypeOK, BurnedOnce, OwnerIsTold, AnswerIsAwaited, NeverRefusedForIdling
  <2>. QED  BY <2>1, <2>2
<1>. QED  BY <1>2, <1>3, <1>4 DEF ProofSettles

LEMMA DeriveKeeps ==
  ASSUME RegistrationInv, NEW f \in Forms, DeriveCredential(f)  PROVE RegistrationInv'
<1>. USE DEF RegistrationInv
<1>1. /\ rStep[f] = "deriving" /\ rStep' = [rStep EXCEPT ![f] = "registering"]
      /\ UNCHANGED <<rPow, rLeft, rBusy, rAnswer, rError, rOwner, rBurned>>
  BY DEF DeriveCredential
<1>2. RegistrationTypeOK' /\ RetryIsFresh'
  BY <1>1 DEF RegistrationTypeOK, Steps, RetryIsFresh
<1>3. BurnedOnce' /\ OwnerIsTold' /\ AnswerIsAwaited' /\ NeverRefusedForIdling'
  BY <1>1
  DEF RegistrationTypeOK, BurnedOnce, OwnerIsTold, AnswerIsAwaited, NeverRefusedForIdling
<1>. QED  BY <1>2, <1>3

-----------------------------------------------------------------------------
(* The handler and its answer.                                             *)

(* consume burns the nonce of whatever request names it, and the handle is   *)
(* claimed once.                                                           *)
LEMMA RegisterKeeps ==
  ASSUME RegistrationInv, NEW f \in Forms, Register(f)  PROVE RegistrationInv'
<1>. USE RegistrationAssumption DEF RegistrationInv
<1>. DEFINE fresh  == rLeft[f] > 0
            answer == IF ~fresh THEN "pow_invalid"
                      ELSE IF rOwner # "none" THEN "taken" ELSE "ok"
<1>1. /\ rStep[f] \in {"registering", "again"} /\ rAnswer[f] = "none"
      /\ UNCHANGED <<rStep, rPow, rBusy, rError>>
  BY DEF Register
<1>2. CASE /\ rLeft' = [rLeft EXCEPT ![f] = 0]
           /\ rOwner' = IF answer = "ok" THEN f ELSE rOwner
           /\ rBurned' = [rBurned EXCEPT ![f] = IF fresh THEN @ + 1 ELSE @]
           /\ rAnswer' \in {[rAnswer EXCEPT ![f] = a] : a \in {answer, "lost"}}
  <2>1. PICK a \in {answer, "lost"} : rAnswer' = [rAnswer EXCEPT ![f] = a]
    BY <1>2
  <2>2. /\ answer \in {"pow_invalid", "taken", "ok"}
        /\ answer = "pow_invalid" => ~fresh
        /\ answer = "ok" => rOwner = "none"
    OBVIOUS
  <2>. HIDE DEF answer
  <2>3. RegistrationTypeOK'
    BY <1>1, <1>2, <2>1, <2>2 DEF RegistrationTypeOK, Answers
  <2>4. BurnedOnce'
    BY <1>2 DEF BurnedOnce, RegistrationTypeOK
  <2>5. OwnerIsTold'
    <3>. SUFFICES ASSUME NEW g \in Forms, rStep'[g] = "done" \/ rAnswer'[g] = "ok"
                  PROVE  rOwner' = g
      BY DEF OwnerIsTold
    <3>1. CASE g = f
      BY <3>1, <1>1, <1>2, <2>1, <2>2 DEF RegistrationTypeOK
    <3>2. CASE g # f
      BY <3>2, <1>1, <1>2, <2>1, <2>2 DEF RegistrationTypeOK, OwnerIsTold
    <3>. QED  BY <3>1, <3>2
  <2>6. AnswerIsAwaited'
    <3>. SUFFICES ASSUME NEW g \in Forms
                  PROVE  /\ rAnswer'[g] # "none" => rStep'[g] \in {"registering", "again"}
                         /\ rAnswer'[g] = "pow_invalid" => rStep'[g] = "registering"
      BY DEF AnswerIsAwaited
    <3>1. CASE g = f
      <4>1. rStep[f] = "again" => fresh
        BY <1>1 DEF RetryIsFresh, RegistrationTypeOK
      <4>. QED  BY <3>1, <4>1, <1>1, <2>1, <2>2 DEF RegistrationTypeOK
    <3>2. CASE g # f
      BY <3>2, <1>1, <2>1 DEF RegistrationTypeOK, AnswerIsAwaited
    <3>. QED  BY <3>1, <3>2
  <2>7. RetryIsFresh'
    BY <1>1, <1>2, <2>1, <2>2 DEF RegistrationTypeOK, RetryIsFresh
  <2>. QED  BY <1>1, <2>3, <2>4, <2>5, <2>6, <2>7 DEF NeverRefusedForIdling
<1>3. CASE rAnswer' = [rAnswer EXCEPT ![f] = "lost"] /\ UNCHANGED <<rLeft, rOwner, rBurned>>
  <2>1. RegistrationTypeOK' /\ RetryIsFresh'
    BY <1>1, <1>3 DEF RegistrationTypeOK, Answers, RetryIsFresh
  <2>2. BurnedOnce' /\ OwnerIsTold' /\ AnswerIsAwaited' /\ NeverRefusedForIdling'
    BY <1>1, <1>3
    DEF RegistrationTypeOK, BurnedOnce, OwnerIsTold, AnswerIsAwaited, NeverRefusedForIdling
  <2>. QED  BY <2>1, <2>2
<1>. QED  BY <1>2, <1>3 DEF Register, Consumed

(* handleRegister: the retry starts its proof anew.                        *)
LEMMA AnsweredKeeps ==
  ASSUME RegistrationInv, NEW f \in Forms, Answered(f)  PROVE RegistrationInv'
<1>. USE RegistrationAssumption DEF RegistrationInv
<1>1. /\ rAnswer[f] # "none" /\ rAnswer' = [rAnswer EXCEPT ![f] = "none"]
      /\ rStep[f] \in {"registering", "again"}
      /\ UNCHANGED <<rLeft, rOwner, rBurned>>
  BY DEF Answered, AnswerIsAwaited
<1>2. CASE rAnswer[f] = "ok"
  <2>1. rStep' = [rStep EXCEPT ![f] = "done"] /\ UNCHANGED <<rPow, rBusy, rError>>
    BY <1>2 DEF Answered
  <2>2. RegistrationTypeOK' /\ RetryIsFresh'
    BY <1>1, <2>1 DEF RegistrationTypeOK, Answers, Steps, RetryIsFresh
  <2>3. BurnedOnce' /\ OwnerIsTold' /\ AnswerIsAwaited' /\ NeverRefusedForIdling'
    BY <1>1, <1>2, <2>1
    DEF RegistrationTypeOK, BurnedOnce, OwnerIsTold, AnswerIsAwaited, NeverRefusedForIdling
  <2>. QED  BY <2>2, <2>3
<1>3. CASE rAnswer[f] = "pow_invalid" /\ rStep[f] = "registering"
  <2>1. /\ rStep' = [rStep EXCEPT ![f] = "reproving"] /\ rPow' = [rPow EXCEPT ![f] = "asking"]
        /\ rBusy' = [rBusy EXCEPT ![f] = 0] /\ UNCHANGED rError
    BY <1>3 DEF Answered, Rerun
  <2>2. RegistrationTypeOK' /\ RetryIsFresh'
    BY <1>1, <2>1 DEF RegistrationTypeOK, Answers, Steps, RetryIsFresh
  <2>3. BurnedOnce' /\ OwnerIsTold' /\ AnswerIsAwaited' /\ NeverRefusedForIdling'
    BY <1>1, <2>1
    DEF RegistrationTypeOK, BurnedOnce, OwnerIsTold, AnswerIsAwaited, NeverRefusedForIdling
  <2>. QED  BY <2>2, <2>3
<1>4. CASE rAnswer[f] # "ok" /\ ~(rAnswer[f] = "pow_invalid" /\ rStep[f] = "registering")
  <2>1. /\ rStep' = [rStep EXCEPT ![f] = "enter"] /\ rError' = [rError EXCEPT ![f] = rAnswer[f]]
        /\ UNCHANGED <<rPow, rBusy>>
    BY <1>4 DEF Answered, BackToForm
  <2>2. rAnswer[f] \in {"taken", "lost"}
    BY <1>1, <1>4 DEF RegistrationTypeOK, Answers, AnswerIsAwaited
  <2>3. RegistrationTypeOK' /\ RetryIsFresh'
    BY <1>1, <2>1, <2>2 DEF RegistrationTypeOK, Answers, Steps, RetryIsFresh
  <2>4. BurnedOnce' /\ OwnerIsTold' /\ AnswerIsAwaited' /\ NeverRefusedForIdling'
    BY <1>1, <2>1, <2>2
    DEF RegistrationTypeOK, BurnedOnce, OwnerIsTold, AnswerIsAwaited, NeverRefusedForIdling
  <2>. QED  BY <2>3, <2>4
<1>. QED  BY <1>2, <1>3, <1>4

-----------------------------------------------------------------------------
(* Time takes as much from a nonce as it adds to the submission.           *)
LEMMA RegistrationTickKeeps ==
  ASSUME RegistrationInv, RegistrationTick  PROVE RegistrationInv'
<1>. USE RegistrationAssumption DEF RegistrationInv
<1>1. /\ \A f \in Forms : rStep[f] \in {"enter", "done"} \/ rBusy[f] < SubmitTime
      /\ rLeft' = [f \in Forms |-> IF rLeft[f] > 0 THEN rLeft[f] - 1 ELSE 0]
      /\ rBusy' = [f \in Forms |-> IF rStep[f] \in {"enter", "done"} THEN 0 ELSE rBusy[f] + 1]
      /\ UNCHANGED <<rStep, rPow, rAnswer, rError, rOwner, rBurned>>
  BY DEF RegistrationTick
<1>2. RegistrationTypeOK'
  <2>1. rLeft' \in [Forms -> 0 .. NonceTtl]
    BY <1>1 DEF RegistrationTypeOK
  <2>2. rBusy' \in [Forms -> 0 .. SubmitTime]
    BY <1>1 DEF RegistrationTypeOK
  <2>. QED  BY <1>1, <2>1, <2>2 DEF RegistrationTypeOK
<1>3. BurnedOnce'
  BY <1>1 DEF BurnedOnce, RegistrationTypeOK
<1>4. RetryIsFresh'
  <2>. SUFFICES ASSUME NEW g \in Forms,
                       \/ rStep'[g] = "reproving" /\ rPow'[g] \in {"solving", "ready"}
                       \/ rStep'[g] = "again" /\ rAnswer'[g] = "none"
                PROVE  rLeft'[g] + rBusy'[g] >= NonceTtl
    BY DEF RetryIsFresh
  <2>1. rLeft[g] + rBusy[g] >= NonceTtl /\ rStep[g] \notin {"enter", "done"}
    BY <1>1 DEF RetryIsFresh
  <2>2. rLeft[g] \in Nat /\ rBusy[g] \in Nat /\ rBusy[g] < SubmitTime
    BY <1>1, <2>1 DEF RegistrationTypeOK
  <2>3. rLeft'[g] = rLeft[g] - 1 /\ rBusy'[g] = rBusy[g] + 1
    BY <1>1, <2>1, <2>2
  <2>. QED  BY <2>1, <2>2, <2>3
<1>. QED  BY <1>1, <1>2, <1>3, <1>4 DEF OwnerIsTold, AnswerIsAwaited, NeverRefusedForIdling

LEMMA RegistrationStep == RegistrationInv /\ [RegistrationNext]_rVars => RegistrationInv'
<1>. SUFFICES ASSUME RegistrationInv, [RegistrationNext]_rVars PROVE RegistrationInv'
  OBVIOUS
<1>1. CASE RegistrationTick
  BY <1>1, RegistrationTickKeeps
<1>2. CASE \E f \in Forms : Submit(f) \/ FormStep(f)
  BY <1>2, SubmitKeeps, IssueKeeps, SolveKeeps, SettleKeeps, DeriveKeeps, RegisterKeeps,
     AnsweredKeeps DEF FormStep
<1>3. CASE UNCHANGED rVars
  BY <1>3 DEF rVars, RegistrationInv, RegistrationTypeOK, BurnedOnce, OwnerIsTold,
              AnswerIsAwaited, RetryIsFresh, NeverRefusedForIdling
<1>. QED  BY <1>1, <1>2, <1>3 DEF RegistrationNext

-----------------------------------------------------------------------------
(* The one retry of handleRegister hides every proof that was too old.     *)
THEOREM RetryHides == RegistrationSpec => []NeverRefusedForIdling
<1>1. RegistrationInv => NeverRefusedForIdling
  BY DEF RegistrationInv
<1>. QED  BY RegistrationInvInit, RegistrationStep, <1>1, PTL DEF RegistrationSpec

(* "One nonce grants no retries", and who is told of an account has it.      *)
THEOREM NonceIsUsedOnce == RegistrationSpec => []OneUsePerChallenge
<1>1. RegistrationInv => OneUsePerChallenge
  BY DEF RegistrationInv, OneUsePerChallenge, BurnedOnce, OwnerIsTold
<1>. QED  BY RegistrationInvInit, RegistrationStep, <1>1, PTL DEF RegistrationSpec

-----------------------------------------------------------------------------
(* The media quota.                                                         *)

(* What a probe counts is the number of objects in the store.              *)
LEMMA ProbeCounts ==
  ASSUME NEW S, S \subseteq Blobs
  PROVE  Cardinality(S) \in 0 .. Cardinality(Blobs)
BY FS_Subset, FS_CardinalityType, QuotaAssumption

LEMMA QuotaInvInit == QuotaInit => QuotaInv
<1>. SUFFICES ASSUME QuotaInit PROVE QuotaInv
  OBVIOUS
<1>. USE QuotaAssumption DEF QuotaInit
<1>1. QuotaTypeOK
  <2>1. /\ qUrls \in [Blobs -> 0 .. UrlTtl] /\ qFresh \in 0 .. QuotaTtl
        /\ qUsage \in Nat /\ qGranted \in Nat
    OBVIOUS
  <2>2. qReq \in [QuotaRequests -> QuotaRequest \cup {NoQuotaRequest}]
    OBVIOUS
  <2>. QED  BY <2>1, <2>2 DEF QuotaTypeOK
<1>2. HolderIsAlone /\ NoGrantMeanwhile /\ MissedIsPending /\ GrantsWithinQuota
  BY DEF NoQuotaRequest, HolderIsAlone, NoGrantMeanwhile, MissedIsPending, GrantsWithinQuota
<1>. QED  BY <1>1, <1>2 DEF QuotaInv

-----------------------------------------------------------------------------
(* Every step of the handlers, the browsers and the clock keeps it.        *)

(* store_presign, store_usage: another request waits.                      *)
LEMMA AskKeeps == ASSUME QuotaInv, NEW r \in QuotaRequests, AskQuota(r) PROVE QuotaInv'
<1>. USE QuotaAssumption DEF QuotaInv, NoQuotaRequest
<1>1. PICK op \in {"presign", "usage"}, b \in Blobs :
        qReq' = [qReq EXCEPT ![r] = [pc |-> "lock", op |-> op, blob |-> b, probe |-> 0]]
  BY DEF AskQuota
<1>2. /\ qReq[r].pc = "idle"
      /\ UNCHANGED <<qStored, qUrls, qUsage, qFresh, qLock, qGranted, qMissed>>
  BY DEF AskQuota
<1>3. QuotaTypeOK'
  <2>1. 0 \in 0 .. Cardinality(Blobs)
    BY FS_CardinalityType
  <2>. QED  BY <1>1, <1>2, <2>1 DEF QuotaTypeOK, QuotaRequest
<1>4. \A s \in QuotaRequests : qReq'[s].pc = IF s = r THEN "lock" ELSE qReq[s].pc
  BY <1>1 DEF QuotaTypeOK
<1>5. HolderIsAlone' /\ NoGrantMeanwhile' /\ GrantsWithinQuota'
  BY <1>2, <1>4 DEF HolderIsAlone, NoGrantMeanwhile, GrantsWithinQuota
<1>6. MissedIsPending'
  BY <1>2, <1>4 DEF MissedIsPending
<1>. QED  BY <1>3, <1>5, <1>6

(* refresh_if_expired takes the lock and lists: a fresh count of grants.   *)
LEMMA ProbeKeeps == ASSUME QuotaInv, NEW r \in QuotaRequests, Probe(r) PROVE QuotaInv'
<1>. USE QuotaAssumption DEF QuotaInv, NoQuotaRequest
<1>1. /\ qReq[r].pc = "lock" /\ qLock = "free" /\ qLock' = r
      /\ UNCHANGED <<qStored, qUrls, qUsage, qFresh>>
  BY DEF Probe, MayEnter
<1>2. \A s \in QuotaRequests : qReq[s].pc \notin {"probed", "decide"}
  BY <1>1 DEF HolderIsAlone
<1>3. CASE qFresh = 0
  <2>1. /\ qReq' = [qReq EXCEPT ![r].pc = "probed", ![r].probe = Cardinality(qStored)]
        /\ qGranted' = 0 /\ qMissed' = FALSE
    BY <1>3 DEF Probe
  <2>2. QuotaTypeOK'
    <3>1. Cardinality(qStored) \in 0 .. Cardinality(Blobs)
      BY ProbeCounts DEF QuotaTypeOK
    <3>2. qReq[r] \in QuotaRequest
      BY <1>1 DEF QuotaTypeOK
    <3>3. [qReq[r] EXCEPT !.pc = "probed", !.probe = Cardinality(qStored)] \in QuotaRequest
      BY <3>1, <3>2 DEF QuotaRequest
    <3>4. qReq' = [qReq EXCEPT ![r] = [qReq[r] EXCEPT !.pc = "probed", !.probe = Cardinality(qStored)]]
      BY <2>1 DEF QuotaTypeOK
    <3>5. qReq' \in [QuotaRequests -> QuotaRequest \cup {NoQuotaRequest}]
      BY <3>3, <3>4 DEF QuotaTypeOK
    <3>. QED  BY <1>1, <2>1, <3>5 DEF QuotaTypeOK
  <2>3. \A s \in QuotaRequests : qReq'[s].pc = IF s = r THEN "probed" ELSE qReq[s].pc
    BY <2>1 DEF QuotaTypeOK
  <2>4. HolderIsAlone' /\ NoGrantMeanwhile' /\ MissedIsPending'
    BY <1>1, <1>2, <2>1, <2>3 DEF HolderIsAlone, NoGrantMeanwhile, MissedIsPending
  <2>5. GrantsWithinQuota'
    BY <1>1, <2>1 DEF GrantsWithinQuota, QuotaTypeOK
  <2>. QED  BY <2>2, <2>4, <2>5
<1>4. CASE qFresh # 0
  <2>1. qReq' = [qReq EXCEPT ![r].pc = "decide"] /\ UNCHANGED <<qGranted, qMissed>>
    BY <1>4 DEF Probe
  <2>2. QuotaTypeOK'
    BY <1>1, <2>1 DEF QuotaTypeOK, QuotaRequest
  <2>3. \A s \in QuotaRequests : qReq'[s].pc = IF s = r THEN "decide" ELSE qReq[s].pc
    BY <2>1 DEF QuotaTypeOK
  <2>4. HolderIsAlone' /\ NoGrantMeanwhile' /\ MissedIsPending' /\ GrantsWithinQuota'
    BY <1>1, <1>2, <2>1, <2>3
    DEF HolderIsAlone, NoGrantMeanwhile, MissedIsPending, GrantsWithinQuota
  <2>. QED  BY <2>2, <2>4
<1>. QED  BY <1>3, <1>4

(* The listing replaces the entry, nothing granted since; or it fails.     *)
LEMMA ProbedKeeps == ASSUME QuotaInv, NEW r \in QuotaRequests, Probed(r) PROVE QuotaInv'
<1>. USE QuotaAssumption DEF QuotaInv, NoQuotaRequest
<1>1. /\ qReq[r].pc = "probed" /\ qGranted = 0 /\ qLock = r
      /\ UNCHANGED <<qStored, qUrls, qGranted, qMissed>>
  BY DEF Probed, NoGrantMeanwhile, HolderIsAlone
<1>2. qReq[r] \in QuotaRequest /\ qReq[r].probe \in Nat
  <2>1. qReq[r] \in QuotaRequest
    BY <1>1 DEF QuotaTypeOK
  <2>. QED  BY <2>1, FS_CardinalityType DEF QuotaRequest
<1>3. qMissed => \E s \in QuotaRequests : qReq[s].pc = "deleted"
  BY <1>1 DEF MissedIsPending
<1>4. CASE /\ qUsage' = qReq[r].probe /\ qFresh' = QuotaTtl
           /\ qReq' = [qReq EXCEPT ![r].pc = "decide"] /\ UNCHANGED qLock
  <2>1. QuotaTypeOK'
    BY <1>1, <1>2, <1>4 DEF QuotaTypeOK, QuotaRequest
  <2>2. \A s \in QuotaRequests : qReq'[s].pc = IF s = r THEN "decide" ELSE qReq[s].pc
    BY <1>4 DEF QuotaTypeOK
  <2>3. HolderIsAlone' /\ NoGrantMeanwhile' /\ MissedIsPending'
    BY <1>1, <1>3, <1>4, <2>2 DEF HolderIsAlone, NoGrantMeanwhile, MissedIsPending
  <2>4. GrantsWithinQuota'
    BY <1>1, <1>2, <1>4 DEF GrantsWithinQuota
  <2>. QED  BY <2>1, <2>3, <2>4
<1>5. CASE /\ qReq' = [qReq EXCEPT ![r] = NoQuotaRequest] /\ qLock' = "free"
           /\ UNCHANGED <<qUsage, qFresh>>
  <2>1. QuotaTypeOK'
    BY <1>1, <1>5 DEF QuotaTypeOK
  <2>2. \A s \in QuotaRequests : qReq'[s].pc = IF s = r THEN "idle" ELSE qReq[s].pc
    BY <1>5 DEF QuotaTypeOK
  <2>3. HolderIsAlone' /\ NoGrantMeanwhile' /\ MissedIsPending' /\ GrantsWithinQuota'
    BY <1>1, <1>3, <1>5, <2>2
    DEF HolderIsAlone, NoGrantMeanwhile, MissedIsPending, GrantsWithinQuota
  <2>. QED  BY <2>1, <2>3
<1>. QED  BY <1>4, <1>5 DEF Probed

(* reserve_upload compares and counts under the lock.                      *)
LEMMA DecideKeeps == ASSUME QuotaInv, NEW r \in QuotaRequests, Decide(r) PROVE QuotaInv'
<1>. USE QuotaAssumption DEF QuotaInv, NoQuotaRequest
<1>1. /\ qReq[r].pc = "decide" /\ qLock = r /\ qLock' = "free"
      /\ qReq' = [qReq EXCEPT ![r] = NoQuotaRequest]
      /\ UNCHANGED <<qStored, qFresh, qMissed>>
  BY DEF Decide, HolderIsAlone
<1>2. \A s \in QuotaRequests : qReq'[s].pc = IF s = r THEN "idle" ELSE qReq[s].pc
  BY <1>1 DEF QuotaTypeOK
<1>3. \A s \in QuotaRequests : qReq'[s].pc \notin {"probed", "decide"}
  BY <1>1, <1>2 DEF HolderIsAlone
<1>4. HolderIsAlone' /\ NoGrantMeanwhile' /\ MissedIsPending'
  BY <1>1, <1>2, <1>3 DEF HolderIsAlone, NoGrantMeanwhile, MissedIsPending
<1>5. CASE /\ Room(qUsage) /\ qUsage' = qUsage + 1 /\ qGranted' = qGranted + 1
           /\ qUrls' = [qUrls EXCEPT ![qReq[r].blob] = UrlTtl]
  <2>1. QuotaTypeOK'
    <3>1. qUrls' \in [Blobs -> 0 .. UrlTtl]
      <4>1. UrlTtl \in 0 .. UrlTtl
        OBVIOUS
      <4>2. qUrls \in [Blobs -> 0 .. UrlTtl]
        BY DEF QuotaTypeOK
      <4>3. qUrls' = [qUrls EXCEPT ![qReq[r].blob] = UrlTtl]
        BY <1>5
      <4>. QED  BY <4>1, <4>2, <4>3, Zenon
    <3>2. qUsage' \in Nat /\ qGranted' \in Nat
      BY <1>5 DEF QuotaTypeOK
    <3>3. qReq' \in [QuotaRequests -> QuotaRequest \cup {NoQuotaRequest}]
      BY <1>1 DEF QuotaTypeOK
    <3>. QED  BY <1>1, <3>1, <3>2, <3>3 DEF QuotaTypeOK
  <2>2. GrantsWithinQuota'
    BY <1>5 DEF GrantsWithinQuota, QuotaTypeOK, Room
  <2>. QED  BY <1>4, <2>1, <2>2
<1>6. CASE UNCHANGED <<qUsage, qGranted, qUrls>>
  <2>1. QuotaTypeOK' /\ GrantsWithinQuota'
    BY <1>1, <1>6 DEF QuotaTypeOK, GrantsWithinQuota
  <2>. QED  BY <1>4, <2>1
<1>. QED  BY <1>5, <1>6 DEF Decide

(* delete_object: the handler that deleted has yet to expire the entry.    *)
LEMMA DeleteKeeps ==
  ASSUME QuotaInv, NEW r \in QuotaRequests, NEW b \in Blobs, DeleteBlob(r, b)
  PROVE  QuotaInv'
<1>. USE QuotaAssumption DEF QuotaInv, NoQuotaRequest
<1>1. /\ qReq[r].pc = "idle" /\ qStored' = qStored \ {b}
      /\ qMissed' = (qMissed \/ b \in qStored)
      /\ qReq' = [qReq EXCEPT ![r] = [pc |-> "deleted", op |-> "delete", blob |-> b, probe |-> 0]]
      /\ UNCHANGED <<qUrls, qUsage, qFresh, qLock, qGranted>>
  BY DEF DeleteBlob
<1>2. QuotaTypeOK'
  <2>1. 0 \in 0 .. Cardinality(Blobs)
    BY FS_CardinalityType
  <2>2. qReq' \in [QuotaRequests -> QuotaRequest \cup {NoQuotaRequest}]
    BY <1>1, <2>1 DEF QuotaTypeOK, QuotaRequest
  <2>3. qMissed' \in BOOLEAN
    BY <1>1 DEF QuotaTypeOK
  <2>. QED  BY <1>1, <2>2, <2>3 DEF QuotaTypeOK
<1>3. \A s \in QuotaRequests : qReq'[s].pc = IF s = r THEN "deleted" ELSE qReq[s].pc
  BY <1>1 DEF QuotaTypeOK
<1>4. HolderIsAlone' /\ NoGrantMeanwhile' /\ MissedIsPending' /\ GrantsWithinQuota'
  BY <1>1, <1>3 DEF HolderIsAlone, NoGrantMeanwhile, MissedIsPending, GrantsWithinQuota
<1>. QED  BY <1>2, <1>4

(* invalidate: with the lock free no listing is under way.                 *)
LEMMA InvalidateKeeps == ASSUME QuotaInv, NEW r \in QuotaRequests, Invalidate(r) PROVE QuotaInv'
<1>. USE QuotaAssumption DEF QuotaInv, NoQuotaRequest
<1>1. /\ qReq[r].pc = "deleted" /\ qLock = "free" /\ qFresh' = 0
      /\ qReq' = [qReq EXCEPT ![r] = NoQuotaRequest]
      /\ UNCHANGED <<qStored, qUrls, qUsage, qLock, qGranted, qMissed>>
  BY DEF Invalidate, MayExpire
<1>2. QuotaTypeOK'
  BY <1>1 DEF QuotaTypeOK
<1>3. \A s \in QuotaRequests : qReq'[s].pc = IF s = r THEN "idle" ELSE qReq[s].pc
  BY <1>1 DEF QuotaTypeOK
<1>4. \A s \in QuotaRequests : qReq[s].pc \notin {"probed", "decide"}
  BY <1>1 DEF HolderIsAlone
<1>5. HolderIsAlone' /\ NoGrantMeanwhile' /\ MissedIsPending' /\ GrantsWithinQuota'
  BY <1>1, <1>3, <1>4 DEF HolderIsAlone, NoGrantMeanwhile, MissedIsPending, GrantsWithinQuota
<1>. QED  BY <1>2, <1>5

(* Uploads pass the server by, and time only expires the entry.            *)
LEMMA OutsideKeeps ==
  ASSUME QuotaInv, QuotaTick \/ (\E b \in Blobs : Upload(b)) \/ UNCHANGED qVars
  PROVE  QuotaInv'
<1>. USE QuotaAssumption DEF QuotaInv
<1>1. CASE QuotaTick
  <2>1. UNCHANGED <<qStored, qUsage, qLock, qReq, qGranted, qMissed>> /\ (qFresh = 0 => qFresh' = 0)
    BY <1>1 DEF QuotaTick
  <2>2. QuotaTypeOK'
    <3>1. qFresh' \in 0 .. QuotaTtl
      BY <1>1 DEF QuotaTick, QuotaTypeOK
    <3>2. qUrls' \in [Blobs -> 0 .. UrlTtl]
      BY <1>1 DEF QuotaTick, QuotaTypeOK
    <3>. QED  BY <2>1, <3>1, <3>2 DEF QuotaTypeOK
  <2>. QED  BY <2>1, <2>2 DEF HolderIsAlone, NoGrantMeanwhile, MissedIsPending, GrantsWithinQuota
<1>2. CASE \E b \in Blobs : Upload(b)
  BY <1>2 DEF Upload, QuotaTypeOK, HolderIsAlone, NoGrantMeanwhile, MissedIsPending,
              GrantsWithinQuota
<1>3. CASE UNCHANGED qVars
  BY <1>3 DEF qVars, QuotaTypeOK, HolderIsAlone, NoGrantMeanwhile, MissedIsPending,
              GrantsWithinQuota
<1>. QED  BY <1>1, <1>2, <1>3

LEMMA QuotaStep == QuotaInv /\ [QuotaNext]_qVars => QuotaInv'
<1>. SUFFICES ASSUME QuotaInv, [QuotaNext]_qVars PROVE QuotaInv'
  OBVIOUS
<1>1. CASE \E r \in QuotaRequests :
             \/ AskQuota(r) \/ Probe(r) \/ Probed(r) \/ Decide(r) \/ Invalidate(r)
             \/ \E b \in Blobs : DeleteBlob(r, b)
  BY <1>1, AskKeeps, ProbeKeeps, ProbedKeeps, DecideKeeps, InvalidateKeeps, DeleteKeeps
<1>2. CASE QuotaTick \/ (\E b \in Blobs : Upload(b)) \/ UNCHANGED qVars
  BY <1>2, OutsideKeeps
<1>. QED  BY <1>1, <1>2 DEF QuotaNext

-----------------------------------------------------------------------------
(* For every quota and any concurrent handlers, what was granted since the   *)
(* objects were listed is counted and within the quota (reserve_upload).     *)
THEOREM QuotaHolds == QuotaSpec => []GrantsWithinQuota
<1>1. QuotaInv => GrantsWithinQuota
  BY DEF QuotaInv
<1>. QED  BY QuotaInvInit, QuotaStep, <1>1, PTL DEF QuotaSpec

(* An answered deletion is in every listing that a grant is decided from     *)
(* (delete_object, invalidate).                                              *)
THEOREM DeletionsAreSeen == QuotaSpec => []DeletionIsSeen
<1>1. QuotaInv => DeletionIsSeen
  BY DEF QuotaInv, QuotaTypeOK, MissedIsPending, DeletionIsSeen
<1>. QED  BY QuotaInvInit, QuotaStep, <1>1, PTL DEF QuotaSpec

-----------------------------------------------------------------------------
(* Delivery.                                                                *)

Send == [step : {"idle", "preparing", "posting", "retry", "sent", "failed"},
         attempt : 0 .. SendAttempts]
FileUpload == [end : {"none", "done", "failed"}, left : 0 .. PutAttempts]

LEMMA BatchLength == Len(Recipients) \in Nat
BY DeliveryAssumption

\* A message moves on: the other messages stay where they are.
LEMMA NextSend ==
  ASSUME DeliveryTypeOK, NEW m \in Messages, NEW q \in Send, dSend' = [dSend EXCEPT ![m] = q]
  PROVE  /\ dSend' \in [Messages -> Send] /\ dSend'[m] = q
         /\ \A n \in Messages : n # m => dSend'[n] = dSend[n]
BY DEF DeliveryTypeOK, Send

-----------------------------------------------------------------------------
LEMMA DeliveryInvInit == DeliveryInit => DeliveryInv
<1>. SUFFICES ASSUME DeliveryInit PROVE DeliveryInv
  OBVIOUS
<1>. USE DEF DeliveryInit
<1>1. DeliveryTypeOK
  <2>1. 0 \in 0 .. SendAttempts /\ PutAttempts \in 0 .. PutAttempts /\ 0 \in 0 .. HubBuffer
        /\ 0 \in 0 .. Len(Recipients)
    BY DeliveryAssumption, BatchLength
  <2>2. dSend \in [Messages -> Send]
    BY <2>1 DEF Send
  <2>3. dFiles \in [Messages -> [Files -> FileUpload]]
    BY <2>1 DEF FileUpload
  <2>4. dPut \in [Handlers -> 0 .. Len(Recipients)] /\ dHub \in [Conns -> 0 .. HubBuffer]
    BY <2>1
  <2>5. dUnseen \in [Conns -> SUBSET (Messages \X Batch)]
    OBVIOUS
  <2>6. dStored = {} /\ dRuns = {} /\ dOpen = {} /\ dNotified = {}
    OBVIOUS
  <2>. QED  BY <2>2, <2>3, <2>4, <2>5, <2>6 DEF DeliveryTypeOK, Send, FileUpload
<1>2. AttemptsAreLeft /\ PostedIsReady /\ WakeupNotLost
  BY DeliveryAssumption DEF AttemptsAreLeft, PostedIsReady, WakeupNotLost
<1>3. PutIsStored /\ SentIsComplete
  BY DEF PutIsStored, SentIsComplete
<1>. QED  BY <1>1, <1>2, <1>3 DEF DeliveryInv

-----------------------------------------------------------------------------
(* The composer.                                                           *)

LEMMA StartKeeps == ASSUME DeliveryInv, NEW m \in Messages, StartSend(m) PROVE DeliveryInv'
<1>. USE DEF DeliveryInv
<1>. DEFINE q == [dSend[m] EXCEPT !.step = "preparing"]
<1>1. /\ dSend[m].step = "idle" /\ dSend[m].attempt = 0 /\ dSend[m] \in Send
      /\ dSend' = [dSend EXCEPT ![m] = q]
      /\ UNCHANGED <<dFiles, dRuns, dPut, dStored, dOpen, dHub, dNotified, dUnseen>>
  BY DEF StartSend, DeliveryTypeOK, AttemptsAreLeft, Send
<1>2. q \in Send /\ q.step = "preparing" /\ q.attempt = 0
  BY <1>1 DEF Send
<1>. HIDE DEF q
<1>3. /\ dSend' \in [Messages -> Send] /\ dSend'[m] = q
      /\ \A n \in Messages : n # m => dSend'[n] = dSend[n]
  BY <1>1, <1>2, NextSend
<1>4. DeliveryTypeOK' /\ PutIsStored' /\ WakeupNotLost'
  BY <1>1, <1>3 DEF DeliveryTypeOK, Send, PutIsStored, WakeupNotLost
<1>5. AttemptsAreLeft'
  BY <1>1, <1>2, <1>3 DEF AttemptsAreLeft
<1>6. PostedIsReady' /\ SentIsComplete'
  BY <1>1, <1>2, <1>3 DEF PostedIsReady, SentIsComplete, ReadyToPost, Uploaded
<1>. QED  BY <1>4, <1>5, <1>6

\* An attempt for one file leaves the others alone.
LEMMA NextFile ==
  ASSUME DeliveryTypeOK, NEW m \in Messages, NEW f \in Files, NEW q \in FileUpload,
         dFiles' = [dFiles EXCEPT ![m][f] = q]
  PROVE  /\ dFiles' \in [Messages -> [Files -> FileUpload]] /\ dFiles'[m][f] = q
         /\ \A n \in Messages, g \in Files : n # m \/ g # f => dFiles'[n][g] = dFiles[n][g]
<1>1. dFiles \in [Messages -> [Files -> FileUpload]]
  BY DEF DeliveryTypeOK, FileUpload
<1>. QED  BY <1>1

\* Promise.all: a failed upload takes the message back, never a stored one.
LEMMA UploadKeeps ==
  ASSUME DeliveryInv, NEW m \in Messages, NEW f \in Files, UploadFile(m, f)
  PROVE  DeliveryInv'
<1>. USE DEF DeliveryInv
<1>1. PICK end \in {"done", "failed", "none"} :
        /\ end = "none" => dFiles[m][f].left > 1
        /\ dFiles' = [dFiles EXCEPT ![m][f] = [end |-> end, left |-> dFiles[m][f].left - 1]]
        /\ dSend' = IF end = "failed" THEN [dSend EXCEPT ![m].step = "failed"] ELSE dSend
  BY DEF UploadFile
<1>2. /\ dFiles[m][f].end = "none" /\ dSend[m].step # "idle"
      /\ UNCHANGED <<dRuns, dPut, dStored, dOpen, dHub, dNotified, dUnseen>>
  BY DEF UploadFile
<1>. DEFINE q == [end |-> end, left |-> dFiles[m][f].left - 1]
<1>3. q \in FileUpload /\ q.end = end /\ (end = "none" => q.left > 0)
  <2>1. dFiles[m][f].left \in 0 .. PutAttempts /\ dFiles[m][f].left > 0
    BY <1>2 DEF DeliveryTypeOK, AttemptsAreLeft
  <2>2. dFiles[m][f].left - 1 \in 0 .. PutAttempts
    BY <2>1, DeliveryAssumption
  <2>. QED  BY <1>1, <2>1, <2>2, DeliveryAssumption DEF FileUpload
<1>4. dFiles' = [dFiles EXCEPT ![m][f] = q]
  BY <1>1
<1>. HIDE DEF q
<1>5. /\ dFiles' \in [Messages -> [Files -> FileUpload]] /\ dFiles'[m][f] = q
      /\ \A n \in Messages, g \in Files : n # m \/ g # f => dFiles'[n][g] = dFiles[n][g]
  BY ZenonT(40), <1>3, <1>4, NextFile
<1>6. \A n \in Messages : Uploaded(n) => Uploaded(n)'
  BY <1>2, <1>5 DEF Uploaded
<1>7. /\ dSend' \in [Messages -> Send]
      /\ \A n \in Messages : \/ dSend'[n] = dSend[n]
                             \/ dSend'[n].step = "failed"
  <2>1. CASE end = "failed"
    <3>. DEFINE p == [dSend[m] EXCEPT !.step = "failed"]
    <3>1. dSend' = [dSend EXCEPT ![m] = p]
      BY <1>1, <2>1 DEF DeliveryTypeOK
    <3>2. p \in Send /\ p.step = "failed"
      BY DEF DeliveryTypeOK, Send
    <3>. HIDE DEF p
    <3>. QED  BY <3>1, <3>2, NextSend
  <2>2. CASE end # "failed"
    BY <1>1, <2>2 DEF DeliveryTypeOK, Send
  <2>. QED  BY <2>1, <2>2
<1>8. DeliveryTypeOK'
  BY <1>2, <1>5, <1>7 DEF DeliveryTypeOK, Send, FileUpload
<1>9. AttemptsAreLeft'
  <2>1. \A n \in Messages, g \in Files : dFiles'[n][g].end = "none" => dFiles'[n][g].left > 0
    BY <1>1, <1>3, <1>5 DEF AttemptsAreLeft
  <2>. QED  BY <1>7, <2>1 DEF AttemptsAreLeft
<1>10. PostedIsReady'
  <2>1. \A h \in dRuns : h[1] \in Messages
    BY DEF DeliveryTypeOK, Handlers
  <2>. QED  BY <1>2, <1>6, <1>7, <2>1 DEF PostedIsReady, ReadyToPost
<1>11. PutIsStored' /\ WakeupNotLost'
  BY <1>2 DEF PutIsStored, WakeupNotLost
<1>12. SentIsComplete'
  <2>1. \A e \in dStored : e[1] \in Messages
    BY DEF DeliveryTypeOK
  <2>. QED  BY <1>2, <1>6, <1>7, <2>1 DEF SentIsComplete
<1>. QED  BY <1>8, <1>9, <1>10, <1>11, <1>12

\* An attempt begins with everything uploaded.
LEMMA PostKeeps == ASSUME DeliveryInv, NEW m \in Messages, Post(m) PROVE DeliveryInv'
<1>. USE DEF DeliveryInv
<1>. DEFINE n == dSend[m].attempt + 1
            q == [step |-> "posting", attempt |-> n]
<1>1. /\ dSend' = [dSend EXCEPT ![m] = q]
      /\ dRuns' = dRuns \cup {<<m, n>>}
      /\ UNCHANGED <<dFiles, dPut, dStored, dOpen, dHub, dNotified, dUnseen>>
  BY DEF Post, DeliveryTypeOK
<1>2. ReadyToPost(m) /\ n \in 1 .. SendAttempts
  <2>1. dSend[m].attempt \in 0 .. SendAttempts
    BY DEF DeliveryTypeOK
  <2>2. dSend[m].attempt < SendAttempts
    BY DeliveryAssumption DEF Post, AttemptsAreLeft
  <2>. QED  BY <2>1, <2>2, DeliveryAssumption DEF Post, PostedIsReady
<1>3. q \in Send /\ q.step = "posting"
  BY <1>2, DeliveryAssumption DEF Send
<1>. HIDE DEF n, q
<1>4. /\ dSend' \in [Messages -> Send] /\ dSend'[m] = q
      /\ \A k \in Messages : k # m => dSend'[k] = dSend[k]
  BY <1>1, <1>3, NextSend
<1>5. dRuns' \subseteq Handlers
  BY <1>1, <1>2 DEF Handlers, DeliveryTypeOK
<1>6. DeliveryTypeOK'
  BY <1>1, <1>4, <1>5 DEF DeliveryTypeOK, Send
<1>7. AttemptsAreLeft'
  BY <1>1, <1>3, <1>4 DEF AttemptsAreLeft
<1>8. PostedIsReady'
  BY <1>1, <1>2, <1>4 DEF PostedIsReady, ReadyToPost, Uploaded
<1>9. PutIsStored' /\ WakeupNotLost'
  BY <1>1 DEF PutIsStored, WakeupNotLost
<1>10. SentIsComplete'
  BY <1>1, <1>3, <1>4 DEF SentIsComplete, Uploaded
<1>. QED  BY <1>6, <1>7, <1>8, <1>9, <1>10

\* A failed attempt is followed by another one while there is one left.
LEMMA FailKeeps == ASSUME DeliveryInv, NEW m \in Messages, AttemptFails(m) PROVE DeliveryInv'
<1>. USE DEF DeliveryInv
<1>1. PICK s \in AfterFailure(dSend[m].attempt) : dSend' = [dSend EXCEPT ![m].step = s]
  BY DEF AttemptFails
<1>. DEFINE q == [dSend[m] EXCEPT !.step = s]
<1>2. /\ dSend[m].step = "posting" /\ dSend[m] \in Send
      /\ dSend' = [dSend EXCEPT ![m] = q]
      /\ UNCHANGED <<dFiles, dRuns, dPut, dStored, dOpen, dHub, dNotified, dUnseen>>
  BY <1>1 DEF AttemptFails, DeliveryTypeOK, Send
<1>3. /\ s \in {"retry", "failed"} /\ (s = "retry" => dSend[m].attempt < SendAttempts)
      /\ q \in Send /\ q.step = s /\ q.attempt = dSend[m].attempt
  BY <1>1, <1>2 DEF AfterFailure, Send
<1>. HIDE DEF q
<1>4. /\ dSend' \in [Messages -> Send] /\ dSend'[m] = q
      /\ \A k \in Messages : k # m => dSend'[k] = dSend[k]
  BY <1>2, <1>3, NextSend
<1>5. DeliveryTypeOK' /\ PutIsStored' /\ WakeupNotLost'
  BY <1>2, <1>4 DEF DeliveryTypeOK, Send, PutIsStored, WakeupNotLost
<1>6. AttemptsAreLeft'
  BY <1>2, <1>3, <1>4 DEF AttemptsAreLeft
<1>7. PostedIsReady'
  BY <1>2, <1>3, <1>4 DEF PostedIsReady, ReadyToPost, Uploaded
<1>8. SentIsComplete'
  BY <1>2, <1>3, <1>4 DEF SentIsComplete, Uploaded
<1>. QED  BY <1>5, <1>6, <1>7, <1>8

-----------------------------------------------------------------------------
(* The send handler and the hub.                                           *)

LEMMA PutKeeps == ASSUME DeliveryInv, NEW h \in Handlers, PutEnvelope(h) PROVE DeliveryInv'
<1>. USE DEF DeliveryInv
<1>1. /\ h \in dRuns /\ dPut[h] < Len(Recipients) /\ dPut[h] \in 0 .. Len(Recipients)
      /\ UNCHANGED <<dSend, dFiles, dOpen, dHub, dNotified, dUnseen>>
  BY DEF PutEnvelope, DeliveryTypeOK
<1>2. h[1] \in Messages /\ ReadyToPost(h[1])
  BY <1>1 DEF Handlers, PostedIsReady
<1>3. AttemptsAreLeft' /\ WakeupNotLost'
  BY <1>1 DEF AttemptsAreLeft, WakeupNotLost
<1>4. CASE /\ dStored' = dStored \cup {<<h[1], dPut[h] + 1>>}
           /\ dPut' = [dPut EXCEPT ![h] = dPut[h] + 1]
           /\ UNCHANGED dRuns
  <2>1. dPut[h] + 1 \in Batch /\ dPut[h] + 1 \in 0 .. Len(Recipients)
    BY <1>1, BatchLength DEF Batch
  <2>2. /\ dPut' \in [Handlers -> 0 .. Len(Recipients)] /\ dPut'[h] = dPut[h] + 1
        /\ \A k \in Handlers : k # h => dPut'[k] = dPut[k]
    BY <1>4, <2>1 DEF DeliveryTypeOK
  <2>3. dStored' \subseteq Messages \X Batch
    BY <1>2, <1>4, <2>1 DEF DeliveryTypeOK
  <2>4. DeliveryTypeOK'
    BY <1>1, <1>4, <2>2, <2>3 DEF DeliveryTypeOK
  <2>5. PutIsStored'
    <3>. SUFFICES ASSUME NEW k \in Handlers, NEW i \in 1 .. dPut'[k]
                  PROVE  <<k[1], i>> \in dStored'
      BY DEF PutIsStored
    <3>1. CASE k = h /\ i = dPut[h] + 1
      BY <1>4, <3>1
    <3>2. CASE ~(k = h /\ i = dPut[h] + 1)
      <4>1. i \in 1 .. dPut[k]
        BY <1>1, <2>2, <3>2, BatchLength DEF DeliveryTypeOK
      <4>. QED  BY <1>4, <4>1 DEF PutIsStored
    <3>. QED  BY <3>1, <3>2
  <2>6. PostedIsReady' /\ SentIsComplete'
    BY <1>1, <1>2, <1>4 DEF PostedIsReady, SentIsComplete, ReadyToPost, Uploaded
  <2>. QED  BY <1>3, <2>4, <2>5, <2>6
<1>5. CASE dRuns' = dRuns \ {h} /\ UNCHANGED <<dPut, dStored>>
  <2>1. DeliveryTypeOK' /\ PutIsStored'
    BY <1>1, <1>5 DEF DeliveryTypeOK, PutIsStored
  <2>2. PostedIsReady' /\ SentIsComplete'
    BY <1>1, <1>5 DEF PostedIsReady, SentIsComplete, ReadyToPost, Uploaded
  <2>. QED  BY <1>3, <2>1, <2>2
<1>. QED  BY <1>4, <1>5 DEF PutEnvelope

\* A channel that is full has an event to read already.
LEMMA TrySendLeavesOne ==
  ASSUME NEW n \in 0 .. HubBuffer
  PROVE  TrySend(n) \in 0 .. HubBuffer /\ TrySend(n) > 0
BY DeliveryAssumption DEF TrySend

\* hub.notify comes after the last envelope of the batch.
LEMMA NotifyKeeps == ASSUME DeliveryInv, NEW h \in Handlers, Notify(h) PROVE DeliveryInv'
<1>. USE DEF DeliveryInv
<1>. DEFINE mine(c) == {i \in Batch : c \in dOpen /\ Recipients[i] = Streams[c]}
            m == h[1]
<1>1. /\ h \in dRuns /\ dPut[h] = Len(Recipients) /\ m \in Messages
      /\ dHub' = [c \in Conns |-> IF mine(c) # {} THEN TrySend(dHub[c]) ELSE dHub[c]]
      /\ dUnseen' = [c \in Conns |-> dUnseen[c] \cup ({m} \X mine(c))]
      /\ dNotified' = dNotified \cup ({m} \X Batch)
      /\ dRuns' = dRuns \ {h}
      /\ UNCHANGED <<dFiles, dPut, dStored, dOpen>>
  BY DEF Notify, Handlers
<1>2. /\ dSend' \in [Messages -> Send]
      /\ \A n \in Messages : \/ dSend'[n] = dSend[n]
                             \/ n = m /\ dSend'[n].step = "sent"
  <2>1. CASE dSend[m] = [step |-> "posting", attempt |-> h[2]]
    <3>. DEFINE q == [dSend[m] EXCEPT !.step = "sent"]
    <3>1. dSend' = [dSend EXCEPT ![m] = q]
      BY <2>1 DEF Notify, DeliveryTypeOK
    <3>2. q \in Send /\ q.step = "sent"
      BY <1>1 DEF DeliveryTypeOK, Send
    <3>. HIDE DEF q
    <3>. QED  BY <1>1, <3>1, <3>2, NextSend
  <2>2. CASE dSend[m] # [step |-> "posting", attempt |-> h[2]]
    BY <2>2 DEF Notify, DeliveryTypeOK, Send
  <2>. QED  BY <2>1, <2>2
<1>3. \A c \in Conns : /\ dHub'[c] \in 0 .. HubBuffer
                       /\ mine(c) # {} \/ dHub[c] > 0 => dHub'[c] > 0
                       /\ mine(c) = {} => dUnseen'[c] = dUnseen[c]
                       /\ mine(c) # {} => c \in dOpen
                       /\ dUnseen'[c] \subseteq Messages \X Batch
  <2>. SUFFICES ASSUME NEW c \in Conns
                PROVE  /\ dHub'[c] \in 0 .. HubBuffer
                       /\ mine(c) # {} \/ dHub[c] > 0 => dHub'[c] > 0
                       /\ mine(c) = {} => dUnseen'[c] = dUnseen[c]
                       /\ mine(c) # {} => c \in dOpen
                       /\ dUnseen'[c] \subseteq Messages \X Batch
    OBVIOUS
  <2>1. dHub[c] \in 0 .. HubBuffer /\ dUnseen[c] \subseteq Messages \X Batch
    BY DEF DeliveryTypeOK
  <2>2. /\ dHub'[c] = (IF mine(c) # {} THEN TrySend(dHub[c]) ELSE dHub[c])
        /\ dUnseen'[c] = dUnseen[c] \cup ({m} \X mine(c))
        /\ mine(c) \subseteq Batch /\ (mine(c) # {} => c \in dOpen)
    BY <1>1
  <2>. HIDE DEF mine
  <2>3. dHub'[c] \in 0 .. HubBuffer /\ (mine(c) # {} \/ dHub[c] > 0 => dHub'[c] > 0)
    BY <2>1, <2>2, TrySendLeavesOne
  <2>4. (mine(c) = {} => dUnseen'[c] = dUnseen[c]) /\ dUnseen'[c] \subseteq Messages \X Batch
    BY <1>1, <2>1, <2>2
  <2>. QED  BY <2>2, <2>3, <2>4
<1>4. DeliveryTypeOK'
  <2>1. dHub' \in [Conns -> 0 .. HubBuffer] /\ dUnseen' \in [Conns -> SUBSET (Messages \X Batch)]
    BY <1>1, <1>3
  <2>. QED  BY <1>1, <1>2, <2>1 DEF DeliveryTypeOK, Send
<1>5. WakeupNotLost'
  <2>. HIDE DEF mine
  <2>. QED  BY <1>1, <1>3 DEF WakeupNotLost
<1>6. AttemptsAreLeft' /\ PutIsStored'
  BY <1>1, <1>2 DEF AttemptsAreLeft, PutIsStored
<1>7. PostedIsReady'
  BY <1>1, <1>2 DEF PostedIsReady, ReadyToPost, Uploaded
<1>8. SentIsComplete'
  <2>1. {m} \X Batch \subseteq dStored
    BY <1>1 DEF PutIsStored, Batch
  <2>2. {m} \X Batch \subseteq dStored' \cap dNotified'
    BY <1>1, <2>1
  <2>3. \A n \in Messages : dSend'[n].step = "sent" => {n} \X Batch \subseteq dStored' \cap dNotified'
    BY <1>1, <1>2, <2>2 DEF SentIsComplete
  <2>4. \A e \in dStored' : e[1] \in Attachments => Uploaded(e[1])'
    BY <1>1 DEF SentIsComplete, Uploaded
  <2>. QED  BY <2>3, <2>4 DEF SentIsComplete
<1>. QED  BY <1>4, <1>5, <1>6, <1>7, <1>8

-----------------------------------------------------------------------------
(* The event streams.                                                      *)

LEMMA StreamsKeep ==
  ASSUME DeliveryInv, NEW c \in Conns, Connect(c) \/ ReadEvent(c) \/ Disconnect(c)
  PROVE  DeliveryInv'
<1>. USE DEF DeliveryInv
<1>1. UNCHANGED <<dSend, dFiles, dRuns, dPut, dStored, dNotified>>
  BY DEF Connect, ReadEvent, Disconnect
<1>2. AttemptsAreLeft' /\ PostedIsReady' /\ PutIsStored' /\ SentIsComplete'
  BY <1>1 DEF AttemptsAreLeft, PostedIsReady, PutIsStored, SentIsComplete, ReadyToPost, Uploaded
<1>3. DeliveryTypeOK' /\ WakeupNotLost'
  <2>1. dHub[c] \in 0 .. HubBuffer
    BY DEF DeliveryTypeOK
  <2>2. CASE Connect(c)
    BY <1>1, <2>2 DEF Connect, DeliveryTypeOK, WakeupNotLost
  <2>3. CASE ReadEvent(c) \/ Disconnect(c)
    <3>1. PICK n \in 0 .. HubBuffer : dHub' = [dHub EXCEPT ![c] = n]
      <4>1. CASE ReadEvent(c)
        <5>1. dHub[c] - 1 \in 0 .. HubBuffer
          BY <2>1, <4>1, DeliveryAssumption DEF ReadEvent
        <5>. QED  BY <4>1, <5>1 DEF ReadEvent
      <4>2. CASE Disconnect(c)
        <5>1. 0 \in 0 .. HubBuffer
          BY DeliveryAssumption
        <5>. QED  BY <4>2, <5>1 DEF Disconnect
      <4>. QED  BY <2>3, <4>1, <4>2
    <3>2. dUnseen' = [dUnseen EXCEPT ![c] = {}] /\ dOpen \ {c} \subseteq dOpen' /\ dOpen' \subseteq dOpen
      BY <2>3 DEF ReadEvent, Disconnect
    <3>3. \A d \in Conns : IF d = c THEN dUnseen'[d] = {}
                           ELSE dUnseen'[d] = dUnseen[d] /\ dHub'[d] = dHub[d]
      BY <3>1, <3>2 DEF DeliveryTypeOK
    <3>4. DeliveryTypeOK'
      BY <1>1, <3>1, <3>2 DEF DeliveryTypeOK
    <3>. QED  BY <3>2, <3>3, <3>4 DEF WakeupNotLost
  <2>. QED  BY <2>2, <2>3
<1>. QED  BY <1>2, <1>3

LEMMA DeliveryStep == DeliveryInv /\ [DeliveryNext]_dVars => DeliveryInv'
<1>. SUFFICES ASSUME DeliveryInv, [DeliveryNext]_dVars PROVE DeliveryInv'
  OBVIOUS
<1>1. ASSUME NEW m \in Messages, \/ StartSend(m) \/ Post(m) \/ AttemptFails(m)
                                 \/ \E f \in Files : UploadFile(m, f)
      PROVE  DeliveryInv'
  BY <1>1, StartKeeps, PostKeeps, FailKeeps, UploadKeeps
<1>2. ASSUME NEW h \in Handlers, PutEnvelope(h) \/ Notify(h) PROVE DeliveryInv'
  BY <1>2, PutKeeps, NotifyKeeps
<1>3. ASSUME NEW c \in Conns, Connect(c) \/ ReadEvent(c) \/ Disconnect(c) PROVE DeliveryInv'
  BY <1>3, StreamsKeep
<1>4. CASE UNCHANGED dVars
  <2>1. DeliveryTypeOK' /\ AttemptsAreLeft' /\ PutIsStored' /\ WakeupNotLost'
    BY <1>4 DEF dVars, DeliveryInv, DeliveryTypeOK, AttemptsAreLeft, PutIsStored, WakeupNotLost
  <2>2. PostedIsReady' /\ SentIsComplete'
    BY <1>4 DEF dVars, DeliveryInv, PostedIsReady, SentIsComplete, ReadyToPost, Uploaded
  <2>. QED  BY <2>1, <2>2 DEF DeliveryInv
<1>. QED  BY <1>1, <1>2, <1>3, <1>4 DEF DeliveryNext

-----------------------------------------------------------------------------
(* The hub stays within its buffers and the attempts within their limits.  *)
THEOREM DeliveryTypeCorrect == DeliverySpec => []DeliveryTypeOK
<1>1. DeliveryInv => DeliveryTypeOK
  BY DEF DeliveryInv
<1>. QED  BY DeliveryInvInit, DeliveryStep, <1>1, PTL DEF DeliverySpec

(* A connection that notify skipped because its channel is full has an event *)
(* to read, so no stored message waits without a wakeup.                    *)
THEOREM WakeupsArrive == DeliverySpec => []WakeupNotLost
<1>1. DeliveryInv => WakeupNotLost
  BY DEF DeliveryInv
<1>. QED  BY DeliveryInvInit, DeliveryStep, <1>1, PTL DEF DeliverySpec

(* What is reported as sent is in every inbox of its batch, notified, and    *)
(* never without its uploads, for any number of attempts.                   *)
THEOREM SendsAreComplete == DeliverySpec => []SentIsComplete
<1>1. DeliveryInv => SentIsComplete
  BY DEF DeliveryInv
<1>. QED  BY DeliveryInvInit, DeliveryStep, <1>1, PTL DEF DeliverySpec

-----------------------------------------------------------------------------
(* Retention.                                                              *)

(* A page that is not empty has a first key (run_cleanup takes the keys in   *)
(* the order of the listing).                                              *)
LEMMA FirstIsThere ==
  ASSUME NEW keys \in SUBSET HandleKeys, keys # {}
  PROVE  FirstOf(keys) \in keys
<1>1. keys \subseteq Nat
  BY RetentionAssumption
<1>. QED  BY <1>1, LeastExists DEF FirstOf

LEMMA CurrentIsThere ==
  ASSUME RetentionTypeOK, tSweep.page # {}
  PROVE  Current \in tSweep.page /\ Current \in HandleKeys
BY FirstIsThere DEF Current, RetentionTypeOK, SweepState

(* A listed page holds everything that is left, or everything up to its last *)
(* key (list_objects with a limit).                                        *)
LEMMA FirstKeysReach ==
  ASSUME NEW keys \in SUBSET HandleKeys, NEW h \in keys
  PROVE  /\ NoMore(keys) => h \in FirstKeys(keys)
         /\ h \in FirstKeys(keys) \/ \A k \in FirstKeys(keys) : k < h
<1>1. IsFiniteSet(keys) /\ keys \subseteq Nat
  BY FS_Subset, RetentionAssumption
<1>2. \A k \in keys : {j \in keys : j <= k} \in SUBSET keys /\ IsFiniteSet({j \in keys : j <= k})
  BY <1>1, FS_Subset
<1>3. Cardinality({j \in keys : j <= h}) <= Cardinality(keys)
  BY <1>1, <1>2, FS_Subset
<1>4. /\ Cardinality({j \in keys : j <= h}) \in Nat /\ Cardinality(keys) \in Nat
      /\ SweepPage \in Nat
  BY <1>1, <1>2, FS_CardinalityType, RetentionAssumption
<1>5. NoMore(keys) => h \in FirstKeys(keys)
  BY <1>3, <1>4 DEF NoMore, FirstKeys
<1>6. ASSUME NEW k \in FirstKeys(keys), ~(k < h) PROVE h \in FirstKeys(keys)
  <2>1. k \in keys /\ k \in Nat /\ h \in Nat /\ h <= k
    BY <1>1, <1>6 DEF FirstKeys
  <2>2. {j \in keys : j <= h} \subseteq {j \in keys : j <= k}
    <3>1. ASSUME NEW j \in keys, j <= h PROVE j <= k
      <4>1. j \in Nat
        BY <1>1
      <4>. QED  BY <2>1, <3>1, <4>1
    <3>. QED  BY <3>1
  <2>3. Cardinality({j \in keys : j <= h}) <= Cardinality({j \in keys : j <= k})
    BY <1>2, <2>1, <2>2, FS_Subset
  <2>4. Cardinality({j \in keys : j <= k}) <= SweepPage /\ Cardinality({j \in keys : j <= k}) \in Nat
    BY <1>2, <1>6, <2>1, FS_CardinalityType DEF FirstKeys
  <2>. QED  BY <1>4, <2>3, <2>4 DEF FirstKeys
<1>. QED  BY <1>5, <1>6

LEMMA RetentionInvInit == RetentionInit => RetentionInv
<1>. SUFFICES ASSUME RetentionInit PROVE RetentionInv
  OBVIOUS
<1>. USE RetentionAssumption DEF RetentionInit
<1>1. RetentionTypeOK
  <2>1. tUser \in [HandleKeys -> Account0]
    <3>1. NoUser \in Account0
      BY DEF Account0, NoUser
    <3>. QED  BY <3>1
  <2>2. tSweep \in SweepState
    BY DEF SweepState
  <2>. QED  BY <2>1, <2>2 DEF RetentionTypeOK
<1>2. SweepIsAt /\ SparedSoFar /\ WorkIsDue
  BY DEF SweepIsAt, SparedSoFar, WorkIsDue, Working, At
<1>3. DueMatch
  BY DEF DueMatch, Due
<1>4. NothingSkipped
  <2>1. ASSUME NEW h \in Due PROVE Ahead(h) /\ ~At("done")
    <3>1. h \in Nat \ {0}
      BY <2>1 DEF Due
    <3>. QED  BY <3>1 DEF Ahead, At
  <2>. QED  BY <2>1 DEF NothingSkipped
<1>. QED  BY <1>1, <1>2, <1>3, <1>4 DEF RetentionInv

-----------------------------------------------------------------------------
(* The sweep goes on with the key at work.                                 *)
LEMMA WorkGoesOn ==
  ASSUME RetentionInv, tSweep.page # {}, tSweep.deleted < SweepBatch,
         tSweep' \in SweepState,
         tSweep'.pc \in {"profile", "first", "second", "wipe", "rest", "handle", "tombstone"},
         tSweep'.page = tSweep.page, tSweep'.cursor = tSweep.cursor, tSweep'.more = tSweep.more,
         tSweep'.deleted = tSweep.deleted, tSweep'.errors = tSweep.errors,
         tUser' \in [HandleKeys -> Account0],
         \A h \in HandleKeys \ {Current} : tUser'[h] = tUser[h],
         tUser' = tUser \/ (Current \notin tNever /\ tSweep'.pc \in {"rest", "handle"}),
         tSweep'.pc \in {"rest", "handle"} => ~tDry,
         tSweep.pc \in {"rest", "handle"} => tSweep'.pc \in {"rest", "handle"},
         UNCHANGED <<tHandle, tDry, tNever, tAlways, tDeleted>>,
         Current \in tNever =>
           /\ tSweep'.pc \in {"profile", "first", "second"} /\ tHandle[Current] = "live"
           /\ tSweep'.pc # "profile" => ~tSweep'.silent /\ tUser[Current].inbox # {}
           /\ tSweep'.pc = "second" => "archive" \in tUser[Current].inbox,
         Current \in Due =>
           /\ tSweep'.pc \in {"profile", "first", "second"} => tHandle[Current] = "live"
           /\ tSweep'.pc \in {"first", "second"} => (tUser[Current].silent => tSweep'.silent)
  PROVE  RetentionInv'
<1>. USE DEF RetentionInv
<1>1. Current' = Current /\ Due' = Due
  BY DEF Current, Due
<1>2. RetentionTypeOK'
  BY DEF RetentionTypeOK
<1>3. SweepIsAt'
  BY DEF SweepIsAt, Working, At
<1>4. \A h \in HandleKeys : h # Current \/ tUser' = tUser =>
        (MatchesPolicy(h, tHandle, tUser)' <=> MatchesPolicy(h, tHandle, tUser))
  BY DEF MatchesPolicy
<1>5. tNever \subseteq HandleKeys /\ Due \subseteq HandleKeys
  BY DEF RetentionTypeOK, Due
<1>6. SparedSoFar'
  <2>1. \A h \in tNever' : ~MatchesPolicy(h, tHandle, tUser)'
    BY <1>4, <1>5 DEF SparedSoFar
  <2>2. tDeleted' \cap tNever' = {}
    BY DEF SparedSoFar
  <2>3. Current' \in tNever' => tUser' = tUser
    BY <1>1
  <2>. QED  BY <1>1, <2>1, <2>2, <2>3 DEF SparedSoFar, At
<1>7. DueMatch'
  <2>. SUFFICES ASSUME NEW h \in Due'
                PROVE  MatchesPolicy(h, tHandle, tUser)' \/ ((At("rest") \/ At("handle")) /\ h = Current)'
    BY DEF DueMatch
  <2>1. h \in Due /\ h \in HandleKeys
    BY <1>1, <1>5
  <2>2. MatchesPolicy(h, tHandle, tUser) \/ ((At("rest") \/ At("handle")) /\ h = Current)
    BY <2>1 DEF DueMatch
  <2>. QED  BY <1>1, <1>4, <2>1, <2>2 DEF At
<1>8. NothingSkipped'
  BY <1>1 DEF NothingSkipped, Ahead, At
<1>9. WorkIsDue'
  BY <1>1 DEF WorkIsDue, Due
<1>. QED  BY <1>2, <1>3, <1>6, <1>7, <1>8, <1>9

(* The sweep is done with the key at work: it spared it, deleted it, or      *)
(* counted an error.                                                       *)
LEMMA KeyIsDone ==
  ASSUME RetentionInv, tSweep.page # {},
         tSweep' \in SweepState, tSweep'.pc = "key", tSweep'.page = tSweep.page \ {Current},
         tSweep'.cursor = tSweep.cursor, tSweep'.more = tSweep.more,
         tSweep'.deleted \in {tSweep.deleted, tSweep.deleted + 1},
         UNCHANGED <<tUser, tDry, tNever, tAlways>>,
         tHandle' \in [HandleKeys -> {"free", "live", "reserved", "expired"}],
         \A h \in HandleKeys \ {Current} : tHandle'[h] = tHandle[h],
         UNCHANGED <<tHandle, tDeleted>>
           \/ (Current \notin tNever /\ ~tDry /\ tDeleted' = tDeleted \cup {Current}),
         Due' \subseteq Due \ {Current}
  PROVE  RetentionInv'
<1>. USE DEF RetentionInv
<1>1. Current \in HandleKeys /\ tNever \subseteq HandleKeys /\ Due \subseteq HandleKeys
  BY CurrentIsThere DEF RetentionTypeOK, Due
<1>2. RetentionTypeOK'
  BY <1>1 DEF RetentionTypeOK
<1>3. SweepIsAt' /\ WorkIsDue'
  BY DEF SweepIsAt, WorkIsDue, Working, At
<1>4. \A h \in HandleKeys : h # Current \/ tHandle' = tHandle =>
        (MatchesPolicy(h, tHandle, tUser)' <=> MatchesPolicy(h, tHandle, tUser))
  BY DEF MatchesPolicy
<1>5. SparedSoFar'
  <2>1. \A h \in tNever' : ~MatchesPolicy(h, tHandle, tUser)'
    BY <1>1, <1>4 DEF SparedSoFar
  <2>2. tDeleted' \cap tNever' = {}
    BY DEF SparedSoFar
  <2>. QED  BY <2>1, <2>2 DEF SparedSoFar, Working
<1>6. DueMatch'
  BY <1>1, <1>4 DEF DueMatch
<1>7. NothingSkipped'
  <2>. SUFFICES ASSUME tSweep'.deleted < SweepBatch, NEW h \in Due'
                PROVE  Ahead(h)' /\ ~At("done")'
    BY DEF NothingSkipped
  <2>1. tSweep.deleted < SweepBatch
    BY RetentionAssumption DEF RetentionTypeOK, SweepState
  <2>2. Ahead(h) /\ h # Current
    BY <2>1 DEF NothingSkipped
  <2>. QED  BY <2>2 DEF Ahead, At
<1>. QED  BY <1>2, <1>3, <1>5, <1>6, <1>7

-----------------------------------------------------------------------------
(* The steps of the sweep.                                                 *)

\* What the next state of the sweep is when it leaves its key.
LEMMA PassedState ==
  ASSUME RetentionTypeOK, tSweep.page # {}
  PROVE  /\ NextKey \in SweepState /\ NextKey.pc = "key" /\ NextKey.page = tSweep.page \ {Current}
         /\ NextKey.cursor = tSweep.cursor /\ NextKey.more = tSweep.more
         /\ NextKey.deleted = tSweep.deleted /\ NextKey.errors = tSweep.errors
BY DEF NextKey, RetentionTypeOK, SweepState

(* A failed call is counted, and no sweep with an error is complete.       *)
LEMMA FailureKeeps ==
  ASSUME RetentionInv, tSweep.page # {}, CallFails,
         UNCHANGED <<tHandle, tUser, tDry, tNever, tAlways, tDeleted>>
  PROVE  RetentionInv'
<1>1. tSweep' = [NextKey EXCEPT !.errors = tSweep.errors + 1]
  BY PassedState DEF CallFails, RetentionInv
<1>2. /\ tSweep' \in SweepState /\ tSweep'.pc = "key" /\ tSweep'.page = tSweep.page \ {Current}
      /\ tSweep'.cursor = tSweep.cursor /\ tSweep'.more = tSweep.more
      /\ tSweep'.deleted = tSweep.deleted /\ tSweep'.errors = tSweep.errors + 1
  <2>1. tSweep.errors \in Nat
    BY DEF RetentionInv, RetentionTypeOK, SweepState
  <2>. QED  BY <1>1, <2>1, PassedState DEF RetentionInv, SweepState
<1>3. Due' = {}
  <2>1. tSweep'.errors # 0
    BY <1>2 DEF RetentionInv, RetentionTypeOK, SweepState
  <2>. QED  BY <2>1 DEF Due
<1>. QED  BY <1>2, <1>3, KeyIsDone DEF RetentionInv, RetentionTypeOK

(* A key is passed over only when a complete sweep owes it nothing.        *)
LEMMA SpareKeeps ==
  ASSUME RetentionInv, tSweep.page # {}, tSweep' = NextKey, Current \notin Due,
         UNCHANGED <<tHandle, tUser, tDry, tNever, tAlways, tDeleted>>
  PROVE  RetentionInv'
<1>1. Due' = Due
  BY PassedState DEF Due, RetentionInv
<1>. QED  BY <1>1, PassedState, KeyIsDone DEF RetentionInv, RetentionTypeOK

\* The fields that stay when only the program counter moves.
SameKey ==
  /\ tSweep' \in SweepState
  /\ tSweep'.page = tSweep.page /\ tSweep'.cursor = tSweep.cursor /\ tSweep'.more = tSweep.more
  /\ tSweep'.deleted = tSweep.deleted /\ tSweep'.errors = tSweep.errors

LEMMA GotoState ==
  ASSUME RetentionTypeOK,
         NEW pc \in {"list", "key", "profile", "first", "second", "wipe", "rest", "handle",
                     "tombstone", "done"}, Goto(pc)
  PROVE  SameKey /\ tSweep'.pc = pc /\ tSweep'.silent = tSweep.silent
BY DEF Goto, SameKey, RetentionTypeOK, SweepState

(* The next page: what is due is on it or after it.                        *)
LEMMA ListKeeps == ASSUME RetentionInv, ListHandles PROVE RetentionInv'
<1>. USE DEF RetentionInv
<1>0. tSweep.pc = "list" /\ UNCHANGED <<tHandle, tUser, tDry, tNever, tAlways, tDeleted>>
  BY DEF ListHandles, At
<1>1. CASE tSweep.deleted < SweepBatch /\ tSweep.more
  <2>. DEFINE keys == {h \in HandleKeys : tHandle[h] # "free" /\ h > tSweep.cursor}
              page == FirstKeys(keys)
  <2>1. PICK last \in IF page = {} THEN {tSweep.cursor} ELSE {k \in page : \A j \in page : j <= k} :
          tSweep' = [tSweep EXCEPT !.pc = "key", !.page = page, !.more = ~NoMore(keys),
                                   !.cursor = last]
    BY <1>1 DEF ListHandles
  <2>2. keys \subseteq HandleKeys /\ page \subseteq keys
    BY DEF FirstKeys
  <2>3. /\ page = {} => last = tSweep.cursor
        /\ page # {} => last \in page
    BY <2>1
  <2>4. /\ tSweep' \in SweepState /\ tSweep'.pc = "key" /\ tSweep'.page = page
        /\ tSweep'.more = ~NoMore(keys) /\ tSweep'.cursor = last
        /\ tSweep'.deleted = tSweep.deleted /\ tSweep'.errors = tSweep.errors
    <3>1. last \in HandleKeys \cup {0} /\ page \subseteq HandleKeys
      BY <2>2, <2>3 DEF RetentionTypeOK, SweepState
    <3>. HIDE DEF keys, page
    <3>2. (~NoMore(keys)) \in BOOLEAN
      OBVIOUS
    <3>. QED  BY <2>1, <3>1, <3>2 DEF RetentionTypeOK, SweepState
  <2>5. RetentionTypeOK'
    BY <1>0, <2>4 DEF RetentionTypeOK
  <2>6. SweepIsAt' /\ SparedSoFar' /\ WorkIsDue'
    BY <1>0, <2>4 DEF SweepIsAt, SparedSoFar, WorkIsDue, Working, At, MatchesPolicy
  <2>7. Due' = Due
    BY <1>0, <2>4 DEF Due
  <2>8. \A h \in Due : MatchesPolicy(h, tHandle, tUser)
    BY <1>0 DEF DueMatch, At
  <2>9. DueMatch'
    BY <1>0, <2>7, <2>8 DEF DueMatch, MatchesPolicy
  <2>10. NothingSkipped'
    <3>. SUFFICES ASSUME NEW h \in Due PROVE Ahead(h)' /\ ~At("done")'
      BY <2>7 DEF NothingSkipped
    <3>1. Ahead(h) /\ tSweep.page = {}
      BY <1>0, <1>1 DEF NothingSkipped, SweepIsAt, At
    <3>2. h \in keys
      BY <2>8, <3>1 DEF Ahead, MatchesPolicy, Due, RetentionTypeOK
    <3>3. /\ NoMore(keys) => h \in page
          /\ h \in page \/ \A k \in page : k < h
      BY <2>2, <3>2, FirstKeysReach
    <3>4. h \in page \/ h > last
      BY <2>3, <3>2, <3>3
    <3>. QED  BY <2>4, <3>3, <3>4 DEF Ahead, At
  <2>. QED  BY <2>5, <2>6, <2>9, <2>10
<1>2. CASE ~(tSweep.deleted < SweepBatch /\ tSweep.more)
  <2>1. Goto("done")
    BY <1>2 DEF ListHandles
  <2>2. SameKey /\ tSweep'.pc = "done"
    BY <2>1, GotoState
  <2>3. Due' = Due
    BY <1>0, <2>2 DEF Due, SameKey
  <2>4. RetentionTypeOK' /\ SweepIsAt' /\ SparedSoFar' /\ WorkIsDue'
    BY <1>0, <2>2
    DEF RetentionTypeOK, SweepIsAt, SparedSoFar, WorkIsDue, Working, At, MatchesPolicy, SameKey
  <2>5. DueMatch'
    BY <1>0, <2>3 DEF DueMatch, MatchesPolicy, At
  <2>6. NothingSkipped'
    BY <1>0, <1>2, <2>2, <2>3 DEF NothingSkipped, Ahead, SweepIsAt, At, SameKey
  <2>. QED  BY <2>4, <2>5, <2>6
<1>. QED  BY <1>1, <1>2

(* The handle is read: what it says is what it is at that moment.          *)
LEMMA EvaluateHandleKeeps == ASSUME RetentionInv, EvaluateHandle PROVE RetentionInv'
<1>. USE DEF RetentionInv
<1>0. tSweep.pc = "key" /\ UNCHANGED <<tHandle, tUser, tDry, tNever, tAlways, tDeleted>>
  BY DEF EvaluateHandle, At
<1>m. \A h \in Due : MatchesPolicy(h, tHandle, tUser)
  BY <1>0 DEF DueMatch, At
<1>1. CASE tSweep.page = {} \/ tSweep.deleted >= SweepBatch
  <2>1. Goto("list")
    BY <1>1 DEF EvaluateHandle
  <2>2. SameKey /\ tSweep'.pc = "list"
    BY <2>1, GotoState
  <2>3. Due' = Due
    BY <1>0, <2>2 DEF Due, SameKey
  <2>4. tSweep.deleted \in Nat /\ SweepBatch \in Nat
    BY RetentionAssumption DEF RetentionTypeOK, SweepState
  <2>5. SweepIsAt'
    BY <1>0, <1>1, <2>2, <2>4 DEF SweepIsAt, Working, At, SameKey
  <2>6. RetentionTypeOK' /\ SparedSoFar' /\ WorkIsDue'
    BY <1>0, <2>2 DEF RetentionTypeOK, SparedSoFar, WorkIsDue, Working, At, MatchesPolicy, SameKey
  <2>7. DueMatch'
    BY <1>0, <1>m, <2>3 DEF DueMatch, MatchesPolicy
  <2>8. NothingSkipped'
    BY <1>0, <2>2, <2>3 DEF NothingSkipped, Ahead, At, SameKey
  <2>. QED  BY <2>5, <2>6, <2>7, <2>8
<1>2. CASE tSweep.page # {} /\ ~(tSweep.deleted >= SweepBatch)
  <2>0. tSweep.deleted < SweepBatch
    BY <1>2, RetentionAssumption DEF RetentionTypeOK, SweepState
  <2>1. CASE CallFails
    BY <1>0, <1>2, <2>1, FailureKeeps
  <2>2. CASE tHandle[Current] = "live" /\ Goto("profile")
    <3>1. SameKey /\ tSweep'.pc = "profile"
      BY <2>2, GotoState
    <3>. QED  BY <1>0, <1>2, <2>0, <2>2, <3>1, WorkGoesOn DEF SameKey, RetentionTypeOK
  <2>3. CASE tHandle[Current] = "expired" /\ Goto("tombstone")
    <3>1. SameKey /\ tSweep'.pc = "tombstone"
      BY <2>3, GotoState
    <3>2. Current \notin tNever
      BY <2>3 DEF SparedSoFar, MatchesPolicy
    <3>. QED  BY <1>0, <1>2, <2>0, <3>1, <3>2, WorkGoesOn DEF SameKey, RetentionTypeOK
  <2>4. CASE tHandle[Current] = "reserved" /\ tSweep' = NextKey
    <3>1. Current \notin Due
      BY <1>m, <2>4 DEF MatchesPolicy
    <3>. QED  BY <1>0, <1>2, <2>4, <3>1, SpareKeeps
  <2>. QED  BY <1>2, <2>1, <2>2, <2>3, <2>4, CurrentIsThere DEF EvaluateHandle, RetentionTypeOK
<1>. QED  BY <1>1, <1>2

\* What remains for an account that is not abandoned: it is silent, or spared.
LEMMA SilentKeeps ==
  ASSUME RetentionInv, tSweep.page # {}, tSweep.deleted < SweepBatch, NEW silent \in BOOLEAN,
         IfSilent(silent), tSweep.pc \notin {"rest", "handle"},
         UNCHANGED <<tHandle, tUser, tDry, tNever, tAlways, tDeleted>>,
         silent => Current \notin tNever, ~silent => Current \notin Due
  PROVE  RetentionInv'
<1>. USE DEF RetentionInv
<1>1. CASE silent
  <2>1. SameKey /\ tSweep'.pc = "wipe"
    BY <1>1, GotoState DEF IfSilent
  <2>. QED  BY <1>1, <2>1, WorkGoesOn DEF SameKey, RetentionTypeOK
<1>2. CASE ~silent
  BY <1>2, SpareKeeps DEF IfSilent
<1>. QED  BY <1>1, <1>2

(* The profile is read.                                                    *)
LEMMA EvaluateProfileKeeps == ASSUME RetentionInv, EvaluateProfile PROVE RetentionInv'
<1>. USE DEF RetentionInv
<1>. DEFINE u == tUser[Current]
<1>0. /\ tSweep.pc = "profile" /\ UNCHANGED <<tHandle, tUser, tDry, tNever, tAlways, tDeleted>>
      /\ tSweep.page # {} /\ tSweep.deleted < SweepBatch
  BY DEF EvaluateProfile, At, SweepIsAt, Working
<1>1. Current \in HandleKeys /\ u \in Account0
  BY <1>0, CurrentIsThere DEF RetentionTypeOK
<1>2. Current \in tNever =>
        /\ tHandle[Current] = "live"
        /\ u.exists => ~u.silent /\ (u.unnamed => u.inbox # {})
  BY <1>0 DEF SparedSoFar, Working, MatchesPolicy
<1>3. Current \in Due =>
        tHandle[Current] = "live" /\ u.exists /\ (u.silent \/ (u.unnamed /\ u.inbox = {}))
  BY <1>0 DEF WorkIsDue, Working, DueMatch, At, MatchesPolicy
<1>4. CASE CallFails
  BY <1>0, <1>4, FailureKeeps
<1>5. CASE ~u.exists /\ tSweep' = NextKey
  BY <1>0, <1>3, <1>5, SpareKeeps
<1>6. CASE u.exists /\ u.unnamed /\ tSweep' = [tSweep EXCEPT !.pc = "first", !.silent = u.silent]
  <2>1. u.silent \in BOOLEAN
    BY <1>1 DEF Account0
  <2>2. SameKey /\ tSweep'.pc = "first" /\ tSweep'.silent = u.silent
    BY <1>6, <2>1 DEF SameKey, RetentionTypeOK, SweepState
  <2>. QED  BY <1>0, <1>2, <1>3, <1>6, <2>2, WorkGoesOn DEF SameKey, RetentionTypeOK
<1>7. CASE u.exists /\ ~u.unnamed /\ IfSilent(u.silent)
  <2>1. u.silent \in BOOLEAN
    BY <1>1 DEF Account0
  <2>. QED  BY <1>0, <1>2, <1>3, <1>7, <2>1, SilentKeeps
<1>8. \/ ~u.exists \/ (u.exists /\ u.unnamed) \/ (u.exists /\ ~u.unnamed)
  OBVIOUS
<1>. QED  BY <1>4, <1>5, <1>6, <1>7, <1>8 DEF EvaluateProfile

(* The listings of inbox_empty.                                            *)
LEMMA ListInboxKeeps == ASSUME RetentionInv, NEW i \in {1, 2}, ListInbox(i) PROVE RetentionInv'
<1>. USE DEF RetentionInv
<1>. DEFINE u == tUser[Current]
<1>0. /\ tSweep.pc = IF i = 1 THEN "first" ELSE "second"
      /\ UNCHANGED <<tHandle, tUser, tDry, tNever, tAlways, tDeleted>>
      /\ tSweep.page # {} /\ tSweep.deleted < SweepBatch
  BY DEF ListInbox, At, SweepIsAt, Working
<1>1. Current \in HandleKeys /\ u \in Account0 /\ tSweep.silent \in BOOLEAN
  BY <1>0, CurrentIsThere DEF RetentionTypeOK, SweepState
<1>2. Current \in tNever =>
        /\ tHandle[Current] = "live" /\ ~tSweep.silent /\ u.inbox # {}
        /\ i = 2 => "archive" \in u.inbox
  BY <1>0 DEF SparedSoFar, Working, At
<1>3. Current \in Due =>
        /\ tHandle[Current] = "live" /\ (u.silent => tSweep.silent)
        /\ u.silent \/ (u.unnamed /\ u.inbox = {})
  BY <1>0 DEF WorkIsDue, Working, DueMatch, At, MatchesPolicy
<1>4. CASE CallFails
  BY <1>0, <1>4, FailureKeeps
<1>5. CASE ListingOrder[i] \in u.inbox /\ IfSilent(tSweep.silent)
  BY <1>0, <1>1, <1>2, <1>3, <1>5, SilentKeeps
<1>6. CASE ListingOrder[i] \notin u.inbox /\ Goto(IF i = 1 THEN "second" ELSE "wipe")
  <2>1. SameKey /\ tSweep'.pc = (IF i = 1 THEN "second" ELSE "wipe") /\ tSweep'.silent = tSweep.silent
    BY <1>6, GotoState
  <2>2. ListingOrder[i] = IF i = 1 THEN "live" ELSE "archive"
    BY DEF ListingOrder
  <2>3. u.inbox \subseteq {"live", "archive"}
    BY <1>1 DEF Account0
  <2>4. Current \in tNever => i = 1 /\ "archive" \in u.inbox
    BY <1>2, <1>6, <2>2, <2>3
  <2>. QED  BY <1>0, <1>2, <1>3, <2>1, <2>4, WorkGoesOn DEF SameKey, RetentionTypeOK
<1>. QED  BY <1>4, <1>5, <1>6 DEF ListInbox

\* The key at work was counted as deleted.
LEMMA CountedState ==
  ASSUME RetentionTypeOK, tSweep.page # {}, tSweep.deleted < SweepBatch
  PROVE  /\ Counted \in SweepState /\ Counted.pc = "key" /\ Counted.page = tSweep.page \ {Current}
         /\ Counted.cursor = tSweep.cursor /\ Counted.more = tSweep.more
         /\ Counted.deleted = tSweep.deleted + 1 /\ Counted.errors = tSweep.errors
<1>1. tSweep.deleted + 1 \in 0 .. SweepBatch
  BY RetentionAssumption DEF RetentionTypeOK, SweepState
<1>2. Counted = [NextKey EXCEPT !.deleted = tSweep.deleted + 1]
  BY PassedState DEF Counted
<1>. QED  BY <1>1, <1>2, PassedState DEF SweepState

LEMMA DryMatchKeeps == ASSUME RetentionInv, DryMatch PROVE RetentionInv'
<1>. USE DEF RetentionInv
<1>0. /\ tSweep.pc \in {"wipe", "tombstone"} /\ tDry /\ tSweep' = Counted
      /\ UNCHANGED <<tHandle, tUser, tDry, tNever, tAlways, tDeleted>>
      /\ tSweep.page # {} /\ tSweep.deleted < SweepBatch
  BY DEF DryMatch, At, SweepIsAt, Working
<1>1. Due' = {}
  BY <1>0 DEF Due
<1>. QED  BY <1>0, <1>1, CountedState, KeyIsDone DEF RetentionTypeOK

(* delete_user, its account before its messages.                           *)
LEMMA WipeKeepsRetention ==
  ASSUME RetentionInv, WipeAccount \/ WipeInbox  PROVE RetentionInv'
<1>. USE DEF RetentionInv
<1>0. /\ tSweep.pc \in {"wipe", "rest"} /\ ~tDry
      /\ UNCHANGED <<tHandle, tDry, tNever, tAlways, tDeleted>>
      /\ tSweep.page # {} /\ tSweep.deleted < SweepBatch
  BY DEF WipeAccount, WipeInbox, At, SweepIsAt, Working
<1>1. Current \in HandleKeys /\ tUser[Current] \in Account0 /\ Current \notin tNever
  BY <1>0, CurrentIsThere DEF RetentionTypeOK, SparedSoFar, Working, At
<1>2. CASE CallFails /\ UNCHANGED tUser
  BY <1>0, <1>2, FailureKeeps
<1>3. ASSUME NEW u \in Account0, tUser' = [tUser EXCEPT ![Current] = u],
             NEW pc \in {"rest", "handle"}, Goto(pc)
      PROVE  RetentionInv'
  <2>1. SameKey /\ tSweep'.pc = pc
    BY <1>3, GotoState
  <2>2. /\ tUser' \in [HandleKeys -> Account0]
        /\ \A h \in HandleKeys \ {Current} : tUser'[h] = tUser[h]
    BY <1>1, <1>3 DEF RetentionTypeOK
  <2>3. SameKey => /\ tSweep' \in SweepState
                   /\ tSweep'.page = tSweep.page /\ tSweep'.cursor = tSweep.cursor
                   /\ tSweep'.more = tSweep.more
                   /\ tSweep'.deleted = tSweep.deleted /\ tSweep'.errors = tSweep.errors
    BY DEF SameKey
  <2>. QED  BY <1>0, <1>1, <1>3, <2>1, <2>2, <2>3, WorkGoesOn
<1>4. CASE WipeAccount
  <2>1. [NoUser EXCEPT !.inbox = tUser[Current].inbox] \in Account0
    BY <1>1 DEF NoUser, Account0
  <2>. QED  BY <1>2, <1>3, <1>4, <2>1 DEF WipeAccount
<1>5. CASE WipeInbox
  <2>1. [tUser[Current] EXCEPT !.inbox = {}] \in Account0
    BY <1>1 DEF Account0
  <2>2. tUser' = [tUser EXCEPT ![Current].inbox = {}] =>
          tUser' = [tUser EXCEPT ![Current] = [tUser[Current] EXCEPT !.inbox = {}]]
    BY <1>1 DEF RetentionTypeOK
  <2>. QED  BY <1>2, <1>3, <1>5, <2>1, <2>2 DEF WipeInbox
<1>. QED  BY <1>4, <1>5

(* The handle goes last: what is deleted was due, and is not any more.      *)
LEMMA DeleteHandleKeeps == ASSUME RetentionInv, DeleteHandle PROVE RetentionInv'
<1>. USE DEF RetentionInv
<1>0. /\ tSweep.pc \in {"handle", "tombstone"} /\ ~tDry
      /\ UNCHANGED <<tUser, tDry, tNever, tAlways>>
      /\ tSweep.page # {} /\ tSweep.deleted < SweepBatch
  BY DEF DeleteHandle, At, SweepIsAt, Working
<1>1. Current \in HandleKeys /\ Current \notin tNever
  BY <1>0, CurrentIsThere DEF RetentionTypeOK, SparedSoFar, Working, At
<1>2. CASE CallFails /\ UNCHANGED <<tHandle, tDeleted>>
  BY <1>0, <1>2, FailureKeeps
<1>3. CASE /\ tHandle' = [tHandle EXCEPT ![Current] = "free"]
           /\ tDeleted' = tDeleted \cup {Current}
           /\ tSweep' = Counted
  <2>1. /\ tHandle' \in [HandleKeys -> {"free", "live", "reserved", "expired"}]
        /\ \A h \in HandleKeys \ {Current} : tHandle'[h] = tHandle[h]
    BY <1>1, <1>3 DEF RetentionTypeOK
  <2>2. Due' \subseteq Due \ {Current}
    BY <1>0, <1>3, CountedState DEF Due
  <2>. QED  BY <1>0, <1>1, <1>3, <2>1, <2>2, CountedState, KeyIsDone
<1>. QED  BY <1>2, <1>3 DEF DeleteHandle

-----------------------------------------------------------------------------
(* The users.                                                              *)

(* What an account's owner does to it: the account stays and does not fall   *)
(* silent nor empty its inbox, or the handle changes hands and matches      *)
(* nothing.                                                                *)
LEMMA UserEffect ==
  ASSUME RetentionTypeOK, NEW h \in HandleKeys, UserDoes(h)
  PROVE  /\ tHandle' \in [HandleKeys -> {"free", "live", "reserved", "expired"}]
         /\ tUser' \in [HandleKeys -> Account0]
         /\ \A g \in HandleKeys \ {h} : tHandle'[g] = tHandle[g] /\ tUser'[g] = tUser[g]
         /\ \/ /\ tHandle' = tHandle
               /\ tUser'[h].silent => tUser[h].silent
               /\ tUser[h].inbox # {} => tUser'[h].inbox # {}
               /\ "archive" \in tUser[h].inbox => "archive" \in tUser'[h].inbox
            \/ /\ tHandle' # tHandle \/ tHandle'[h] = "reserved"
               /\ ~MatchesPolicy(h, tHandle', tUser')
<1>0. tUser[h] \in Account0 /\ NoUser \in Account0
  BY DEF RetentionTypeOK, Account0, NoUser
<1>1. ASSUME NEW u \in Account0, tUser' = [tUser EXCEPT ![h] = u], UNCHANGED tHandle,
             u.silent => tUser[h].silent, tUser[h].inbox # {} => u.inbox # {},
             "archive" \in tUser[h].inbox => "archive" \in u.inbox
      PROVE  /\ tUser' \in [HandleKeys -> Account0]
             /\ \A g \in HandleKeys \ {h} : tUser'[g] = tUser[g]
             /\ tUser'[h].silent => tUser[h].silent
             /\ tUser[h].inbox # {} => tUser'[h].inbox # {}
             /\ "archive" \in tUser[h].inbox => "archive" \in tUser'[h].inbox
  BY <1>1 DEF RetentionTypeOK
<1>2. CASE tUser' = [tUser EXCEPT ![h].silent = FALSE] /\ UNCHANGED tHandle
  <2>. DEFINE u == [tUser[h] EXCEPT !.silent = FALSE]
  <2>1. u \in Account0 /\ ~u.silent /\ u.inbox = tUser[h].inbox
    BY <1>0 DEF Account0
  <2>2. tUser' = [tUser EXCEPT ![h] = u]
    BY <1>2 DEF RetentionTypeOK
  <2>. HIDE DEF u
  <2>. QED  BY <1>1, <1>2, <2>1, <2>2 DEF RetentionTypeOK
<1>3. CASE tUser' = [tUser EXCEPT ![h].unnamed = FALSE] /\ UNCHANGED tHandle
  <2>. DEFINE u == [tUser[h] EXCEPT !.unnamed = FALSE]
  <2>1. u \in Account0 /\ u.silent = tUser[h].silent /\ u.inbox = tUser[h].inbox
    BY <1>0 DEF Account0
  <2>2. tUser' = [tUser EXCEPT ![h] = u]
    BY <1>3 DEF RetentionTypeOK
  <2>. HIDE DEF u
  <2>. QED  BY <1>1, <1>3, <2>1, <2>2 DEF RetentionTypeOK
<1>4. CASE tUser' = [tUser EXCEPT ![h].inbox = @ \cup {"live"}] /\ UNCHANGED tHandle
  <2>. DEFINE u == [tUser[h] EXCEPT !.inbox = tUser[h].inbox \cup {"live"}]
  <2>1. u \in Account0 /\ u.silent = tUser[h].silent /\ u.inbox = tUser[h].inbox \cup {"live"}
    BY <1>0 DEF Account0
  <2>2. tUser' = [tUser EXCEPT ![h] = u]
    BY <1>4 DEF RetentionTypeOK
  <2>. HIDE DEF u
  <2>. QED  BY <1>1, <1>4, <2>1, <2>2 DEF RetentionTypeOK
<1>5. CASE tUser' = [tUser EXCEPT ![h].inbox = {"archive"}] /\ UNCHANGED tHandle
  <2>. DEFINE u == [tUser[h] EXCEPT !.inbox = {"archive"}]
  <2>1. u \in Account0 /\ u.silent = tUser[h].silent /\ u.inbox = {"archive"}
    BY <1>0 DEF Account0
  <2>2. tUser' = [tUser EXCEPT ![h] = u]
    BY <1>5 DEF RetentionTypeOK
  <2>. HIDE DEF u
  <2>. QED  BY <1>1, <1>5, <2>1, <2>2 DEF RetentionTypeOK
<1>6. CASE /\ tUser[h].exists /\ tHandle' = [tHandle EXCEPT ![h] = "reserved"]
           /\ tUser' = [tUser EXCEPT ![h] = NoUser]
  <2>1. /\ tHandle' \in [HandleKeys -> {"free", "live", "reserved", "expired"}]
        /\ tUser' \in [HandleKeys -> Account0]
        /\ \A g \in HandleKeys \ {h} : tHandle'[g] = tHandle[g] /\ tUser'[g] = tUser[g]
    BY <1>0, <1>6 DEF RetentionTypeOK
  <2>2. tHandle'[h] = "reserved" /\ tUser'[h] = NoUser
    BY <1>6 DEF RetentionTypeOK
  <2>3. ~MatchesPolicy(h, tHandle', tUser')
    BY <2>2 DEF MatchesPolicy
  <2>. QED  BY <2>1, <2>2, <2>3
<1>7. CASE /\ tHandle[h] \in {"free", "expired"} /\ tHandle' = [tHandle EXCEPT ![h] = "live"]
           /\ tUser' = [tUser EXCEPT ![h] = [NoUser EXCEPT !.exists = TRUE]]
  <2>1. [NoUser EXCEPT !.exists = TRUE] \in Account0
    BY DEF NoUser, Account0
  <2>2. /\ tHandle' \in [HandleKeys -> {"free", "live", "reserved", "expired"}]
        /\ tUser' \in [HandleKeys -> Account0]
        /\ \A g \in HandleKeys \ {h} : tHandle'[g] = tHandle[g] /\ tUser'[g] = tUser[g]
    BY <1>7, <2>1 DEF RetentionTypeOK
  <2>3. tHandle'[h] = "live" /\ ~tUser'[h].silent /\ ~tUser'[h].unnamed
    BY <1>7 DEF RetentionTypeOK, NoUser
  <2>4. tHandle' # tHandle /\ ~MatchesPolicy(h, tHandle', tUser')
    BY <1>7, <2>3 DEF MatchesPolicy
  <2>. QED  BY <2>2, <2>4
<1>. QED  BY <1>2, <1>3, <1>4, <1>5, <1>6, <1>7 DEF UserDoes

(* Whatever the users do, the histories follow.                            *)
LEMMA UserKeeps == ASSUME RetentionInv, NEW h \in HandleKeys, UserDoes(h) PROVE RetentionInv'
<1>. USE DEF RetentionInv
<1>0. /\ ~At("done") /\ UNCHANGED <<tSweep, tDry, tDeleted>>
      /\ tNever' = IF tHandle' # tHandle \/ MatchesPolicy(h, tHandle', tUser')
                   THEN tNever \ {h} ELSE tNever
      /\ tAlways' = IF MatchesPolicy(h, tHandle', tUser') THEN tAlways ELSE tAlways \ {h}
  BY DEF UserDoes
<1>1. /\ tHandle' \in [HandleKeys -> {"free", "live", "reserved", "expired"}]
      /\ tUser' \in [HandleKeys -> Account0]
      /\ \A g \in HandleKeys \ {h} : tHandle'[g] = tHandle[g] /\ tUser'[g] = tUser[g]
  BY UserEffect
<1>2. Current' = Current /\ Due' \subseteq Due /\ (Working' <=> Working)
      /\ \A pc : At(pc)' <=> At(pc)
  BY <1>0 DEF Current, Due, Working, At
<1>3. tNever \subseteq HandleKeys /\ Due \subseteq HandleKeys /\ tNever' \subseteq tNever
  BY <1>0 DEF RetentionTypeOK, Due
<1>4. \A g \in HandleKeys \ {h} :
        MatchesPolicy(g, tHandle', tUser') <=> MatchesPolicy(g, tHandle, tUser)
  BY <1>1 DEF MatchesPolicy
<1>5. /\ h \in tNever' => tHandle' = tHandle /\ ~MatchesPolicy(h, tHandle', tUser')
      /\ h \in Due' => MatchesPolicy(h, tHandle', tUser')
  BY <1>0 DEF Due
<1>6. RetentionTypeOK'
  BY <1>0, <1>1 DEF RetentionTypeOK
<1>7. SweepIsAt'
  BY <1>0, <1>2 DEF SweepIsAt, At
<1>8. SparedSoFar'
  <2>1. tDeleted' \cap tNever' = {}
    BY <1>0, <1>3 DEF SparedSoFar
  <2>2. \A g \in tNever' : ~MatchesPolicy(g, tHandle', tUser')
    BY <1>3, <1>4, <1>5 DEF SparedSoFar
  <2>3. ASSUME Working, Current \in tNever'
        PROVE  /\ tSweep.pc \in {"profile", "first", "second"} /\ tHandle'[Current] = "live"
               /\ ~At("profile") => ~tSweep.silent /\ tUser'[Current].inbox # {}
               /\ At("second") => "archive" \in tUser'[Current].inbox
    <3>1. /\ tSweep.pc \in {"profile", "first", "second"} /\ tHandle[Current] = "live"
          /\ ~At("profile") => ~tSweep.silent /\ tUser[Current].inbox # {}
          /\ At("second") => "archive" \in tUser[Current].inbox
      BY <1>3, <2>3 DEF SparedSoFar
    <3>2. CASE Current # h
      BY <1>1, <1>3, <2>3, <3>1, <3>2
    <3>3. CASE Current = h
      <4>1. tHandle' = tHandle
        BY <1>5, <2>3, <3>3
      <4>2. /\ tUser[h].inbox # {} => tUser'[h].inbox # {}
            /\ "archive" \in tUser[h].inbox => "archive" \in tUser'[h].inbox
        BY <3>1, <3>3, <4>1, UserEffect
      <4>. QED  BY <3>1, <3>3, <4>1, <4>2
    <3>. QED  BY <3>2, <3>3
  <2>4. (\A g \in tNever : ~MatchesPolicy(g, tHandle, tUser))' <=>
        \A g \in tNever' : ~MatchesPolicy(g, tHandle', tUser')
    BY DEF MatchesPolicy
  <2>. QED  BY <1>0, <1>2, <2>1, <2>2, <2>3, <2>4 DEF SparedSoFar
<1>9. DueMatch'
  <2>. SUFFICES ASSUME NEW g \in Due'
                PROVE  MatchesPolicy(g, tHandle', tUser') \/ ((At("rest") \/ At("handle")) /\ g = Current)
    BY <1>2 DEF DueMatch, MatchesPolicy
  <2>. QED  BY <1>2, <1>3, <1>4, <1>5 DEF DueMatch
<1>10. NothingSkipped'
  BY <1>0, <1>2 DEF NothingSkipped, Ahead, At
<1>11. WorkIsDue'
  <2>. SUFFICES ASSUME Working, Current \in Due'
                PROVE  /\ tSweep.pc \in {"profile", "first", "second"} => tHandle'[Current] = "live"
                       /\ tSweep.pc \in {"first", "second"} => (tUser'[Current].silent => tSweep.silent)
    BY <1>0, <1>2 DEF WorkIsDue
  <2>1. /\ tSweep.pc \in {"profile", "first", "second"} => tHandle[Current] = "live"
        /\ tSweep.pc \in {"first", "second"} => (tUser[Current].silent => tSweep.silent)
    BY <1>2 DEF WorkIsDue
  <2>2. CASE Current # h
    BY <1>1, <1>2, <1>3, <2>1, <2>2
  <2>3. CASE Current = h
    <3>1. tHandle' = tHandle /\ (tUser'[h].silent => tUser[h].silent)
      BY <1>5, <2>3, UserEffect
    <3>. QED  BY <2>1, <2>3, <3>1
  <2>. QED  BY <2>2, <2>3
<1>. QED  BY <1>6, <1>7, <1>8, <1>9, <1>10, <1>11

LEMMA RetentionStep == RetentionInv /\ [RetentionNext]_tVars => RetentionInv'
<1>. SUFFICES ASSUME RetentionInv, [RetentionNext]_tVars PROVE RetentionInv'
  OBVIOUS
<1>1. CASE Sweep
  BY <1>1, ListKeeps, EvaluateHandleKeeps, EvaluateProfileKeeps, ListInboxKeeps, DryMatchKeeps,
     WipeKeepsRetention, DeleteHandleKeeps DEF Sweep
<1>2. CASE \E h \in HandleKeys : UserDoes(h)
  BY <1>2, UserKeeps
<1>3. CASE UNCHANGED tVars
  <2>1. Current' = Current /\ Due' = Due
    BY <1>3 DEF tVars, Current, Due
  <2>2. RetentionTypeOK' /\ SweepIsAt' /\ WorkIsDue' /\ NothingSkipped'
    BY <1>3, <2>1 DEF tVars, RetentionInv, RetentionTypeOK, SweepIsAt, Working, At, WorkIsDue,
                      NothingSkipped, Ahead
  <2>3. SparedSoFar' /\ DueMatch'
    BY <1>3, <2>1 DEF tVars, RetentionInv, SparedSoFar, DueMatch, Working, At, MatchesPolicy
  <2>. QED  BY <2>2, <2>3 DEF RetentionInv
<1>. QED  BY <1>1, <1>2, <1>3 DEF RetentionNext

(* The sweep's page, counters and account views keep their types.          *)
THEOREM RetentionTypeCorrect == RetentionSpec => []RetentionTypeOK
<1>1. RetentionInv => RetentionTypeOK
  BY DEF RetentionInv
<1>. QED  BY RetentionInvInit, RetentionStep, <1>1, PTL DEF RetentionSpec

(* An account that matched no policy at any instant is spared, although the   *)
(* sweep reads it call by call while it is named, written to and compacted.  *)
THEOREM TheLivingAreSpared == RetentionSpec => []SparesTheLiving
<1>1. RetentionInv => SparesTheLiving
  BY DEF RetentionInv, SparesTheLiving, SparedSoFar, Working, At
<1>. QED  BY RetentionInvInit, RetentionStep, <1>1, PTL DEF RetentionSpec

(* A sweep that ended below its batch size without an error has deleted what  *)
(* matched all the time, on whatever page it was; a dry run nothing.        *)
THEOREM SweepsAreComplete == RetentionSpec => []SweepIsComplete
<1>1. RetentionInv => SweepIsComplete
  BY DEF RetentionInv, SweepIsComplete, NothingSkipped, SweepIsAt, Due
<1>. QED  BY RetentionInvInit, RetentionStep, <1>1, PTL DEF RetentionSpec

-----------------------------------------------------------------------------
(* The server's edge as a whole.                                           *)

(* A behaviour of the edge is one of each of its parts: a step of one is a  *)
(* stutter of the others.                                                  *)
LEMMA PartsOfTheEdge ==
  EdgeSpec => GuardSpec /\ RegistrationSpec /\ QuotaSpec /\ DeliverySpec /\ RetentionSpec
<1>1. EdgeInit => GuardInit /\ RegistrationInit /\ QuotaInit /\ DeliveryInit /\ RetentionInit
  BY DEF EdgeInit
<1>2. [EdgeNext]_edgeVars => /\ [GuardNext]_gVars /\ [RegistrationNext]_rVars /\ [QuotaNext]_qVars
                             /\ [DeliveryNext]_dVars /\ [RetentionNext]_tVars
  <2>1. CASE UNCHANGED edgeVars
    BY <2>1 DEF edgeVars
  <2>2. CASE EdgeNext
    BY <2>2 DEF EdgeNext
  <2>. QED  BY <2>1, <2>2
<1>. QED
  BY <1>1, <1>2, PTL
  DEF EdgeSpec, GuardSpec, RegistrationSpec, QuotaSpec, DeliverySpec, RetentionSpec

(* The state of every part of the edge keeps its type.                     *)
THEOREM EdgeTypeCorrect == EdgeSpec => []EdgeTypeOK
<1>1. RegistrationInv => RegistrationTypeOK
  BY DEF RegistrationInv
<1>2. QuotaInv => QuotaTypeOK
  BY DEF QuotaInv
<1>3. GuardTypeOK /\ RegistrationTypeOK /\ QuotaTypeOK /\ DeliveryTypeOK /\ RetentionTypeOK => EdgeTypeOK
  BY DEF EdgeTypeOK
<1>4. RegistrationSpec => []RegistrationTypeOK
  BY RegistrationInvInit, RegistrationStep, <1>1, PTL DEF RegistrationSpec
<1>5. QuotaSpec => []QuotaTypeOK
  BY QuotaInvInit, QuotaStep, <1>2, PTL DEF QuotaSpec
<1>. QED
  BY PartsOfTheEdge, GuardTypeCorrect, DeliveryTypeCorrect, RetentionTypeCorrect,
     <1>3, <1>4, <1>5, PTL

(* Every safety property the run checks of the five parts holds of the edge  *)
(* as it checks them.                                                      *)
THEOREM EdgeIsSound ==
  EdgeSpec =>
    /\ [](/\ EvictedStaysOut /\ NeverRefusedForIdling /\ OneUsePerChallenge /\ GrantsWithinQuota
          /\ DeletionIsSeen /\ WakeupNotLost /\ SentIsComplete /\ SparesTheLiving /\ SweepIsComplete)
    /\ CutOffWithinTtl
BY PartsOfTheEdge, EvictionIsFinal, CachesHeal, RetryHides, NonceIsUsedOnce, QuotaHolds,
   DeletionsAreSeen, WakeupsArrive, SendsAreComplete, TheLivingAreSpared, SweepsAreComplete, PTL
=============================================================================
