----------------------------- MODULE MediaQuota -----------------------------
(***************************************************************************)
(* The media quota of one account (media_quota.rs) with the handlers that    *)
(* use it (store_presign, store_usage, delete_object of routes.rs) and the  *)
(* uploads that follow a presigned URL (uploadMedia and putWithRetry of      *)
(* api.ts).  The counted usage is probed from the object store under the     *)
(* user's lock, kept for a time, and increased by every grant; the upload    *)
(* itself goes past the server.  One blob stands for one unit of bytes, so   *)
(* the cap on the count and the cap on the bytes are two bounds on it.       *)
(***************************************************************************)
EXTENDS Naturals, FiniteSets

CONSTANTS Blobs,          \* the media keys
          QuotaRequests,
          QuotaCap,       \* USER_MEDIA_QUOTA_BYTES and USER_MEDIA_BLOB_CAP, in blobs
          QuotaTtl,       \* QUOTA_CACHE_TTL_SECS in ticks
          UrlTtl          \* the life of a presigned URL in ticks

ASSUME QuotaAssumption ==
    /\ IsFiniteSet(Blobs) /\ "free" \notin QuotaRequests
    /\ QuotaCap \in Nat /\ QuotaTtl \in Nat \ {0} /\ UrlTtl \in Nat \ {0}

VARIABLES
    qStored,    \* the media objects in the store
    qUrls,      \* [Blobs -> ticks its presigned URL still works, 0 without one]
    qUsage,     \* the entry's usage
    qFresh,     \* ticks until the entry expires, 0 when it must be probed
    qLock,      \* the request that holds the entry's lock, or "free"
    qReq,       \* the requests in the server
    qGranted,   \* history: grants since the objects were listed for the entry
    qMissed     \* history: an object was deleted since they were listed

qVars == <<qStored, qUrls, qUsage, qFresh, qLock, qReq, qGranted, qMissed>>

NoQuotaRequest == [pc |-> "idle"]
QuotaRequest == [pc : {"lock", "probed", "decide", "deleted"},
                 op : {"presign", "usage", "delete"},
                 blob : Blobs, probe : 0 .. Cardinality(Blobs)]

QuotaInit ==
    /\ qStored \in SUBSET Blobs
    /\ qUrls = [b \in Blobs |-> 0]
    /\ qUsage = 0 /\ qFresh = 0
    /\ qLock = "free"
    /\ qReq = [r \in QuotaRequests |-> NoQuotaRequest]
    /\ qGranted = 0 /\ qMissed = FALSE

-----------------------------------------------------------------------------
\* store_presign of a new key, store_usage: they wait for the entry's lock.
AskQuota(r) ==
    /\ qReq[r] = NoQuotaRequest
    /\ \E op \in {"presign", "usage"}, b \in Blobs \ qStored :
        /\ qUrls[b] = 0
        /\ qReq' = [qReq EXCEPT ![r] = [pc |-> "lock", op |-> op, blob |-> b, probe |-> 0]]
    /\ UNCHANGED <<qStored, qUrls, qUsage, qFresh, qLock, qGranted, qMissed>>

\* The per-user lock is held from before the probe to the answer.
MayEnter(r) == qLock = "free"

\* refresh_if_expired: list the objects when the entry has expired.
Probe(r) ==
    /\ qReq[r].pc = "lock" /\ MayEnter(r)
    /\ qLock' = r
    /\ IF qFresh = 0
       THEN /\ qReq' = [qReq EXCEPT ![r].pc = "probed", ![r].probe = Cardinality(qStored)]
            /\ qGranted' = 0 /\ qMissed' = FALSE
       ELSE /\ qReq' = [qReq EXCEPT ![r].pc = "decide"]
            /\ UNCHANGED <<qGranted, qMissed>>
    /\ UNCHANGED <<qStored, qUrls, qUsage, qFresh>>

\* The listing arrives; when it fails, the request does and the entry stays as it was.
Probed(r) ==
    /\ qReq[r].pc = "probed"
    /\ \/ /\ qUsage' = qReq[r].probe
          /\ qFresh' = QuotaTtl
          /\ qReq' = [qReq EXCEPT ![r].pc = "decide"]
          /\ UNCHANGED qLock
       \/ /\ qReq' = [qReq EXCEPT ![r] = NoQuotaRequest]
          /\ qLock' = "free"
          /\ UNCHANGED <<qUsage, qFresh>>
    /\ UNCHANGED <<qStored, qUrls, qGranted, qMissed>>

\* A slip: the comparison lets one more through.
RoomUpTo(usage) == usage <= QuotaCap

\* DeniedCount and DeniedBytes: what is counted, and this upload, against the caps.
Room(usage) == usage + 1 <= QuotaCap

\* reserve_upload grants and counts, or denies; get_usage only answers.  The URL is
\* signed after the lock is released, with no other wait in between.
Decide(r) ==
    /\ qReq[r].pc = "decide"
    /\ IF qReq[r].op = "presign" /\ Room(qUsage)
       THEN /\ qUsage' = qUsage + 1
            /\ qGranted' = qGranted + 1
            /\ qUrls' = [qUrls EXCEPT ![qReq[r].blob] = UrlTtl]
       ELSE UNCHANGED <<qUsage, qGranted, qUrls>>
    /\ qLock' = "free"
    /\ qReq' = [qReq EXCEPT ![r] = NoQuotaRequest]
    /\ UNCHANGED <<qStored, qFresh, qMissed>>

\* The browser puts the object; a second attempt of putWithRetry puts it again.
Upload(b) ==
    /\ qUrls[b] > 0
    /\ qStored' = qStored \cup {b}
    /\ UNCHANGED <<qUrls, qUsage, qFresh, qLock, qReq, qGranted, qMissed>>

\* delete_object removes the object first ...
DeleteBlob(r, b) ==
    /\ qReq[r] = NoQuotaRequest
    /\ qStored' = qStored \ {b}
    /\ qMissed' = (qMissed \/ b \in qStored)
    /\ qReq' = [qReq EXCEPT ![r] = [pc |-> "deleted", op |-> "delete", blob |-> b, probe |-> 0]]
    /\ UNCHANGED <<qUrls, qUsage, qFresh, qLock, qGranted>>

\* A slip: the entry is expired without its lock, under a probe that then renews it.
AtOnce(r) == TRUE

\* invalidate waits for the entry's lock.
MayExpire(r) == qLock = "free"

\* ... and expires the entry.
Invalidate(r) ==
    /\ qReq[r].pc = "deleted" /\ MayExpire(r)
    /\ qFresh' = 0
    /\ qReq' = [qReq EXCEPT ![r] = NoQuotaRequest]
    /\ UNCHANGED <<qStored, qUrls, qUsage, qLock, qGranted, qMissed>>

QuotaTick ==
    /\ qFresh' = IF qFresh > 0 THEN qFresh - 1 ELSE 0
    /\ qUrls' = [b \in Blobs |-> IF qUrls[b] > 0 THEN qUrls[b] - 1 ELSE 0]
    /\ UNCHANGED <<qStored, qUsage, qLock, qReq, qGranted, qMissed>>

QuotaNext ==
    \/ QuotaTick
    \/ \E b \in Blobs : Upload(b)
    \/ \E r \in QuotaRequests :
        \/ AskQuota(r) \/ Probe(r) \/ Probed(r) \/ Decide(r) \/ Invalidate(r)
        \/ \E b \in Blobs : DeleteBlob(r, b)

QuotaSpec == QuotaInit /\ [][QuotaNext]_qVars

-----------------------------------------------------------------------------
QuotaTypeOK ==
    /\ qStored \subseteq Blobs
    /\ qUrls \in [Blobs -> 0 .. UrlTtl]
    /\ qUsage \in Nat
    /\ qFresh \in 0 .. QuotaTtl
    /\ qLock \in QuotaRequests \cup {"free"}
    /\ qReq \in [QuotaRequests -> QuotaRequest \cup {NoQuotaRequest}]
    /\ qGranted \in Nat
    /\ qMissed \in BOOLEAN

(***************************************************************************)
(* "Concurrent uploads for one user serialize, the optimistic increment      *)
(* stays atomic" (media_quota.rs): the uploads granted since the objects     *)
(* were last listed never exceed the quota, and the entry has counted every  *)
(* one of them.                                                              *)
(***************************************************************************)
GrantsWithinQuota ==
    /\ qGranted <= QuotaCap
    /\ qGranted <= qUsage

(***************************************************************************)
(* A deletion frees its bytes: once its handler has answered, no grant is    *)
(* decided from a listing older than the deletion.                           *)
(***************************************************************************)
DeletionIsSeen ==
    qMissed /\ qFresh > 0 => \E r \in QuotaRequests : qReq[r].pc = "deleted"

-----------------------------------------------------------------------------
(* What makes it so: the lock is held from the probe to the answer, nothing  *)
(* is granted while the objects are listed, and a deletion that no listing   *)
(* has seen still has its handler, or left an entry to be probed.            *)
HolderIsAlone == \A r \in QuotaRequests : qReq[r].pc \in {"probed", "decide"} <=> qLock = r
NoGrantMeanwhile == \A r \in QuotaRequests : qReq[r].pc = "probed" => qGranted = 0
MissedIsPending ==
    qMissed => \/ \E r \in QuotaRequests : qReq[r].pc = "deleted"
               \/ qFresh = 0 /\ \A r \in QuotaRequests : qReq[r].pc # "probed"

QuotaInv ==
    /\ QuotaTypeOK
    /\ HolderIsAlone
    /\ NoGrantMeanwhile
    /\ MissedIsPending
    /\ GrantsWithinQuota
=============================================================================
