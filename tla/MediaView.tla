----------------------------- MODULE MediaView -----------------------------
(***************************************************************************)
(* The pictures of an open conversation (useMedia): each file has a full      *)
(* object and may have a preview, each fetched, decrypted and shown through   *)
(* an object URL of its own.  An object URL is named after the load that      *)
(* made it.  A load is a chain of awaits that looks at its controller after   *)
(* each; the view changes under it, with the list of messages, with a tap,    *)
(* and when it is closed.                                                   *)
(***************************************************************************)
EXTENDS Naturals, FiniteSets

CONSTANTS
  MediaFiles,   \* the files of the conversation
  Pictures,     \* those whose name looks like an image
  Previewed,    \* those with a preview object
  MaxLoads      \* bound: loads started

ASSUME MediaAssumption ==
  Pictures \subseteq MediaFiles /\ Previewed \subseteq MediaFiles /\ MaxLoads \in Nat

VARIABLES
  vOpen,       \* is the view mounted
  vFiles,      \* the files of the message list
  vState,      \* states: status and object URL of each url with an entry
  vBlobs,      \* blobsRef: the object URL kept for each url, or 0
  vLive,       \* the object URLs that are not revoked
  vCtl,        \* controllersRef: the last load of each url, or 0
  vLoad,       \* vLoad[n]: the n-th load
  vWatched,    \* observedRef: urls whose element is being observed
  vTriggered,  \* triggeredRef
  vTracked,    \* trackedRef
  vCache,      \* the media cache of IndexedDB: urls it has
  vWrites      \* cache writes that are under way

vVars == <<vOpen, vFiles, vState, vBlobs, vLive, vCtl, vLoad, vWatched, vTriggered,
           vTracked, vCache, vWrites>>

Full(f)    == <<f, "full">>
Preview(f) == <<f, "preview">>
LoadIds    == 1..MaxLoads

\* loadables: every object a list of files can make the view fetch.
Loadables(files) ==
  {Full(f) : f \in files} \cup {Preview(f) : f \in files \cap Previewed}
Urls == Loadables(MediaFiles)

\* displayUrl: what renders in the chat.
DisplayUrl(f) == IF f \in Previewed THEN Preview(f) ELSE Full(f)

\* The full object of a previewed file is never kept in the cache.
Cacheable(u) == u[2] = "preview" \/ u[1] \notin Previewed

Entry(status, url) == [status |-> status, url |-> url]
NoEntry == Entry("none", 0)
NoLoad  == [u |-> <<"none", "none">>, pc |-> "none", aborted |-> FALSE]

Loading == [u : Urls, pc : {"cache", "fetch", "decrypt", "done"}, aborted : BOOLEAN]

MediaTypeOK ==
  /\ vOpen \in BOOLEAN /\ vFiles \subseteq MediaFiles
  /\ vState \in [Urls -> [status : {"none", "idle", "loading", "ready", "corrupt", "unavailable",
                                   "network-error"},
                          url : LoadIds \cup {0}]]
  /\ \A u \in Urls : vState[u].url # 0 <=> vState[u].status = "ready"
  /\ {vBlobs, vCtl} \subseteq [Urls -> LoadIds \cup {0}]
  /\ vLive \subseteq LoadIds
  /\ vLoad \in [LoadIds -> {NoLoad} \cup Loading]
  /\ vWatched \cup vTriggered \cup vTracked \cup vCache \cup vWrites \subseteq Urls

MediaInit ==
  /\ vOpen = TRUE
  /\ vFiles = {}
  /\ vState = [u \in Urls |-> NoEntry]
  /\ vBlobs = [u \in Urls |-> 0] /\ vLive = {}
  /\ vCtl = [u \in Urls |-> 0] /\ vLoad = [n \in LoadIds |-> NoLoad]
  /\ vWatched = {} /\ vTriggered = {} /\ vTracked = {}
  /\ vCache = {} /\ vWrites = {}

-----------------------------------------------------------------------------
(* The view.                                                               *)

viewRefs == <<vBlobs, vLive, vCtl, vLoad>>

\* A slip: a load that is started over leaves the one before running.
OldOneRuns(loads, S) == loads

\* controllersRef.get(url)?.abort(), for the urls of S
Aborted(loads, S) ==
  [n \in LoadIds |-> IF \E u \in S : vCtl[u] = n THEN [loads[n] EXCEPT !.aborted = TRUE] ELSE loads[n]]

\* The effect on `files`: a picture gets an idle entry, and what belongs to a
\* message that left the list is released, whatever state it is in.
SyncFiles(files) ==
  LET shown == {DisplayUrl(f) : f \in files \cap Pictures}
      gone  == vTracked \ Loadables(files)
  IN
  /\ vOpen /\ files # vFiles
  /\ vFiles' = files
  /\ vState' = [u \in Urls |-> IF u \in gone THEN NoEntry
                               ELSE IF u \in shown /\ vState[u] = NoEntry THEN Entry("idle", 0)
                               ELSE vState[u]]
  /\ vLoad' = Aborted(vLoad, gone)
  /\ vLive' = vLive \ {vBlobs[u] : u \in gone}
  /\ vBlobs' = [u \in Urls |-> IF u \in gone THEN 0 ELSE vBlobs[u]]
  /\ vCtl' = [u \in Urls |-> IF u \in gone THEN 0 ELSE vCtl[u]]
  /\ vTriggered' = vTriggered \ gone
  /\ vTracked' = (vTracked \cup shown) \ gone
  /\ vWatched' = vWatched \ gone
  /\ UNCHANGED <<vOpen, vCache, vWrites>>

\* observe: the element of a picture is watched until it first comes near.
Observe(f) ==
  LET u == DisplayUrl(f) IN
  /\ vOpen /\ f \in vFiles \cap Pictures
  /\ u \notin vTriggered \cup vWatched
  /\ vWatched' = vWatched \cup {u}
  /\ UNCHANGED <<vOpen, vFiles, vState, viewRefs, vTriggered, vTracked, vCache, vWrites>>

\* load: a new controller takes the place of the running load of this url.
Load(u) ==
  LET n == Cardinality({m \in LoadIds : vLoad[m].pc # "none"}) + 1 IN
  /\ n \in LoadIds
  /\ vTracked' = vTracked \cup {u}
  /\ vLoad' = [Aborted(vLoad, {u}) EXCEPT ![n] = [u |-> u, pc |-> "cache", aborted |-> FALSE]]
  /\ vCtl' = [vCtl EXCEPT ![u] = n]
  /\ vState' = [vState EXCEPT ![u] = Entry("loading", 0)]
  /\ UNCHANGED <<vOpen, vFiles, vBlobs, vLive, vCache, vWrites>>

\* The observer's callback: one load for an element, then it is left alone.
Intersect(u) ==
  /\ vOpen /\ u \in vWatched
  /\ vWatched' = vWatched \ {u}
  /\ vTriggered' = vTriggered \cup {u}
  /\ Load(u)

\* request: a tap on a chip, on a preview for the full object, or on an error.
Tappable(f, u) ==
  \/ u = DisplayUrl(f) /\ vState[u].status = "network-error"
  \/ u = DisplayUrl(f) /\ f \notin Pictures /\ vState[u].status \in {"none", "idle"}
  \/ u = Full(f) /\ f \in Previewed /\ vState[Preview(f)].status = "ready" /\ vState[u].status # "ready"

Request(f, u) ==
  /\ vOpen /\ f \in vFiles /\ u \in Loadables({f})
  /\ Tappable(f, u)
  /\ Load(u)
  /\ UNCHANGED <<vWatched, vTriggered>>

\* The view is closed: everything is aborted and revoked.
CloseView ==
  /\ vOpen
  /\ vOpen' = FALSE
  /\ vLoad' = Aborted(vLoad, Urls)
  /\ vLive' = vLive \ {vBlobs[u] : u \in Urls}
  /\ vBlobs' = [u \in Urls |-> 0] /\ vCtl' = [u \in Urls |-> 0]
  /\ vState' = [u \in Urls |-> NoEntry]
  /\ vWatched' = {} /\ vTriggered' = {} /\ vTracked' = {}
  /\ UNCHANGED <<vFiles, vCache, vWrites>>

-----------------------------------------------------------------------------
(* The awaits of a load.                                                   *)

Awaits(n, pc) == vLoad[n].pc = pc
GoesOn(n, pc) == vLoad' = [vLoad EXCEPT ![n].pc = pc]
viewRest == <<vOpen, vFiles, vCtl, vWatched, vTriggered, vTracked>>

\* After an await: an aborted load touches nothing more.
Stops(n) ==
  /\ vLoad[n].aborted
  /\ GoesOn(n, "done")
  /\ UNCHANGED <<viewRest, vState, vBlobs, vLive, vCache, vWrites>>

\* present: the new object URL takes the place of the one kept before.
Present(n) ==
  LET u == vLoad[n].u IN
  /\ vLive' = (vLive \ {vBlobs[u]}) \cup {n}
  /\ vBlobs' = [vBlobs EXCEPT ![u] = n]
  /\ vState' = [vState EXCEPT ![u] = Entry("ready", n)]

Fails(n, status) ==
  /\ vState' = [vState EXCEPT ![vLoad[n].u] = Entry(status, 0)]
  /\ GoesOn(n, "done")
  /\ UNCHANGED <<vBlobs, vLive>>

\* getMediaBlob: what is cached is shown without the network.
ReadCache(n) ==
  /\ Awaits(n, "cache")
  /\ \/ Stops(n)
     \/ /\ ~vLoad[n].aborted
        /\ \/ vLoad[n].u \in vCache /\ Present(n) /\ GoesOn(n, "done")
           \/ GoesOn(n, "fetch") /\ UNCHANGED <<vState, vBlobs, vLive>>
        /\ UNCHANGED <<viewRest, vCache, vWrites>>

\* fetchMedia: the bytes, a 404, which evicts the cached copy, or an error.
FetchMedia(n) ==
  LET u == vLoad[n].u IN
  /\ Awaits(n, "fetch")
  /\ \/ Stops(n)
     \/ /\ ~vLoad[n].aborted
        /\ \/ GoesOn(n, "decrypt") /\ UNCHANGED <<vState, vBlobs, vLive, vCache>>
           \/ Fails(n, "unavailable") /\ vCache' = vCache \ {u}
           \/ Fails(n, "network-error") /\ UNCHANGED vCache
        /\ UNCHANGED <<viewRest, vWrites>>

\* decryptMedia; what was shown is then written through to the cache.
DecryptMedia(n) ==
  LET u == vLoad[n].u IN
  /\ Awaits(n, "decrypt")
  /\ \/ Stops(n)
     \/ /\ ~vLoad[n].aborted
        /\ \/ Fails(n, "corrupt") /\ UNCHANGED vWrites
           \/ /\ Present(n) /\ GoesOn(n, "done")
              /\ vWrites' = IF Cacheable(u) THEN vWrites \cup {u} ELSE vWrites
        /\ UNCHANGED <<viewRest, vCache>>

\* cacheAfterLoad: the bytes, or the thumbnail made of them, are stored; a
\* failure leaves no entry, and what is no picture is not kept.
CacheAfterLoad(u) ==
  /\ u \in vWrites
  /\ vWrites' = vWrites \ {u}
  /\ vCache' \in {vCache} \cup (IF u[2] = "preview" \/ u[1] \in Pictures THEN {vCache \cup {u}} ELSE {})
  /\ UNCHANGED <<vOpen, vFiles, vState, viewRefs, vWatched, vTriggered, vTracked>>

\* The delete of a message evicts its objects (handleDelete).
EvictDeleted(f) ==
  /\ vCache' = vCache \ Loadables({f})
  /\ vCache' # vCache
  /\ UNCHANGED <<vOpen, vFiles, vState, viewRefs, vWatched, vTriggered, vTracked, vWrites>>

MediaNext ==
  \/ \E files \in SUBSET MediaFiles : SyncFiles(files)
  \/ \E f \in MediaFiles : Observe(f) \/ EvictDeleted(f) \/ \E u \in Urls : Request(f, u)
  \/ CloseView
  \/ \E u \in Urls : Intersect(u) \/ CacheAfterLoad(u)
  \/ \E n \in LoadIds : ReadCache(n) \/ FetchMedia(n) \/ DecryptMedia(n)

MediaSpec == MediaInit /\ [][MediaNext]_vVars

\* MediaAttachment: the full object once it is ready, else the display object.
ShownEntry(f) ==
  IF f \in Previewed /\ vState[Full(f)].status = "ready" THEN vState[Full(f)] ELSE vState[DisplayUrl(f)]

\* What is shown is live and nothing else is: the object URL an attachment
\* renders is never revoked under it, and every object URL that is not revoked
\* belongs to a file of the open list, whatever loads, retries, removals and
\* the closing of the view overlap (useMedia, MediaAttachment).
ShownIsLive ==
  /\ \A f \in vFiles : ShownEntry(f).status = "ready" => ShownEntry(f).url \in vLive
  /\ \A n \in vLive : vOpen /\ \E u \in Loadables(vFiles) : vBlobs[u] = n

-----------------------------------------------------------------------------
(* What makes it so: what is tracked is of the open list, an object URL is     *)
(* kept for the tracked url whose load made it, and a load that may still      *)
(* present is its url's controller.                                          *)
LoadsCounted == \E k \in 0..MaxLoads : \A n \in LoadIds : vLoad[n].pc # "none" <=> n <= k

ViewTracks ==
  /\ \A u \in vTracked : vOpen /\ u \in Loadables(vFiles)
  /\ vWatched \subseteq vTracked
  /\ vOpen => \A f \in vFiles \cap Pictures : DisplayUrl(f) \in vTracked

UrlsKept ==
  /\ \A u \in Urls : vBlobs[u] # 0 =>
       /\ u \in vTracked /\ vBlobs[u] \in vLive
       /\ vLoad[vBlobs[u]].pc # "none" /\ vLoad[vBlobs[u]].u = u
  /\ \A n \in vLive : \E u \in Urls : vBlobs[u] = n
  /\ \A u \in Urls : vState[u].status = "ready" => vState[u].url = vBlobs[u]

LoadsControlled ==
  /\ \A u \in Urls : vCtl[u] # 0 => vLoad[vCtl[u]].pc # "none"
  /\ \A n \in LoadIds : vLoad[n].pc \in {"cache", "fetch", "decrypt"} /\ ~vLoad[n].aborted =>
       vLoad[n].u \in vTracked /\ vCtl[vLoad[n].u] = n

MediaInv == MediaTypeOK /\ LoadsCounted /\ ViewTracks /\ UrlsKept /\ LoadsControlled
=============================================================================
