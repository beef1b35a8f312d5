------------------------------ MODULE Delivery ------------------------------
(***************************************************************************)
(* A message on its way from the composer to the event streams of the        *)
(* devices it concerns: useChatSend.ts (attachment and preview uploaded side *)
(* by side, then the batch), send and putWithRetry of api.ts (attempts), the *)
(* send and events handlers of routes.rs and the hub of events.rs (a bounded *)
(* buffer per connection), and the EventSource of useInboxSync.ts.           *)
(* What a device does after an event is the matter of DeviceSync.            *)
(***************************************************************************)
EXTENDS Naturals, Sequences, FiniteSets

CONSTANTS Messages,      \* each sent by a tab of its own, `sending` allows one at a time
          Attachments,   \* the messages with a file and its preview
          Recipients,    \* a batch is one envelope for each, in this order
          Streams,       \* [connection |-> the user it listens for]
          SendAttempts,  \* SEND_ATTEMPTS
          PutAttempts,   \* of putWithRetry
          HubBuffer      \* CHANNEL_BUFFER

ASSUME DeliveryAssumption ==
    /\ Attachments \subseteq Messages /\ Recipients \in Seq(STRING)
    /\ SendAttempts \in Nat \ {0} /\ PutAttempts \in Nat \ {0} /\ HubBuffer \in Nat \ {0}

Conns == DOMAIN Streams
Files == {"full", "preview"}
Batch == 1 .. Len(Recipients)
Handlers == Messages \X (1 .. SendAttempts)

VARIABLES
    dSend,      \* [Messages -> the step of useChatSend, and the attempt of send()]
    dFiles,     \* [Messages -> [Files -> how the upload ended, and the attempts left]]
    dRuns,      \* the send handlers running
    dPut,       \* [Handlers -> the envelopes it has stored]
    dStored,    \* the envelopes in the inboxes: <<message, position in the batch>>
    dOpen,      \* the connections registered in the hub
    dHub,       \* [Conns -> events in its channel]
    dNotified,  \* history: the envelopes whose recipient was notified after the PUT
    dUnseen     \* history: [Conns -> notified envelopes since whose event nothing was read]

dVars == <<dSend, dFiles, dRuns, dPut, dStored, dOpen, dHub, dNotified, dUnseen>>

DeliveryInit ==
    /\ dSend = [m \in Messages |-> [step |-> "idle", attempt |-> 0]]
    /\ dFiles = [m \in Messages |-> [f \in Files |-> [end |-> "none", left |-> PutAttempts]]]
    /\ dRuns = {}
    /\ dPut = [h \in Handlers |-> 0]
    /\ dStored = {}
    /\ dOpen = {}
    /\ dHub = [c \in Conns |-> 0]
    /\ dNotified = {}
    /\ dUnseen = [c \in Conns |-> {}]

-----------------------------------------------------------------------------
\* useChatSend.

Uploaded(m) == \A f \in Files : dFiles[m][f].end = "done"

\* A slip: the first upload that ends lets the message go.
AnyUploaded(m) == \E f \in Files : dFiles[m][f].end = "done"

\* Promise.all of the uploads; a text needs none.
ReadyToPost(m) == m \in Attachments => Uploaded(m)

StartSend(m) ==
    /\ dSend[m].step = "idle"
    /\ dSend' = [dSend EXCEPT ![m].step = "preparing"]
    /\ UNCHANGED <<dFiles, dRuns, dPut, dStored, dOpen, dHub, dNotified, dUnseen>>

\* One attempt of a PUT: stored, refused for good or for the last time, or to be tried again.  Promise.all
\* gives up at the first failure, and the other upload goes on.
UploadFile(m, f) ==
    /\ m \in Attachments /\ dSend[m].step # "idle" /\ dFiles[m][f].end = "none"
    /\ \E end \in {"done", "failed", "none"} :
        /\ end = "none" => dFiles[m][f].left > 1
        /\ dFiles' = [dFiles EXCEPT ![m][f] = [end |-> end, left |-> @.left - 1]]
        /\ dSend' = IF end = "failed" THEN [dSend EXCEPT ![m].step = "failed"] ELSE dSend
    /\ UNCHANGED <<dRuns, dPut, dStored, dOpen, dHub, dNotified, dUnseen>>

\* The next attempt of send(): the same envelopes, with the same ids.
Post(m) ==
    /\ \/ dSend[m].step = "preparing" /\ ReadyToPost(m)
       \/ dSend[m].step = "retry"
    /\ dSend' = [dSend EXCEPT ![m] = [step |-> "posting", attempt |-> @.attempt + 1]]
    /\ dRuns' = dRuns \cup {<<m, dSend[m].attempt + 1>>}
    /\ UNCHANGED <<dFiles, dPut, dStored, dOpen, dHub, dNotified, dUnseen>>

\* Whether an answer without success is tried again: a 4xx is not.
AfterFailure(attempt) == IF attempt < SendAttempts THEN {"retry", "failed"} ELSE {"failed"}

\* The connection breaks, or a 5xx or 4xx arrives; the handler may still be running.
AttemptFails(m) ==
    /\ dSend[m].step = "posting"
    /\ \E s \in AfterFailure(dSend[m].attempt) : dSend' = [dSend EXCEPT ![m].step = s]
    /\ UNCHANGED <<dFiles, dRuns, dPut, dStored, dOpen, dHub, dNotified, dUnseen>>

-----------------------------------------------------------------------------
\* The send handler of an attempt.

\* The next envelope is stored, or the handler ends there: a PUT that failed, or a
\* request that was dropped with its connection.
PutEnvelope(h) ==
    /\ h \in dRuns /\ dPut[h] < Len(Recipients)
    /\ \/ /\ dStored' = dStored \cup {<<h[1], dPut[h] + 1>>}
          /\ dPut' = [dPut EXCEPT ![h] = @ + 1]
          /\ UNCHANGED dRuns
       \/ /\ dRuns' = dRuns \ {h}
          /\ UNCHANGED <<dPut, dStored>>
    /\ UNCHANGED <<dSend, dFiles, dOpen, dHub, dNotified, dUnseen>>

\* A slip: a channel that is full is given up.
TrySendOrClear(events) == IF events < HubBuffer THEN events + 1 ELSE 0

\* A slip: the channel has no bound.
SendAlways(events) == events + 1

\* try_send: a full channel is skipped.
TrySend(events) == IF events < HubBuffer THEN events + 1 ELSE events

\* hub.notify for the recipients of the batch, all of them stored, and the answer.
Notify(h) ==
    /\ h \in dRuns /\ dPut[h] = Len(Recipients)
    /\ LET mine(c) == {i \in Batch : c \in dOpen /\ Recipients[i] = Streams[c]} IN
       /\ dHub' = [c \in Conns |-> IF mine(c) # {} THEN TrySend(dHub[c]) ELSE dHub[c]]
       /\ dUnseen' = [c \in Conns |-> dUnseen[c] \cup ({h[1]} \X mine(c))]
    /\ dNotified' = dNotified \cup ({h[1]} \X Batch)
    /\ dRuns' = dRuns \ {h}
    /\ dSend' = IF dSend[h[1]] = [step |-> "posting", attempt |-> h[2]]
                THEN [dSend EXCEPT ![h[1]].step = "sent"] ELSE dSend
    /\ UNCHANGED <<dFiles, dPut, dStored, dOpen>>

-----------------------------------------------------------------------------
\* The event streams.

\* GET /v1/events registers a new channel before it answers `connected`.
Connect(c) ==
    /\ c \notin dOpen
    /\ dOpen' = dOpen \cup {c}
    /\ UNCHANGED <<dSend, dFiles, dRuns, dPut, dStored, dHub, dNotified, dUnseen>>

\* recv: the device reads an event, and syncs.
ReadEvent(c) ==
    /\ c \in dOpen /\ dHub[c] > 0
    /\ dHub' = [dHub EXCEPT ![c] = @ - 1]
    /\ dUnseen' = [dUnseen EXCEPT ![c] = {}]
    /\ UNCHANGED <<dSend, dFiles, dRuns, dPut, dStored, dOpen, dNotified>>

\* The stream drops: `onerror` closes it, unregister takes its channel out.  It opens
\* again with the session or when the browser is back online.
Disconnect(c) ==
    /\ c \in dOpen
    /\ dOpen' = dOpen \ {c}
    /\ dHub' = [dHub EXCEPT ![c] = 0]
    /\ dUnseen' = [dUnseen EXCEPT ![c] = {}]
    /\ UNCHANGED <<dSend, dFiles, dRuns, dPut, dStored, dNotified>>

DeliveryNext ==
    \/ \E m \in Messages : \/ StartSend(m) \/ Post(m) \/ AttemptFails(m)
                           \/ \E f \in Files : UploadFile(m, f)
    \/ \E h \in Handlers : PutEnvelope(h) \/ Notify(h)
    \/ \E c \in Conns : Connect(c) \/ ReadEvent(c) \/ Disconnect(c)

DeliverySpec == DeliveryInit /\ [][DeliveryNext]_dVars

-----------------------------------------------------------------------------
DeliveryTypeOK ==
    /\ dSend \in [Messages -> [step : {"idle", "preparing", "posting", "retry", "sent", "failed"},
                               attempt : 0 .. SendAttempts]]
    /\ dFiles \in [Messages -> [Files -> [end : {"none", "done", "failed"}, left : 0 .. PutAttempts]]]
    /\ dRuns \subseteq Handlers
    /\ dPut \in [Handlers -> 0 .. Len(Recipients)]
    /\ dStored \subseteq Messages \X Batch
    /\ dOpen \subseteq Conns
    /\ dHub \in [Conns -> 0 .. HubBuffer]
    /\ dNotified \subseteq Messages \X Batch
    /\ dUnseen \in [Conns -> SUBSET (Messages \X Batch)]

(***************************************************************************)
(* "A slow device is skipped rather than stalling notify" (events.rs): a    *)
(* skipped connection still has an event to read, so a device that is        *)
(* connected when a message is stored is woken after it was.                 *)
(***************************************************************************)
WakeupNotLost ==
    \A c \in Conns : dUnseen[c] # {} => c \in dOpen /\ dHub[c] > 0

(***************************************************************************)
(* Whatever attempts failed, lost their answer or are still running: what    *)
(* the composer reports as sent is in every inbox of the batch and every     *)
(* recipient was notified after that, and no inbox has a message whose       *)
(* attachments are not uploaded.                                             *)
(***************************************************************************)
SentIsComplete ==
    /\ \A m \in Messages : dSend[m].step = "sent" => {m} \X Batch \subseteq dStored \cap dNotified
    /\ \A e \in dStored : e[1] \in Attachments => Uploaded(e[1])

-----------------------------------------------------------------------------
(* What makes it so: an attempt is made only after the uploads, and a handler *)
(* has stored the envelopes it counts.                                      *)
AttemptsAreLeft ==
    \A m \in Messages : /\ dSend[m].step \in {"idle", "preparing"} => dSend[m].attempt = 0
                        /\ dSend[m].step = "retry" => dSend[m].attempt < SendAttempts
                        /\ \A f \in Files : dFiles[m][f].end = "none" => dFiles[m][f].left > 0

PostedIsReady ==
    /\ \A m \in Messages : dSend[m].step \in {"posting", "retry"} => ReadyToPost(m)
    /\ \A h \in dRuns : ReadyToPost(h[1])

PutIsStored == \A h \in Handlers : \A i \in 1 .. dPut[h] : <<h[1], i>> \in dStored

DeliveryInv ==
    /\ DeliveryTypeOK
    /\ AttemptsAreLeft
    /\ PostedIsReady
    /\ PutIsStored
    /\ WakeupNotLost
    /\ SentIsComplete
=============================================================================
