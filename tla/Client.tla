------------------------------- MODULE Client -------------------------------
(***************************************************************************)
(* The parts of the web client around the inbox sync: the account's keys and  *)
(* their backups, the outbound Megolm sessions, the media of an open chat, the *)
(* read markers, the conversation's summary, the composer, and the browser's  *)
(* storage.  They share no state, so their steps commute, and a behaviour of  *)
(* the composition is one of a part while the others keep their initial state. *)
(***************************************************************************)
EXTENDS KeyRing, Sessions, MediaView, ReadMarkers, Timeline, Composer, SessionStore

VARIABLE clientPart   \* the part that moves

clientVars == <<clientPart, kVars, mVars, vVars, wVars, lVars, cVars, oVars>>

\* The outbound loads of the part that does not move are one pair.
ClientInit ==
  /\ clientPart \in {"keys", "sessions", "media", "markers", "timeline", "composer", "storage"}
  /\ KeyRingInit /\ SessionsInit /\ MediaInit /\ MarkersInit /\ TimelineInit /\ ComposerInit /\ StoreInit
  /\ clientPart # "sessions" => mLoad = CHOOSE x \in Loads : TRUE

ClientNext ==
  /\ UNCHANGED clientPart
  /\ \/ clientPart = "keys" /\ KeyRingNext /\ UNCHANGED <<mVars, vVars, wVars, lVars, cVars, oVars>>
     \/ clientPart = "sessions" /\ SessionsNext /\ UNCHANGED <<kVars, vVars, wVars, lVars, cVars, oVars>>
     \/ clientPart = "media" /\ MediaNext /\ UNCHANGED <<kVars, mVars, wVars, lVars, cVars, oVars>>
     \/ clientPart = "markers" /\ MarkersNext /\ UNCHANGED <<kVars, mVars, vVars, lVars, cVars, oVars>>
     \/ clientPart = "timeline" /\ TimelineNext /\ UNCHANGED <<kVars, mVars, vVars, wVars, cVars, oVars>>
     \/ clientPart = "composer" /\ ComposerNext /\ UNCHANGED <<kVars, mVars, vVars, wVars, lVars, oVars>>
     \/ clientPart = "storage" /\ StoreNext /\ UNCHANGED <<kVars, mVars, vVars, wVars, lVars, cVars>>

\* A device that is open keeps syncing, and an open chat reads what it is told of.
MarkersMove(A) == clientPart = "markers" /\ A /\ UNCHANGED <<clientPart, kVars, mVars, vVars, lVars, cVars, oVars>>

ClientFairness == \A d \in ReadDevices :
  WF_clientVars(MarkersMove(SyncStep(d))) /\ WF_clientVars(MarkersMove(ViewStep(d)))

ClientSpec == ClientInit /\ [][ClientNext]_clientVars /\ ClientFairness

\* The state of every part stays in its types.
ClientTypeOK ==
  KeyRingTypeOK /\ SessionsTypeOK /\ MediaTypeOK /\ MarkersTypeOK /\ TimelineTypeOK
  /\ ComposerTypeOK /\ StoreTypeOK
=============================================================================
