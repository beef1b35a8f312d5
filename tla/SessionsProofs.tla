--------------------------- MODULE SessionsProofs ---------------------------
(***************************************************************************)
(* Proofs about Sessions, for any tabs, sends, recipients and any number of   *)
(* sessions, messages and messages per session.                             *)
(***************************************************************************)
EXTENDS Sessions, SequenceTheorems, TLAPS

\* Every flow keeps its state or has one that is right.
FlowsMove == \A f \in Flows :
  \/ mFlow'[f] = mFlow[f]
  \/ mFlow'[f].s <= mNew /\ FlowIsReal(f, mFlow'[f]) /\ KeyIsTaken(mFlow'[f])

LEMMA NextFlow ==
  ASSUME SessionsTypeOK, NEW f \in Flows, NEW r \in FlowStates, Step(f, r)
  PROVE  /\ mFlow' \in [Flows -> FlowStates] /\ mFlow'[f] = r
         /\ \A g \in Flows : g # f => mFlow'[g] = mFlow[g]
BY DEF SessionsTypeOK, Step

LEMMA NoFlowIsRight ==
  /\ NoFlow \in FlowStates /\ NoFlow.pc = "idle" /\ NoFlow.s = 0
  /\ \A f : FlowIsReal(f, NoFlow)
  /\ KeyIsTaken(NoFlow)
BY SessionsAssumption DEF NoFlow, FlowStates, FlowIsReal, KeyIsTaken

LEMMA ZeroIsTyped == 0 \in 0 .. MaxSession /\ 0 \in 0 .. MaxIndex /\ \A s \in MegolmSessions : s \in 0 .. MaxSession /\ s # 0
BY SessionsAssumption DEF MegolmSessions

LEMMA RatchetType ==
  ASSUME NEW r \in Ratchets
  PROVE  /\ r.s \in 0 .. MaxSession /\ r.i \in 0 .. MaxIndex
         /\ r.s = 0 => r = NoRatchet
         /\ r # NoRatchet => r.s \in MegolmSessions /\ r.s # 0
BY SessionsAssumption DEF Ratchets, NoRatchet, MegolmSessions

LEMMA TabDownType == TabDown \in TabStates /\ TabDown.out = NoRatchet /\ TabDown.up = FALSE
BY DEF TabDown, TabStates, Ratchets, NoRatchet

\* A key that arrived stays there, and opens all the later messages.
LEMMA KeyStays ==
  ASSUME NEW A, NEW B, A \subseteq B, B \subseteq Envelopes, NEW n \in Int, NEW m \in Int, n <= m,
         NEW s, NEW to, KeyIn(A, s, to, n)
  PROVE  KeyIn(B, s, to, m)
<1>1. PICK k \in A : k.kind = "key_share" /\ k.to = to /\ k.s = s /\ k.i <= n
  BY DEF KeyIn
<1>2. k \in B /\ k.i \in Int
  BY <1>1 DEF Envelopes
<1>3. k.i <= m
  BY <1>1, <1>2
<1>. QED  BY <1>1, <1>2, <1>3 DEF KeyIn

LEMMA SessionsInvInit == SessionsInit => SessionsInv
<1>. SUFFICES ASSUME SessionsInit PROVE SessionsInv
  OBVIOUS
<1>. USE NoFlowIsRight, TabDownType DEF SessionsInit
<1>1. SessionsTypeOK
  <2>1. mInbound \in [MegolmSessions -> 0..Unknown]
    BY SessionsAssumption DEF Unknown
  <2>2. mStored \in Ratchets
    BY DEF Ratchets
  <2>. QED  BY <2>1, <2>2, SessionsAssumption DEF SessionsTypeOK
<1>2. RatchetsApart
  BY SessionsAssumption DEF RatchetsApart, NoRatchet
<1>3. FlowsAreReal /\ KeysAreTaken
  BY DEF FlowsAreReal, KeysAreTaken
<1>4. SharesArrived /\ IndexNeverReused /\ MessageComesWithKey
  BY DEF SharesArrived, IndexNeverReused, MessageComesWithKey
<1>. QED  BY <1>1, <1>2, <1>3, <1>4 DEF SessionsInv

-----------------------------------------------------------------------------
(* Steps that encrypt and post nothing: ratchets stay or are dropped, and so   *)
(* are shares.                                                             *)
LEMMA QuietStep ==
  ASSUME SessionsInv,
         mFlow' \in [Flows -> FlowStates], FlowsMove,
         mTab' \in [Tabs -> TabStates],
         \A t \in Tabs : mTab'[t].out \in {mTab[t].out, NoRatchet},
         mFreed \subseteq mFreed', mFreed' \subseteq MegolmSessions,
         mShares' \subseteq mShares, mStored' \in Ratchets,
         mInbound' \in [MegolmSessions -> 0..Unknown],
         UNCHANGED <<mNew, mInbox, mUsed>>
  PROVE  SessionsInv'
<1>. USE DEF SessionsInv
<1>1. SessionsTypeOK'
  BY DEF SessionsTypeOK
<1>2. \A t \in Tabs : mTab'[t].out.s # 0 => mTab'[t].out = mTab[t].out
  BY DEF NoRatchet
<1>3. \A t \in Tabs, s \in MegolmSessions : Holds(t, s)' =>
        Holds(t, s) /\ mTab'[t].out = mTab[t].out
  <2>1. 0 \notin MegolmSessions
    BY DEF MegolmSessions
  <2>. QED  BY <1>2, <2>1 DEF Holds
<1>4. RatchetsApart'
  <2>1. \A t \in Tabs : mTab'[t].out.s <= mNew
    BY SessionsAssumption DEF RatchetsApart, SessionsTypeOK, NoRatchet
  <2>2. \A f \in Flows : mFlow'[f].s <= mNew
    BY DEF RatchetsApart, FlowsMove
  <2>3. \A t, u \in Tabs : t # u /\ mTab'[t].out.s = mTab'[u].out.s => mTab'[t].out.s = 0
    BY <1>2 DEF RatchetsApart
  <2>. QED  BY <2>1, <2>2, <2>3 DEF RatchetsApart
<1>5. FlowsAreReal'
  BY DEF FlowsAreReal, FlowsMove, FlowIsReal
<1>6. KeysAreTaken'
  <2>. SUFFICES ASSUME NEW f \in Flows PROVE KeyIsTaken(mFlow[f])'
    BY DEF KeysAreTaken
  <2>1. KeyIsTaken(mFlow'[f])
    BY DEF KeysAreTaken, FlowsMove
  <2>2. FlowIsReal(f, mFlow'[f])
    BY DEF FlowsAreReal, FlowsMove
  <2>3. ASSUME mFlow'[f].pc \in {"encrypt", "post", "record"}, NEW t \in Tabs, Holds(t, mFlow[f].s)'
        PROVE  mFlow'[f].from <= mTab'[t].out.i
    <3>1. mFlow'[f].s \in MegolmSessions
      BY <2>2, <2>3, SessionsAssumption DEF FlowIsReal, FlowStates, MegolmSessions
    <3>2. Holds(t, mFlow'[f].s) /\ mTab'[t].out = mTab[t].out
      BY <1>3, <2>3, <3>1 DEF Holds
    <3>. QED  BY <2>1, <2>3, <3>2 DEF KeyIsTaken
  <2>. QED  BY <2>1, <2>3 DEF KeyIsTaken
<1>7. SharesArrived'
  <2>. SUFFICES ASSUME NEW p \in mShares', NEW t \in Tabs, Holds(t, p[1])', NEW to \in {p[2], Self}
                PROVE  KeyIn(mInbox', p[1], to, mTab'[t].out.i)
    BY DEF SharesArrived
  <2>1. p \in mShares /\ p[1] \in MegolmSessions
    BY DEF SessionsTypeOK
  <2>2. Holds(t, p[1]) /\ mTab'[t].out = mTab[t].out
    BY <1>3, <2>1
  <2>. QED  BY <2>1, <2>2 DEF SharesArrived
<1>8. IndexNeverReused'
  <2>1. \A u \in mUsed : u[1] # 0
    BY DEF SessionsTypeOK, MegolmSessions
  <2>. QED  BY <1>2, <2>1 DEF IndexNeverReused
<1>9. MessageComesWithKey'
  BY DEF MessageComesWithKey
<1>. QED  BY <1>1, <1>4, <1>5, <1>6, <1>7, <1>8, <1>9

\* One flow goes to a state that is right, and no ratchet moves.
LEMMA QuietFlow ==
  ASSUME SessionsInv, NEW f \in Flows, NEW r \in FlowStates, Step(f, r),
         r.s <= mNew, FlowIsReal(f, r), KeyIsTaken(r),
         mTab' \in [Tabs -> TabStates],
         \A t \in Tabs : mTab'[t].out \in {mTab[t].out, NoRatchet},
         mFreed \subseteq mFreed', mFreed' \subseteq MegolmSessions,
         mShares' \subseteq mShares, mStored' \in Ratchets,
         mInbound' \in [MegolmSessions -> 0..Unknown],
         UNCHANGED <<mNew, mInbox, mUsed>>
  PROVE  SessionsInv'
<1>1. /\ mFlow' \in [Flows -> FlowStates] /\ mFlow'[f] = r
      /\ \A g \in Flows : g # f => mFlow'[g] = mFlow[g]
  BY NextFlow DEF SessionsInv
<1>2. FlowsMove
  BY <1>1 DEF FlowsMove
<1>. QED  BY <1>1, <1>2, QuietStep

\* The parts of the state that a step leaves alone are right.
LEMMA Unmoved ==
  ASSUME SessionsInv
  PROVE  /\ mTab \in [Tabs -> TabStates] /\ mFreed \subseteq MegolmSessions
         /\ mStored \in Ratchets /\ mInbound \in [MegolmSessions -> 0..Unknown]
         /\ mNew \in 0 .. MaxSession /\ mFlow \in [Flows -> FlowStates]
         /\ \A t \in Tabs : mTab[t] \in TabStates /\ mTab[t].out \in Ratchets
         /\ \A f \in Flows : mFlow[f] \in FlowStates /\ mFlow[f].s <= mNew
                             /\ FlowIsReal(f, mFlow[f]) /\ KeyIsTaken(mFlow[f])
BY DEF SessionsInv, SessionsTypeOK, RatchetsApart, FlowsAreReal, KeysAreTaken, TabStates

LEMMA AddedType ==
  ASSUME NEW inbound \in [MegolmSessions -> 0..Unknown], NEW r \in Ratchets, r # NoRatchet
  PROVE  Added(inbound, r) \in [MegolmSessions -> 0..Unknown]
<1>1. r.s \in MegolmSessions /\ r.i \in 0..Unknown
  BY RatchetType, SessionsAssumption DEF Unknown
<1>. QED  BY <1>1 DEF Added

LEMMA SendFailsKeeps == ASSUME SessionsInv, NEW f \in Flows, SendFails(f) PROVE SessionsInv'
BY NoFlowIsRight, Unmoved, QuietFlow DEF SendFails, mDisk

LEMMA StartManagerKeeps == ASSUME SessionsInv, NEW t \in Tabs, StartManager(t) PROVE SessionsInv'
<1>. DEFINE r == [NoFlow EXCEPT !.pc = "load", !.tab = t]
<1>1. Step(t, r) /\ t \in Flows /\ UNCHANGED <<mNew, mTab, mFreed, mDisk, mInbox, mUsed>>
  BY DEF StartManager, Flows
<1>2. r \in FlowStates /\ r.s = 0 /\ r.pc = "load" /\ r.tab = t
  BY ZeroIsTyped DEF NoFlow, FlowStates
<1>. HIDE DEF r
<1>3. FlowIsReal(t, r) /\ KeyIsTaken(r) /\ r.s <= mNew
  BY <1>2, Unmoved, SessionsAssumption DEF FlowIsReal, KeyIsTaken
<1>. QED  BY <1>1, <1>2, <1>3, Unmoved, QuietFlow DEF mDisk

LEMMA GetOutboundKeeps == ASSUME SessionsInv, NEW f \in Flows, GetOutbound(f) PROVE SessionsInv'
<1>1. PICK t \in Tabs, to \in Peers :
        /\ f \in SendFlows /\ f \notin Tabs
        /\ \/ /\ Step(f, [NoFlow EXCEPT !.pc = "load", !.tab = t, !.to = to])
              /\ UNCHANGED mTab
           \/ /\ mTab[t].out # NoRatchet
              /\ Step(f, [NoFlow EXCEPT !.pc = "taken", !.tab = t, !.to = to,
                                        !.s = mTab[t].out.s, !.isNew = mTab[t].isNew])
              /\ SetTab(t, [mTab[t] EXCEPT !.isNew = FALSE])
  BY SessionsAssumption DEF GetOutbound
<1>2. UNCHANGED <<mNew, mFreed, mDisk, mInbox, mUsed>>
  BY DEF GetOutbound
<1>3. CASE UNCHANGED mTab /\ Step(f, [NoFlow EXCEPT !.pc = "load", !.tab = t, !.to = to])
  <2>. DEFINE r == [NoFlow EXCEPT !.pc = "load", !.tab = t, !.to = to]
  <2>1. r \in FlowStates /\ r.s = 0 /\ r.pc = "load" /\ r.tab = t /\ r.to = to
    BY ZeroIsTyped DEF NoFlow, FlowStates
  <2>2. Step(f, r)
    BY <1>3
  <2>. HIDE DEF r
  <2>3. FlowIsReal(f, r) /\ KeyIsTaken(r) /\ r.s <= mNew
    BY <1>1, <2>1, Unmoved, SessionsAssumption DEF FlowIsReal, KeyIsTaken
  <2>. QED  BY <1>2, <1>3, <2>1, <2>2, <2>3, Unmoved, QuietFlow DEF mDisk
<1>4. CASE /\ mTab[t].out # NoRatchet
           /\ Step(f, [NoFlow EXCEPT !.pc = "taken", !.tab = t, !.to = to,
                                     !.s = mTab[t].out.s, !.isNew = mTab[t].isNew])
           /\ SetTab(t, [mTab[t] EXCEPT !.isNew = FALSE])
  <2>. DEFINE r == [NoFlow EXCEPT !.pc = "taken", !.tab = t, !.to = to,
                                  !.s = mTab[t].out.s, !.isNew = mTab[t].isNew]
  <2>1. mTab[t].out.s \in MegolmSessions /\ mTab[t].isNew \in BOOLEAN /\ mTab[t].out.s <= mNew
    BY <1>4, Unmoved, RatchetType DEF SessionsInv, RatchetsApart, TabStates
  <2>2. r \in FlowStates /\ r.s = mTab[t].out.s /\ r.pc = "taken" /\ r.tab = t /\ r.to = to
    BY <2>1, ZeroIsTyped DEF NoFlow, FlowStates
  <2>3. Step(f, r)
    BY <1>4
  <2>. HIDE DEF r
  <2>4. FlowIsReal(f, r) /\ KeyIsTaken(r) /\ r.s <= mNew
    BY <1>1, <2>1, <2>2 DEF FlowIsReal, KeyIsTaken, MegolmSessions
  <2>5. /\ mTab' \in [Tabs -> TabStates]
        /\ \A u \in Tabs : mTab'[u].out = mTab[u].out
    BY <1>4, Unmoved DEF SetTab, TabStates
  <2>. QED  BY <1>2, <2>2, <2>3, <2>4, <2>5, Unmoved, QuietFlow DEF mDisk
<1>. QED  BY <1>1, <1>3, <1>4

\* What a tab finds stored it retires, with the shares of that session.
LEMMA RetireKeeps == ASSUME SessionsInv, NEW f \in Flows, RetireStored(f) PROVE SessionsInv'
<1>1. /\ mStored' \in Ratchets /\ mInbound' \in [MegolmSessions -> 0..Unknown]
      /\ mShares' \subseteq mShares
  <2>1. CASE mStored = NoRatchet
    BY <2>1, Unmoved DEF RetireStored, mDisk
  <2>2. CASE mStored # NoRatchet
    BY <2>2, Unmoved, AddedType DEF RetireStored, Unshared, Ratchets
  <2>. QED  BY <2>1, <2>2
<1>2. /\ mFlow[f].pc = "load" /\ UNCHANGED <<mNew, mFreed, mInbox, mUsed>>
  BY DEF RetireStored, FlowAt
<1>3. CASE f \in Tabs /\ mStored = NoRatchet
  <2>1. mTab' = [mTab EXCEPT ![f] = [TabDown EXCEPT !.up = TRUE]] /\ Step(f, NoFlow)
    BY <1>3 DEF RetireStored, SetTab
  <2>2. [TabDown EXCEPT !.up = TRUE] \in TabStates /\ [TabDown EXCEPT !.up = TRUE].out = NoRatchet
    BY DEF TabDown, TabStates, Ratchets, NoRatchet
  <2>3. /\ mTab' \in [Tabs -> TabStates]
        /\ \A t \in Tabs : mTab'[t].out \in {mTab[t].out, NoRatchet}
    BY <2>1, <2>2, Unmoved
  <2>4. NoFlow.s <= mNew
    BY NoFlowIsRight, Unmoved, SessionsAssumption
  <2>. QED  BY <1>1, <1>2, <2>1, <2>3, <2>4, NoFlowIsRight, Unmoved, QuietFlow
<1>4. CASE ~(f \in Tabs /\ mStored = NoRatchet)
  <2>. DEFINE r == [mFlow[f] EXCEPT !.pc = "create"]
  <2>1. Step(f, r) /\ UNCHANGED mTab
    BY <1>4 DEF RetireStored, GoTo
  <2>2. /\ r \in FlowStates /\ r.pc = "create" /\ r.s = mFlow[f].s /\ r.tab = mFlow[f].tab
        /\ r.to = mFlow[f].to
    BY Unmoved DEF FlowStates
  <2>. HIDE DEF r
  <2>3. FlowIsReal(f, r) /\ KeyIsTaken(r) /\ r.s <= mNew
    BY <1>2, <2>2, Unmoved DEF FlowIsReal, KeyIsTaken
  <2>. QED  BY <1>1, <1>2, <2>1, <2>2, <2>3, Unmoved, QuietFlow
<1>. QED  BY <1>3, <1>4

LEMMA RegisterKeeps == ASSUME SessionsInv, NEW f \in Flows, RegisterOwn(f) PROVE SessionsInv'
<1>1. /\ mFlow[f].pc = "register" /\ Out(f) # NoRatchet
      /\ UNCHANGED <<mNew, mFreed, mStored, mShares, mInbox, mUsed>>
  BY DEF RegisterOwn, FlowAt
<1>2. /\ mFlow[f].tab \in Tabs /\ Out(f) \in Ratchets /\ Out(f).s \in MegolmSessions /\ Out(f).s <= mNew
      /\ f \in Tabs => mFlow[f].tab = f
      /\ f \in SendFlows => mFlow[f].to \in Peers
  <2>1. FlowIsReal(f, mFlow[f])
    BY Unmoved
  <2>. QED  BY <1>1, <2>1, Unmoved, RatchetType DEF FlowIsReal, Out, SessionsInv, RatchetsApart
<1>3. mInbound' \in [MegolmSessions -> 0..Unknown]
  BY <1>1, <1>2, Unmoved, AddedType DEF RegisterOwn
<1>4. CASE f \in Tabs
  <2>1. mTab' = [mTab EXCEPT ![f] = [mTab[f] EXCEPT !.up = TRUE, !.isNew = TRUE]] /\ Step(f, NoFlow)
    BY <1>4 DEF RegisterOwn, SetTab
  <2>2. /\ mTab' \in [Tabs -> TabStates]
        /\ \A t \in Tabs : mTab'[t].out = mTab[t].out
    BY <2>1, Unmoved DEF TabStates
  <2>3. NoFlow.s <= mNew
    BY NoFlowIsRight, Unmoved, SessionsAssumption
  <2>. QED  BY <1>1, <1>3, <2>1, <2>2, <2>3, NoFlowIsRight, Unmoved, QuietFlow
<1>5. CASE f \notin Tabs
  <2>. DEFINE r == [mFlow[f] EXCEPT !.pc = IF mFlow[f].s = 0 THEN "taken" ELSE "share",
                                    !.s = Out(f).s, !.isNew = TRUE]
  <2>1. Step(f, r) /\ UNCHANGED mTab
    BY <1>5 DEF RegisterOwn
  <2>2. /\ r \in FlowStates /\ r.pc \in {"taken", "share"} /\ r.s = Out(f).s /\ r.s # 0
        /\ r.tab = mFlow[f].tab /\ r.to = mFlow[f].to
    <3>1. Out(f).s \in 0 .. MaxSession /\ Out(f).s # 0
      BY <1>2, ZeroIsTyped
    <3>2. mFlow[f] \in FlowStates
      BY Unmoved
    <3>3. CASE mFlow[f].s = 0
      BY <3>1, <3>2, <3>3 DEF FlowStates
    <3>4. CASE mFlow[f].s # 0
      BY <3>1, <3>2, <3>4 DEF FlowStates
    <3>. QED  BY <3>3, <3>4
  <2>. HIDE DEF r
  <2>3. FlowIsReal(f, r) /\ KeyIsTaken(r) /\ r.s <= mNew
    BY <1>2, <1>5, <2>2 DEF FlowIsReal, KeyIsTaken
  <2>. QED  BY <1>1, <1>3, <2>1, <2>2, <2>3, Unmoved, QuietFlow
<1>. QED  BY <1>4, <1>5

LEMMA DestroyKeeps == ASSUME SessionsInv, NEW t \in Tabs, DestroyManager(t) PROVE SessionsInv'
<1>1. /\ mTab' = [mTab EXCEPT ![t] = TabDown]
      /\ mFreed' = mFreed \cup ({mTab[t].out.s} \ {0})
      /\ mFlow' = [f \in Flows |->
           IF mFlow[f].tab = t /\ mFlow[f].pc \notin {"post", "record"} THEN NoFlow ELSE mFlow[f]]
      /\ UNCHANGED <<mNew, mDisk, mInbox, mUsed>>
  BY DEF DestroyManager, SetTab
<1>2. mFreed \subseteq mFreed' /\ mFreed' \subseteq MegolmSessions
  BY <1>1, Unmoved, RatchetType DEF MegolmSessions
<1>3. /\ mTab' \in [Tabs -> TabStates]
      /\ \A u \in Tabs : mTab'[u].out \in {mTab[u].out, NoRatchet}
  BY <1>1, Unmoved, TabDownType
<1>4. NoFlow.s <= mNew
  BY NoFlowIsRight, Unmoved, SessionsAssumption
<1>5. mFlow' \in [Flows -> FlowStates] /\ FlowsMove
  BY <1>1, <1>4, NoFlowIsRight, Unmoved DEF FlowsMove
<1>. QED  BY <1>1, <1>2, <1>3, <1>5, Unmoved, QuietStep DEF mDisk

\* rotate: the old ratchet is freed before the new one exists.
LEMMA CheckKeeps == ASSUME SessionsInv, NEW f \in Flows, CheckRotation(f) PROVE SessionsInv'
<1>1. /\ mFlow[f].pc = "taken" /\ Live(f)
      /\ UNCHANGED <<mNew, mTab, mStored, mInbound, mInbox, mUsed>>
  BY DEF CheckRotation, FlowAt
<1>2. PICK pc \in {"create", "share"} : Step(f, [mFlow[f] EXCEPT !.pc = pc])
  BY DEF CheckRotation, GoTo
<1>. DEFINE r == [mFlow[f] EXCEPT !.pc = pc]
<1>3. /\ r \in FlowStates /\ r.pc = pc /\ r.s = mFlow[f].s /\ r.tab = mFlow[f].tab
      /\ r.to = mFlow[f].to
  BY Unmoved DEF FlowStates
<1>4. Step(f, r)
  BY <1>2
<1>. HIDE DEF r
<1>5. mFlow[f].s # 0 /\ f \notin Tabs
  BY <1>1, Unmoved DEF FlowIsReal
<1>6. FlowIsReal(f, r) /\ KeyIsTaken(r) /\ r.s <= mNew
  BY <1>1, <1>2, <1>3, <1>5, Unmoved DEF FlowIsReal, KeyIsTaken
<1>7. mFreed \subseteq mFreed' /\ mFreed' \subseteq MegolmSessions /\ mShares' \subseteq mShares
  <2>1. Out(f).s \in MegolmSessions
    <3>1. mFlow[f].s \in 0 .. MaxSession
      BY Unmoved DEF FlowStates
    <3>. QED  BY <1>1, <1>5, <3>1, SessionsAssumption DEF Live, MegolmSessions
  <2>. QED  BY <2>1, Unmoved DEF CheckRotation, Unshared
<1>. QED  BY <1>1, <1>3, <1>4, <1>6, <1>7, Unmoved, QuietFlow

\* A key that need not be shared arrived before, at an index this one covers.
LEMMA TakeKeyKeeps == ASSUME SessionsInv, NEW f \in Flows, TakeKey(f) PROVE SessionsInv'
<1>. DEFINE share == NeedsShare(f)
            r == [mFlow[f] EXCEPT !.pc = "encrypt", !.share = share, !.from = Out(f).i]
<1>1. /\ mFlow[f].pc = "share" /\ Live(f) /\ Step(f, r)
      /\ UNCHANGED <<mNew, mTab, mFreed, mDisk, mInbox, mUsed>>
  BY DEF TakeKey, FlowAt
<1>2. /\ mFlow[f].tab \in Tabs /\ mFlow[f].s # 0 /\ f \notin Tabs /\ mFlow[f] \in FlowStates
      /\ f \in SendFlows => mFlow[f].to \in Peers
  BY <1>1, Unmoved DEF FlowIsReal
<1>3. Out(f) \in Ratchets /\ Out(f).s = mFlow[f].s /\ Out(f).i \in 0 .. MaxIndex
      /\ Holds(mFlow[f].tab, mFlow[f].s)
  BY <1>1, <1>2, Unmoved, RatchetType DEF Out, Live, Holds
<1>4. share \in BOOLEAN /\ (~share => <<mFlow[f].s, mFlow[f].to>> \in mShares)
  BY DEF NeedsShare
<1>. HIDE DEF share
<1>5. /\ r \in FlowStates /\ r.pc = "encrypt" /\ r.s = mFlow[f].s /\ r.tab = mFlow[f].tab
      /\ r.to = mFlow[f].to /\ r.share = share /\ r.from = Out(f).i
  BY <1>2, <1>3, <1>4 DEF FlowStates
<1>. HIDE DEF r
<1>6. FlowIsReal(f, r) /\ r.s <= mNew
  BY <1>2, <1>5, Unmoved DEF FlowIsReal
<1>7. KeyIsTaken(r)
  <2>1. ASSUME NEW t \in Tabs, Holds(t, r.s) PROVE r.from <= mTab[t].out.i
    <3>1. t = mFlow[f].tab
      BY <1>2, <1>3, <1>5, <2>1 DEF SessionsInv, RatchetsApart, Holds
    <3>2. r.from = mTab[t].out.i /\ r.from \in 0 .. MaxIndex
      BY <1>3, <1>5, <3>1 DEF Out
    <3>. QED  BY <3>2
  <2>2. ASSUME ~r.share, NEW to \in {r.to, Self} PROVE KeyIn(mInbox, r.s, to, r.from)
    <3>. DEFINE p == <<mFlow[f].s, mFlow[f].to>>
    <3>1. p \in mShares /\ p[1] = mFlow[f].s /\ p[2] = mFlow[f].to
      BY <1>4, <1>5, <2>2
    <3>2. mTab[mFlow[f].tab].out.i = r.from
      BY <1>5 DEF Out
    <3>. HIDE DEF p
    <3>3. \A x \in {p[2], Self} : KeyIn(mInbox, p[1], x, mTab[mFlow[f].tab].out.i)
      BY <1>2, <1>3, <3>1 DEF SessionsInv, SharesArrived
    <3>. QED  BY <1>5, <2>2, <3>1, <3>2, <3>3
  <2>. QED  BY <1>5, <2>1, <2>2 DEF KeyIsTaken
<1>. QED  BY <1>1, <1>5, <1>6, <1>7, Unmoved, QuietFlow DEF mDisk

-----------------------------------------------------------------------------
(* A new ratchet: its session is nobody's yet.                             *)
LEMMA CreateKeeps == ASSUME SessionsInv, NEW f \in Flows, CreateOutbound(f) PROVE SessionsInv'
<1>. DEFINE fresh == [s |-> mNew + 1, i |-> 0]
            r == [mFlow[f] EXCEPT !.pc = "register"]
            tab == mFlow[f].tab
<1>1. /\ mFlow[f].pc = "create" /\ mNew < MaxSession /\ mNew' = mNew + 1
      /\ mTab' = [mTab EXCEPT ![tab].out = fresh]
      /\ mStored' = fresh /\ Step(f, r)
      /\ UNCHANGED <<mFreed, mInbound, mShares, mInbox, mUsed>>
  BY DEF CreateOutbound, FlowAt, GoTo
<1>2. mNew \in Nat /\ mNew + 1 \in MegolmSessions /\ mNew' \in 0 .. MaxSession
  BY <1>1, Unmoved, SessionsAssumption DEF MegolmSessions
<1>3. fresh \in Ratchets /\ fresh.s = mNew + 1 /\ fresh.i = 0
  BY <1>2, ZeroIsTyped DEF Ratchets
<1>. HIDE DEF fresh
<1>4. /\ r \in FlowStates /\ r.pc = "register" /\ r.s = mFlow[f].s /\ r.tab = mFlow[f].tab
      /\ r.to = mFlow[f].to /\ mFlow[f].s \in 0 .. MaxSession
  BY Unmoved DEF FlowStates
<1>. HIDE DEF r
<1>5. tab \in Tabs
  BY <1>1, Unmoved DEF FlowIsReal
<1>6. /\ mTab' \in [Tabs -> TabStates] /\ mTab'[tab].out = fresh
      /\ \A t \in Tabs : t # tab => mTab'[t] = mTab[t]
  BY <1>1, <1>3, <1>5, Unmoved DEF TabStates
<1>7. /\ mFlow' \in [Flows -> FlowStates] /\ mFlow'[f] = r
      /\ \A g \in Flows : g # f => mFlow'[g] = mFlow[g]
  BY <1>1, <1>4, NextFlow DEF SessionsInv
<1>8. SessionsTypeOK'
  BY <1>1, <1>2, <1>3, <1>6, <1>7 DEF SessionsInv, SessionsTypeOK
<1>9. \A t \in Tabs : mTab[t].out.s \in 0 .. MaxSession /\ mTab[t].out.s <= mNew
  BY Unmoved, RatchetType DEF SessionsInv, RatchetsApart
\* Nothing was ever said about the new session.
<1>10. \A t \in Tabs, s \in 0 .. MaxSession : s <= mNew /\ Holds(t, s)' =>
         t # tab /\ Holds(t, s) /\ mTab'[t] = mTab[t]
  BY <1>1, <1>2, <1>3, <1>6 DEF Holds
<1>11. RatchetsApart'
  <2>1. \A t \in Tabs : mTab'[t].out.s <= mNew'
    BY <1>1, <1>2, <1>3, <1>6, <1>9
  <2>2. \A t, u \in Tabs : t # u /\ mTab'[t].out.s = mTab'[u].out.s => mTab'[t].out.s = 0
    <3>. SUFFICES ASSUME NEW t \in Tabs, NEW u \in Tabs, t # u, mTab'[t].out.s = mTab'[u].out.s
                  PROVE  mTab'[t].out.s = 0
      OBVIOUS
    <3>1. t # tab /\ u # tab
      BY <1>2, <1>3, <1>6, <1>9
    <3>. QED  BY <1>6, <3>1 DEF SessionsInv, RatchetsApart
  <2>3. \A u \in mUsed : u[1] <= mNew'
    BY <1>1, <1>2 DEF SessionsInv, RatchetsApart, SessionsTypeOK, MegolmSessions
  <2>4. \A p \in mShares : p[1] <= mNew'
    BY <1>1, <1>2 DEF SessionsInv, RatchetsApart, SessionsTypeOK, MegolmSessions
  <2>5. \A g \in Flows : mFlow'[g].s <= mNew'
    <3>1. \A g \in Flows : mFlow[g].s \in 0 .. MaxSession /\ mFlow[g].s <= mNew
      BY Unmoved DEF FlowStates
    <3>. QED  BY <1>1, <1>2, <1>4, <1>7, <3>1
  <2>. QED  BY <1>1, <2>1, <2>2, <2>3, <2>4, <2>5 DEF RatchetsApart
<1>12. FlowsAreReal'
  <2>1. FlowIsReal(f, r)
    BY <1>1, <1>4, Unmoved DEF FlowIsReal
  <2>. QED  BY <1>7, <2>1, Unmoved DEF FlowsAreReal, FlowIsReal
<1>13. KeysAreTaken'
  <2>. SUFFICES ASSUME NEW g \in Flows PROVE KeyIsTaken(mFlow[g])'
    BY DEF KeysAreTaken
  <2>1. CASE g = f
    BY <1>4, <1>7, <2>1 DEF KeyIsTaken
  <2>2. CASE g # f
    <3>1. mFlow'[g] = mFlow[g] /\ KeyIsTaken(mFlow[g])
          /\ mFlow[g].s \in 0 .. MaxSession /\ mFlow[g].s <= mNew
      BY <1>7, <2>2, Unmoved DEF FlowStates
    <3>. QED  BY <1>1, <1>10, <3>1 DEF KeyIsTaken, Holds
  <2>. QED  BY <2>1, <2>2
<1>14. SharesArrived'
  <2>. SUFFICES ASSUME NEW p \in mShares, NEW t \in Tabs, Holds(t, p[1])', NEW to \in {p[2], Self}
                PROVE  KeyIn(mInbox, p[1], to, mTab'[t].out.i)
    BY <1>1 DEF SharesArrived
  <2>1. p[1] \in 0 .. MaxSession /\ p[1] <= mNew
    BY ZeroIsTyped DEF SessionsInv, RatchetsApart, SessionsTypeOK
  <2>2. Holds(t, p[1]) /\ mTab'[t] = mTab[t]
    BY <1>10, <2>1
  <2>. QED  BY <2>2 DEF SessionsInv, SharesArrived
<1>15. IndexNeverReused'
  <2>. SUFFICES ASSUME NEW t \in Tabs, NEW u \in mUsed, mTab'[t].out.s = u[1], u[1] \notin mFreed
                PROVE  u[2] < mTab'[t].out.i
    BY <1>1 DEF IndexNeverReused
  <2>1. u[1] <= mNew /\ u[1] \in Nat
    BY DEF SessionsInv, RatchetsApart, SessionsTypeOK, MegolmSessions
  <2>2. t # tab
    BY <1>2, <1>3, <1>6, <2>1
  <2>. QED  BY <1>6, <2>2 DEF SessionsInv, IndexNeverReused
<1>16. MessageComesWithKey'
  BY <1>1 DEF SessionsInv, MessageComesWithKey
<1>. QED  BY <1>8, <1>11, <1>12, <1>13, <1>14, <1>15, <1>16 DEF SessionsInv

-----------------------------------------------------------------------------
(* encrypt: only the tab that holds the ratchet moves it, and forwards.     *)
LEMMA EncryptKeeps == ASSUME SessionsInv, NEW f \in Flows, Encrypt(f) PROVE SessionsInv'
<1>. DEFINE tab == mFlow[f].tab
            n == Out(f).i
            next == [Out(f) EXCEPT !.i = n + 1]
            posting == [mFlow[f] EXCEPT !.pc = "post", !.i = n]
<1>1. /\ mFlow[f].pc = "encrypt" /\ Live(f) /\ n < MaxIndex
      /\ mUsed' = mUsed \cup {<<Out(f).s, n>>}
      /\ mTab' = [mTab EXCEPT ![tab].out = next]
      /\ \/ mStored' = next /\ Step(f, posting)
         \/ UNCHANGED mStored /\ Step(f, NoFlow)
      /\ UNCHANGED <<mNew, mFreed, mInbound, mShares, mInbox>>
  BY DEF Encrypt, FlowAt
<1>2. /\ tab \in Tabs /\ mFlow[f].s # 0 /\ mFlow[f] \in FlowStates /\ f \notin Tabs
      /\ f \in SendFlows => mFlow[f].to \in Peers
  BY <1>1, Unmoved DEF FlowIsReal
<1>3. /\ mTab[tab].out = Out(f) /\ Out(f) \in Ratchets /\ n \in 0 .. MaxIndex
      /\ Out(f).s = mFlow[f].s /\ mFlow[f].s \in MegolmSessions /\ mFlow[f].s \notin mFreed
  BY <1>1, <1>2, Unmoved, RatchetType, ZeroIsTyped DEF Out, Live, NoRatchet
<1>4. n + 1 \in 0 .. MaxIndex
  BY <1>1, <1>3, SessionsAssumption
<1>5. next \in Ratchets /\ next.s = mFlow[f].s /\ next.i = n + 1
  BY <1>2, <1>3, <1>4 DEF Ratchets, NoRatchet
<1>6. /\ posting \in FlowStates /\ posting.pc = "post" /\ posting.s = mFlow[f].s
      /\ posting.tab = tab /\ posting.to = mFlow[f].to /\ posting.i = n
      /\ posting.from = mFlow[f].from /\ posting.share = mFlow[f].share
      /\ posting.from \in 0 .. MaxIndex
  BY <1>2, <1>3 DEF FlowStates
<1>. HIDE DEF next, posting, n, tab
<1>7. /\ mTab' \in [Tabs -> TabStates] /\ mTab'[tab].out = next
      /\ \A t \in Tabs : t # tab => mTab'[t] = mTab[t]
  BY <1>1, <1>2, <1>5, Unmoved DEF TabStates
<1>8. /\ mFlow' \in [Flows -> FlowStates] /\ mFlow'[f] \in {posting, NoFlow}
      /\ \A g \in Flows : g # f => mFlow'[g] = mFlow[g]
  BY <1>1, <1>6, NextFlow, NoFlowIsRight DEF SessionsInv
<1>9. \A t \in Tabs : /\ mTab'[t].out.s = mTab[t].out.s
                      /\ mTab[t].out.i \in 0 .. MaxIndex /\ mTab'[t].out.i \in 0 .. MaxIndex
                      /\ mTab[t].out.i <= mTab'[t].out.i
  <2>. SUFFICES ASSUME NEW t \in Tabs
                PROVE  /\ mTab'[t].out.s = mTab[t].out.s
                       /\ mTab[t].out.i \in 0 .. MaxIndex /\ mTab'[t].out.i \in 0 .. MaxIndex
                       /\ mTab[t].out.i <= mTab'[t].out.i
    OBVIOUS
  <2>1. CASE t = tab
    <3>1. mTab[t].out.s = mFlow[f].s /\ mTab[t].out.i = n
      BY <1>3, <2>1 DEF n
    <3>2. mTab'[t].out.s = mFlow[f].s /\ mTab'[t].out.i = n + 1
      BY <1>5, <1>7, <2>1
    <3>. QED  BY <1>3, <1>4, <3>1, <3>2
  <2>2. CASE t # tab
    <3>1. mTab[t].out.i \in 0 .. MaxIndex
      BY Unmoved, RatchetType
    <3>. QED  BY <1>7, <2>2, <3>1
  <2>. QED  BY <2>1, <2>2
<1>10. SessionsTypeOK'
  <2>1. mUsed' \subseteq MegolmSessions \X (0..MaxIndex)
    BY <1>1, <1>3 DEF SessionsInv, SessionsTypeOK
  <2>2. mStored' \in Ratchets
    BY <1>1, <1>5, Unmoved
  <2>. QED  BY <1>1, <1>7, <1>8, <2>1, <2>2 DEF SessionsInv, SessionsTypeOK
<1>11. RatchetsApart'
  <2>1. mFlow[f].s <= mNew /\ NoFlow.s <= mNew
    BY Unmoved, NoFlowIsRight, SessionsAssumption
  <2>2. \A g \in Flows : mFlow'[g].s <= mNew
    BY <1>6, <1>8, <2>1, Unmoved
  <2>3. \A u \in mUsed' : u[1] <= mNew
    BY <1>1, <1>3, <2>1 DEF SessionsInv, RatchetsApart
  <2>. QED  BY <1>1, <1>9, <2>2, <2>3 DEF SessionsInv, RatchetsApart
<1>12. FlowsAreReal'
  <2>1. FlowIsReal(f, posting) /\ FlowIsReal(f, NoFlow)
    BY <1>2, <1>6, NoFlowIsRight DEF FlowIsReal
  <2>2. \A g \in Flows : FlowIsReal(g, mFlow'[g])
    BY <1>8, <2>1, Unmoved
  <2>. QED  BY <2>2 DEF FlowsAreReal, FlowIsReal
<1>13. KeysAreTaken'
  <2>. SUFFICES ASSUME NEW g \in Flows PROVE KeyIsTaken(mFlow[g])'
    BY DEF KeysAreTaken
  <2>1. \A t \in Tabs : \A s : Holds(t, s)' <=> Holds(t, s)
    BY <1>1, <1>9 DEF Holds
  <2>2. CASE mFlow'[g] = mFlow[g]
    <3>1. KeyIsTaken(mFlow[g]) /\ mFlow[g].from \in 0 .. MaxIndex
      BY Unmoved DEF FlowStates
    <3>2. ASSUME mFlow[g].pc \in {"encrypt", "post", "record"}, NEW t \in Tabs, Holds(t, mFlow[g].s)
          PROVE  mFlow[g].from <= mTab'[t].out.i
      <4>1. mFlow[g].from <= mTab[t].out.i
        BY <3>1, <3>2 DEF KeyIsTaken
      <4>. QED  BY <1>9, <3>1, <4>1
    <3>. QED  BY <1>1, <2>1, <2>2, <3>1, <3>2 DEF KeyIsTaken, Holds
  <2>3. CASE mFlow'[g] = NoFlow
    BY <2>3, NoFlowIsRight DEF KeyIsTaken
  <2>4. CASE g = f /\ mFlow'[g] = posting
    <3>1. KeyIsTaken(mFlow[f])
      BY Unmoved
    <3>2. \A t \in Tabs : Holds(t, mFlow[f].s) => posting.from <= mTab[t].out.i
      BY <1>1, <1>6, <3>1 DEF KeyIsTaken
    <3>3. \A t \in Tabs : Holds(t, mFlow[f].s) => posting.from <= mTab'[t].out.i
      BY <1>6, <1>9, <3>2
    <3>4. posting.from <= posting.i
      <4>1. Holds(tab, mFlow[f].s) /\ mTab[tab].out.i = n
        BY <1>3 DEF Holds, n
      <4>. QED  BY <1>2, <1>6, <3>2, <4>1
    <3>5. ~posting.share => \A to \in {posting.to, Self} : KeyIn(mInbox, posting.s, to, posting.from)
      BY <1>1, <1>6, <3>1 DEF KeyIsTaken
    <3>. QED  BY <1>1, <1>6, <2>1, <2>4, <3>3, <3>4, <3>5 DEF KeyIsTaken, Holds
  <2>. QED  BY <1>8, <2>2, <2>3, <2>4
<1>14. SharesArrived'
  <2>. SUFFICES ASSUME NEW p \in mShares, NEW t \in Tabs, Holds(t, p[1])', NEW to \in {p[2], Self}
                PROVE  KeyIn(mInbox, p[1], to, mTab'[t].out.i)
    BY <1>1 DEF SharesArrived
  <2>1. KeyIn(mInbox, p[1], to, mTab[t].out.i)
    BY <1>1, <1>9 DEF SessionsInv, SharesArrived, Holds
  <2>2. mInbox \subseteq Envelopes
    BY DEF SessionsInv, SessionsTypeOK
  <2>. QED  BY <1>9, <2>1, <2>2, KeyStays
<1>15. IndexNeverReused'
  <2>. SUFFICES ASSUME NEW t \in Tabs, NEW u \in mUsed', mTab'[t].out.s = u[1], u[1] \notin mFreed
                PROVE  u[2] < mTab'[t].out.i
    BY <1>1 DEF IndexNeverReused
  <2>1. CASE u \in mUsed
    <3>1. u[2] < mTab[t].out.i /\ u[2] \in 0 .. MaxIndex
      BY <1>9, <2>1 DEF SessionsInv, IndexNeverReused, SessionsTypeOK
    <3>. QED  BY <1>9, <3>1
  <2>2. CASE u = <<Out(f).s, n>>
    <3>1. t = tab
      BY <1>2, <1>3, <1>9, <2>2 DEF SessionsInv, RatchetsApart
    <3>. QED  BY <1>3, <1>5, <1>7, <2>2, <3>1
  <2>. QED  BY <1>1, <2>1, <2>2
<1>16. MessageComesWithKey'
  BY <1>1 DEF SessionsInv, MessageComesWithKey
<1>. QED  BY <1>10, <1>11, <1>12, <1>13, <1>14, <1>15, <1>16 DEF SessionsInv

-----------------------------------------------------------------------------
(* The batch: its shares come first, one for each of its readers.           *)

LEMMA ConcatOfOnes == ASSUME NEW a, NEW b PROVE <<a>> \o <<b>> = <<a, b>>
<1>. DEFINE S == {a, b}
            c == <<a>> \o <<b>>
<1>1. <<a>> \in Seq(S) /\ <<b>> \in Seq(S) /\ <<a, b>> \in Seq(S) /\ Len(<<a, b>>) = 2
  OBVIOUS
<1>2. /\ c \in Seq(S) /\ Len(c) = 2
      /\ c[1] = a /\ c[2] = b
  BY <1>1, ConcatProperties
<1>. HIDE DEF c, S
<1>3. \A i \in 1 .. Len(c) : c[i] = <<a, b>>[i]
  BY <1>2
<1>4. c = <<a, b>>
  BY <1>1, <1>2, <1>3, SeqEqual
<1>. QED  BY <1>4 DEF c

LEMMA ConcatOfTwos == ASSUME NEW a, NEW b, NEW c, NEW d PROVE <<a, b>> \o <<c, d>> = <<a, b, c, d>>
<1>. DEFINE S == {a, b, c, d}
            e == <<a, b>> \o <<c, d>>
<1>1. /\ <<a, b>> \in Seq(S) /\ <<c, d>> \in Seq(S)
      /\ <<a, b, c, d>> \in Seq(S) /\ Len(<<a, b, c, d>>) = 4
  OBVIOUS
<1>2. /\ e \in Seq(S) /\ Len(e) = 4
      /\ e[1] = a /\ e[2] = b /\ e[3] = c /\ e[4] = d
  BY <1>1, ConcatProperties
<1>. HIDE DEF e, S
<1>3. \A i \in 1 .. Len(e) : e[i] = <<a, b, c, d>>[i]
  BY <1>2
<1>4. e = <<a, b, c, d>>
  BY <1>1, <1>2, <1>3, SeqEqual
<1>. QED  BY <1>4 DEF e

LEMMA BatchOfOne ==
  ASSUME NEW f, mFlow[f].to = Self
  PROVE  Batch(f) = LET r == mFlow[f] IN
           IF r.share THEN <<Envelope("key_share", Self, r.s, r.from), Envelope("message", Self, r.s, r.i)>>
                      ELSE <<Envelope("message", Self, r.s, r.i)>>
<1>1. \A a, b : <<a>> \o <<b>> = <<a, b>>
  BY ConcatOfOnes
<1>2. \A a : <<>> \o <<a>> = <<a>>
  OBVIOUS
<1>. QED  BY <1>1, <1>2 DEF Batch

LEMMA BatchOfTwo ==
  ASSUME NEW f, mFlow[f].to # Self
  PROVE  Batch(f) = LET r == mFlow[f] IN
           IF r.share THEN <<Envelope("key_share", r.to, r.s, r.from), Envelope("key_share", Self, r.s, r.from),
                             Envelope("message", r.to, r.s, r.i), Envelope("message", Self, r.s, r.i)>>
                      ELSE <<Envelope("message", r.to, r.s, r.i), Envelope("message", Self, r.s, r.i)>>
<1>1. \A a, b, c, d : <<a, b>> \o <<c, d>> = <<a, b, c, d>>
  BY ConcatOfTwos
<1>2. \A a, b : <<>> \o <<a, b>> = <<a, b>>
  OBVIOUS
<1>. QED  BY <1>1, <1>2 DEF Batch

LEMMA BatchInOrder ==
  ASSUME NEW f, NEW n \in 0 .. Len(Batch(f))
  PROVE  LET r == mFlow[f]
             posted == {Batch(f)[k] : k \in 1 .. n}
             readers == {r.to, Self} IN
         /\ posted \subseteq {Envelope("key_share", to, r.s, r.from) : to \in readers}
                             \cup {Envelope("message", to, r.s, r.i) : to \in readers}
         /\ \A to \in readers :
              r.share /\ (n = Len(Batch(f)) \/ Envelope("message", to, r.s, r.i) \in posted)
                => Envelope("key_share", to, r.s, r.from) \in posted
<1>1. CASE mFlow[f].to = Self
  BY <1>1, BatchOfOne DEF Envelope
<1>2. CASE mFlow[f].to # Self
  BY SMTT(30), <1>2, BatchOfTwo DEF Envelope
<1>. QED  BY <1>1, <1>2

\* send stores the batch in its order, so no message overtakes its key.
LEMMA PostKeeps == ASSUME SessionsInv, NEW f \in Flows, PostBatch(f) PROVE SessionsInv'
<1>. DEFINE r == mFlow[f]
            readers == {r.to, Self}
            recording == [r EXCEPT !.pc = "record"]
<1>1. PICK n \in 0 .. Len(Batch(f)) :
        /\ mInbox' = mInbox \cup {Batch(f)[k] : k \in 1..n}
        /\ \/ n = Len(Batch(f)) /\ r.share /\ Step(f, recording)
           \/ Step(f, NoFlow)
  BY DEF PostBatch, Resolves
<1>. DEFINE posted == {Batch(f)[k] : k \in 1..n}
<1>2. r.pc = "post" /\ UNCHANGED <<mNew, mTab, mFreed, mDisk, mUsed>>
  BY DEF PostBatch, FlowAt
<1>3. /\ r \in FlowStates /\ r.s \in MegolmSessions /\ readers \subseteq Peers \cup {Self}
      /\ f \notin Tabs /\ r.tab \in Tabs /\ r.s # 0 /\ (f \in SendFlows => r.to \in Peers)
      /\ r.from \in 0 .. MaxIndex /\ r.i \in 0 .. MaxIndex /\ r.from <= r.i
  <2>1. /\ r \in FlowStates /\ FlowIsReal(f, r) /\ KeyIsTaken(r)
    BY Unmoved
  <2>2. r.s # 0 /\ r.tab \in Tabs /\ f \notin Tabs /\ (f \in SendFlows => r.to \in Peers)
    BY <1>2, <2>1 DEF FlowIsReal
  <2>3. r.s \in MegolmSessions /\ r.from \in 0 .. MaxIndex /\ r.i \in 0 .. MaxIndex
    BY <2>1, <2>2, SessionsAssumption DEF FlowStates, MegolmSessions
  <2>4. r.to \in Peers
    BY <2>2 DEF Flows
  <2>. QED  BY <1>2, <2>1, <2>2, <2>3, <2>4 DEF KeyIsTaken
<1>4. /\ posted \subseteq {Envelope("key_share", to, r.s, r.from) : to \in readers}
                          \cup {Envelope("message", to, r.s, r.i) : to \in readers}
      /\ \A to \in readers :
           r.share /\ (n = Len(Batch(f)) \/ Envelope("message", to, r.s, r.i) \in posted)
             => Envelope("key_share", to, r.s, r.from) \in posted
  BY BatchInOrder
<1>5. mInbox' = mInbox \cup posted
  BY <1>1
<1>6. /\ recording \in FlowStates /\ recording.pc = "record" /\ recording.s = r.s
      /\ recording.to = r.to /\ recording.tab = r.tab /\ recording.from = r.from
  BY <1>3 DEF FlowStates
<1>7. Step(f, NoFlow) \/ (n = Len(Batch(f)) /\ r.share /\ Step(f, recording))
  BY <1>1
<1>. HIDE DEF r, recording, posted, readers
<1>8. /\ mFlow' \in [Flows -> FlowStates]
      /\ \/ mFlow'[f] = NoFlow
         \/ n = Len(Batch(f)) /\ r.share /\ mFlow'[f] = recording
      /\ \A g \in Flows : g # f => mFlow'[g] = mFlow[g]
  BY <1>6, <1>7, NextFlow, NoFlowIsRight DEF SessionsInv
<1>9. posted \subseteq Envelopes
  <2>1. \A to \in readers : /\ Envelope("key_share", to, r.s, r.from) \in Envelopes
                            /\ Envelope("message", to, r.s, r.i) \in Envelopes
    BY <1>3 DEF Envelope, Envelopes
  <2>. QED  BY <1>4, <2>1
<1>10. mInbox' \subseteq Envelopes /\ mInbox \subseteq mInbox'
  BY <1>5, <1>9 DEF SessionsInv, SessionsTypeOK
<1>11. SessionsTypeOK'
  BY <1>2, <1>8, <1>10 DEF SessionsInv, SessionsTypeOK, mDisk
<1>12. RatchetsApart'
  <2>1. \A g \in Flows : mFlow'[g].s <= mNew
    <3>1. r.s <= mNew /\ NoFlow.s <= mNew
      BY Unmoved, NoFlowIsRight, SessionsAssumption DEF r
    <3>. QED  BY <1>6, <1>8, <3>1, Unmoved
  <2>. QED  BY <1>2, <2>1 DEF SessionsInv, RatchetsApart, mDisk
<1>13. FlowsAreReal'
  <2>1. FlowIsReal(f, recording) /\ FlowIsReal(f, NoFlow)
    BY <1>3, <1>6, NoFlowIsRight DEF FlowIsReal
  <2>2. \A g \in Flows : FlowIsReal(g, mFlow'[g])
    BY <1>8, <2>1, Unmoved
  <2>. QED  BY <2>2 DEF FlowsAreReal, FlowIsReal
<1>14. KeysAreTaken'
  <2>. SUFFICES ASSUME NEW g \in Flows PROVE KeyIsTaken(mFlow[g])'
    BY DEF KeysAreTaken
  <2>1. \A t \in Tabs : \A s : Holds(t, s)' <=> Holds(t, s)
    BY <1>2 DEF Holds
  <2>2. CASE mFlow'[g] = mFlow[g]
    <3>1. KeyIsTaken(mFlow[g]) /\ mFlow[g].from \in 0 .. MaxIndex
      BY Unmoved DEF FlowStates
    <3>2. ASSUME NEW to, KeyIn(mInbox, mFlow[g].s, to, mFlow[g].from)
          PROVE  KeyIn(mInbox', mFlow[g].s, to, mFlow[g].from)
      BY <1>10, <3>1, <3>2 DEF KeyIn
    <3>. QED  BY <1>2, <2>1, <2>2, <3>1, <3>2 DEF KeyIsTaken, Holds
  <2>3. CASE mFlow'[g] = NoFlow
    BY <2>3, NoFlowIsRight DEF KeyIsTaken
  <2>4. CASE g = f /\ n = Len(Batch(f)) /\ r.share /\ mFlow'[g] = recording
    <3>1. \A t \in Tabs : Holds(t, r.s) => r.from <= mTab[t].out.i
      BY <1>2, Unmoved DEF KeyIsTaken, r
    <3>2. \A to \in readers : KeyIn(mInbox', r.s, to, r.from)
      <4>. SUFFICES ASSUME NEW to \in readers PROVE KeyIn(mInbox', r.s, to, r.from)
        OBVIOUS
      <4>. DEFINE k == Envelope("key_share", to, r.s, r.from)
      <4>1. k \in mInbox'
        BY <1>4, <1>5, <2>4
      <4>2. k.kind = "key_share" /\ k.to = to /\ k.s = r.s /\ k.i <= r.from
        BY <1>3 DEF Envelope
      <4>. QED  BY <4>1, <4>2 DEF KeyIn
    <3>. QED  BY <1>2, <1>6, <2>1, <2>4, <3>1, <3>2 DEF KeyIsTaken, Holds, readers
  <2>. QED  BY <1>8, <2>2, <2>3, <2>4
<1>15. SharesArrived'
  <2>. SUFFICES ASSUME NEW p \in mShares, NEW t \in Tabs, Holds(t, p[1]), NEW to \in {p[2], Self}
                PROVE  KeyIn(mInbox', p[1], to, mTab[t].out.i)
    BY <1>2 DEF SharesArrived, Holds, mDisk
  <2>1. KeyIn(mInbox, p[1], to, mTab[t].out.i)
    BY DEF SessionsInv, SharesArrived
  <2>. QED  BY <1>10, <2>1 DEF KeyIn
<1>16. IndexNeverReused'
  BY <1>2 DEF SessionsInv, IndexNeverReused
<1>17. MessageComesWithKey'
  <2>. SUFFICES ASSUME NEW m \in mInbox', m.kind = "message"
                PROVE  KeyIn(mInbox', m.s, m.to, m.i)
    BY DEF MessageComesWithKey, KeyIn
  <2>1. CASE m \in mInbox
    BY <1>10, <2>1 DEF SessionsInv, MessageComesWithKey, KeyIn
  <2>2. CASE m \in posted
    <3>1. PICK to \in readers : m = Envelope("message", to, r.s, r.i)
      BY <1>4, <2>2 DEF Envelope
    <3>2. KeyIn(mInbox', r.s, to, r.from)
      <4>1. CASE r.share
        <5>. DEFINE k == Envelope("key_share", to, r.s, r.from)
        <5>1. k \in mInbox'
          BY <1>4, <1>5, <2>2, <3>1, <4>1
        <5>2. k.kind = "key_share" /\ k.to = to /\ k.s = r.s /\ k.i <= r.from
          BY <1>3 DEF Envelope
        <5>. QED  BY <5>1, <5>2 DEF KeyIn
      <4>2. CASE ~r.share
        <5>1. KeyIn(mInbox, r.s, to, r.from)
          BY <1>2, <4>2, Unmoved DEF KeyIsTaken, r, readers
        <5>. QED  BY <1>10, <5>1 DEF KeyIn
      <4>. QED  BY <4>1, <4>2
    <3>3. KeyIn(mInbox', r.s, to, r.i)
      BY <1>3, <1>10, <3>2, KeyStays
    <3>. QED  BY <3>1, <3>3 DEF Envelope
  <2>. QED  BY <1>5, <2>1, <2>2
<1>. QED  BY <1>11, <1>12, <1>13, <1>14, <1>15, <1>16, <1>17 DEF SessionsInv

\* recordShare: only what arrived is recorded.
LEMMA RecordKeeps == ASSUME SessionsInv, NEW f \in Flows, RecordShare(f) PROVE SessionsInv'
<1>. DEFINE r == mFlow[f]
            p == <<r.s, r.to>>
<1>1. /\ r.pc = "record" /\ mShares' = mShares \cup {p} /\ Step(f, NoFlow)
      /\ UNCHANGED <<mNew, mTab, mFreed, mStored, mInbound, mInbox, mUsed>>
  BY DEF RecordShare, FlowAt
<1>2. /\ r \in FlowStates /\ r.s \in MegolmSessions /\ r.to \in Peers /\ r.s <= mNew
      /\ r.from \in 0 .. MaxIndex /\ KeyIsTaken(r)
  <2>1. r \in FlowStates /\ FlowIsReal(f, r) /\ KeyIsTaken(r) /\ r.s <= mNew
    BY Unmoved
  <2>2. r.s # 0 /\ f \notin Tabs /\ (f \in SendFlows => r.to \in Peers)
    BY <1>1, <2>1 DEF FlowIsReal
  <2>3. r.s \in MegolmSessions /\ r.from \in 0 .. MaxIndex
    BY <2>1, <2>2, SessionsAssumption DEF FlowStates, MegolmSessions
  <2>. QED  BY <2>1, <2>2, <2>3 DEF Flows
<1>3. p[1] = r.s /\ p[2] = r.to /\ p \in MegolmSessions \X (Peers \cup {Self})
  BY <1>2
<1>. HIDE DEF r, p
<1>4. /\ mFlow' \in [Flows -> FlowStates]
      /\ \A g \in Flows : mFlow'[g] = mFlow[g] \/ mFlow'[g] = NoFlow
  BY <1>1, NextFlow, NoFlowIsRight DEF SessionsInv
<1>5. SessionsTypeOK'
  BY <1>1, <1>3, <1>4 DEF SessionsInv, SessionsTypeOK
<1>6. RatchetsApart'
  <2>1. NoFlow.s <= mNew
    BY Unmoved, NoFlowIsRight, SessionsAssumption
  <2>2. \A g \in Flows : mFlow'[g].s <= mNew
    BY <1>4, <2>1, Unmoved
  <2>3. \A q \in mShares' : q[1] <= mNew
    BY <1>1, <1>2, <1>3 DEF SessionsInv, RatchetsApart
  <2>. QED  BY <1>1, <2>2, <2>3 DEF SessionsInv, RatchetsApart
<1>7. FlowsAreReal' /\ KeysAreTaken'
  <2>1. \A g \in Flows : FlowIsReal(g, mFlow'[g]) /\ KeyIsTaken(mFlow'[g])
    BY <1>4, NoFlowIsRight, Unmoved
  <2>. QED  BY <1>1, <2>1 DEF FlowsAreReal, FlowIsReal, KeysAreTaken, KeyIsTaken, Holds
<1>8. SharesArrived'
  <2>. SUFFICES ASSUME NEW q \in mShares', NEW t \in Tabs, Holds(t, q[1]), NEW to \in {q[2], Self}
                PROVE  KeyIn(mInbox, q[1], to, mTab[t].out.i)
    BY <1>1 DEF SharesArrived, Holds
  <2>1. CASE q \in mShares
    BY <2>1 DEF SessionsInv, SharesArrived
  <2>2. CASE q = p
    <3>1. r.from <= mTab[t].out.i /\ KeyIn(mInbox, r.s, to, r.from)
      BY <1>1, <1>2, <1>3, <2>2 DEF KeyIsTaken
    <3>2. mTab[t].out.i \in 0 .. MaxIndex
      BY Unmoved, RatchetType
    <3>3. mInbox \subseteq Envelopes
      BY DEF SessionsInv, SessionsTypeOK
    <3>. QED  BY <1>2, <1>3, <2>2, <3>1, <3>2, <3>3, KeyStays
  <2>. QED  BY <1>1, <2>1, <2>2
<1>9. IndexNeverReused' /\ MessageComesWithKey'
  BY <1>1 DEF SessionsInv, IndexNeverReused, MessageComesWithKey
<1>. QED  BY <1>5, <1>6, <1>7, <1>8, <1>9 DEF SessionsInv

-----------------------------------------------------------------------------
LEMMA SessionsStep == SessionsInv /\ [SessionsNext]_mVars => SessionsInv'
<1>. SUFFICES ASSUME SessionsInv, [SessionsNext]_mVars PROVE SessionsInv'
  OBVIOUS
<1>1. ASSUME NEW t \in Tabs, StartManager(t) \/ DestroyManager(t) PROVE SessionsInv'
  BY <1>1, StartManagerKeeps, DestroyKeeps
<1>2. ASSUME NEW f \in Flows, \/ GetOutbound(f) \/ RetireStored(f) \/ CreateOutbound(f) \/ RegisterOwn(f)
                              \/ CheckRotation(f) \/ TakeKey(f)
      PROVE  SessionsInv'
  BY <1>2, GetOutboundKeeps, RetireKeeps, CreateKeeps, RegisterKeeps, CheckKeeps, TakeKeyKeeps
<1>3. ASSUME NEW f \in Flows, Encrypt(f) \/ PostBatch(f) \/ RecordShare(f) \/ SendFails(f)
      PROVE  SessionsInv'
  BY <1>3, EncryptKeeps, PostKeeps, RecordKeeps, SendFailsKeeps
<1>4. CASE UNCHANGED mVars
  <2>1. UNCHANGED <<mNew, mTab, mFreed, mStored, mInbound, mShares, mFlow, mInbox, mUsed>>
    BY <1>4 DEF mVars
  <2>2. SessionsTypeOK' /\ RatchetsApart' /\ FlowsAreReal'
    BY <2>1 DEF SessionsInv, SessionsTypeOK, RatchetsApart, FlowsAreReal, FlowIsReal
  <2>3. KeysAreTaken' /\ SharesArrived'
    BY <2>1 DEF SessionsInv, KeysAreTaken, KeyIsTaken, SharesArrived, Holds
  <2>4. IndexNeverReused' /\ MessageComesWithKey'
    BY <2>1 DEF SessionsInv, IndexNeverReused, MessageComesWithKey
  <2>. QED  BY <2>2, <2>3, <2>4 DEF SessionsInv
<1>. QED  BY <1>1, <1>2, <1>3, <1>4 DEF SessionsNext

-----------------------------------------------------------------------------
(* No tab ever encrypts two messages at one index of a session, whatever the  *)
(* tabs, their crashes and the sends that overlap in them.                  *)
THEOREM RatchetsMoveOn == SessionsSpec => []IndexNeverReused
<1>1. SessionsInv => IndexNeverReused
  BY DEF SessionsInv
<1>. QED  BY SessionsInvInit, SessionsStep, <1>1, PTL DEF SessionsSpec

(* No inbox ever holds a message without a key that opens it.              *)
THEOREM KeysComeFirst == SessionsSpec => []MessageComesWithKey
<1>1. SessionsInv => MessageComesWithKey
  BY DEF SessionsInv
<1>. QED  BY SessionsInvInit, SessionsStep, <1>1, PTL DEF SessionsSpec
=============================================================================
