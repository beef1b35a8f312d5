------------------------------ MODULE Sessions ------------------------------
(***************************************************************************)
(* The sending sessions of one device: its tabs, which share IndexedDB but    *)
(* not the ratchets in their memory, and the sends that run in a tab side by  *)
(* side (createSessionManager, sendInnerPayload).                           *)
(*                                                                         *)
(* A ratchet is a session and the index of the next message; the key of a    *)
(* session taken at index i opens the messages from i on.  A flow is a send,  *)
(* or the start of a tab's manager; it may stop at any await, with an error   *)
(* or because its tab is closed.                                            *)
(***************************************************************************)
EXTENDS Naturals, Sequences, FiniteSets

CONSTANTS
  Tabs,        \* tabs of the device
  SendFlows,   \* sends that may be under way at once
  Self,        \* the user of the device, who gets a copy of everything
  Peers,       \* whom the sends are for; Self, for notes to oneself, may be one
  RotateAt,    \* messages under one session (ROTATION_THRESHOLD, 100)
  MaxSession,  \* bound: sessions created
  MaxIndex,    \* bound: messages encrypted under one session
  MaxSends,    \* bound: messages encrypted
  Loads        \* bound: pairs of the tabs and the sends a run has at once

ASSUME SessionsAssumption ==
  /\ Tabs \cap SendFlows = {}
  /\ RotateAt \in Nat \ {0} /\ MaxSession \in Nat \ {0} /\ MaxIndex \in Nat \ {0} /\ MaxSends \in Nat /\ Loads \subseteq Nat \X Nat

VARIABLES
  mNew,      \* sessions created so far, and the name of the last one
  mTab,      \* mTab[t]: is its manager up, its outbound ratchet, outboundIsNew
  mFreed,    \* the sessions whose object in memory is gone
  mStored,   \* megolm_outbound 'current': a pickled ratchet, or NoRatchet
  mInbound,  \* megolm_inbound: the first index known of each session
  mShares,   \* megolm_key_shares: pairs <<session, recipient>>
  mFlow,     \* mFlow[f]: the locals of flow f
  mInbox,    \* the envelopes the server has stored
  mLoad,     \* the pair of Loads this run has
  mUsed      \* history: the pairs <<session, index>> messages were encrypted at

mVars == <<mNew, mTab, mFreed, mStored, mInbound, mShares, mFlow, mInbox, mLoad, mUsed>>
mDisk == <<mStored, mInbound, mShares>>

MegolmSessions == 1..MaxSession
Flows     == Tabs \cup SendFlows     \* a tab names the flow that starts it
NoRatchet == [s |-> 0, i |-> 0]
Ratchets  == [s : MegolmSessions, i : 0..MaxIndex] \cup {NoRatchet}
Unknown   == MaxIndex + 1

NoFlow == [pc |-> "idle", tab |-> "none", to |-> "none", s |-> 0, isNew |-> FALSE,
           share |-> FALSE, from |-> 0, i |-> 0]
TabDown == [up |-> FALSE, out |-> NoRatchet, isNew |-> FALSE]

TabStates == [up : BOOLEAN, out : Ratchets, isNew : BOOLEAN]
FlowStates ==
  [pc : {"idle", "load", "create", "register", "taken", "share", "encrypt", "post", "record"},
   tab : Tabs \cup {"none"}, to : Peers \cup {"none"}, s : 0..MaxSession, isNew : BOOLEAN,
   share : BOOLEAN, from : 0..MaxIndex, i : 0..MaxIndex]
Envelopes == [kind : {"key_share", "message"}, to : Peers \cup {Self}, s : MegolmSessions, i : 0..MaxIndex]

SessionsTypeOK ==
  /\ mNew \in 0..MaxSession
  /\ mTab \in [Tabs -> TabStates]
  /\ mFreed \subseteq MegolmSessions
  /\ mStored \in Ratchets
  /\ mInbound \in [MegolmSessions -> 0..Unknown]
  /\ mShares \subseteq MegolmSessions \X (Peers \cup {Self})
  /\ mFlow \in [Flows -> FlowStates]
  /\ mInbox \subseteq Envelopes
  /\ mUsed \subseteq MegolmSessions \X (0..MaxIndex)

SessionsInit ==
  /\ mNew = 0
  /\ mTab = [t \in Tabs |-> TabDown]
  /\ mFreed = {}
  /\ mStored = NoRatchet
  /\ mInbound = [s \in MegolmSessions |-> Unknown]
  /\ mShares = {}
  /\ mFlow = [f \in Flows |-> NoFlow]
  /\ mInbox = {}
  /\ mLoad \in Loads
  /\ mUsed = {}

-----------------------------------------------------------------------------
(* The session manager.                                                    *)

Out(f)        == mTab[mFlow[f].tab].out      \* the manager's variable `outbound`
Step(f, r)    == mFlow' = [mFlow EXCEPT ![f] = r]
GoTo(f, pc)   == Step(f, [mFlow[f] EXCEPT !.pc = pc])
FlowAt(f, pc) == mFlow[f].pc = pc
SetTab(t, r)  == mTab' = [mTab EXCEPT ![t] = r]

\* addInbound: a session that is known keeps the index it is known from.
Added(inbound, r) == IF inbound[r.s] = Unknown THEN [inbound EXCEPT ![r.s] = r.i] ELSE inbound

\* clearKeyShares(sessionId)
Unshared(shares, s) == {p \in shares : p[1] # s}

Room(running, limit) == Cardinality(running) < limit

\* Which tab opens and which flow a send becomes does not matter.
Closed(t)   == ~mTab[t].up /\ FlowAt(t, "idle")
NextTab     == CHOOSE t \in Tabs : Closed(t)
NextSend    == CHOOSE f \in SendFlows : FlowAt(f, "idle")

StartManager(t) ==
  /\ Closed(t) /\ t = NextTab
  /\ Room({u \in Tabs : ~Closed(u)}, mLoad[1])
  /\ Step(t, [NoFlow EXCEPT !.pc = "load", !.tab = t])
  /\ UNCHANGED <<mNew, mTab, mFreed, mDisk, mInbox, mUsed>>

\* A send asks for the outbound session; without one it creates it.
GetOutbound(f) ==
  \E t \in Tabs, to \in Peers :
    /\ Room({g \in SendFlows : mFlow[g].pc # "idle"}, mLoad[2])
    /\ f \in SendFlows /\ FlowAt(f, "idle") /\ f = NextSend /\ mTab[t].up
    /\ IF mTab[t].out = NoRatchet
       THEN /\ Step(f, [NoFlow EXCEPT !.pc = "load", !.tab = t, !.to = to])
            /\ UNCHANGED mTab
       ELSE /\ Step(f, [NoFlow EXCEPT !.pc = "taken", !.tab = t, !.to = to,
                                      !.s = mTab[t].out.s, !.isNew = mTab[t].isNew])
            /\ SetTab(t, [mTab[t] EXCEPT !.isNew = FALSE])
    /\ UNCHANGED <<mNew, mFreed, mDisk, mInbox, mUsed>>

\* A slip: a tab takes up the ratchet it finds stored.
ResumeStored(f) ==
  /\ FlowAt(f, "load")
  /\ IF mStored = NoRatchet
     THEN GoTo(f, "create") /\ UNCHANGED mTab
     ELSE SetTab(mFlow[f].tab, [up |-> TRUE, out |-> mStored, isNew |-> TRUE]) /\ Step(f, NoFlow)
  /\ UNCHANGED <<mNew, mFreed, mDisk, mInbox, mUsed>>

\* The stored session is never taken up again: it is kept for reading only, and
\* its record and its shares are dropped.  A tab that starts without one waits
\* for the first send.
RetireStored(f) ==
  /\ FlowAt(f, "load")
  /\ IF mStored = NoRatchet
     THEN UNCHANGED mDisk
     ELSE /\ mInbound' = Added(mInbound, mStored)
          /\ mShares' = Unshared(mShares, mStored.s)
          /\ mStored' = NoRatchet
  /\ IF f \in Tabs /\ mStored = NoRatchet
     THEN SetTab(f, [TabDown EXCEPT !.up = TRUE]) /\ Step(f, NoFlow)
     ELSE UNCHANGED mTab /\ GoTo(f, "create")
  /\ UNCHANGED <<mNew, mFreed, mInbox, mUsed>>

\* A new ratchet becomes the tab's, and is stored.
CreateOutbound(f) ==
  LET fresh == [s |-> mNew + 1, i |-> 0] IN
  /\ FlowAt(f, "create")
  /\ mNew < MaxSession
  /\ mNew' = mNew + 1
  /\ mTab' = [mTab EXCEPT ![mFlow[f].tab].out = fresh]
  /\ mStored' = fresh
  /\ GoTo(f, "register")
  /\ UNCHANGED <<mFreed, mInbound, mShares, mInbox, mUsed>>

\* The device can read what it sends from here on, and the key is backed up;
\* the ratchet is the one `outbound` holds by now.
RegisterOwn(f) ==
  /\ FlowAt(f, "register")
  /\ Out(f) # NoRatchet
  /\ mInbound' = Added(mInbound, Out(f))
  /\ IF f \in Tabs
     THEN SetTab(f, [mTab[f] EXCEPT !.up = TRUE, !.isNew = TRUE]) /\ Step(f, NoFlow)
     ELSE UNCHANGED mTab /\ Step(f, [mFlow[f] EXCEPT !.pc = IF mFlow[f].s = 0 THEN "taken" ELSE "share",
                                                     !.s = Out(f).s, !.isNew = TRUE])
  /\ UNCHANGED <<mNew, mFreed, mStored, mShares, mInbox, mUsed>>

\* The manager is dropped with its tab, or replaced by a new one: what its sends
\* have handed to the network goes on, the others find their session freed.
DestroyManager(t) ==
  /\ mTab[t].up \/ ~FlowAt(t, "idle")
  /\ SetTab(t, TabDown)
  /\ mFreed' = mFreed \cup ({mTab[t].out.s} \ {0})
  /\ mFlow' = [f \in Flows |->
       IF mFlow[f].tab = t /\ mFlow[f].pc \notin {"post", "record"} THEN NoFlow ELSE mFlow[f]]
  /\ UNCHANGED <<mNew, mDisk, mInbox, mUsed>>

-----------------------------------------------------------------------------
(* sendInnerPayload.                                                       *)

Live(f) == mFlow[f].s \notin mFreed /\ Out(f).s = mFlow[f].s

\* needsRotation, and the first half of rotate: the ratchet is freed and its
\* shares are forgotten before the new one exists.
CheckRotation(f) ==
  /\ FlowAt(f, "taken")
  /\ Live(f)
  /\ IF Out(f).i >= RotateAt
     THEN /\ GoTo(f, "create")
          /\ mFreed' = mFreed \cup {Out(f).s}
          /\ mShares' = Unshared(mShares, Out(f).s)
     ELSE /\ GoTo(f, "share")
          /\ UNCHANGED <<mFreed, mShares>>
  /\ UNCHANGED <<mNew, mTab, mStored, mInbound, mInbox, mUsed>>

\* A send needs the key shared when its session is new or was not yet shared
\* with this recipient.
NeedsShare(f) == mFlow[f].isNew \/ <<mFlow[f].s, mFlow[f].to>> \notin mShares

\* The key is taken as the ratchet stands now.
TakeKey(f) ==
  /\ FlowAt(f, "share")
  /\ Live(f)
  /\ Step(f, [mFlow[f] EXCEPT !.pc = "encrypt", !.share = NeedsShare(f), !.from = Out(f).i])
  /\ UNCHANGED <<mNew, mTab, mFreed, mDisk, mInbox, mUsed>>

\* encrypt, and persistOutbound, which pickles the ratchet at once; where the
\* write fails, or the tab is closed before it, an older ratchet stays stored.
Encrypt(f) ==
  LET next == [Out(f) EXCEPT !.i = @ + 1] IN
  /\ FlowAt(f, "encrypt")
  /\ Live(f)
  /\ Out(f).i < MaxIndex /\ Cardinality(mUsed) < MaxSends
  /\ mUsed' = mUsed \cup {<<Out(f).s, Out(f).i>>}
  /\ mTab' = [mTab EXCEPT ![mFlow[f].tab].out = next]
  /\ \/ mStored' = next /\ Step(f, [mFlow[f] EXCEPT !.pc = "post", !.i = Out(f).i])
     \/ UNCHANGED mStored /\ Step(f, NoFlow)
  /\ UNCHANGED <<mNew, mFreed, mInbound, mShares, mInbox>>

\* The envelopes in the order of the batch; a share names the index of its key.
Envelope(kind, to, s, i) == [kind |-> kind, to |-> to, s |-> s, i |-> i]
Batch(f) ==
  LET r == mFlow[f]
      Each(kind, i) == IF r.to = Self THEN <<Envelope(kind, Self, r.s, i)>>
                       ELSE <<Envelope(kind, r.to, r.s, i), Envelope(kind, Self, r.s, i)>>
  IN (IF r.share THEN Each("key_share", r.from) ELSE <<>>) \o Each("message", r.i)

\* A slip: the share is recorded however the send ends.
ResolvesAnyway(f, n) == TRUE

\* send resolves only for a batch that was stored in full.
Resolves(f, n) == n = Len(Batch(f))

\* send: the server stores the batch up to where it fails, and a success may be
\* lost on its way back.
PostBatch(f) ==
  /\ FlowAt(f, "post")
  /\ \E n \in 0..Len(Batch(f)) :
       /\ mInbox' = mInbox \cup {Batch(f)[k] : k \in 1..n}
       /\ \/ Resolves(f, n) /\ Step(f, IF mFlow[f].share THEN [mFlow[f] EXCEPT !.pc = "record"] ELSE NoFlow)
          \/ Step(f, NoFlow)
  /\ UNCHANGED <<mNew, mTab, mFreed, mDisk, mUsed>>

RecordShare(f) ==
  /\ FlowAt(f, "record")
  /\ mShares' = mShares \cup {<<mFlow[f].s, mFlow[f].to>>}
  /\ Step(f, NoFlow)
  /\ UNCHANGED <<mNew, mTab, mFreed, mStored, mInbound, mInbox, mUsed>>

\* An await of the send is rejected, or it touches a ratchet that was freed.
SendFails(f) ==
  /\ f \in SendFlows /\ ~FlowAt(f, "idle")
  /\ Step(f, NoFlow)
  /\ UNCHANGED <<mNew, mTab, mFreed, mDisk, mInbox, mUsed>>

SessionsNext ==
  /\ UNCHANGED mLoad
  /\ \/ \E t \in Tabs : StartManager(t) \/ DestroyManager(t)
     \/ \E f \in Flows :
          \/ GetOutbound(f) \/ RetireStored(f) \/ CreateOutbound(f) \/ RegisterOwn(f)
          \/ CheckRotation(f) \/ TakeKey(f) \/ Encrypt(f)
          \/ PostBatch(f) \/ RecordShare(f) \/ SendFails(f)

SessionsSpec == SessionsInit /\ [][SessionsNext]_mVars

-----------------------------------------------------------------------------
\* No index of a ratchet is used for two messages: every ratchet that may still
\* encrypt is past all indices its session was used at, in this tab or in
\* another, before a crash or after (getOutbound, createSessionManager).
IndexNeverReused ==
  \A t \in Tabs : \A u \in mUsed :
    mTab[t].out.s = u[1] /\ u[1] \notin mFreed => u[2] < mTab[t].out.i

\* A message never reaches an inbox without its key: the inbox holds a share of
\* its session taken at its index or before, whatever sends overlap, fail half
\* way or are cut by a reload (sendInnerPayload, recordShare).
MessageComesWithKey ==
  \A m \in mInbox : m.kind = "message" =>
    \E k \in mInbox : k.kind = "key_share" /\ k.to = m.to /\ k.s = m.s /\ k.i <= m.i

-----------------------------------------------------------------------------
(* What makes it so: a ratchet belongs to one tab, a key is taken before the   *)
(* message it opens, and what is recorded as shared has arrived.              *)
RatchetsApart ==
  /\ \A t \in Tabs : mTab[t].out.s <= mNew
  /\ \A t, u \in Tabs : t # u /\ mTab[t].out.s = mTab[u].out.s => mTab[t].out.s = 0
  /\ \A u \in mUsed : u[1] <= mNew
  /\ \A p \in mShares : p[1] <= mNew
  /\ \A f \in Flows : mFlow[f].s <= mNew

FlowIsReal(f, r) == r.pc # "idle" =>
  /\ r.tab \in Tabs
  /\ f \in Tabs => r.tab = f /\ r.pc \in {"load", "create", "register"}
  /\ f \in SendFlows => r.to \in Peers
  /\ r.pc \in {"taken", "share", "encrypt", "post", "record"} => r.s # 0

Holds(t, s) == mTab[t].out.s = s /\ s \notin mFreed

KeyIn(inbox, s, to, n) ==
  \E k \in inbox : k.kind = "key_share" /\ k.to = to /\ k.s = s /\ k.i <= n

KeyIsTaken(r) ==
  /\ r.pc \in {"encrypt", "post", "record"} =>
       \A t \in Tabs : Holds(t, r.s) => r.from <= mTab[t].out.i
  /\ r.pc = "post" => r.from <= r.i
  /\ r.pc = "record" \/ (r.pc \in {"encrypt", "post"} /\ ~r.share) =>
       \A to \in {r.to, Self} : KeyIn(mInbox, r.s, to, r.from)

FlowsAreReal == \A f \in Flows : FlowIsReal(f, mFlow[f])
KeysAreTaken == \A f \in Flows : KeyIsTaken(mFlow[f])

SharesArrived == \A p \in mShares : \A t \in Tabs : Holds(t, p[1]) =>
  \A to \in {p[2], Self} : KeyIn(mInbox, p[1], to, mTab[t].out.i)

SessionsInv ==
  /\ SessionsTypeOK
  /\ RatchetsApart
  /\ FlowsAreReal
  /\ KeysAreTaken
  /\ SharesArrived
  /\ IndexNeverReused
  /\ MessageComesWithKey
=============================================================================
