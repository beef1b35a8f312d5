-------------------------- MODULE KeyedMutexProofs --------------------------
(***************************************************************************)
(* Proofs about KeyedMutex, for any keys, any finite set of callers and    *)
(* any supply of semaphores.                                               *)
(***************************************************************************)
EXTENDS KeyedMutex, FiniteSetTheorems, TLAPS

-----------------------------------------------------------------------------
(* How the refcount of a key follows its users (the map lock makes each of *)
(* these one step of acquire, of the timeout or of the guard's drop).      *)

(* The users of a key are finitely many, before and after a step.          *)
LEMMA UsersFinite ==
  ASSUME NEW k \in Keys
  PROVE  /\ IsFiniteSet(UsersOf(k)) /\ Cardinality(UsersOf(k)) \in Nat
         /\ IsFiniteSet(UsersOf(k)') /\ Cardinality(UsersOf(k)') \in Nat
<1>1. UsersOf(k) \in SUBSET Callers /\ UsersOf(k)' \in SUBSET Callers
  BY DEF UsersOf
<1>2. IsFiniteSet(UsersOf(k)) /\ IsFiniteSet(UsersOf(k)')
  BY <1>1, FS_Subset, CallersAssumption
<1>. QED  BY <1>2, FS_CardinalityType

(* A slot is in use exactly when its key has a user.                       *)
LEMMA UsedSlot ==
  ASSUME MutexInv, NEW k \in Keys
  PROVE  slots[k].refcount = 0 <=> UsersOf(k) = {}
BY UsersFinite, FS_EmptySet DEF MutexInv, RefcountIsExact

(* Joining counts one up, leaving one down.                                *)
LEMMA CountUp ==
  ASSUME NEW k \in Keys, NEW c \in Callers, c \notin UsersOf(k),
         UsersOf(k)' = UsersOf(k) \cup {c}
  PROVE  Cardinality(UsersOf(k)') = Cardinality(UsersOf(k)) + 1
BY UsersFinite, FS_AddElement

LEMMA CountDown ==
  ASSUME NEW k \in Keys, NEW c \in Callers, c \in UsersOf(k),
         UsersOf(k)' = UsersOf(k) \ {c}
  PROVE  /\ Cardinality(UsersOf(k)') = Cardinality(UsersOf(k)) - 1
         /\ Cardinality(UsersOf(k)') \in Nat
BY UsersFinite, FS_RemoveElement

(* A caller that waits or holds has a slot, with its own semaphore.        *)
LEMMA UserHasSlot ==
  ASSUME MutexInv, NEW c \in Callers, caller[c].at \in {"wait", "in"}
  PROVE  /\ caller[c].key \in Keys
         /\ c \in UsersOf(caller[c].key)
         /\ slots[caller[c].key].refcount # 0
         /\ slots[caller[c].key].sem = caller[c].sem
         /\ caller[c].sem \in Semaphores
<1>1. caller[c].key \in Keys /\ slots[caller[c].key].sem = caller[c].sem
  BY DEF MutexInv, SharedSemaphore
<1>2. c \in UsersOf(caller[c].key)
  BY DEF UsersOf
<1>3. slots[caller[c].key].refcount # 0
  BY <1>1, <1>2, UsedSlot
<1>4. caller[c].sem \in Semaphores
  BY DEF MutexInv, SemaphoreOfOneKey
<1>. QED  BY <1>1, <1>2, <1>3, <1>4

-----------------------------------------------------------------------------
(* The invariant holds initially and every step of acquire and of the      *)
(* guard's drop preserves it.                                              *)

LEMMA MutexInvInit == MutexInit => MutexInv
<1>. SUFFICES ASSUME MutexInit PROVE MutexInv
  OBVIOUS
<1>. USE DEF MutexInit
<1>1. MutexTypeOK
  BY DEF MutexTypeOK, NoSlot, Out, CallerStates
<1>2. RefcountIsExact
  <2>. SUFFICES ASSUME NEW k \in Keys
                PROVE  slots[k].refcount = Cardinality(UsersOf(k))
    BY DEF RefcountIsExact
  <2>1. UsersOf(k) = {}
    BY DEF UsersOf, Out
  <2>. QED  BY <2>1, FS_EmptySet DEF NoSlot
<1>3. SharedSemaphore /\ PermitOwners /\ SemaphoreOfOneKey
  BY DEF SharedSemaphore, PermitOwners, SemaphoreOfOneKey, HasPermit, Out
<1>. QED  BY <1>1, <1>2, <1>3 DEF MutexInv

(* acquire, entering the map: the slot is shared with the users it has, or *)
(* new with a semaphore nobody refers to.                                  *)
LEMMA BumpKeeps ==
  ASSUME MutexInv, NEW c \in Callers, NEW k \in Keys, Bump(c, k)
  PROVE  MutexInv'
<1>. DEFINE r == [at |-> "wait", key |-> k, sem |-> SlotFor(k).sem]
<1>0. MutexTypeOK
  BY DEF MutexInv
<1>1. /\ caller[c].at = "out"
      /\ slots' = [slots EXCEPT ![k] = SlotFor(k)]
      /\ caller' = [caller EXCEPT ![c] = r]
      /\ taken' = taken
  BY DEF Bump
<1>2. CASE slots[k].refcount = 0
  <2>. DEFINE s == CHOOSE s \in Fresh : TRUE
  <2>1. s \in Fresh
    BY <1>2 DEF Bump
  <2>2. /\ s \in Semaphores
        /\ \A d \in Callers : caller[d].sem # s
    BY <2>1 DEF Fresh
  <2>3. SlotFor(k) = [sem |-> s, refcount |-> 1]
    BY <1>2 DEF SlotFor
  <2>. HIDE DEF s
  <2>4. UsersOf(k) = {}
    BY <1>2, UsedSlot
  <2>. QED
    <3>1. MutexTypeOK'
      BY <1>0, <1>1, <2>2, <2>3 DEF MutexTypeOK, CallerStates
    <3>2. RefcountIsExact'
      <4>. SUFFICES ASSUME NEW q \in Keys
                    PROVE  slots'[q].refcount = Cardinality(UsersOf(q)')
        BY DEF RefcountIsExact
      <4>1. CASE q = k
        <5>1. UsersOf(k)' = UsersOf(k) \cup {c}
          BY <1>0, <1>1 DEF UsersOf, MutexTypeOK
        <5>2. Cardinality(UsersOf(k)) = 0
          BY <2>4, FS_EmptySet
        <5>3. Cardinality(UsersOf(k)') = 1
          BY <2>4, <5>1, <5>2, CountUp
        <5>4. slots'[k].refcount = 1
          BY <1>0, <1>1, <2>3 DEF MutexTypeOK
        <5>. QED  BY <4>1, <5>3, <5>4
      <4>2. CASE q # k
        <5>1. UsersOf(q)' = UsersOf(q)
          BY <1>0, <1>1, <4>2 DEF UsersOf, MutexTypeOK
        <5>. QED  BY <1>0, <1>1, <4>2, <5>1 DEF MutexInv, RefcountIsExact, MutexTypeOK
      <4>. QED  BY <4>1, <4>2
    <3>3. SharedSemaphore'
      <4>. SUFFICES ASSUME NEW d \in Callers, caller'[d].at \in {"wait", "in"}
                    PROVE  /\ caller'[d].key \in Keys
                           /\ caller'[d].sem = slots'[caller'[d].key].sem
        BY DEF SharedSemaphore
      <4>1. CASE d = c
        BY <1>0, <1>1, <2>3, <4>1 DEF MutexTypeOK
      <4>2. CASE d # c
        <5>1. caller'[d] = caller[d]
          BY <1>0, <1>1, <4>2 DEF MutexTypeOK
        <5>2. caller[d].key \in Keys /\ caller[d].sem = slots[caller[d].key].sem
          BY <5>1, UserHasSlot
        <5>3. caller[d].key # k
          BY <5>1, <2>4 DEF UsersOf
        <5>. QED  BY <1>0, <1>1, <5>1, <5>2, <5>3 DEF MutexTypeOK
      <4>. QED  BY <4>1, <4>2
    <3>4. PermitOwners'
      BY <1>0, <1>1 DEF MutexInv, PermitOwners, HasPermit, MutexTypeOK
    <3>5. SemaphoreOfOneKey'
      BY <1>0, <1>1, <2>2, <2>3 DEF MutexInv, SemaphoreOfOneKey, MutexTypeOK
    <3>. QED  BY <3>1, <3>2, <3>3, <3>4, <3>5 DEF MutexInv
<1>3. CASE slots[k].refcount # 0
  <2>1. SlotFor(k) = [sem |-> slots[k].sem, refcount |-> slots[k].refcount + 1]
    BY <1>3 DEF SlotFor
  <2>2. PICK u \in UsersOf(k) : TRUE
    BY <1>3, UsedSlot
  <2>3. /\ u \in Callers
        /\ caller[u].at \in {"wait", "in"}
        /\ caller[u].key = k
    BY <2>2 DEF UsersOf
  <2>4. caller[u].sem = slots[k].sem /\ slots[k].sem \in Semaphores
    BY <2>3, UserHasSlot
  <2>. QED
    <3>1. MutexTypeOK'
      BY <1>0, <1>1, <2>1, <2>4 DEF MutexTypeOK, CallerStates
    <3>2. RefcountIsExact'
      <4>. SUFFICES ASSUME NEW q \in Keys
                    PROVE  slots'[q].refcount = Cardinality(UsersOf(q)')
        BY DEF RefcountIsExact
      <4>1. CASE q = k
        <5>1. UsersOf(k)' = UsersOf(k) \cup {c}
          BY <1>0, <1>1 DEF UsersOf, MutexTypeOK
        <5>2. c \notin UsersOf(k)
          BY <1>1 DEF UsersOf
        <5>3. slots[k].refcount = Cardinality(UsersOf(k))
          BY DEF MutexInv, RefcountIsExact
        <5>4. Cardinality(UsersOf(k)') = slots[k].refcount + 1
          BY <5>1, <5>2, <5>3, CountUp
        <5>5. slots'[k].refcount = slots[k].refcount + 1
          BY <1>0, <1>1, <2>1 DEF MutexTypeOK
        <5>. QED  BY <4>1, <5>4, <5>5
      <4>2. CASE q # k
        <5>1. UsersOf(q)' = UsersOf(q)
          BY <1>0, <1>1, <4>2 DEF UsersOf, MutexTypeOK
        <5>. QED  BY <1>0, <1>1, <4>2, <5>1 DEF MutexInv, RefcountIsExact, MutexTypeOK
      <4>. QED  BY <4>1, <4>2
    <3>3. SharedSemaphore'
      <4>1. \A q \in Keys : slots'[q].sem = slots[q].sem
        BY <1>0, <1>1, <2>1 DEF MutexTypeOK
      <4>. QED  BY <1>0, <1>1, <2>1, <4>1 DEF MutexInv, SharedSemaphore, MutexTypeOK
    <3>4. PermitOwners'
      BY <1>0, <1>1 DEF MutexInv, PermitOwners, HasPermit, MutexTypeOK
    <3>5. SemaphoreOfOneKey'
      BY <1>0, <1>1, <2>1, <2>3, <2>4 DEF MutexInv, SemaphoreOfOneKey, MutexTypeOK
    <3>. QED  BY <3>1, <3>2, <3>3, <3>4, <3>5 DEF MutexInv
<1>. QED  BY <1>2, <1>3

(* acquire, the permit granted: nobody had it.                             *)
LEMMA GrantKeeps ==
  ASSUME MutexInv, NEW c \in Callers, Grant(c)
  PROVE  MutexInv'
<1>0. MutexTypeOK
  BY DEF MutexInv
<1>1. /\ caller[c].at = "wait"
      /\ caller[c].sem \notin taken
      /\ taken' = taken \cup {caller[c].sem}
      /\ caller' = [caller EXCEPT ![c] = [at |-> "in", key |-> caller[c].key,
                                          sem |-> caller[c].sem]]
      /\ slots' = slots
  BY DEF Grant
<1>2. caller[c].key \in Keys /\ caller[c].sem \in Semaphores
  BY <1>1, UserHasSlot
<1>3. MutexTypeOK'
  BY <1>0, <1>1, <1>2 DEF MutexTypeOK, CallerStates
<1>4. RefcountIsExact'
  <2>1. \A k \in Keys : UsersOf(k)' = UsersOf(k)
    BY <1>0, <1>1 DEF UsersOf, MutexTypeOK
  <2>. QED  BY <1>1, <2>1 DEF MutexInv, RefcountIsExact
<1>5. SharedSemaphore'
  BY <1>0, <1>1 DEF MutexInv, SharedSemaphore, MutexTypeOK
<1>6. PermitOwners'
  BY <1>0, <1>1 DEF MutexInv, PermitOwners, HasPermit, MutexTypeOK
<1>7. SemaphoreOfOneKey'
  BY <1>0, <1>1 DEF MutexInv, SemaphoreOfOneKey, MutexTypeOK
<1>. QED  BY <1>3, <1>4, <1>5, <1>6, <1>7 DEF MutexInv

(* What leaving a slot does to it, shared by the timeout and the drop.     *)
LEMMA DecrementKeeps ==
  ASSUME MutexInv, NEW c \in Callers, caller[c].at \in {"wait", "in"},
         slots' = [slots EXCEPT ![caller[c].key] = Decremented(caller[c].key)],
         \A q \in Keys : UsersOf(q)' = UsersOf(q) \ {c}
  PROVE  /\ slots' \in [Keys -> [sem : Semaphores \cup {None}, refcount : Nat]]
         /\ RefcountIsExact'
         /\ \A d \in Callers : d # c /\ caller[d].at \in {"wait", "in"} =>
              slots'[caller[d].key].sem = caller[d].sem
<1>. PICK k \in Keys : k = caller[c].key
  BY UserHasSlot
<1>0. slots \in [Keys -> [sem : Semaphores \cup {None}, refcount : Nat]]
  BY DEF MutexInv, MutexTypeOK
<1>1. k \in Keys /\ c \in UsersOf(k) /\ slots[k].refcount # 0
  BY UserHasSlot
<1>2. slots[k].refcount = Cardinality(UsersOf(k))
  BY <1>1 DEF MutexInv, RefcountIsExact
<1>3. /\ Decremented(k).refcount = Cardinality(UsersOf(k)')
      /\ Decremented(k) \in [sem : Semaphores \cup {None}, refcount : Nat]
  <2>0. UsersOf(k)' = UsersOf(k) \ {c}
    OBVIOUS
  <2>1. /\ Cardinality(UsersOf(k)') = slots[k].refcount - 1
        /\ Cardinality(UsersOf(k)') \in Nat
    BY <1>1, <1>2, <2>0, CountDown
  <2>2. slots[k].refcount \in Nat /\ slots[k].sem \in Semaphores \cup {None}
    BY <1>0, <1>1
  <2>. QED  BY <2>1, <2>2, <1>1 DEF Decremented, NoSlot
<1>4. slots' \in [Keys -> [sem : Semaphores \cup {None}, refcount : Nat]]
  BY <1>0, <1>1, <1>3
<1>5. RefcountIsExact'
  <2>. SUFFICES ASSUME NEW q \in Keys
                PROVE  slots'[q].refcount = Cardinality(UsersOf(q)')
    BY DEF RefcountIsExact
  <2>1. CASE q = k
    BY <1>0, <1>1, <1>3, <2>1
  <2>2. CASE q # k
    <3>1. UsersOf(q)' = UsersOf(q)
      BY <2>2 DEF UsersOf
    <3>. QED  BY <1>0, <2>2, <3>1 DEF MutexInv, RefcountIsExact
  <2>. QED  BY <2>1, <2>2
<1>6. ASSUME NEW d \in Callers, d # c, caller[d].at \in {"wait", "in"}
      PROVE  slots'[caller[d].key].sem = caller[d].sem
  <2>1. caller[d].key \in Keys /\ slots[caller[d].key].sem = caller[d].sem
    BY <1>6, UserHasSlot
  <2>2. CASE caller[d].key = k
    <3>1. d \in UsersOf(k)'
      BY <1>6, <1>1, <2>2 DEF UsersOf
    <3>2. Cardinality(UsersOf(k)') # 0
      BY <3>1, <1>1, UsersFinite, FS_EmptySet
    <3>3. Decremented(k).sem = slots[k].sem
      BY <3>2, <1>3 DEF Decremented, NoSlot
    <3>. QED  BY <1>0, <1>1, <2>1, <2>2, <3>3
  <2>3. CASE caller[d].key # k
    BY <1>0, <2>1, <2>3
  <2>. QED  BY <2>2, <2>3
<1>. QED  BY <1>4, <1>5, <1>6

(* acquire, the wait timed out.                                            *)
LEMMA ContendKeeps ==
  ASSUME MutexInv, NEW c \in Callers, Contend(c)
  PROVE  MutexInv'
<1>0. MutexTypeOK
  BY DEF MutexInv
<1>1. /\ caller[c].at = "wait"
      /\ slots' = [slots EXCEPT ![caller[c].key] = Decremented(caller[c].key)]
      /\ caller' = [caller EXCEPT ![c] = Out]
      /\ taken' = taken
  BY DEF Contend
<1>2. \A k \in Keys : UsersOf(k)' = UsersOf(k) \ {c}
  BY <1>0, <1>1 DEF UsersOf, Out, MutexTypeOK
<1>3. /\ slots' \in [Keys -> [sem : Semaphores \cup {None}, refcount : Nat]]
      /\ RefcountIsExact'
      /\ \A d \in Callers : d # c /\ caller[d].at \in {"wait", "in"} =>
           slots'[caller[d].key].sem = caller[d].sem
  BY <1>1, <1>2, DecrementKeeps
<1>4. MutexTypeOK'
  BY <1>0, <1>1, <1>3 DEF MutexTypeOK, Out, CallerStates
<1>5. SharedSemaphore'
  BY <1>0, <1>1, <1>3 DEF MutexInv, SharedSemaphore, MutexTypeOK, Out
<1>6. PermitOwners'
  BY <1>0, <1>1 DEF MutexInv, PermitOwners, HasPermit, MutexTypeOK, Out
<1>7. SemaphoreOfOneKey'
  BY <1>0, <1>1 DEF MutexInv, SemaphoreOfOneKey, MutexTypeOK, Out
<1>. QED  BY <1>3, <1>4, <1>5, <1>6, <1>7 DEF MutexInv

(* The guard's drop, first half: the refcount.                             *)
LEMMA DropGuardKeeps ==
  ASSUME MutexInv, NEW c \in Callers, DropGuard(c)
  PROVE  MutexInv'
<1>0. MutexTypeOK
  BY DEF MutexInv
<1>1. /\ caller[c].at = "in"
      /\ slots' = [slots EXCEPT ![caller[c].key] = Decremented(caller[c].key)]
      /\ caller' = [caller EXCEPT ![c] = [at |-> "drop", key |-> caller[c].key,
                                          sem |-> caller[c].sem]]
      /\ taken' = taken
  BY DEF DropGuard
<1>2. \A k \in Keys : UsersOf(k)' = UsersOf(k) \ {c}
  BY <1>0, <1>1 DEF UsersOf, MutexTypeOK
<1>3. /\ slots' \in [Keys -> [sem : Semaphores \cup {None}, refcount : Nat]]
      /\ RefcountIsExact'
      /\ \A d \in Callers : d # c /\ caller[d].at \in {"wait", "in"} =>
           slots'[caller[d].key].sem = caller[d].sem
  BY <1>1, <1>2, DecrementKeeps
<1>4. MutexTypeOK'
  BY <1>0, <1>1, <1>3 DEF MutexTypeOK, CallerStates
<1>5. SharedSemaphore'
  BY <1>0, <1>1, <1>3 DEF MutexInv, SharedSemaphore, MutexTypeOK
<1>6. PermitOwners'
  BY <1>0, <1>1 DEF MutexInv, PermitOwners, HasPermit, MutexTypeOK
<1>7. SemaphoreOfOneKey'
  BY <1>0, <1>1 DEF MutexInv, SemaphoreOfOneKey, MutexTypeOK
<1>. QED  BY <1>3, <1>4, <1>5, <1>6, <1>7 DEF MutexInv

(* The guard's drop, second half: the permit.                              *)
LEMMA ReleasePermitKeeps ==
  ASSUME MutexInv, NEW c \in Callers, ReleasePermit(c)
  PROVE  MutexInv'
<1>0. MutexTypeOK
  BY DEF MutexInv
<1>1. /\ caller[c].at = "drop"
      /\ taken' = taken \ {caller[c].sem}
      /\ caller' = [caller EXCEPT ![c] = Out]
      /\ slots' = slots
  BY DEF ReleasePermit
<1>2. \A k \in Keys : UsersOf(k)' = UsersOf(k)
  BY <1>0, <1>1 DEF UsersOf, Out, MutexTypeOK
<1>3. MutexTypeOK'
  BY <1>0, <1>1 DEF MutexTypeOK, Out, CallerStates
<1>4. RefcountIsExact'
  BY <1>1, <1>2 DEF MutexInv, RefcountIsExact
<1>5. SharedSemaphore'
  BY <1>0, <1>1 DEF MutexInv, SharedSemaphore, MutexTypeOK, Out
<1>6. PermitOwners'
  BY <1>0, <1>1 DEF MutexInv, PermitOwners, HasPermit, MutexTypeOK, Out
<1>7. SemaphoreOfOneKey'
  BY <1>0, <1>1 DEF MutexInv, SemaphoreOfOneKey, MutexTypeOK, Out
<1>. QED  BY <1>3, <1>4, <1>5, <1>6, <1>7 DEF MutexInv

(* Every step of the lock preserves the invariant.                         *)
LEMMA MutexStep ==
  ASSUME MutexInv, [MutexNext]_mutexVars
  PROVE  MutexInv'
<1>1. CASE UNCHANGED mutexVars
  BY <1>1 DEF mutexVars, MutexInv, MutexTypeOK, RefcountIsExact, UsersOf,
              SharedSemaphore, PermitOwners, HasPermit, SemaphoreOfOneKey
<1>2. CASE MutexNext
  <2>1. PICK c \in Callers : \/ \E k \in Keys : Bump(c, k)
                             \/ Grant(c)
                             \/ Contend(c)
                             \/ DropGuard(c)
                             \/ ReleasePermit(c)
    BY <1>2 DEF MutexNext
  <2>. QED  BY <2>1, BumpKeeps, GrantKeeps, ContendKeeps, DropGuardKeeps,
               ReleasePermitKeeps
<1>. QED  BY <1>1, <1>2

(* The invariant says what callers rely on.                                *)
LEMMA MutexInvSuffices ==
  MutexInv => MutualExclusion /\ WaitsForItsKey /\ RefcountIsExact
<1>. SUFFICES ASSUME MutexInv
              PROVE  MutualExclusion /\ WaitsForItsKey /\ RefcountIsExact
  OBVIOUS
<1>1. MutualExclusion
  BY DEF MutexInv, MutualExclusion, SharedSemaphore, PermitOwners, HasPermit
<1>2. WaitsForItsKey
  BY DEF MutexInv, WaitsForItsKey, PermitOwners, SemaphoreOfOneKey, HasPermit
<1>. QED  BY <1>1, <1>2 DEF MutexInv

-----------------------------------------------------------------------------
(* KeyedMutex::acquire locks: two callers never hold one key at once.      *)
THEOREM LockExcludes == MutexSpec => []MutualExclusion
<1>1. MutexInit => MutexInv
  BY MutexInvInit
<1>2. MutexInv /\ [MutexNext]_mutexVars => MutexInv'
  BY MutexStep
<1>3. MutexInv => MutualExclusion
  BY MutexInvSuffices
<1>. QED  BY <1>1, <1>2, <1>3, PTL DEF MutexSpec

(* The slots do not leak, and a caller only ever waits for its own key.    *)
THEOREM LockIsPerKey == MutexSpec => []KeysAreApart
<1>1. MutexInit => MutexInv
  BY MutexInvInit
<1>2. MutexInv /\ [MutexNext]_mutexVars => MutexInv'
  BY MutexStep
<1>3. MutexInv => KeysAreApart
  BY MutexInvSuffices DEF KeysAreApart
<1>. QED  BY <1>1, <1>2, <1>3, PTL DEF MutexSpec
=============================================================================
