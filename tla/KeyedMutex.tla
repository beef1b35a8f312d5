----------------------------- MODULE KeyedMutex -----------------------------
(***************************************************************************)
(* The keyed lock of the server: `KeyedMutex::acquire` and the drop of its *)
(* guard.  A map holds one slot per key in use; a slot owns a semaphore    *)
(* with one permit and counts its holders and waiters, and is removed when *)
(* the count reaches zero.  The next caller then makes a new slot with a   *)
(* new semaphore, so the lock excludes only while every holder and waiter  *)
(* of a key share one semaphore.                                           *)
(*                                                                         *)
(* The map lock is held for one step (Bump, Decrement); the wait for the   *)
(* permit and the drop of a guard are not atomic with it.                  *)
(***************************************************************************)
EXTENDS Integers, FiniteSets

CONSTANTS
  Keys,        \* what is locked: user ids, handles
  Callers,     \* the handlers that lock, each at most one key at a time
  Semaphores,  \* the semaphores that can be allocated
  None         \* no key, no semaphore

ASSUME CallersAssumption == IsFiniteSet(Callers)
ASSUME NoneAssumption    == None \notin Keys \cup Semaphores

VARIABLES
  slots,    \* slots[k]: the slot of key k; no slot when the refcount is 0
  taken,    \* the semaphores whose permit is out
  caller    \* caller[c]: where c is in acquire or in its guard's life

mutexVars == <<slots, taken, caller>>

NoSlot == [sem |-> None, refcount |-> 0]

(* "wait" is the await of the permit; "in" holds the guard; "drop" is the  *)
(* guard's drop after the refcount went down, before the permit field does.*)
CallerStates == {"out", "wait", "in", "drop"}

Out == [at |-> "out", key |-> None, sem |-> None]

MutexTypeOK ==
  /\ slots \in [Keys -> [sem : Semaphores \cup {None}, refcount : Nat]]
  /\ taken \subseteq Semaphores
  /\ caller \in [Callers -> [at  : CallerStates,
                             key : Keys \cup {None},
                             sem : Semaphores \cup {None}]]

MutexInit ==
  /\ slots = [k \in Keys |-> NoSlot]
  /\ taken = {}
  /\ caller = [c \in Callers |-> Out]

-----------------------------------------------------------------------------
(* Who keeps the slot of k alive, and who has the permit of a semaphore.   *)
UsersOf(k)    == {c \in Callers : caller[c].at \in {"wait", "in"} /\ caller[c].key = k}
HasPermit(c) == caller[c].at \in {"in", "drop"}

(* A semaphore nobody refers to any more may be allocated again.           *)
Fresh == {s \in Semaphores : /\ \A k \in Keys : slots[k].sem # s
                             /\ \A c \in Callers : caller[c].sem # s}

(* A slip: every slot is made with the same semaphore.                     *)
SlotOfOneSemaphore(k) ==
  IF slots[k].refcount = 0
  THEN [sem |-> CHOOSE s \in Semaphores : TRUE, refcount |-> 1]
  ELSE [sem |-> slots[k].sem, refcount |-> slots[k].refcount + 1]

(* acquire: find or make the slot of k and count oneself in.               *)
SlotFor(k) ==
  IF slots[k].refcount = 0
  THEN [sem |-> CHOOSE s \in Fresh : TRUE, refcount |-> 1]
  ELSE [sem |-> slots[k].sem, refcount |-> slots[k].refcount + 1]

Bump(c, k) ==
  /\ caller[c].at = "out"
  /\ slots[k].refcount = 0 => Fresh # {}
  /\ slots' = [slots EXCEPT ![k] = SlotFor(k)]
  /\ caller' = [caller EXCEPT ![c] = [at |-> "wait", key |-> k,
                                      sem |-> SlotFor(k).sem]]
  /\ UNCHANGED taken

(* A slip: the permit is not awaited.                                      *)
GrantAtOnce(c) ==
  /\ caller[c].at = "wait"
  /\ taken' = taken \cup {caller[c].sem}
  /\ caller' = [caller EXCEPT ![c] = [at |-> "in", key |-> caller[c].key,
                                      sem |-> caller[c].sem]]
  /\ UNCHANGED slots

(* acquire: the permit is ours.                                            *)
Grant(c) ==
  /\ caller[c].at = "wait"
  /\ caller[c].sem \notin taken
  /\ taken' = taken \cup {caller[c].sem}
  /\ caller' = [caller EXCEPT ![c] = [at |-> "in", key |-> caller[c].key,
                                      sem |-> caller[c].sem]]
  /\ UNCHANGED slots

(* A slip: the slot goes with the first user to leave.                     *)
DecrementedToNone(k) == NoSlot

(* Inner::decrement; the slot goes with its last user.                     *)
Decremented(k) ==
  IF slots[k].refcount <= 1 THEN NoSlot
  ELSE [sem |-> slots[k].sem, refcount |-> slots[k].refcount - 1]

(* acquire: the wait timed out.                                            *)
Contend(c) ==
  /\ caller[c].at = "wait"
  /\ slots' = [slots EXCEPT ![caller[c].key] = Decremented(caller[c].key)]
  /\ caller' = [caller EXCEPT ![c] = Out]
  /\ UNCHANGED taken

(* KeyedGuard::drop, then the drop of its permit.                          *)
DropGuard(c) ==
  /\ caller[c].at = "in"
  /\ slots' = [slots EXCEPT ![caller[c].key] = Decremented(caller[c].key)]
  /\ caller' = [caller EXCEPT ![c] = [at |-> "drop", key |-> caller[c].key,
                                      sem |-> caller[c].sem]]
  /\ UNCHANGED taken

ReleasePermit(c) ==
  /\ caller[c].at = "drop"
  /\ taken' = taken \ {caller[c].sem}
  /\ caller' = [caller EXCEPT ![c] = Out]
  /\ UNCHANGED slots

MutexNext ==
  \E c \in Callers :
    \/ \E k \in Keys : Bump(c, k)
    \/ Grant(c)
    \/ Contend(c)
    \/ DropGuard(c)
    \/ ReleasePermit(c)

MutexSpec == MutexInit /\ [][MutexNext]_mutexVars

-----------------------------------------------------------------------------
(* Two callers never hold the lock of one key at once, although its slot   *)
(* and semaphore come and go (KeyedMutex: "Per-key async serialization").  *)
MutualExclusion ==
  \A c, d \in Callers :
    caller[c].at = "in" /\ caller[d].at = "in" /\ caller[c].key = caller[d].key
      => c = d

(* A slot lives exactly as long as it is used, so that "a key locked once  *)
(* doesn't pin a slot forever": its refcount is the number of its holders  *)
(* and waiters.                                                            *)
RefcountIsExact == \A k \in Keys : slots[k].refcount = Cardinality(UsersOf(k))

(* A caller is kept waiting only by a guard of its own key ("Concurrent    *)
(* calls for different keys never contend").                               *)
WaitsForItsKey ==
  \A c \in Callers :
    caller[c].at = "wait" /\ caller[c].sem \in taken =>
      \E d \in Callers : HasPermit(d) /\ caller[d].key = caller[c].key

(* The locks of the keys are apart: none of them pins a slot once nobody    *)
(* uses it, and none delays the callers of another.                        *)
KeysAreApart == RefcountIsExact /\ WaitsForItsKey

(* What makes it so: users of a key share its semaphore, which no other    *)
(* key's callers refer to, and a permit that is out has one owner.         *)
SharedSemaphore ==
  \A c \in Callers : caller[c].at \in {"wait", "in"} =>
    /\ caller[c].key \in Keys
    /\ caller[c].sem = slots[caller[c].key].sem

PermitOwners ==
  /\ \A c \in Callers : HasPermit(c) => caller[c].sem \in taken
  /\ \A s \in taken : \E c \in Callers : HasPermit(c) /\ caller[c].sem = s
  /\ \A c, d \in Callers :
       HasPermit(c) /\ HasPermit(d) /\ caller[c].sem = caller[d].sem => c = d

SemaphoreOfOneKey ==
  /\ \A c, d \in Callers :
       caller[c].sem = caller[d].sem /\ caller[c].at # "out" /\ caller[d].at # "out"
         => caller[c].key = caller[d].key
  /\ \A c \in Callers : caller[c].at # "out" => caller[c].sem \in Semaphores

MutexInv ==
  /\ MutexTypeOK
  /\ RefcountIsExact
  /\ SharedSemaphore
  /\ PermitOwners
  /\ SemaphoreOfOneKey
=============================================================================
