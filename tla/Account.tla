------------------------------ MODULE Account ------------------------------
(***************************************************************************)
(* The account handlers of the server, all of which write the same few     *)
(* objects of a store that has no conditional writes:                      *)
(*   handles/{handle}.json             projection or tombstone             *)
(*   users/{uid}/profile.json          the account and its credential      *)
(*   users/{uid}/devices/{did}.json    its first device                    *)
(*   users/{uid}/rotation-records/...  answers kept for replay             *)
(* One handle is modelled, with every account that ever claims it.  A      *)
(* request is a process whose store calls are steps; `register` and the    *)
(* tombstone of `delete_profile` lock the handle, `rotate_keys` locks the  *)
(* uid, `update_profile` and `update_last_active` lock nothing.            *)
(*                                                                         *)
(* A profile is the credential it holds: its key_version and which         *)
(* rotation set it (0: the registration).  Every other field is carried    *)
(* along by the read-merge-write handlers and is left out.                 *)
(***************************************************************************)
EXTENDS KeyedMutex

CONSTANTS
  Uids,       \* user ids, in the order they are minted
  Handle,     \* the handle, as a key of the claim lock
  Rids,       \* request ids of rotations, each a positive number
  Cooldown,   \* days a released handle stays reserved (30 in the code)
  Overlap,    \* the kinds of request that may overlap on one account
  LastDay,    \* bound: the last day of the run
  MaxFaults   \* bound: failed store calls and server restarts

ASSUME KeysAssumption ==
  /\ Uids \subseteq Nat \ {0}
  /\ Rids \subseteq Nat \ {0}
  /\ Keys = Uids \cup {Handle}
ASSUME AccountBounds ==
  Cooldown \in Nat /\ LastDay \in Nat /\ MaxFaults \in Nat

VARIABLES
  handle,      \* handles/{handle}.json
  profile,     \* profile[u]: users/{u}/profile.json
  devices,     \* the users whose device file exists
  records,     \* records[i]: the rotation record of request id i
  plan,        \* plan[i]: what request id i asks, once a client sent it
  minted,      \* the user ids some registration has written
  registered,  \* users whose registration was answered 200
  leaving,     \* users that asked for deletion
  answers,     \* the answers <<i, status>> given to request id i
  req,         \* req[r]: the local variables of request r
  today,
  faults

objects     == <<handle, profile, devices, records>>
clientVars  == <<plan, minted, registered, leaving, answers>>
accountVars == <<slots, taken, caller, handle, profile, devices, records, plan,
                 minted, registered, leaving, answers, req, today, faults>>

Free        == [kind |-> "free", uid |-> 0, kv |-> 0, since |-> 0]
Owned(u, v) == [kind |-> "owned", uid |-> u, kv |-> v, since |-> 0]
Released(t) == [kind |-> "released", uid |-> 0, kv |-> 0, since |-> t]

NoProfile == [kv |-> 0, cred |-> 0]
Exists(p) == p.kv > 0

Idle == [kind |-> "none", pc |-> "idle", uid |-> 0, rid |-> 0,
         read |-> NoProfile, todo |-> {}, answer |-> "none"]

Kinds    == {"none", "register", "rotate", "update", "touch", "delete"}
Answers  == {"ok", "stale", "bad"}
Files    == {"profile", "device", "records"}
Versions == 0..(Cardinality(Rids) + 1)

AccountTypeOK ==
  /\ MutexTypeOK
  /\ handle.kind \in {"free", "owned", "released"}
  /\ handle.uid \in Uids \cup {0} /\ handle.kv \in Versions /\ handle.since \in Nat
  /\ profile \in [Uids -> [kv : Versions, cred : Rids \cup {0}]]
  /\ devices \subseteq Uids
  /\ records \in [Rids -> Answers \cup {"none"}]
  /\ plan \in [Rids -> [uid : Uids \cup {0}, kv : Versions, cred : Rids \cup {0}]]
  /\ minted \subseteq Uids /\ registered \subseteq minted /\ leaving \subseteq registered
  /\ answers \subseteq Rids \X Answers
  /\ \A r \in Callers :
       /\ req[r].kind \in Kinds
       /\ req[r].uid \in Uids \cup {0} /\ req[r].rid \in Rids \cup {0}
       /\ req[r].read \in [kv : Versions, cred : Rids \cup {0}]
       /\ req[r].todo \subseteq Files
       /\ req[r].pc = "idle" <=> req[r] = Idle
       /\ caller[r].at \in {"wait", "in"} => req[r].pc # "idle"
  /\ today \in 0..LastDay
  /\ faults \in 0..MaxFaults

AccountInit ==
  /\ MutexInit
  /\ handle = Free
  /\ profile = [u \in Uids |-> NoProfile]
  /\ devices = {}
  /\ records = [i \in Rids |-> "none"]
  /\ plan = [i \in Rids |-> [uid |-> 0, kv |-> 0, cred |-> 0]]
  /\ minted = {}
  /\ registered = {}
  /\ leaving = {}
  /\ answers = {}
  /\ req = [r \in Callers |-> Idle]
  /\ today = 0
  /\ faults = 0

-----------------------------------------------------------------------------
(* The handlers' common steps.                                             *)

SetReq(r, q) == req' = [req EXCEPT ![r] = q]
Goto(r, pc)  == SetReq(r, [req[r] EXCEPT !.pc = pc])
At(r, pc)    == req[r].pc = pc

(* One store call: it succeeds, or it fails and is counted.                *)
Call(ok) == /\ faults' = IF ok THEN faults ELSE faults + 1
            /\ faults' <= MaxFaults

(* The handler holds its lock; it keeps it.                                *)
Holding(r) == caller[r].at = "in" /\ UNCHANGED mutexVars

(* The handler answers and its guard is dropped.                           *)
AnswerLocked(r) == SetReq(r, Idle) /\ caller[r].at = "in" /\ DropGuard(r)

(* A PUT or DELETE of the object x that should leave y: it is applied, or  *)
(* it fails, and then may have been applied or not.                        *)
Outcomes(x, y, ok) == IF ok THEN {y} ELSE {x, y}

(* acquire: the lock is granted, or the wait times out and the handler     *)
(* answers 503 or 409; a guard that was dropped gives its permit back.     *)
LockGranted(r) ==
  /\ Grant(r)
  /\ UNCHANGED <<objects, clientVars, req, today, faults>>

LockTimesOut(r) ==
  /\ Contend(r)
  /\ SetReq(r, Idle)
  /\ UNCHANGED <<objects, clientVars, today, faults>>

LockReleased(r) ==
  /\ ReleasePermit(r)
  /\ UNCHANGED <<objects, clientVars, req, today, faults>>

(* Which requests overlap on one account is an assumption about its        *)
(* devices, named in Overlap.  The guard admits the devices that exist.    *)
Ready(r) == At(r, "idle") /\ caller[r].at = "out"

MayStart(u, k) ==
  /\ u \in registered \cap devices
  /\ \A r \in Callers : req[r].uid = u => {req[r].kind, k} \subseteq Overlap

Request(k, pc, u) == [Idle EXCEPT !.kind = k, !.pc = pc, !.uid = u]

-----------------------------------------------------------------------------
(* POST /v1/register, from the claim lock on.  The user id is new.         *)

NewUids == Uids \ (minted \cup {req[r].uid : r \in Callers})

(* A slip: the claim is locked under the new user's id.                    *)
ClaimLockByUser(u) == u

ClaimLock(u) == Handle

StartRegister(r) ==
  /\ Ready(r)
  /\ NewUids # {}
  /\ LET u == CHOOSE u \in NewUids : TRUE IN
       /\ SetReq(r, Request("register", "reg_get", u))
       /\ Bump(r, ClaimLock(u))
  /\ UNCHANGED <<objects, clientVars, today, faults>>

(* A slip: the cooldown ends a day early.                                  *)
CoolingDownLess(h) == h.kind = "released" /\ today + 1 < h.since + Cooldown

CoolingDown(h) == h.kind = "released" /\ today < h.since + Cooldown

RegGet(r) ==
  /\ At(r, "reg_get")
  /\ \E ok \in BOOLEAN :
       /\ Call(ok)
       /\ IF ~ok \/ handle.kind = "owned" \/ CoolingDown(handle)
          THEN AnswerLocked(r)
          ELSE /\ Holding(r)
               /\ Goto(r, IF handle.kind = "free" THEN "reg_handle" ELSE "reg_unbury")
  /\ UNCHANGED <<objects, clientVars, today>>

RegDeleteTombstone(r) ==
  /\ At(r, "reg_unbury")
  /\ \E ok \in BOOLEAN :
       /\ Call(ok)
       /\ handle' \in Outcomes(handle, Free, ok)
       /\ IF ok THEN Holding(r) /\ Goto(r, "reg_handle") ELSE AnswerLocked(r)
  /\ UNCHANGED <<profile, devices, records, clientVars, today>>

(* A claim that fails is not rolled back.                                  *)
RegPutHandle(r) ==
  /\ At(r, "reg_handle")
  /\ minted' = minted \cup {req[r].uid}
  /\ \E ok \in BOOLEAN :
       /\ Call(ok)
       /\ handle' \in Outcomes(handle, Owned(req[r].uid, 1), ok)
       /\ IF ok THEN Holding(r) /\ Goto(r, "reg_profile") ELSE AnswerLocked(r)
  /\ UNCHANGED <<profile, devices, records, plan, registered, leaving, answers, today>>

RegPutProfile(r) ==
  /\ At(r, "reg_profile")
  /\ Holding(r)
  /\ \E ok \in BOOLEAN :
       /\ Call(ok)
       /\ \E p \in Outcomes(NoProfile, [kv |-> 1, cred |-> 0], ok) :
            profile' = [profile EXCEPT ![req[r].uid] = p]
       /\ Goto(r, IF ok THEN "reg_device" ELSE "reg_undo_claim")
  /\ UNCHANGED <<handle, devices, records, clientVars, today>>

RegPutDevice(r) ==
  /\ At(r, "reg_device")
  /\ \E ok \in BOOLEAN :
       /\ Call(ok)
       /\ devices' \in Outcomes(devices, devices \cup {req[r].uid}, ok)
       /\ IF ok
          THEN AnswerLocked(r) /\ registered' = registered \cup {req[r].uid}
          ELSE Holding(r) /\ Goto(r, "reg_undo") /\ UNCHANGED registered
  /\ UNCHANGED <<handle, profile, records, plan, minted, leaving, answers, today>>

(* The roll back deletes the handle, then, when the device failed, the     *)
(* profile; neither failure is noticed.                                    *)
RegUndoHandle(r) ==
  /\ req[r].pc \in {"reg_undo_claim", "reg_undo"}
  /\ \E ok \in BOOLEAN : Call(ok) /\ handle' \in Outcomes(handle, Free, ok)
  /\ IF At(r, "reg_undo") THEN Holding(r) /\ Goto(r, "reg_undo_profile")
     ELSE AnswerLocked(r)
  /\ UNCHANGED <<profile, devices, records, clientVars, today>>

RegUndoProfile(r) ==
  /\ At(r, "reg_undo_profile")
  /\ \E ok \in BOOLEAN :
       /\ Call(ok)
       /\ \E p \in Outcomes(profile[req[r].uid], NoProfile, ok) :
            profile' = [profile EXCEPT ![req[r].uid] = p]
  /\ AnswerLocked(r)
  /\ UNCHANGED <<handle, devices, records, clientVars, today>>

-----------------------------------------------------------------------------
(* POST /v1/rotate-keys, from the uid's lock on.  A request id stands for  *)
(* one body: the key_version it asks for and the credential its continuity *)
(* signature was made with, right or wrong.  A retry repeats the body.     *)

(* A slip: locked by the request id.                                       *)
RotationLockByRequest(u, i) == i

RotationLock(u, i) == u

StartRotate(r) ==
  /\ Ready(r)
  /\ \E u \in Uids, i \in Rids, c \in Rids \cup {0} :
       /\ MayStart(u, "rotate")
       /\ plan[i].uid \in {0, u}
       /\ plan' = IF plan[i].uid = u THEN plan
                  ELSE [plan EXCEPT ![i] = [uid |-> u, kv |-> profile[u].kv + 1,
                                            cred |-> c]]
       /\ SetReq(r, [Request("rotate", "rot_load", u) EXCEPT !.rid = i])
       /\ Bump(r, RotationLock(u, i))
  /\ UNCHANGED <<objects, minted, registered, leaving, answers, today, faults>>

Answer(r, a) == answers' = answers \cup {<<req[r].rid, a>>}

(* A slip: no replay.                                                      *)
RotLoadNothing(r) ==
  /\ At(r, "rot_load")
  /\ \E ok \in BOOLEAN : Call(ok)
  /\ Holding(r) /\ Goto(r, "rot_get") /\ UNCHANGED answers
  /\ UNCHANGED <<objects, plan, minted, registered, leaving, today>>

(* A recorded answer is given again; a failed load counts as no record.    *)
RotLoad(r) ==
  /\ At(r, "rot_load")
  /\ \E ok \in BOOLEAN :
       /\ Call(ok)
       /\ IF ok /\ records[req[r].rid] # "none"
          THEN AnswerLocked(r) /\ Answer(r, records[req[r].rid])
          ELSE Holding(r) /\ Goto(r, "rot_get") /\ UNCHANGED answers
  /\ UNCHANGED <<objects, plan, minted, registered, leaving, today>>

Verdict(p, body) == IF body.kv # p.kv + 1 THEN "stale"
                    ELSE IF body.cred # p.cred THEN "bad" ELSE "ok"

RotGet(r) ==
  /\ At(r, "rot_get")
  /\ \E ok \in BOOLEAN :
       /\ Call(ok)
       /\ IF ok /\ Exists(profile[req[r].uid])
          THEN LET a == Verdict(profile[req[r].uid], plan[req[r].rid]) IN
               /\ Holding(r)
               /\ SetReq(r, [req[r] EXCEPT !.answer = a,
                               !.pc = IF a = "ok" THEN "rot_put" ELSE "rot_save"])
          ELSE AnswerLocked(r)
  /\ UNCHANGED <<objects, clientVars, today>>

(* A slip: the version asked for is advanced once more.                    *)
RotatedAgain(r) == [kv |-> plan[req[r].rid].kv + 1, cred |-> req[r].rid]

Rotated(r) == [kv |-> plan[req[r].rid].kv, cred |-> req[r].rid]

RotPut(r) ==
  /\ At(r, "rot_put")
  /\ \E ok \in BOOLEAN :
       /\ Call(ok)
       /\ \E p \in Outcomes(profile[req[r].uid], Rotated(r), ok) :
            profile' = [profile EXCEPT ![req[r].uid] = p]
       /\ IF ok THEN Holding(r) /\ Goto(r, "rot_project") ELSE AnswerLocked(r)
  /\ UNCHANGED <<handle, devices, records, clientVars, today>>

(* A slip: the projection keeps the key_version the handler read.          *)
RotProjectTheOld(r) ==
  /\ At(r, "rot_project")
  /\ Holding(r)
  /\ \E ok \in BOOLEAN :
       /\ Call(ok)
       /\ handle' \in Outcomes(handle, Owned(req[r].uid, Rotated(r).kv - 1), ok)
  /\ Goto(r, "rot_save")
  /\ UNCHANGED <<profile, devices, records, clientVars, today>>

(* Best effort, like the record: the rotation has been applied.            *)
RotProject(r) ==
  /\ At(r, "rot_project")
  /\ Holding(r)
  /\ \E ok \in BOOLEAN :
       /\ Call(ok)
       /\ handle' \in Outcomes(handle, Owned(req[r].uid, Rotated(r).kv), ok)
  /\ Goto(r, "rot_save")
  /\ UNCHANGED <<profile, devices, records, clientVars, today>>

RotSave(r) ==
  /\ At(r, "rot_save")
  /\ \E ok \in BOOLEAN :
       /\ Call(ok)
       /\ \E x \in Outcomes(records[req[r].rid], req[r].answer, ok) :
            records' = [records EXCEPT ![req[r].rid] = x]
  /\ Answer(r, req[r].answer)
  /\ AnswerLocked(r)
  /\ UNCHANGED <<handle, profile, devices, plan, minted, registered, leaving, today>>

-----------------------------------------------------------------------------
(* PUT /v1/profile, and the refresh of last_active when an event stream    *)
(* opens: both read the profile, change a field that is not modelled and   *)
(* write it back, with no lock.                                            *)

Done(r) == SetReq(r, Idle)

StartEdit(r) ==
  /\ Ready(r)
  /\ \E u \in Uids, k \in {"update", "touch"} :
       MayStart(u, k) /\ SetReq(r, Request(k, "edit_get", u))
  /\ UNCHANGED <<mutexVars, objects, clientVars, today, faults>>

EditGet(r) ==
  /\ At(r, "edit_get")
  /\ \E ok \in BOOLEAN :
       /\ Call(ok)
       /\ IF ok /\ Exists(profile[req[r].uid])
          THEN SetReq(r, [req[r] EXCEPT !.pc = "edit_put",
                                        !.read = profile[req[r].uid]])
          ELSE Done(r)
  /\ UNCHANGED <<mutexVars, objects, clientVars, today>>

EditPut(r) ==
  /\ At(r, "edit_put")
  /\ \E ok \in BOOLEAN :
       /\ Call(ok)
       /\ \E p \in Outcomes(profile[req[r].uid], req[r].read, ok) :
            profile' = [profile EXCEPT ![req[r].uid] = p]
       /\ IF ok /\ req[r].kind = "update" THEN Goto(r, "edit_project") ELSE Done(r)
  /\ UNCHANGED <<mutexVars, handle, devices, records, clientVars, today>>

EditProject(r) ==
  /\ At(r, "edit_project")
  /\ \E ok \in BOOLEAN :
       /\ Call(ok)
       /\ handle' \in Outcomes(handle, Owned(req[r].uid, req[r].read.kv), ok)
  /\ Done(r)
  /\ UNCHANGED <<mutexVars, profile, devices, records, clientVars, today>>

-----------------------------------------------------------------------------
(* DELETE /v1/profile: list the account's files, delete them in some       *)
(* order, then bury the handle under its lock.                             *)

StartDelete(r) ==
  /\ Ready(r)
  /\ \E u \in Uids :
       /\ MayStart(u, "delete")
       /\ SetReq(r, Request("delete", "del_get", u))
       /\ leaving' = leaving \cup {u}
  /\ UNCHANGED <<mutexVars, objects, plan, minted, registered, answers, today, faults>>

DelGet(r) ==
  /\ At(r, "del_get")
  /\ \E ok \in BOOLEAN :
       /\ Call(ok)
       /\ IF ok /\ Exists(profile[req[r].uid]) THEN Goto(r, "del_list") ELSE Done(r)
  /\ UNCHANGED <<mutexVars, objects, clientVars, today>>

FilesOf(u) ==
  {f \in Files : \/ f = "profile" /\ Exists(profile[u])
                 \/ f = "device"  /\ u \in devices
                 \/ f = "records" /\ \E i \in Rids : plan[i].uid = u /\ records[i] # "none"}

DelList(r) ==
  /\ At(r, "del_list")
  /\ \E ok \in BOOLEAN :
       /\ Call(ok)
       /\ IF ok THEN SetReq(r, [req[r] EXCEPT !.pc = "del_files",
                                              !.todo = FilesOf(req[r].uid)])
                ELSE Done(r)
  /\ UNCHANGED <<mutexVars, objects, clientVars, today>>

Remove(u, f) ==
  /\ profile' = IF f = "profile" THEN [profile EXCEPT ![u] = NoProfile] ELSE profile
  /\ devices' = IF f = "device" THEN devices \ {u} ELSE devices
  /\ records' = IF f = "records"
                THEN [i \in Rids |-> IF plan[i].uid = u THEN "none" ELSE records[i]]
                ELSE records

DelFile(r) ==
  /\ At(r, "del_files")
  /\ \E f \in req[r].todo, ok \in BOOLEAN :
       /\ Call(ok)
       /\ \/ Remove(req[r].uid, f)
          \/ ~ok /\ UNCHANGED <<profile, devices, records>>
       /\ IF ok THEN SetReq(r, [req[r] EXCEPT !.todo = @ \ {f}]) ELSE Done(r)
  /\ UNCHANGED <<mutexVars, handle, clientVars, today>>

DelLock(r) ==
  /\ At(r, "del_files")
  /\ req[r].todo = {}
  /\ Goto(r, "del_bury")
  /\ Bump(r, Handle)
  /\ UNCHANGED <<objects, clientVars, today, faults>>

DelTombstone(r) ==
  /\ At(r, "del_bury")
  /\ \E ok \in BOOLEAN : Call(ok) /\ handle' \in Outcomes(handle, Released(today), ok)
  /\ AnswerLocked(r)
  /\ UNCHANGED <<profile, devices, records, clientVars, today>>

-----------------------------------------------------------------------------
(* The server dies with its locks and requests; the store keeps what was   *)
(* written.                                                                *)
Crash ==
  /\ Call(FALSE)
  /\ \E r \in Callers : req[r] # Idle
  /\ req' = [r \in Callers |-> Idle]
  /\ slots' = [k \in Keys |-> NoSlot]
  /\ taken' = {}
  /\ caller' = [r \in Callers |-> Out]
  /\ UNCHANGED <<objects, clientVars, today>>

(* No request lasts for days.                                              *)
Day ==
  /\ today < LastDay
  /\ \A r \in Callers : Ready(r)
  /\ today' = today + 1
  /\ UNCHANGED <<mutexVars, objects, clientVars, req, faults>>

RequestNext(r) ==
  \/ LockGranted(r) \/ LockTimesOut(r) \/ LockReleased(r)
  \/ StartRegister(r) \/ RegGet(r) \/ RegDeleteTombstone(r)
  \/ RegPutHandle(r) \/ RegPutProfile(r) \/ RegPutDevice(r)
  \/ RegUndoHandle(r) \/ RegUndoProfile(r)
  \/ StartRotate(r) \/ RotLoad(r) \/ RotGet(r) \/ RotPut(r)
  \/ RotProject(r) \/ RotSave(r)
  \/ StartEdit(r) \/ EditGet(r) \/ EditPut(r) \/ EditProject(r)
  \/ StartDelete(r) \/ DelGet(r) \/ DelList(r) \/ DelFile(r)
  \/ DelLock(r) \/ DelTombstone(r)

AccountNext == (\E r \in Callers : RequestNext(r)) \/ Crash \/ Day

AccountSpec == AccountInit /\ [][AccountNext]_accountVars

-----------------------------------------------------------------------------
(* A user whose registration was answered owns the handle until they ask   *)
(* to leave: no other claim, roll back or tombstone takes it.              *)
HandleIsKept ==
  \A u \in registered \ leaving : handle.kind = "owned" /\ handle.uid = u

(* A released handle stays released for the whole cooldown, whatever       *)
(* request is still on its way.                                            *)
TombstoneHolds ==
  [][handle.kind = "released" /\ today < handle.since + Cooldown
       => handle' = handle]_accountVars

(* A credential is replaced only by the next key_version, in a rotation    *)
(* signed with it: no rotation that was accepted is ever undone or skipped.*)
RotationChain ==
  [][\A u \in Uids :
       Exists(profile[u]) /\ Exists(profile'[u]) /\ profile'[u] # profile[u] =>
         /\ profile'[u].kv = profile[u].kv + 1
         /\ plan[profile'[u].cred].cred = profile[u].cred]_accountVars

(* Unless something failed, every answer to a request id is the same one,  *)
(* however often and however concurrently it is retried.                   *)
AnswersAgree == faults = 0 => \A a, b \in answers : a[1] = b[1] => a = b

(* Unless something failed, what resolve tells a new device of an account  *)
(* nobody is working on is its current key_version.                        *)
ResolveIsCurrent ==
  \A u \in registered :
    /\ faults = 0
    /\ \A r \in Callers : req[r].uid # u
    /\ handle.kind = "owned" /\ handle.uid = u /\ Exists(profile[u])
    => handle.kv = profile[u].kv

-----------------------------------------------------------------------------
(* What makes it so.  Every request is of the kind its step belongs to.    *)
ClaimPcs == {"reg_unbury", "reg_handle", "reg_profile", "reg_device",
             "reg_undo_claim", "reg_undo", "reg_undo_profile"}
RotPcs   == {"rot_get", "rot_put", "rot_project", "rot_save"}
EditPcs  == {"edit_get", "edit_put", "edit_project"}
DelPcs   == {"del_get", "del_list", "del_files", "del_bury"}

Fits(k, pc) ==
  \/ k = "none" /\ pc = "idle"
  \/ k = "register" /\ pc \in ClaimPcs \cup {"reg_get"}
  \/ k = "rotate" /\ pc \in RotPcs \cup {"rot_load"}
  \/ k \in {"update", "touch"} /\ pc \in EditPcs
  \/ k = "delete" /\ pc \in DelPcs

AtWork(r) == req[r].kind \in {"rotate", "update", "touch", "delete"}

RequestsKnown == \A r \in Callers :
  /\ Fits(req[r].kind, req[r].pc)
  /\ req[r].kind = "none" => req[r] = Idle
  /\ req[r].kind # "none" => req[r].uid \in Uids
  /\ req[r].kind = "rotate" => req[r].rid \in Rids /\ plan[req[r].rid].uid = req[r].uid
  /\ req[r].pc \in {"rot_put", "rot_project", "rot_save"} => req[r].answer \in Answers

(* A registration and a burial have the handle's lock or wait for it, a    *)
(* rotation its account's, and after the first step nobody waits.          *)
LocksHeld == \A r \in Callers :
  /\ req[r].kind = "register" \/ req[r].pc = "del_bury" => caller[r].key = Handle
  /\ req[r].kind = "rotate" => caller[r].key = req[r].uid
  /\ req[r].kind \in {"register", "rotate"} \/ req[r].pc = "del_bury" => caller[r].at \in {"wait", "in"}
  /\ req[r].pc \in ClaimPcs \cup RotPcs => caller[r].at = "in"
  /\ req[r].kind = "none" => caller[r].at \in {"out", "drop"}
  /\ req[r].pc \in EditPcs \cup {"del_get", "del_list", "del_files"} => caller[r].at = "out"

(* Who works on an account is registered, and shares it only as Overlap    *)
(* allows; who registers has an id of its own.                             *)
AccountsApart ==
  /\ \A r \in Callers : AtWork(r) => req[r].uid \in registered
  /\ \A r, s \in Callers :
       r # s /\ req[r].kind # "none" /\ req[s].kind # "none" /\ req[r].uid = req[s].uid
         => AtWork(r) /\ {req[r].kind, req[s].kind} \subseteq Overlap

(* What an id owns before it is registered: nothing, and no rotation.      *)
ClaimsAreNew ==
  /\ \A i \in Rids : plan[i].uid # 0 => plan[i].uid \in registered
  /\ registered \subseteq minted /\ leaving \subseteq registered
  /\ \A u \in Uids \ minted : profile[u] = NoProfile /\ u \notin devices
  /\ \A r \in Callers : req[r].kind = "register" =>
       /\ req[r].uid \notin registered
       /\ req[r].pc \in {"reg_get", "reg_unbury", "reg_handle"} => req[r].uid \notin minted
       /\ req[r].pc \notin {"reg_get", "reg_unbury", "reg_handle"} => req[r].uid \in minted
       /\ req[r].pc = "reg_profile" => profile[req[r].uid] = NoProfile

OwnedBy(u) == handle.kind = "owned" /\ handle.uid = u

(* Whoever may still work on an account finds the handle its own, and a    *)
(* registration finds it as it read it.                                    *)
HandleHolders ==
  /\ \A u \in registered \cap devices : OwnedBy(u)
  /\ registered \ leaving \subseteq devices
  /\ \A r \in Callers : AtWork(r) =>
       /\ OwnedBy(req[r].uid)
       /\ req[r].kind # "delete" => req[r].uid \in devices
       /\ req[r].kind = "delete" => req[r].uid \in leaving
       /\ req[r].pc = "del_files" /\ "device" \notin req[r].todo => req[r].uid \notin devices
       /\ req[r].pc = "del_bury" => req[r].uid \notin devices
  /\ \A r \in Callers :
       /\ req[r].pc = "reg_unbury" => handle.kind = "released" /\ ~CoolingDown(handle)
       /\ req[r].pc = "reg_handle" => handle.kind = "free"
       /\ req[r].pc \in {"reg_profile", "reg_device", "reg_undo_claim", "reg_undo"}
            => handle = Owned(req[r].uid, 1)

(* A rotation past its check, and an edit past its read, still know the    *)
(* profile as it is.                                                       *)
ProfileAsRead == \A r \in Callers :
  /\ req[r].pc = "rot_put" /\ Exists(profile[req[r].uid])
       => Verdict(profile[req[r].uid], plan[req[r].rid]) = "ok"
  /\ req[r].pc \in {"edit_put", "edit_project"} => req[r].read = profile[req[r].uid]

(* Until something fails an answer is recorded as long as the account has  *)
(* a device to ask again with, and a rotation under way has not answered.  *)
AnswersRecorded == faults = 0 =>
  /\ \A i \in Rids, a \in Answers : <<i, a>> \in answers =>
       /\ plan[i].uid # 0
       /\ \/ records[i] = a
          \/ plan[i].uid \notin devices
          \/ \E r \in Callers : req[r].pc = "del_files" /\ req[r].uid = plan[i].uid
  /\ \A r \in Callers : req[r].pc \in RotPcs =>
       records[req[r].rid] = "none" /\ \A a \in Answers : <<req[r].rid, a>> \notin answers

(* Until something fails the projection lags behind the profile only while *)
(* a rotation is about to write it.                                        *)
ProjectionFollows == faults = 0 =>
  /\ \A u \in Uids : OwnedBy(u) /\ Exists(profile[u]) =>
       \/ handle.kv = profile[u].kv
       \/ \E r \in Callers : req[r].pc = "rot_project" /\ req[r].uid = u
  /\ \A r \in Callers : req[r].pc = "rot_project" => profile[req[r].uid] = Rotated(r)

(* No key_version is ahead of the rotations that were asked for.           *)
Asked == {i \in Rids : plan[i].uid # 0}
VersionsCounted ==
  /\ handle.kv <= 1 + Cardinality(Asked)
  /\ \A i \in Rids : plan[i].kv <= 1 + Cardinality(Asked)
  /\ \A u \in Uids : profile[u].kv <= 1 + Cardinality(Asked)
  /\ \A r \in Callers : req[r].read.kv <= 1 + Cardinality(Asked)

(* The types, with no bound on the versions.                               *)
Profiles       == [kv : Nat, cred : Rids \cup {0}]
Pcs            == {"idle", "reg_get", "rot_load"} \cup ClaimPcs \cup RotPcs \cup EditPcs \cup DelPcs
RequestRecords == [kind : Kinds, pc : Pcs, uid : Uids \cup {0}, rid : Rids \cup {0},
                   read : Profiles, todo : SUBSET Files, answer : Answers \cup {"none"}]

RequestTypes == req \in [Callers -> RequestRecords]

ObjectTypes ==
  /\ handle \in [kind : {"free", "owned", "released"}, uid : Uids \cup {0}, kv : Nat, since : Nat]
  /\ profile \in [Uids -> Profiles]
  /\ devices \subseteq Uids
  /\ records \in [Rids -> Answers \cup {"none"}]
  /\ plan \in [Rids -> [uid : Uids \cup {0}, kv : Nat, cred : Rids \cup {0}]]
  /\ minted \subseteq Uids
  /\ answers \subseteq Rids \X Answers
  /\ today \in 0..LastDay
  /\ faults \in 0..MaxFaults

RequestsInv == RequestTypes /\ ObjectTypes /\ MutexInv /\ RequestsKnown /\ LocksHeld /\ AccountsApart /\ ClaimsAreNew

AccountInv ==
  /\ RequestsInv
  /\ "delete" \notin Overlap => HandleHolders /\ AnswersRecorded
  /\ Overlap \cap {"update", "touch"} = {} => ProfileAsRead
  /\ Overlap \subseteq {"rotate"} => ProjectionFollows
  /\ IsFiniteSet(Rids) => VersionsCounted
=============================================================================
