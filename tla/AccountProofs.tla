---------------------------- MODULE AccountProofs ----------------------------
(***************************************************************************)
(* Proofs about Account, for any users, request ids, callers, cooldown and *)
(* bounds.  Each step of a handler is first reduced to its effect: the     *)
(* request ends, goes on or starts, and what it does to the store.         *)
(***************************************************************************)
EXTENDS Account, KeyedMutexProofs

-----------------------------------------------------------------------------
(* What a step of a request does to the requests and to the lock.          *)
OthersStay(r) == \A s \in Callers : s # r => req'[s] = req[s] /\ caller'[s] = caller[s]
SameJob(r) == /\ req'[r].kind = req[r].kind
              /\ req'[r].uid = req[r].uid
              /\ req'[r].rid = req[r].rid
KeepsRead(r) == req'[r].read = req[r].read
KeepsTodo(r) == req'[r].todo = req[r].todo
KeepsAnswer(r) == req'[r].answer = req[r].answer

Ends(r) == RequestTypes' /\ OthersStay(r) /\ req'[r] = Idle /\ caller'[r].at \in {"out", "drop"}
Goes(r, pc) == RequestTypes' /\ OthersStay(r) /\ SameJob(r) /\ req'[r].pc = pc /\ caller'[r] = caller[r]
               /\ req'[r].read \in {req[r].read, profile[req[r].uid]}
Keeps(r) == KeepsRead(r) /\ KeepsTodo(r) /\ KeepsAnswer(r)

Starts(r, k, pc, u) ==
  /\ RequestTypes' /\ OthersStay(r)
  /\ req[r] = Idle /\ caller[r].at = "out"
  /\ req'[r].kind = k /\ req'[r].pc = pc /\ req'[r].uid = u
  /\ req'[r].todo = {} /\ req'[r].read = NoProfile

LEMMA IdleRecord == Idle \in RequestRecords
BY DEF Idle, RequestRecords, Kinds, Profiles, NoProfile, Pcs

LEMMA SetReqDoes ==
  ASSUME RequestTypes, NEW r \in Callers, NEW q \in RequestRecords, SetReq(r, q)
  PROVE  RequestTypes' /\ req'[r] = q /\ \A s \in Callers : s # r => req'[s] = req[s]
BY DEF SetReq, RequestTypes

LEMMA GotoDoes ==
  ASSUME RequestTypes, NEW r \in Callers, NEW pc \in Pcs, Goto(r, pc)
  PROVE  /\ RequestTypes' /\ SameJob(r) /\ Keeps(r) /\ req'[r].pc = pc
         /\ \A s \in Callers : s # r => req'[s] = req[s]
<1>. DEFINE q == [req[r] EXCEPT !.pc = pc]
<1>1. req[r] \in RequestRecords
  BY DEF RequestTypes
<1>2. q \in RequestRecords /\ q.pc = pc /\ q.kind = req[r].kind /\ q.uid = req[r].uid
      /\ q.rid = req[r].rid /\ q.read = req[r].read /\ q.todo = req[r].todo
      /\ q.answer = req[r].answer
  BY <1>1 DEF RequestRecords
<1>3. SetReq(r, q)
  BY DEF Goto
<1>. HIDE DEF q
<1>. QED  BY <1>2, <1>3, SetReqDoes DEF SameJob, Keeps, KeepsRead, KeepsTodo, KeepsAnswer

(* The handler goes on and keeps the lock it holds.                        *)
LEMMA HoldsOn ==
  ASSUME RequestTypes, NEW r \in Callers, NEW pc \in Pcs, Goto(r, pc), UNCHANGED mutexVars
  PROVE  Goes(r, pc) /\ Keeps(r)
BY GotoDoes DEF Goes, OthersStay, mutexVars, Keeps, KeepsRead

(* It answers and drops its guard, or answers and has none.                *)
LEMMA AnswerEnds ==
  ASSUME RequestTypes, MutexTypeOK, NEW r \in Callers, AnswerLocked(r)
  PROVE  Ends(r) /\ caller[r].at = "in"
<1>1. RequestTypes' /\ req'[r] = Idle /\ \A s \in Callers : s # r => req'[s] = req[s]
  BY SetReqDoes, IdleRecord DEF AnswerLocked
<1>2. caller'[r].at = "drop" /\ \A s \in Callers : s # r => caller'[s] = caller[s]
  BY DEF AnswerLocked, DropGuard, MutexTypeOK
<1>. QED  BY <1>1, <1>2 DEF Ends, OthersStay, AnswerLocked

LEMMA DoneEnds ==
  ASSUME RequestTypes, NEW r \in Callers, Done(r), UNCHANGED mutexVars, caller[r].at = "out"
  PROVE  Ends(r)
BY SetReqDoes, IdleRecord DEF Done, Ends, OthersStay, mutexVars

LEMMA RequestStarts ==
  ASSUME RequestTypes, RequestsKnown, NEW r \in Callers, Ready(r), NEW k \in Kinds,
         NEW pc \in Pcs, NEW u \in Uids, NEW i \in Rids \cup {0},
         SetReq(r, [Request(k, pc, u) EXCEPT !.rid = i]),
         \A s \in Callers : s # r => caller'[s] = caller[s]
  PROVE  Starts(r, k, pc, u) /\ req'[r].rid = i
<1>. DEFINE q == [Request(k, pc, u) EXCEPT !.rid = i]
<1>0. Idle.todo = {} /\ Idle.read = NoProfile /\ Idle.rid = 0
  BY DEF Idle
<1>1. q \in RequestRecords /\ q.kind = k /\ q.pc = pc /\ q.uid = u /\ q.rid = i /\ q.todo = {}
      /\ q.read = NoProfile
  BY IdleRecord, <1>0 DEF Request, RequestRecords
<1>2. req[r] = Idle /\ caller[r].at = "out"
  BY DEF Ready, RequestsKnown, Fits, At, ClaimPcs, RotPcs, EditPcs, DelPcs
<1>3. SetReq(r, q)
  OBVIOUS
<1>. HIDE DEF q
<1>. QED  BY <1>1, <1>2, <1>3, SetReqDoes DEF Starts, OthersStay

LEMMA RequestStartsPlain ==
  ASSUME RequestTypes, RequestsKnown, NEW r \in Callers, Ready(r), NEW k \in Kinds,
         NEW pc \in Pcs, NEW u \in Uids, SetReq(r, Request(k, pc, u)),
         \A s \in Callers : s # r => caller'[s] = caller[s]
  PROVE  Starts(r, k, pc, u)
<1>. DEFINE q == Request(k, pc, u)
<1>0. Idle.todo = {} /\ Idle.read = NoProfile /\ Idle.rid = 0
  BY DEF Idle
<1>1. q \in RequestRecords /\ q.kind = k /\ q.pc = pc /\ q.uid = u /\ q.todo = {} /\ q.read = NoProfile
  BY IdleRecord, <1>0 DEF Request, RequestRecords
<1>2. req[r] = Idle /\ caller[r].at = "out"
  BY DEF Ready, RequestsKnown, Fits, At, ClaimPcs, RotPcs, EditPcs, DelPcs
<1>3. SetReq(r, q)
  OBVIOUS
<1>. HIDE DEF q
<1>. QED  BY <1>1, <1>2, <1>3, SetReqDoes DEF Starts, OthersStay

(* What every step may count on.                                           *)
Typed == RequestTypes /\ ObjectTypes /\ MutexTypeOK /\ RequestsKnown /\ LocksHeld

(* The objects a step leaves alone, beside those it names.                 *)
SameStore  == UNCHANGED <<handle, profile, devices, records>>
SameClient == UNCHANGED <<plan, minted, registered, leaving, answers>>
Counts     == faults' \in Nat /\ faults' <= MaxFaults /\ faults' >= faults

LEMMA CallCounts ==
  ASSUME ObjectTypes, NEW ok \in BOOLEAN, Call(ok)
  PROVE  Counts /\ (faults' = 0 => ok)
BY AccountBounds DEF Call, Counts, ObjectTypes

-----------------------------------------------------------------------------
(* The effect of each step of a registration.                              *)

LEMMA StartRegisterDoes ==
  ASSUME Typed, NEW r \in Callers, StartRegister(r)
  PROVE  /\ \E u \in Uids \ minted :
              /\ \A s \in Callers : req[s].uid # u
              /\ Starts(r, "register", "reg_get", u)
         /\ caller'[r].at = "wait" /\ caller'[r].key = Handle
         /\ SameStore /\ SameClient /\ UNCHANGED <<today, faults>>
<1>1. PICK u \in NewUids : SetReq(r, Request("register", "reg_get", u)) /\ Bump(r, Handle)
  BY DEF StartRegister, ClaimLock
<1>2. /\ u \in Uids \ minted
      /\ \A s \in Callers : req[s].uid # u
  BY DEF NewUids
<1>3. /\ \A s \in Callers : s # r => caller'[s] = caller[s]
      /\ caller'[r].at = "wait" /\ caller'[r].key = Handle
  BY <1>1 DEF Bump, Typed, MutexTypeOK
<1>4. Ready(r) /\ "register" \in Kinds /\ "reg_get" \in Pcs
  BY DEF StartRegister, Kinds, Pcs
<1>5. Starts(r, "register", "reg_get", u)
  BY <1>1, <1>2, <1>3, <1>4, RequestStartsPlain DEF Typed
<1>. QED  BY <1>2, <1>3, <1>5 DEF StartRegister, SameStore, SameClient, objects, clientVars

LEMMA RegGetDoes ==
  ASSUME Typed, NEW r \in Callers, RegGet(r)
  PROVE  /\ At(r, "reg_get") /\ caller[r].at = "in"
         /\ \/ Ends(r)
            \/ Goes(r, "reg_handle") /\ handle.kind = "free"
            \/ Goes(r, "reg_unbury") /\ handle.kind = "released" /\ ~CoolingDown(handle)
         /\ SameStore /\ SameClient /\ Counts /\ UNCHANGED today
<1>1. PICK ok \in BOOLEAN :
        /\ Call(ok)
        /\ IF ~ok \/ handle.kind = "owned" \/ CoolingDown(handle)
           THEN AnswerLocked(r)
           ELSE /\ Holding(r)
                /\ Goto(r, IF handle.kind = "free" THEN "reg_handle" ELSE "reg_unbury")
  BY DEF RegGet
<1>2. CASE AnswerLocked(r)
  BY <1>1, <1>2, AnswerEnds, CallCounts DEF RegGet, Typed, SameStore, SameClient, objects, clientVars
<1>3. CASE /\ handle.kind # "owned" /\ ~CoolingDown(handle) /\ Holding(r)
           /\ Goto(r, IF handle.kind = "free" THEN "reg_handle" ELSE "reg_unbury")
  <2>1. handle.kind \in {"free", "released"} /\ {"reg_handle", "reg_unbury"} \subseteq Pcs
    BY <1>3 DEF Typed, ObjectTypes, Pcs, ClaimPcs
  <2>. QED  BY <1>1, <1>3, <2>1, HoldsOn, CallCounts
            DEF RegGet, Typed, SameStore, SameClient, objects, clientVars, Holding
<1>. QED  BY <1>1, <1>2, <1>3

LEMMA RegDeleteTombstoneDoes ==
  ASSUME Typed, NEW r \in Callers, RegDeleteTombstone(r)
  PROVE  /\ At(r, "reg_unbury") /\ handle' \in {handle, Free}
         /\ Ends(r) \/ (Goes(r, "reg_handle") /\ handle' = Free)
         /\ UNCHANGED <<profile, devices, records, today>> /\ SameClient /\ Counts
<1>1. PICK ok \in BOOLEAN :
        /\ Call(ok) /\ handle' \in Outcomes(handle, Free, ok)
        /\ IF ok THEN Holding(r) /\ Goto(r, "reg_handle") ELSE AnswerLocked(r)
  BY DEF RegDeleteTombstone
<1>2. "reg_handle" \in Pcs
  BY DEF Pcs, ClaimPcs
<1>. QED  BY <1>1, <1>2, HoldsOn, AnswerEnds, CallCounts
          DEF RegDeleteTombstone, Typed, SameClient, clientVars, Holding, Outcomes

LEMMA RegPutHandleDoes ==
  ASSUME Typed, NEW r \in Callers, RegPutHandle(r)
  PROVE  /\ At(r, "reg_handle") /\ handle' \in {handle, Owned(req[r].uid, 1)}
         /\ minted' = minted \cup {req[r].uid}
         /\ Ends(r) \/ (Goes(r, "reg_profile") /\ handle' = Owned(req[r].uid, 1))
         /\ UNCHANGED <<profile, devices, records, plan, registered, leaving, answers, today>> /\ Counts
<1>1. PICK ok \in BOOLEAN :
        /\ Call(ok) /\ handle' \in Outcomes(handle, Owned(req[r].uid, 1), ok)
        /\ IF ok THEN Holding(r) /\ Goto(r, "reg_profile") ELSE AnswerLocked(r)
  BY DEF RegPutHandle
<1>2. "reg_profile" \in Pcs
  BY DEF Pcs, ClaimPcs
<1>. QED  BY <1>1, <1>2, HoldsOn, AnswerEnds, CallCounts
          DEF RegPutHandle, Typed, Holding, Outcomes

LEMMA RegPutProfileDoes ==
  ASSUME Typed, NEW r \in Callers, RegPutProfile(r)
  PROVE  /\ At(r, "reg_profile")
         /\ \E p \in {NoProfile, [kv |-> 1, cred |-> 0]} :
              /\ profile' = [profile EXCEPT ![req[r].uid] = p]
              /\ Goes(r, "reg_undo_claim") \/ (Goes(r, "reg_device") /\ p = [kv |-> 1, cred |-> 0])
         /\ UNCHANGED <<handle, devices, records, today>> /\ SameClient /\ Counts
<1>1. PICK ok \in BOOLEAN :
        /\ Call(ok)
        /\ \E p \in Outcomes(NoProfile, [kv |-> 1, cred |-> 0], ok) :
             profile' = [profile EXCEPT ![req[r].uid] = p]
        /\ Goto(r, IF ok THEN "reg_device" ELSE "reg_undo_claim")
  BY DEF RegPutProfile
<1>2. {"reg_device", "reg_undo_claim"} \subseteq Pcs
  BY DEF Pcs, ClaimPcs
<1>. QED  BY <1>1, <1>2, HoldsOn, CallCounts
          DEF RegPutProfile, Typed, SameClient, clientVars, Holding, Outcomes

LEMMA RegPutDeviceDoes ==
  ASSUME Typed, NEW r \in Callers, RegPutDevice(r)
  PROVE  /\ At(r, "reg_device")
         /\ devices' \in {devices, devices \cup {req[r].uid}}
         /\ \/ /\ Ends(r) /\ registered' = registered \cup {req[r].uid}
               /\ devices' = devices \cup {req[r].uid}
            \/ Goes(r, "reg_undo") /\ UNCHANGED registered /\ faults' # 0
         /\ UNCHANGED <<handle, profile, records, plan, minted, leaving, answers, today>> /\ Counts
<1>1. PICK ok \in BOOLEAN :
        /\ Call(ok) /\ devices' \in Outcomes(devices, devices \cup {req[r].uid}, ok)
        /\ IF ok
           THEN AnswerLocked(r) /\ registered' = registered \cup {req[r].uid}
           ELSE Holding(r) /\ Goto(r, "reg_undo") /\ UNCHANGED registered
  BY DEF RegPutDevice
<1>2. "reg_undo" \in Pcs
  BY DEF Pcs, ClaimPcs
<1>. QED  BY <1>1, <1>2, HoldsOn, AnswerEnds, CallCounts
          DEF RegPutDevice, Typed, Holding, Outcomes

LEMMA RegUndoHandleDoes ==
  ASSUME Typed, NEW r \in Callers, RegUndoHandle(r)
  PROVE  /\ req[r].pc \in {"reg_undo_claim", "reg_undo"} /\ handle' \in {handle, Free}
         /\ Ends(r) \/ (At(r, "reg_undo") /\ Goes(r, "reg_undo_profile"))
         /\ UNCHANGED <<profile, devices, records, today>> /\ SameClient /\ Counts
<1>1. PICK ok \in BOOLEAN : Call(ok) /\ handle' \in Outcomes(handle, Free, ok)
  BY DEF RegUndoHandle
<1>2. "reg_undo_profile" \in Pcs
  BY DEF Pcs, ClaimPcs
<1>. QED  BY <1>1, <1>2, HoldsOn, AnswerEnds, CallCounts
          DEF RegUndoHandle, Typed, SameClient, clientVars, Holding, Outcomes

LEMMA RegUndoProfileDoes ==
  ASSUME Typed, NEW r \in Callers, RegUndoProfile(r)
  PROVE  /\ At(r, "reg_undo_profile") /\ Ends(r)
         /\ \E p \in {profile[req[r].uid], NoProfile} : profile' = [profile EXCEPT ![req[r].uid] = p]
         /\ UNCHANGED <<handle, devices, records, today>> /\ SameClient /\ Counts
<1>1. PICK ok \in BOOLEAN :
        /\ Call(ok)
        /\ \E p \in Outcomes(profile[req[r].uid], NoProfile, ok) :
             profile' = [profile EXCEPT ![req[r].uid] = p]
  BY DEF RegUndoProfile
<1>. QED  BY <1>1, AnswerEnds, CallCounts
          DEF RegUndoProfile, Typed, SameClient, clientVars, Outcomes

-----------------------------------------------------------------------------
(* The effect of each step of a rotation.                                  *)

LEMMA StartRotateDoes ==
  ASSUME Typed, NEW r \in Callers, StartRotate(r)
  PROVE  /\ \E u \in Uids, i \in Rids, c \in Rids \cup {0} :
              /\ MayStart(u, "rotate") /\ plan[i].uid \in {0, u}
              /\ plan' = IF plan[i].uid = u THEN plan
                         ELSE [plan EXCEPT ![i] = [uid |-> u, kv |-> profile[u].kv + 1, cred |-> c]]
              /\ Starts(r, "rotate", "rot_load", u) /\ req'[r].rid = i
              /\ caller'[r].at = "wait" /\ caller'[r].key = u
         /\ SameStore /\ UNCHANGED <<minted, registered, leaving, answers, today, faults>>
<1>1. PICK u \in Uids, i \in Rids, c \in Rids \cup {0} :
       /\ MayStart(u, "rotate")
       /\ plan[i].uid \in {0, u}
       /\ plan' = IF plan[i].uid = u THEN plan
                  ELSE [plan EXCEPT ![i] = [uid |-> u, kv |-> profile[u].kv + 1, cred |-> c]]
       /\ SetReq(r, [Request("rotate", "rot_load", u) EXCEPT !.rid = i])
       /\ Bump(r, u)
  BY DEF StartRotate, RotationLock
<1>2. /\ \A s \in Callers : s # r => caller'[s] = caller[s]
      /\ caller'[r].at = "wait" /\ caller'[r].key = u
  BY <1>1 DEF Bump, Typed, MutexTypeOK
<1>3. Ready(r) /\ "rotate" \in Kinds /\ "rot_load" \in Pcs
  BY DEF StartRotate, Kinds, Pcs
<1>4. Starts(r, "rotate", "rot_load", u) /\ req'[r].rid = i
  BY <1>1, <1>2, <1>3, RequestStarts DEF Typed
<1>. QED  BY <1>1, <1>2, <1>4 DEF StartRotate, SameStore, objects

LEMMA RotLoadDoes ==
  ASSUME Typed, NEW r \in Callers, RotLoad(r)
  PROVE  /\ At(r, "rot_load") /\ caller[r].at = "in"
         /\ \/ /\ Ends(r) /\ records[req[r].rid] # "none"
               /\ answers' = answers \cup {<<req[r].rid, records[req[r].rid]>>}
            \/ /\ Goes(r, "rot_get") /\ UNCHANGED answers
               /\ faults' = 0 => records[req[r].rid] = "none"
         /\ SameStore /\ UNCHANGED <<plan, minted, registered, leaving, today>> /\ Counts
<1>1. PICK ok \in BOOLEAN :
       /\ Call(ok)
       /\ IF ok /\ records[req[r].rid] # "none"
          THEN AnswerLocked(r) /\ Answer(r, records[req[r].rid])
          ELSE Holding(r) /\ Goto(r, "rot_get") /\ UNCHANGED answers
  BY DEF RotLoad
<1>2. "rot_get" \in Pcs
  BY DEF Pcs, RotPcs
<1>. QED  BY <1>1, <1>2, HoldsOn, AnswerEnds, CallCounts
          DEF RotLoad, Typed, SameStore, objects, Holding, Answer

LEMMA RotGetDoes ==
  ASSUME Typed, NEW r \in Callers, RotGet(r)
  PROVE  /\ At(r, "rot_get")
         /\ \/ Ends(r)
            \/ /\ Exists(profile[req[r].uid])
               /\ req'[r].answer = Verdict(profile[req[r].uid], plan[req[r].rid])
               /\ Goes(r, IF req'[r].answer = "ok" THEN "rot_put" ELSE "rot_save") /\ KeepsRead(r)
         /\ SameStore /\ SameClient /\ Counts /\ UNCHANGED today
<1>. DEFINE a == Verdict(profile[req[r].uid], plan[req[r].rid])
            pc == IF a = "ok" THEN "rot_put" ELSE "rot_save"
            q == [req[r] EXCEPT !.answer = a, !.pc = pc]
<1>1. PICK ok \in BOOLEAN :
       /\ Call(ok)
       /\ IF ok /\ Exists(profile[req[r].uid])
          THEN Holding(r) /\ SetReq(r, q)
          ELSE AnswerLocked(r)
  BY DEF RotGet
<1>2. CASE AnswerLocked(r)
  BY <1>1, <1>2, AnswerEnds, CallCounts DEF RotGet, Typed, SameStore, SameClient, objects, clientVars
<1>3. CASE Exists(profile[req[r].uid]) /\ Holding(r) /\ SetReq(r, q)
  <2>1. a \in Answers /\ pc \in Pcs
    BY DEF Verdict, Answers, Pcs, RotPcs
  <2>2. req[r] \in RequestRecords
    BY DEF Typed, RequestTypes
  <2>3. q \in RequestRecords /\ q.answer = a /\ q.pc = pc /\ q.kind = req[r].kind
        /\ q.uid = req[r].uid /\ q.rid = req[r].rid /\ q.read = req[r].read
    <3>. HIDE DEF a, pc
    <3>. QED  BY <2>1, <2>2 DEF RequestRecords
  <2>4. Goes(r, pc) /\ req'[r].answer = a /\ KeepsRead(r)
    <3>. HIDE DEF q, pc, a
    <3>. QED  BY <1>3, <2>3, SetReqDoes DEF Typed, Goes, OthersStay, SameJob, KeepsRead, Holding, mutexVars
  <2>. QED  BY <1>1, <1>3, <2>4, CallCounts
            DEF RotGet, Typed, SameStore, SameClient, objects, clientVars
<1>. QED  BY <1>1, <1>2, <1>3

LEMMA RotPutDoes ==
  ASSUME Typed, NEW r \in Callers, RotPut(r)
  PROVE  /\ At(r, "rot_put")
         /\ \E p \in {profile[req[r].uid], Rotated(r)} :
              /\ profile' = [profile EXCEPT ![req[r].uid] = p]
              /\ \/ Ends(r) /\ faults' # 0
                 \/ Goes(r, "rot_project") /\ KeepsAnswer(r) /\ p = Rotated(r)
         /\ UNCHANGED <<handle, devices, records, today>> /\ SameClient /\ Counts
<1>1. PICK ok \in BOOLEAN :
       /\ Call(ok)
       /\ \E p \in Outcomes(profile[req[r].uid], Rotated(r), ok) :
            profile' = [profile EXCEPT ![req[r].uid] = p]
       /\ IF ok THEN Holding(r) /\ Goto(r, "rot_project") ELSE AnswerLocked(r)
  BY DEF RotPut
<1>2. "rot_project" \in Pcs
  BY DEF Pcs, RotPcs
<1>. QED  BY <1>1, <1>2, HoldsOn, AnswerEnds, CallCounts
          DEF RotPut, Typed, SameClient, clientVars, Holding, Outcomes, Keeps

LEMMA RotProjectDoes ==
  ASSUME Typed, NEW r \in Callers, RotProject(r)
  PROVE  /\ At(r, "rot_project") /\ Goes(r, "rot_save") /\ KeepsAnswer(r)
         /\ handle' \in {handle, Owned(req[r].uid, Rotated(r).kv)}
         /\ faults' = 0 => handle' = Owned(req[r].uid, Rotated(r).kv)
         /\ UNCHANGED <<profile, devices, records, today>> /\ SameClient /\ Counts
<1>1. PICK ok \in BOOLEAN :
       /\ Call(ok) /\ handle' \in Outcomes(handle, Owned(req[r].uid, Rotated(r).kv), ok)
  BY DEF RotProject
<1>2. "rot_save" \in Pcs
  BY DEF Pcs, RotPcs
<1>. QED  BY <1>1, <1>2, HoldsOn, CallCounts
          DEF RotProject, Typed, SameClient, clientVars, Holding, Outcomes, Keeps

LEMMA RotSaveDoes ==
  ASSUME Typed, NEW r \in Callers, RotSave(r)
  PROVE  /\ At(r, "rot_save") /\ Ends(r)
         /\ \E x \in {records[req[r].rid], req[r].answer} :
              /\ records' = [records EXCEPT ![req[r].rid] = x]
              /\ faults' = 0 => x = req[r].answer
         /\ answers' = answers \cup {<<req[r].rid, req[r].answer>>}
         /\ UNCHANGED <<handle, profile, devices, plan, minted, registered, leaving, today>> /\ Counts
<1>1. PICK ok \in BOOLEAN :
       /\ Call(ok)
       /\ \E x \in Outcomes(records[req[r].rid], req[r].answer, ok) :
            records' = [records EXCEPT ![req[r].rid] = x]
  BY DEF RotSave
<1>. QED  BY <1>1, AnswerEnds, CallCounts DEF RotSave, Typed, Outcomes, Answer

-----------------------------------------------------------------------------
(* The effect of each step of an edit and of a deletion.                   *)

LEMMA StartEditDoes ==
  ASSUME Typed, NEW r \in Callers, StartEdit(r)
  PROVE  /\ \E u \in Uids, k \in {"update", "touch"} :
              MayStart(u, k) /\ Starts(r, k, "edit_get", u)
         /\ SameStore /\ SameClient /\ UNCHANGED <<mutexVars, today, faults>>
<1>1. PICK u \in Uids, k \in {"update", "touch"} :
        MayStart(u, k) /\ SetReq(r, Request(k, "edit_get", u))
  BY DEF StartEdit
<1>2. Ready(r) /\ k \in Kinds /\ "edit_get" \in Pcs /\ UNCHANGED caller
  BY DEF StartEdit, Kinds, Pcs, EditPcs, mutexVars
<1>. QED  BY <1>1, <1>2, RequestStartsPlain DEF StartEdit, Typed, SameStore, SameClient, objects, clientVars

LEMMA EditGetDoes ==
  ASSUME Typed, NEW r \in Callers, EditGet(r)
  PROVE  /\ At(r, "edit_get")
         /\ \/ Ends(r)
            \/ /\ Exists(profile[req[r].uid]) /\ Goes(r, "edit_put")
               /\ req'[r].read = profile[req[r].uid]
         /\ SameStore /\ SameClient /\ UNCHANGED <<mutexVars, today>> /\ Counts
<1>. DEFINE q == [req[r] EXCEPT !.pc = "edit_put", !.read = profile[req[r].uid]]
<1>1. PICK ok \in BOOLEAN :
       /\ Call(ok)
       /\ IF ok /\ Exists(profile[req[r].uid]) THEN SetReq(r, q) ELSE Done(r)
  BY DEF EditGet
<1>2. CASE Done(r)
  BY <1>1, <1>2, DoneEnds, CallCounts
     DEF EditGet, Typed, SameStore, SameClient, objects, clientVars, LocksHeld, At, EditPcs
<1>3. CASE Exists(profile[req[r].uid]) /\ SetReq(r, q)
  <2>1. "edit_put" \in Pcs /\ profile[req[r].uid] \in Profiles
    BY DEF Pcs, EditPcs, Typed, ObjectTypes, RequestsKnown, Fits, At, EditGet, ClaimPcs, RotPcs, DelPcs
  <2>2. req[r] \in RequestRecords
    BY DEF Typed, RequestTypes
  <2>3. q \in RequestRecords /\ q.read = profile[req[r].uid] /\ q.pc = "edit_put"
        /\ q.kind = req[r].kind /\ q.uid = req[r].uid /\ q.rid = req[r].rid
    BY <2>1, <2>2 DEF RequestRecords
  <2>4. Goes(r, "edit_put") /\ req'[r].read = profile[req[r].uid]
    <3>. HIDE DEF q
    <3>. QED  BY <1>3, <2>3, SetReqDoes DEF Typed, Goes, OthersStay, SameJob, EditGet, mutexVars
  <2>. QED  BY <1>1, <1>3, <2>4, CallCounts
            DEF EditGet, Typed, SameStore, SameClient, objects, clientVars
<1>. QED  BY <1>1, <1>2, <1>3

LEMMA EditPutDoes ==
  ASSUME Typed, NEW r \in Callers, EditPut(r)
  PROVE  /\ At(r, "edit_put")
         /\ \E p \in {profile[req[r].uid], req[r].read} : profile' = [profile EXCEPT ![req[r].uid] = p]
         /\ Ends(r) \/ (Goes(r, "edit_project") /\ KeepsRead(r))
         /\ UNCHANGED <<handle, devices, records, today>> /\ SameClient /\ UNCHANGED mutexVars /\ Counts
<1>1. PICK ok \in BOOLEAN :
       /\ Call(ok)
       /\ \E p \in Outcomes(profile[req[r].uid], req[r].read, ok) :
            profile' = [profile EXCEPT ![req[r].uid] = p]
       /\ IF ok /\ req[r].kind = "update" THEN Goto(r, "edit_project") ELSE Done(r)
  BY DEF EditPut
<1>2. "edit_project" \in Pcs /\ caller[r].at = "out" /\ At(r, "edit_put")
  BY DEF Pcs, EditPcs, EditPut, Typed, LocksHeld, At
<1>3. /\ Call(ok) /\ UNCHANGED <<handle, devices, records, today>> /\ SameClient /\ UNCHANGED mutexVars
      /\ \E p \in {profile[req[r].uid], req[r].read} : profile' = [profile EXCEPT ![req[r].uid] = p]
  BY <1>1 DEF EditPut, Outcomes, SameClient, clientVars
<1>4. Ends(r) \/ (Goes(r, "edit_project") /\ KeepsRead(r))
  BY <1>1, <1>2, <1>3, HoldsOn, DoneEnds DEF Typed, Keeps
<1>. QED  BY <1>2, <1>3, <1>4, CallCounts DEF Typed

LEMMA EditProjectDoes ==
  ASSUME Typed, NEW r \in Callers, EditProject(r)
  PROVE  /\ At(r, "edit_project") /\ Ends(r)
         /\ handle' \in {handle, Owned(req[r].uid, req[r].read.kv)}
         /\ UNCHANGED <<profile, devices, records, today>> /\ SameClient /\ UNCHANGED mutexVars /\ Counts
<1>1. PICK ok \in BOOLEAN :
       /\ Call(ok) /\ handle' \in Outcomes(handle, Owned(req[r].uid, req[r].read.kv), ok)
  BY DEF EditProject
<1>2. caller[r].at = "out"
  BY DEF EditProject, Typed, LocksHeld, At, EditPcs
<1>. QED  BY <1>1, <1>2, DoneEnds, CallCounts DEF EditProject, Typed, Outcomes, SameClient, clientVars

LEMMA StartDeleteDoes ==
  ASSUME Typed, NEW r \in Callers, StartDelete(r)
  PROVE  /\ \E u \in Uids : /\ MayStart(u, "delete") /\ Starts(r, "delete", "del_get", u)
                           /\ leaving' = leaving \cup {u}
         /\ SameStore /\ UNCHANGED <<mutexVars, plan, minted, registered, answers, today, faults>>
<1>1. PICK u \in Uids : /\ MayStart(u, "delete") /\ SetReq(r, Request("delete", "del_get", u))
                       /\ leaving' = leaving \cup {u}
  BY DEF StartDelete
<1>2. Ready(r) /\ "delete" \in Kinds /\ "del_get" \in Pcs /\ UNCHANGED caller
  BY DEF StartDelete, Kinds, Pcs, DelPcs, mutexVars
<1>. QED  BY <1>1, <1>2, RequestStartsPlain DEF StartDelete, Typed, SameStore, objects

LEMMA DelGetDoes ==
  ASSUME Typed, NEW r \in Callers, DelGet(r)
  PROVE  /\ At(r, "del_get") /\ (Ends(r) \/ Goes(r, "del_list"))
         /\ SameStore /\ SameClient /\ UNCHANGED <<mutexVars, today>> /\ Counts
<1>1. PICK ok \in BOOLEAN : Call(ok) /\ (Goto(r, "del_list") \/ Done(r))
  BY DEF DelGet
<1>2. "del_list" \in Pcs /\ caller[r].at = "out"
  BY DEF Pcs, DelPcs, DelGet, Typed, LocksHeld, At
<1>3. At(r, "del_get") /\ SameStore /\ SameClient /\ UNCHANGED <<mutexVars, today>>
  BY DEF DelGet, SameStore, SameClient, objects, clientVars
<1>. QED  BY <1>1, <1>2, <1>3, HoldsOn, DoneEnds, CallCounts DEF Typed

LEMMA DelListDoes ==
  ASSUME Typed, NEW r \in Callers, DelList(r)
  PROVE  /\ At(r, "del_list")
         /\ \/ Ends(r)
            \/ /\ Goes(r, "del_files")
               /\ "device" \notin req'[r].todo => req[r].uid \notin devices
         /\ SameStore /\ SameClient /\ UNCHANGED <<mutexVars, today>> /\ Counts
<1>. DEFINE q == [req[r] EXCEPT !.pc = "del_files", !.todo = FilesOf(req[r].uid)]
<1>1. PICK ok \in BOOLEAN : Call(ok) /\ (SetReq(r, q) \/ Done(r))
  BY DEF DelList
<1>2. CASE Done(r)
  BY <1>1, <1>2, DoneEnds, CallCounts
     DEF DelList, Typed, SameStore, SameClient, objects, clientVars, LocksHeld, At
<1>3. CASE SetReq(r, q)
  <2>1. /\ "del_files" \in Pcs /\ FilesOf(req[r].uid) \in SUBSET Files
        /\ "device" \notin FilesOf(req[r].uid) => req[r].uid \notin devices
    BY DEF Pcs, DelPcs, FilesOf, Files
  <2>2. req[r] \in RequestRecords
    BY DEF Typed, RequestTypes
  <2>3. q \in RequestRecords /\ q.todo = FilesOf(req[r].uid) /\ q.pc = "del_files"
        /\ q.kind = req[r].kind /\ q.uid = req[r].uid /\ q.rid = req[r].rid /\ q.read = req[r].read
    BY <2>1, <2>2 DEF RequestRecords
  <2>4. Goes(r, "del_files") /\ req'[r].todo = FilesOf(req[r].uid)
    <3>. HIDE DEF q
    <3>. QED  BY <1>3, <2>3, SetReqDoes DEF Typed, Goes, OthersStay, SameJob, DelList, mutexVars
  <2>. QED  BY <1>1, <1>3, <2>1, <2>4, CallCounts
            DEF DelList, Typed, SameStore, SameClient, objects, clientVars
<1>. QED  BY <1>1, <1>2, <1>3

LEMMA DelFileDoes ==
  ASSUME Typed, NEW r \in Callers, DelFile(r)
  PROVE  /\ At(r, "del_files")
         /\ \E f \in req[r].todo :
              /\ Remove(req[r].uid, f) \/ UNCHANGED <<profile, devices, records>>
              /\ \/ Ends(r) /\ faults' # 0
                 \/ /\ Goes(r, "del_files") /\ req'[r].todo = req[r].todo \ {f}
                    /\ Remove(req[r].uid, f)
         /\ UNCHANGED <<handle, today>> /\ SameClient /\ UNCHANGED mutexVars /\ Counts
<1>1. PICK f \in req[r].todo, ok \in BOOLEAN :
       /\ Call(ok)
       /\ \/ Remove(req[r].uid, f)
          \/ ~ok /\ UNCHANGED <<profile, devices, records>>
       /\ IF ok THEN SetReq(r, [req[r] EXCEPT !.todo = @ \ {f}]) ELSE Done(r)
  BY DEF DelFile
<1>. DEFINE q == [req[r] EXCEPT !.todo = @ \ {f}]
<1>2. /\ At(r, "del_files") /\ caller[r].at = "out"
      /\ UNCHANGED <<handle, today>> /\ SameClient /\ UNCHANGED mutexVars
  BY DEF DelFile, At, Typed, LocksHeld, SameClient, clientVars
<1>3. CASE ok /\ SetReq(r, q) /\ Remove(req[r].uid, f)
  <2>1. req[r] \in RequestRecords
    BY DEF Typed, RequestTypes
  <2>2. q \in RequestRecords /\ q.todo = req[r].todo \ {f} /\ q.pc = req[r].pc
        /\ q.kind = req[r].kind /\ q.uid = req[r].uid /\ q.rid = req[r].rid /\ q.read = req[r].read
    BY <2>1 DEF RequestRecords
  <2>3. Goes(r, "del_files") /\ req'[r].todo = req[r].todo \ {f}
    <3>. HIDE DEF q
    <3>. QED  BY <1>2, <1>3, <2>2, SetReqDoes DEF Typed, Goes, OthersStay, SameJob, At, mutexVars
  <2>. QED  BY <1>1, <1>2, <1>3, <2>3, CallCounts DEF Typed
<1>4. CASE ~ok /\ Done(r) /\ (Remove(req[r].uid, f) \/ UNCHANGED <<profile, devices, records>>)
  BY <1>1, <1>2, <1>4, DoneEnds, CallCounts DEF Typed
<1>. QED  BY <1>1, <1>3, <1>4

LEMMA DelLockDoes ==
  ASSUME Typed, NEW r \in Callers, DelLock(r)
  PROVE  /\ At(r, "del_files") /\ req[r].todo = {}
         /\ RequestTypes' /\ OthersStay(r) /\ SameJob(r) /\ KeepsRead(r) /\ req'[r].pc = "del_bury"
         /\ caller'[r].at = "wait" /\ caller'[r].key = Handle
         /\ SameStore /\ SameClient /\ UNCHANGED <<today, faults>>
<1>1. Goto(r, "del_bury") /\ Bump(r, Handle) /\ "del_bury" \in Pcs
  BY DEF DelLock, Pcs, DelPcs
<1>2. /\ \A s \in Callers : s # r => caller'[s] = caller[s]
      /\ caller'[r].at = "wait" /\ caller'[r].key = Handle
  BY <1>1 DEF Bump, Typed, MutexTypeOK
<1>. QED  BY <1>1, <1>2, GotoDoes DEF DelLock, Typed, OthersStay, Keeps, SameStore, SameClient, objects, clientVars

LEMMA DelTombstoneDoes ==
  ASSUME Typed, NEW r \in Callers, DelTombstone(r)
  PROVE  /\ At(r, "del_bury") /\ Ends(r) /\ handle' \in {handle, Released(today)}
         /\ UNCHANGED <<profile, devices, records, today>> /\ SameClient /\ Counts
<1>1. PICK ok \in BOOLEAN : Call(ok) /\ handle' \in Outcomes(handle, Released(today), ok)
  BY DEF DelTombstone
<1>. QED  BY <1>1, AnswerEnds, CallCounts DEF DelTombstone, Typed, Outcomes, SameClient, clientVars

-----------------------------------------------------------------------------
(* The effect of the lock's own steps.                                     *)

LEMMA LockGrantedDoes ==
  ASSUME Typed, NEW r \in Callers, LockGranted(r)
  PROVE  /\ UNCHANGED req /\ \A s \in Callers : s # r => caller'[s] = caller[s]
         /\ caller[r].at = "wait" /\ caller'[r].at = "in" /\ caller'[r].key = caller[r].key
         /\ SameStore /\ SameClient /\ UNCHANGED <<today, faults>>
BY DEF LockGranted, Grant, Typed, MutexTypeOK, SameStore, SameClient, objects, clientVars

LEMMA LockTimesOutDoes ==
  ASSUME Typed, NEW r \in Callers, LockTimesOut(r)
  PROVE  Ends(r) /\ caller[r].at = "wait" /\ SameStore /\ SameClient /\ UNCHANGED <<today, faults>>
<1>1. SetReq(r, Idle) /\ Contend(r)
  BY DEF LockTimesOut
<1>2. /\ \A s \in Callers : s # r => caller'[s] = caller[s]
      /\ caller[r].at = "wait" /\ caller'[r].at = "out"
  BY <1>1 DEF Contend, Out, Typed, MutexTypeOK
<1>. QED  BY <1>1, <1>2, SetReqDoes, IdleRecord
          DEF LockTimesOut, Typed, Ends, OthersStay, SameStore, SameClient, objects, clientVars

LEMMA LockReleasedDoes ==
  ASSUME Typed, NEW r \in Callers, LockReleased(r)
  PROVE  /\ UNCHANGED req /\ \A s \in Callers : s # r => caller'[s] = caller[s]
         /\ caller[r].at = "drop" /\ caller'[r].at = "out"
         /\ SameStore /\ SameClient /\ UNCHANGED <<today, faults>>
BY DEF LockReleased, ReleasePermit, Out, Typed, MutexTypeOK, SameStore, SameClient, objects, clientVars

-----------------------------------------------------------------------------
(* Requests, locks and accounts: it is enough that a request ends, goes on *)
(* or starts as its kind does.                                             *)
Jobs == RequestsKnown /\ LocksHeld /\ AccountsApart

LEMMA EndsKeepsJobs ==
  ASSUME Typed, AccountsApart, NEW r \in Callers, Ends(r), UNCHANGED plan,
         registered \subseteq registered'
  PROVE  Jobs'
<1>1. req'[r].kind = "none" /\ req'[r].pc = "idle" /\ req'[r] = Idle
  BY DEF Ends, Idle
<1>2. RequestsKnown'
  BY <1>1 DEF Typed, RequestsKnown, Ends, OthersStay, Fits, Idle
<1>3. LocksHeld'
  BY <1>1 DEF Typed, LocksHeld, Ends, OthersStay, ClaimPcs, RotPcs, EditPcs
<1>4. AccountsApart'
  BY <1>1 DEF AccountsApart, Ends, OthersStay, AtWork
<1>. QED  BY <1>2, <1>3, <1>4 DEF Jobs

LEMMA GoesKeepsJobs ==
  ASSUME Typed, AccountsApart, NEW r \in Callers, NEW pc, Goes(r, pc), UNCHANGED <<plan, registered>>,
         Fits(req[r].kind, pc), pc # "idle", pc # "del_bury", req[r].pc # "del_bury",
         pc \in ClaimPcs \cup RotPcs => caller[r].at = "in",
         pc \in {"rot_put", "rot_project", "rot_save"} => req'[r].answer \in Answers
  PROVE  Jobs'
<1>0. req[r].kind # "none"
  BY DEF Fits
<1>1. RequestsKnown'
  BY <1>0 DEF Typed, RequestsKnown, Goes, OthersStay, SameJob
<1>2. LocksHeld'
  <2>1. pc \in EditPcs \cup {"del_get", "del_list", "del_files"} => caller[r].at = "out"
    BY DEF Typed, RequestsKnown, LocksHeld, Fits, EditPcs, DelPcs, ClaimPcs, RotPcs, Goes
  <2>. QED  BY <1>0, <2>1 DEF Typed, LocksHeld, Goes, OthersStay, SameJob
<1>3. AccountsApart'
  BY DEF AccountsApart, Goes, OthersStay, SameJob, AtWork
<1>. QED  BY <1>1, <1>2, <1>3 DEF Jobs

(* Who starts on an account was admitted to it; who registers has a new id.*)
LEMMA StartsKeepsJobs ==
  ASSUME Typed, AccountsApart, NEW r \in Callers, NEW k \in Kinds \ {"none"}, NEW pc,
         NEW u \in Uids, Starts(r, k, pc, u), UNCHANGED registered,
         \A s \in Callers : req[s].kind = "register" => req[s].uid \notin registered,
         \A i \in Rids : plan[i].uid \in Uids => plan'[i].uid = plan[i].uid,
         \/ k = "register" /\ pc = "reg_get" /\ \A s \in Callers : req[s].uid # u
         \/ MayStart(u, k) /\ <<k, pc>> \in {<<"rotate", "rot_load">>, <<"update", "edit_get">>,
                                          <<"touch", "edit_get">>, <<"delete", "del_get">>},
         k = "register" => caller'[r].at = "wait" /\ caller'[r].key = Handle,
         k = "rotate" => /\ caller'[r].at = "wait" /\ caller'[r].key = u
                         /\ req'[r].rid \in Rids /\ plan'[req'[r].rid].uid = u,
         k \in {"update", "touch", "delete"} => caller'[r].at = "out"
  PROVE  Jobs'
<1>1. Fits(k, pc) /\ pc \notin ClaimPcs \cup RotPcs \cup {"del_bury", "rot_put", "rot_project", "rot_save"}
  BY DEF Fits, ClaimPcs, RotPcs, EditPcs, DelPcs
<1>2. RequestsKnown'
  BY <1>1 DEF Typed, RequestsKnown, Starts, OthersStay
<1>3. LocksHeld'
  BY <1>1 DEF Typed, LocksHeld, Starts, OthersStay, EditPcs, Kinds
<1>4. AccountsApart'
  <2>1. \A s \in Callers : req[s].kind # "none" /\ ~AtWork(s) => req[s].kind = "register"
    BY DEF Typed, RequestTypes, RequestRecords, AtWork, Kinds
  <2>2. \A s \in Callers : s # r /\ req[s].kind # "none" /\ req[s].uid = u =>
          k # "register" /\ AtWork(s) /\ {req[s].kind, k} \subseteq Overlap
    BY <2>1 DEF MayStart
  <2>3. k # "register" => k \in {"rotate", "update", "touch", "delete"} /\ u \in registered
    BY DEF Kinds, MayStart
  <2>. QED  BY <2>2, <2>3 DEF AccountsApart, Starts, OthersStay, AtWork
<1>. QED  BY <1>2, <1>3, <1>4 DEF Jobs

(* Requests and locks, over every step of a handler.                       *)
LEMMA JobsStep ==
  ASSUME RequestsInv, NEW r \in Callers, RequestNext(r)
  PROVE  RequestTypes' /\ Jobs'
<1>. Typed /\ AccountsApart /\ ClaimsAreNew
  BY DEF RequestsInv, Typed, MutexInv
<1>. USE DEF At
<1>1. CASE LockGranted(r)
  <2>1. Jobs'
    BY <1>1, LockGrantedDoes DEF Typed, Jobs, RequestsKnown, LocksHeld, AccountsApart, AtWork, SameClient
  <2>. QED  BY <1>1, <2>1, LockGrantedDoes DEF Typed, RequestTypes
<1>2. CASE LockTimesOut(r)
  BY <1>2, LockTimesOutDoes, EndsKeepsJobs DEF Ends, SameClient
<1>3. CASE LockReleased(r)
  <2>1. Jobs'
    BY <1>3, LockReleasedDoes DEF Typed, Jobs, RequestsKnown, LocksHeld, AccountsApart, AtWork, SameClient, ClaimPcs, RotPcs, EditPcs
  <2>. QED  BY <1>3, <2>1, LockReleasedDoes DEF Typed, RequestTypes
<1>4. CASE StartRegister(r)
  BY <1>4, StartRegisterDoes, StartsKeepsJobs DEF Starts, SameClient, ClaimsAreNew, Kinds
<1>5. CASE RegGet(r)
  BY <1>5, RegGetDoes, EndsKeepsJobs, GoesKeepsJobs
     DEF Ends, Goes, SameClient, Typed, RequestsKnown, LocksHeld, Fits, ClaimPcs, RotPcs, EditPcs, DelPcs
<1>6. CASE RegDeleteTombstone(r)
  BY <1>6, RegDeleteTombstoneDoes, EndsKeepsJobs, GoesKeepsJobs
     DEF Ends, Goes, SameClient, Typed, RequestsKnown, LocksHeld, Fits, ClaimPcs, RotPcs, EditPcs, DelPcs
<1>7. CASE RegPutHandle(r)
  BY <1>7, RegPutHandleDoes, EndsKeepsJobs, GoesKeepsJobs
     DEF Ends, Goes, SameClient, Typed, RequestsKnown, LocksHeld, Fits, ClaimPcs, RotPcs, EditPcs, DelPcs
<1>8. CASE RegPutProfile(r)
  BY <1>8, RegPutProfileDoes, EndsKeepsJobs, GoesKeepsJobs
     DEF Ends, Goes, SameClient, Typed, RequestsKnown, LocksHeld, Fits, ClaimPcs, RotPcs, EditPcs, DelPcs
<1>9. CASE RegPutDevice(r)
  BY <1>9, RegPutDeviceDoes, EndsKeepsJobs, GoesKeepsJobs
     DEF Ends, Goes, SameClient, Typed, RequestsKnown, LocksHeld, Fits, ClaimPcs, RotPcs, EditPcs, DelPcs
<1>10. CASE RegUndoHandle(r)
  BY <1>10, RegUndoHandleDoes, EndsKeepsJobs, GoesKeepsJobs
     DEF Ends, Goes, SameClient, Typed, RequestsKnown, LocksHeld, Fits, ClaimPcs, RotPcs, EditPcs, DelPcs
<1>11. CASE RegUndoProfile(r)
  BY <1>11, RegUndoProfileDoes, EndsKeepsJobs DEF Ends, SameClient
<1>12. CASE StartRotate(r)
  <2>1. PICK u \in Uids, i \in Rids, c \in Rids \cup {0} :
          /\ MayStart(u, "rotate") /\ plan[i].uid \in {0, u}
          /\ plan' = IF plan[i].uid = u THEN plan
                     ELSE [plan EXCEPT ![i] = [uid |-> u, kv |-> profile[u].kv + 1, cred |-> c]]
          /\ Starts(r, "rotate", "rot_load", u) /\ req'[r].rid = i
          /\ caller'[r].at = "wait" /\ caller'[r].key = u
    BY <1>12, StartRotateDoes
  <2>2. plan'[i].uid = u /\ \A j \in Rids : plan[j].uid \in Uids => plan'[j].uid = plan[j].uid
    BY <2>1, KeysAssumption DEF Typed, ObjectTypes
  <2>. QED  BY <1>12, <2>1, <2>2, StartRotateDoes, StartsKeepsJobs DEF Starts, ClaimsAreNew, Kinds
<1>13. CASE RotLoad(r)
  BY <1>13, RotLoadDoes, EndsKeepsJobs, GoesKeepsJobs
     DEF Ends, Goes, SameClient, Typed, RequestsKnown, LocksHeld, Fits, ClaimPcs, RotPcs, EditPcs, DelPcs
<1>14. CASE RotGet(r)
  BY <1>14, RotGetDoes, EndsKeepsJobs, GoesKeepsJobs
     DEF Verdict, Answers, Ends, Goes, SameClient, Typed, RequestsKnown, LocksHeld, Fits, ClaimPcs, RotPcs, EditPcs, DelPcs
<1>15. CASE RotPut(r)
  BY <1>15, RotPutDoes, EndsKeepsJobs, GoesKeepsJobs
     DEF KeepsAnswer, Ends, Goes, SameClient, Typed, RequestsKnown, LocksHeld, Fits, ClaimPcs, RotPcs, EditPcs, DelPcs
<1>16. CASE RotProject(r)
  BY <1>16, RotProjectDoes, EndsKeepsJobs, GoesKeepsJobs
     DEF KeepsAnswer, Ends, Goes, SameClient, Typed, RequestsKnown, LocksHeld, Fits, ClaimPcs, RotPcs, EditPcs, DelPcs
<1>17. CASE RotSave(r)
  BY <1>17, RotSaveDoes, EndsKeepsJobs DEF Ends, SameClient
<1>18. CASE StartEdit(r)
  BY <1>18, StartEditDoes, StartsKeepsJobs DEF Starts, SameClient, ClaimsAreNew, Kinds, MayStart, mutexVars
<1>19. CASE EditGet(r)
  BY <1>19, EditGetDoes, EndsKeepsJobs, GoesKeepsJobs
     DEF Ends, Goes, SameClient, Typed, RequestsKnown, LocksHeld, Fits, ClaimPcs, RotPcs, EditPcs, DelPcs
<1>20. CASE EditPut(r)
  BY <1>20, EditPutDoes, EndsKeepsJobs, GoesKeepsJobs
     DEF Ends, Goes, SameClient, Typed, RequestsKnown, LocksHeld, Fits, ClaimPcs, RotPcs, EditPcs, DelPcs
<1>21. CASE EditProject(r)
  BY <1>21, EditProjectDoes, EndsKeepsJobs DEF Ends, SameClient
<1>22. CASE StartDelete(r)
  BY <1>22, StartDeleteDoes, StartsKeepsJobs DEF Starts, SameClient, ClaimsAreNew, Kinds, MayStart, mutexVars
<1>23. CASE DelGet(r)
  BY <1>23, DelGetDoes, EndsKeepsJobs, GoesKeepsJobs
     DEF Ends, Goes, SameClient, Typed, RequestsKnown, LocksHeld, Fits, ClaimPcs, RotPcs, EditPcs, DelPcs
<1>24. CASE DelList(r)
  BY <1>24, DelListDoes, EndsKeepsJobs, GoesKeepsJobs
     DEF Ends, Goes, SameClient, Typed, RequestsKnown, LocksHeld, Fits, ClaimPcs, RotPcs, EditPcs, DelPcs
<1>25. CASE DelFile(r)
  BY <1>25, DelFileDoes, EndsKeepsJobs, GoesKeepsJobs
     DEF Ends, Goes, SameClient, Typed, RequestsKnown, LocksHeld, Fits, ClaimPcs, RotPcs, EditPcs, DelPcs
<1>26. CASE DelLock(r)
  <2>1. RequestsKnown'
    BY <1>26, DelLockDoes DEF Typed, RequestsKnown, OthersStay, SameJob, Fits, DelPcs, SameClient, ClaimPcs, RotPcs, EditPcs
  <2>2. LocksHeld'
    BY <1>26, DelLockDoes DEF Typed, RequestsKnown, LocksHeld, OthersStay, SameJob, Fits, DelPcs, ClaimPcs, RotPcs, EditPcs
  <2>3. AccountsApart'
    BY <1>26, DelLockDoes DEF AccountsApart, OthersStay, SameJob, AtWork, SameClient
  <2>. QED  BY <1>26, <2>1, <2>2, <2>3, DelLockDoes DEF Jobs
<1>27. CASE DelTombstone(r)
  BY <1>27, DelTombstoneDoes, EndsKeepsJobs DEF Ends, SameClient
<1>. QED  BY <1>1, <1>2, <1>3, <1>4, <1>5, <1>6, <1>7, <1>8, <1>9, <1>10, <1>11, <1>12, <1>13, <1>14, <1>15, <1>16, <1>17, <1>18, <1>19, <1>20, <1>21, <1>22, <1>23, <1>24, <1>25, <1>26, <1>27 DEF RequestNext

(* The lock's invariant goes on holding under the handlers.                *)
LEMMA LockStep ==
  ASSUME MutexInv, NEW r \in Callers, RequestNext(r)
  PROVE  MutexInv'
<1>1. ASSUME NEW k \in Keys, Bump(r, k)
      PROVE  MutexInv'
  BY <1>1, BumpKeeps
<1>2. UNCHANGED mutexVars => MutexInv'
  BY MutexStep
<1>3. CASE LockGranted(r) \/ LockTimesOut(r) \/ LockReleased(r)
  BY <1>3, GrantKeeps, ContendKeeps, ReleasePermitKeeps DEF LockGranted, LockTimesOut, LockReleased
<1>4. CASE StartRegister(r) \/ DelLock(r)
  BY <1>1, <1>4, KeysAssumption DEF StartRegister, DelLock, ClaimLock
<1>5. CASE StartRotate(r)
  BY <1>1, <1>5, KeysAssumption DEF StartRotate, RotationLock
<1>6. CASE \/ RegGet(r) \/ RegDeleteTombstone(r) \/ RegPutHandle(r) \/ RegPutProfile(r)
           \/ RegPutDevice(r) \/ RegUndoHandle(r) \/ RegUndoProfile(r)
           \/ RotLoad(r) \/ RotGet(r) \/ RotPut(r) \/ RotProject(r) \/ RotSave(r) \/ DelTombstone(r)
  <2>1. Holding(r) \/ AnswerLocked(r)
    BY <1>6 DEF RegGet, RegDeleteTombstone, RegPutHandle, RegPutProfile, RegPutDevice, RegUndoHandle,
                RegUndoProfile, RotLoad, RotGet, RotPut, RotProject, RotSave, DelTombstone
  <2>. QED  BY <1>2, <2>1, DropGuardKeeps DEF Holding, AnswerLocked
<1>7. CASE \/ StartEdit(r) \/ EditGet(r) \/ EditPut(r) \/ EditProject(r)
           \/ StartDelete(r) \/ DelGet(r) \/ DelList(r) \/ DelFile(r)
  BY <1>2, <1>7 DEF StartEdit, EditGet, EditPut, EditProject, StartDelete, DelGet, DelList, DelFile, mutexVars
<1>. QED  BY <1>3, <1>4, <1>5, <1>6, <1>7 DEF RequestNext

(* What is stored keeps its types.                                         *)
LEMMA ObjectsStep ==
  ASSUME RequestsInv, NEW r \in Callers, RequestNext(r)
  PROVE  ObjectTypes'
<1>. Typed
  BY DEF RequestsInv, Typed, MutexInv
<1>0. /\ req[r] \in RequestRecords
      /\ req[r].pc # "idle" => req[r].uid \in Uids
      /\ req[r].pc \in RotPcs \cup {"rot_load"} => req[r].rid \in Rids
  BY DEF Typed, RequestTypes, RequestsKnown, Fits, ClaimPcs, RotPcs, EditPcs, DelPcs
<1>. USE DEF At
<1>1. CASE LockGranted(r)
  BY <1>0, <1>1, LockGrantedDoes DEF Typed, ObjectTypes, SameStore, SameClient, Counts
<1>2. CASE LockTimesOut(r)
  BY <1>0, <1>2, LockTimesOutDoes DEF Typed, ObjectTypes, SameStore, SameClient, Counts
<1>3. CASE LockReleased(r)
  BY <1>0, <1>3, LockReleasedDoes DEF Typed, ObjectTypes, SameStore, SameClient, Counts
<1>4. CASE StartRegister(r)
  BY <1>0, <1>4, StartRegisterDoes DEF Typed, ObjectTypes, SameStore, SameClient, Counts
<1>5. CASE RegGet(r)
  BY <1>0, <1>5, RegGetDoes DEF Typed, ObjectTypes, SameStore, SameClient, Counts
<1>6. CASE RegDeleteTombstone(r)
  BY <1>0, <1>6, RegDeleteTombstoneDoes DEF Typed, ObjectTypes, SameStore, SameClient, Counts, Free
<1>7. CASE RegPutHandle(r)
  BY <1>0, <1>7, RegPutHandleDoes DEF Typed, ObjectTypes, SameStore, SameClient, Counts, Owned
<1>8. CASE RegPutProfile(r)
  BY <1>0, <1>8, RegPutProfileDoes DEF Typed, ObjectTypes, SameStore, SameClient, Counts, Profiles, NoProfile
<1>9. CASE RegPutDevice(r)
  BY <1>0, <1>9, RegPutDeviceDoes DEF Typed, ObjectTypes, SameStore, SameClient, Counts
<1>10. CASE RegUndoHandle(r)
  BY <1>0, <1>10, RegUndoHandleDoes DEF Typed, ObjectTypes, SameStore, SameClient, Counts, Free
<1>11. CASE RegUndoProfile(r)
  BY <1>0, <1>11, RegUndoProfileDoes DEF Typed, ObjectTypes, SameStore, SameClient, Counts, Profiles, NoProfile
<1>12. CASE StartRotate(r)
  BY <1>0, <1>12, StartRotateDoes DEF Typed, ObjectTypes, SameStore, SameClient, Counts, Profiles
<1>13. CASE RotLoad(r)
  BY <1>0, <1>13, RotLoadDoes DEF Typed, ObjectTypes, SameStore, SameClient, Counts, RotPcs
<1>14. CASE RotGet(r)
  BY <1>0, <1>14, RotGetDoes DEF Typed, ObjectTypes, SameStore, SameClient, Counts
<1>15. CASE RotPut(r)
  <2>1. req[r].rid \in Rids /\ req[r].uid \in Uids /\ plan[req[r].rid].kv \in Nat
    BY <1>0, <1>15, RotPutDoes DEF Typed, ObjectTypes, RotPcs
  <2>2. Rotated(r) \in Profiles /\ Rotated(r).kv \in Nat
    BY <2>1 DEF Rotated, Profiles
  <2>. QED  BY <2>1, <2>2, <1>15, RotPutDoes DEF Typed, ObjectTypes, SameClient, Counts
<1>16. CASE RotProject(r)
  <2>1. req[r].rid \in Rids /\ req[r].uid \in Uids /\ plan[req[r].rid].kv \in Nat
    BY <1>0, <1>16, RotProjectDoes DEF Typed, ObjectTypes, RotPcs
  <2>2. Rotated(r) \in Profiles /\ Rotated(r).kv \in Nat
    BY <2>1 DEF Rotated, Profiles
  <2>3. Owned(req[r].uid, Rotated(r).kv)
          \in [kind : {"free", "owned", "released"}, uid : Uids \cup {0}, kv : Nat, since : Nat]
    BY <2>1, <2>2 DEF Owned
  <2>. QED  BY <2>3, <1>16, RotProjectDoes DEF Typed, ObjectTypes, SameClient, Counts
<1>17. CASE RotSave(r)
  <2>1. req[r].rid \in Rids /\ req[r].answer \in Answers
    BY <1>0, <1>17, RotSaveDoes DEF Typed, RequestsKnown, RotPcs
  <2>2. records' \in [Rids -> Answers \cup {"none"}] /\ answers' \subseteq Rids \X Answers
    BY <2>1, <1>17, RotSaveDoes DEF Typed, ObjectTypes
  <2>. QED  BY <2>2, <1>17, RotSaveDoes DEF Typed, ObjectTypes, Counts
<1>18. CASE StartEdit(r)
  BY <1>0, <1>18, StartEditDoes DEF Typed, ObjectTypes, SameStore, SameClient, Counts
<1>19. CASE EditGet(r)
  BY <1>0, <1>19, EditGetDoes DEF Typed, ObjectTypes, SameStore, SameClient, Counts
<1>20. CASE EditPut(r)
  BY <1>0, <1>20, EditPutDoes DEF Typed, ObjectTypes, SameStore, SameClient, Counts, RequestRecords
<1>21. CASE EditProject(r)
  BY <1>0, <1>21, EditProjectDoes DEF Typed, ObjectTypes, SameStore, SameClient, Counts, Owned, RequestRecords, Profiles
<1>22. CASE StartDelete(r)
  BY <1>0, <1>22, StartDeleteDoes DEF Typed, ObjectTypes, SameStore, SameClient, Counts
<1>23. CASE DelGet(r)
  BY <1>0, <1>23, DelGetDoes DEF Typed, ObjectTypes, SameStore, SameClient, Counts
<1>24. CASE DelList(r)
  BY <1>0, <1>24, DelListDoes DEF Typed, ObjectTypes, SameStore, SameClient, Counts
<1>25. CASE DelFile(r)
  BY <1>0, <1>25, DelFileDoes DEF Typed, ObjectTypes, SameStore, SameClient, Counts, Remove, Profiles, NoProfile
<1>26. CASE DelLock(r)
  BY <1>0, <1>26, DelLockDoes DEF Typed, ObjectTypes, SameStore, SameClient, Counts
<1>27. CASE DelTombstone(r)
  BY <1>0, <1>27, DelTombstoneDoes DEF Typed, ObjectTypes, SameStore, SameClient, Counts, Released
<1>. QED  BY <1>1, <1>2, <1>3, <1>4, <1>5, <1>6, <1>7, <1>8, <1>9, <1>10, <1>11, <1>12, <1>13, <1>14, <1>15, <1>16, <1>17, <1>18, <1>19, <1>20, <1>21, <1>22, <1>23, <1>24, <1>25, <1>26, <1>27 DEF RequestNext

(* What a request of r implies: its kind, and that nobody else has its id  *)
(* unless both work on it.                                                 *)
LEMMA Whose ==
  ASSUME RequestsInv, NEW r \in Callers
  PROVE  /\ req[r].pc \in ClaimPcs \cup {"reg_get"} <=> req[r].kind = "register"
         /\ req[r].pc \in RotPcs \cup {"rot_load"} <=> req[r].kind = "rotate"
         /\ req[r].pc \in EditPcs <=> req[r].kind \in {"update", "touch"}
         /\ req[r].pc \in DelPcs <=> req[r].kind = "delete"
         /\ req[r].pc = "idle" <=> req[r].kind = "none"
         /\ req[r].kind # "none" => req[r].uid \in Uids
         /\ AtWork(r) => req[r].uid \in registered
         /\ req[r].kind = "register" =>
              /\ req[r].uid \notin registered
              /\ \A s \in Callers : s # r /\ req[s].kind # "none" => req[s].uid # req[r].uid
BY DEF RequestsInv, RequestsKnown, Fits, ClaimPcs, RotPcs, EditPcs, DelPcs, AccountsApart, ClaimsAreNew, AtWork

(* What an id owns before it is registered.                                *)
LEMMA ClaimsStep ==
  ASSUME RequestsInv, NEW r \in Callers, RequestNext(r)
  PROVE  ClaimsAreNew'
<1>. Typed /\ ClaimsAreNew
  BY DEF RequestsInv, Typed, MutexInv
<1>. USE DEF At
<1>1. CASE LockGranted(r)
  BY <1>1, Whose, LockGrantedDoes DEF ClaimsAreNew, SameStore, SameClient, AtWork, ClaimPcs, RotPcs, EditPcs, DelPcs
<1>2. CASE LockTimesOut(r)
  BY <1>2, Whose, LockTimesOutDoes DEF ClaimsAreNew, SameStore, SameClient, Ends, OthersStay, Idle, AtWork, ClaimPcs, RotPcs, EditPcs, DelPcs
<1>3. CASE LockReleased(r)
  BY <1>3, Whose, LockReleasedDoes DEF ClaimsAreNew, SameStore, SameClient, AtWork, ClaimPcs, RotPcs, EditPcs, DelPcs
<1>4. CASE StartRegister(r)
  BY <1>4, Whose, StartRegisterDoes DEF ClaimsAreNew, SameStore, SameClient, Starts, OthersStay, MayStart, AtWork, ClaimPcs, RotPcs, EditPcs, DelPcs
<1>5. CASE RegGet(r)
  BY <1>5, Whose, RegGetDoes DEF ClaimsAreNew, SameStore, SameClient, Goes, Ends, OthersStay, SameJob, Idle, AtWork, ClaimPcs, RotPcs, EditPcs, DelPcs
<1>6. CASE RegDeleteTombstone(r)
  BY <1>6, Whose, RegDeleteTombstoneDoes DEF ClaimsAreNew, SameStore, SameClient, Goes, Ends, OthersStay, SameJob, Idle, AtWork, ClaimPcs, RotPcs, EditPcs, DelPcs
<1>7. CASE RegPutHandle(r)
  BY <1>7, Whose, RegPutHandleDoes DEF ClaimsAreNew, SameStore, SameClient, Goes, Ends, OthersStay, SameJob, Idle, AtWork, ClaimPcs, RotPcs, EditPcs, DelPcs
<1>8. CASE RegPutProfile(r)
  BY <1>8, Whose, RegPutProfileDoes DEF ClaimsAreNew, SameStore, SameClient, Goes, Ends, OthersStay, SameJob, Idle, Typed, ObjectTypes, AtWork, ClaimPcs, RotPcs, EditPcs, DelPcs
<1>9. CASE RegPutDevice(r)
  BY <1>9, Whose, RegPutDeviceDoes DEF ClaimsAreNew, SameStore, SameClient, Goes, Ends, OthersStay, SameJob, Idle, AtWork, ClaimPcs, RotPcs, EditPcs, DelPcs
<1>10. CASE RegUndoHandle(r)
  BY <1>10, Whose, RegUndoHandleDoes DEF ClaimsAreNew, SameStore, SameClient, Goes, Ends, OthersStay, SameJob, Idle, AtWork, ClaimPcs, RotPcs, EditPcs, DelPcs
<1>11. CASE RegUndoProfile(r)
  BY <1>11, Whose, RegUndoProfileDoes DEF ClaimsAreNew, SameStore, SameClient, Ends, OthersStay, Idle, Typed, ObjectTypes, AtWork, ClaimPcs, RotPcs, EditPcs, DelPcs
<1>12. CASE StartRotate(r)
  <2>1. PICK u \in Uids, i \in Rids, c \in Rids \cup {0} :
          /\ MayStart(u, "rotate")
          /\ plan' = IF plan[i].uid = u THEN plan
                     ELSE [plan EXCEPT ![i] = [uid |-> u, kv |-> profile[u].kv + 1, cred |-> c]]
          /\ Starts(r, "rotate", "rot_load", u)
    BY <1>12, StartRotateDoes
  <2>2. \A j \in Rids : plan'[j].uid \in {plan[j].uid, u}
    BY <2>1 DEF Typed, ObjectTypes
  <2>3. u \in registered
    BY <2>1 DEF MayStart
  <2>. QED  BY <1>12, <2>1, <2>2, <2>3, Whose, StartRotateDoes
            DEF ClaimsAreNew, SameStore, Starts, OthersStay
<1>13. CASE RotLoad(r)
  BY <1>13, Whose, RotLoadDoes DEF ClaimsAreNew, SameStore, SameClient, Goes, Ends, OthersStay, SameJob, Idle, AtWork, ClaimPcs, RotPcs, EditPcs, DelPcs
<1>14. CASE RotGet(r)
  BY <1>14, Whose, RotGetDoes DEF ClaimsAreNew, SameStore, SameClient, Goes, Ends, OthersStay, SameJob, Idle, AtWork, ClaimPcs, RotPcs, EditPcs, DelPcs
<1>15. CASE RotPut(r)
  BY <1>15, Whose, RotPutDoes DEF ClaimsAreNew, SameStore, SameClient, Goes, Ends, OthersStay, SameJob, Idle, Typed, ObjectTypes, AtWork, ClaimPcs, RotPcs, EditPcs, DelPcs
<1>16. CASE RotProject(r)
  BY <1>16, Whose, RotProjectDoes DEF ClaimsAreNew, SameStore, SameClient, Goes, Ends, OthersStay, SameJob, Idle, AtWork, ClaimPcs, RotPcs, EditPcs, DelPcs
<1>17. CASE RotSave(r)
  BY <1>17, Whose, RotSaveDoes DEF ClaimsAreNew, SameStore, SameClient, Ends, OthersStay, Idle, AtWork, ClaimPcs, RotPcs, EditPcs, DelPcs
<1>18. CASE StartEdit(r)
  BY <1>18, Whose, StartEditDoes DEF ClaimsAreNew, SameStore, SameClient, Starts, OthersStay, MayStart, AtWork, ClaimPcs, RotPcs, EditPcs, DelPcs
<1>19. CASE EditGet(r)
  BY <1>19, Whose, EditGetDoes DEF ClaimsAreNew, SameStore, SameClient, Goes, Ends, OthersStay, SameJob, Idle, AtWork, ClaimPcs, RotPcs, EditPcs, DelPcs
<1>20. CASE EditPut(r)
  BY <1>20, Whose, EditPutDoes DEF ClaimsAreNew, SameStore, SameClient, Goes, Ends, OthersStay, SameJob, Idle, Typed, ObjectTypes, AtWork, ClaimPcs, RotPcs, EditPcs, DelPcs
<1>21. CASE EditProject(r)
  BY <1>21, Whose, EditProjectDoes DEF ClaimsAreNew, SameStore, SameClient, Ends, OthersStay, Idle, AtWork, ClaimPcs, RotPcs, EditPcs, DelPcs
<1>22. CASE StartDelete(r)
  BY <1>22, Whose, StartDeleteDoes DEF ClaimsAreNew, SameStore, SameClient, Starts, OthersStay, MayStart, AtWork, ClaimPcs, RotPcs, EditPcs, DelPcs
<1>23. CASE DelGet(r)
  BY <1>23, Whose, DelGetDoes DEF ClaimsAreNew, SameStore, SameClient, Goes, Ends, OthersStay, SameJob, Idle, AtWork, ClaimPcs, RotPcs, EditPcs, DelPcs
<1>24. CASE DelList(r)
  BY <1>24, Whose, DelListDoes DEF ClaimsAreNew, SameStore, SameClient, Goes, Ends, OthersStay, SameJob, Idle, AtWork, ClaimPcs, RotPcs, EditPcs, DelPcs
<1>25. CASE DelFile(r)
  BY <1>25, Whose, DelFileDoes DEF ClaimsAreNew, SameStore, SameClient, Goes, Ends, OthersStay, SameJob, Idle, Typed, ObjectTypes, Remove, AtWork, ClaimPcs, RotPcs, EditPcs, DelPcs
<1>26. CASE DelLock(r)
  BY <1>26, Whose, DelLockDoes DEF ClaimsAreNew, SameStore, SameClient, OthersStay, SameJob, AtWork, ClaimPcs, RotPcs, EditPcs, DelPcs
<1>27. CASE DelTombstone(r)
  BY <1>27, Whose, DelTombstoneDoes DEF ClaimsAreNew, SameStore, SameClient, Ends, OthersStay, Idle, AtWork, ClaimPcs, RotPcs, EditPcs, DelPcs
<1>. QED  BY <1>1, <1>2, <1>3, <1>4, <1>5, <1>6, <1>7, <1>8, <1>9, <1>10, <1>11, <1>12, <1>13, <1>14, <1>15, <1>16, <1>17, <1>18, <1>19, <1>20, <1>21, <1>22, <1>23, <1>24, <1>25, <1>26, <1>27 DEF RequestNext

-----------------------------------------------------------------------------
(* A crash leaves a fresh lock and no requests.                            *)
LEMMA CrashLocks ==
  ASSUME Crash
  PROVE  MutexInv'
<1>1. /\ slots' = [k \in Keys |-> NoSlot]
      /\ taken' = {}
      /\ caller' = [c \in Callers |-> Out]
  BY DEF Crash
<1>2. MutexTypeOK'
  BY <1>1 DEF MutexTypeOK, NoSlot, Out, CallerStates
<1>3. RefcountIsExact'
  <2>. SUFFICES ASSUME NEW k \in Keys
                PROVE  slots'[k].refcount = Cardinality(UsersOf(k)')
    BY DEF RefcountIsExact
  <2>1. UsersOf(k)' = {}
    BY <1>1 DEF UsersOf, Out
  <2>. QED  BY <1>1, <2>1, FS_EmptySet DEF NoSlot
<1>4. SharedSemaphore' /\ PermitOwners' /\ SemaphoreOfOneKey'
  BY <1>1 DEF SharedSemaphore, PermitOwners, SemaphoreOfOneKey, HasPermit, Out
<1>. QED  BY <1>2, <1>3, <1>4 DEF MutexInv

LEMMA CrashDoes ==
  ASSUME Typed, Crash
  PROVE  /\ RequestTypes' /\ \A s \in Callers : req'[s] = Idle /\ caller'[s] = Out
         /\ SameStore /\ SameClient /\ UNCHANGED today /\ Counts /\ faults' # 0
<1>1. req' = [s \in Callers |-> Idle] /\ caller' = [s \in Callers |-> Out]
  BY DEF Crash
<1>2. RequestTypes'
  BY <1>1, IdleRecord DEF RequestTypes
<1>3. Counts /\ faults' # 0
  BY CallCounts DEF Crash, Typed
<1>. QED  BY <1>1, <1>2, <1>3 DEF Crash, SameStore, SameClient, objects, clientVars

LEMMA DayDoes ==
  ASSUME Typed, Day
  PROVE  /\ today' = today + 1 /\ today' \in 0..LastDay
         /\ \A s \in Callers : req[s] = Idle
         /\ SameStore /\ SameClient /\ UNCHANGED <<mutexVars, req, faults>>
<1>1. \A s \in Callers : req[s] = Idle
  BY DEF Day, Ready, At, Typed, RequestsKnown, Fits, ClaimPcs, RotPcs, EditPcs, DelPcs
<1>. QED  BY <1>1, AccountBounds DEF Day, Typed, ObjectTypes, SameStore, SameClient, objects, clientVars

(* Requests, locks, types and claims, over every step.                     *)
LEMMA RequestsInvStep ==
  ASSUME RequestsInv, [AccountNext]_accountVars
  PROVE  RequestsInv'
<1>. Typed /\ AccountsApart /\ ClaimsAreNew /\ MutexInv
  BY DEF RequestsInv, Typed, MutexInv
<1>1. ASSUME NEW r \in Callers, RequestNext(r)
      PROVE  RequestsInv'
  BY <1>1, JobsStep, LockStep, ObjectsStep, ClaimsStep DEF RequestsInv, Jobs
<1>2. CASE Crash
  <2>1. \A s \in Callers : /\ req'[s].kind = "none" /\ req'[s].pc = "idle" /\ req'[s] = Idle
                          /\ caller'[s].at = "out"
    BY <1>2, CrashDoes DEF Idle, Out
  <2>2. RequestsKnown' /\ LocksHeld' /\ AccountsApart'
    BY <2>1 DEF RequestsKnown, Fits, LocksHeld, ClaimPcs, RotPcs, EditPcs, AccountsApart, AtWork, Idle
  <2>3. ClaimsAreNew'
    BY <1>2, <2>1, CrashDoes DEF ClaimsAreNew, SameStore, SameClient
  <2>4. ObjectTypes'
    BY <1>2, CrashDoes DEF Typed, ObjectTypes, SameStore, SameClient, Counts
  <2>. QED  BY <1>2, <2>2, <2>3, <2>4, CrashDoes, CrashLocks DEF RequestsInv
<1>3. CASE Day
  <2>1. MutexInv'
    BY <1>3, DayDoes, MutexStep
  <2>2. RequestsKnown' /\ LocksHeld' /\ AccountsApart' /\ ClaimsAreNew' /\ RequestTypes'
    BY <1>3, DayDoes DEF Typed, RequestsKnown, LocksHeld, AccountsApart, ClaimsAreNew, RequestTypes,
                         AtWork, SameStore, SameClient, mutexVars
  <2>3. ObjectTypes'
    BY <1>3, DayDoes DEF Typed, ObjectTypes, SameStore, SameClient
  <2>. QED  BY <2>1, <2>2, <2>3 DEF RequestsInv
<1>4. CASE UNCHANGED accountVars
  <2>1. UNCHANGED mutexVars
    BY <1>4 DEF accountVars, mutexVars
  <2>2. MutexInv'
    BY <2>1, MutexStep
  <2>3. RequestsKnown' /\ LocksHeld' /\ AccountsApart' /\ ClaimsAreNew' /\ RequestTypes' /\ ObjectTypes'
    BY <1>4 DEF Typed, RequestsKnown, LocksHeld, AccountsApart, ClaimsAreNew, RequestTypes, ObjectTypes,
                AtWork, accountVars
  <2>. QED  BY <2>2, <2>3 DEF RequestsInv
<1>. QED  BY <1>1, <1>2, <1>3, <1>4 DEF AccountNext

LEMMA RequestsInvInit ==
  ASSUME AccountInit
  PROVE  RequestsInv
<1>1. MutexInv
  BY MutexInvInit DEF AccountInit
<1>2. RequestTypes
  BY IdleRecord DEF AccountInit, RequestTypes
<1>3. ObjectTypes
  BY AccountBounds DEF AccountInit, ObjectTypes, Free, Profiles, NoProfile
<1>4. \A s \in Callers : req[s].kind = "none" /\ req[s].pc = "idle" /\ req[s] = Idle /\ caller[s].at = "out"
  BY DEF AccountInit, Idle, MutexInit, Out
<1>5. RequestsKnown /\ LocksHeld /\ AccountsApart
  BY <1>4 DEF RequestsKnown, Fits, LocksHeld, ClaimPcs, RotPcs, EditPcs, AccountsApart, AtWork, Idle
<1>6. ClaimsAreNew
  BY <1>4 DEF ClaimsAreNew, AccountInit
<1>. QED  BY <1>1, <1>2, <1>3, <1>5, <1>6 DEF RequestsInv

-----------------------------------------------------------------------------
(* The handle, where no request overlaps a deletion of its account.        *)

(* The claim lock has one holder: one registration is past its read.       *)
LEMMA OneClaim ==
  ASSUME RequestsInv, NEW r \in Callers, NEW s \in Callers,
         req[r].pc \in ClaimPcs \/ (req[r].pc \in {"reg_get", "del_bury"} /\ caller[r].at = "in"),
         req[s].pc \in ClaimPcs
  PROVE  r = s
<1>1. /\ caller[r].at = "in" /\ caller[r].key = Handle
      /\ caller[s].at = "in" /\ caller[s].key = Handle
  BY Whose DEF RequestsInv, LocksHeld
<1>2. MutualExclusion
  BY MutexInvSuffices DEF RequestsInv
<1>. QED  BY <1>1, <1>2 DEF MutualExclusion

LEMMA DeletesAlone ==
  ASSUME RequestsInv, "delete" \notin Overlap, NEW r \in Callers, NEW s \in Callers, r # s,
         req[r].kind = "delete", req[s].kind # "none"
  PROVE  req[s].uid # req[r].uid
BY DEF RequestsInv, AccountsApart

LEMMA HoldersStep ==
  ASSUME RequestsInv, HandleHolders, "delete" \notin Overlap, NEW r \in Callers, RequestNext(r)
  PROVE  HandleHolders'
<1>. Typed /\ ClaimsAreNew
  BY DEF RequestsInv, Typed, MutexInv
<1>. USE DEF At
<1>1. CASE LockGranted(r)
  BY <1>1, Whose, LockGrantedDoes DEF HandleHolders, OwnedBy, CoolingDown, SameStore, SameClient, AtWork, ClaimPcs, RotPcs, EditPcs, DelPcs
<1>2. CASE LockTimesOut(r)
  BY <1>2, Whose, LockTimesOutDoes DEF HandleHolders, OwnedBy, CoolingDown, SameStore, SameClient, Ends, OthersStay, Idle, AtWork, ClaimPcs, RotPcs, EditPcs, DelPcs
<1>3. CASE LockReleased(r)
  BY <1>3, Whose, LockReleasedDoes DEF HandleHolders, OwnedBy, CoolingDown, SameStore, SameClient, AtWork, ClaimPcs, RotPcs, EditPcs, DelPcs
<1>4. CASE StartRegister(r)
  BY <1>4, Whose, StartRegisterDoes DEF HandleHolders, OwnedBy, CoolingDown, SameStore, SameClient, Starts, OthersStay, MayStart, ClaimsAreNew, AtWork, ClaimPcs, RotPcs, EditPcs, DelPcs
<1>5. CASE RegGet(r)
  BY <1>5, Whose, RegGetDoes DEF HandleHolders, OwnedBy, CoolingDown, SameStore, SameClient, Goes, Ends, OthersStay, SameJob, Idle, AtWork, ClaimPcs, RotPcs, EditPcs, DelPcs
<1>6. CASE RegDeleteTombstone(r)
  BY <1>6, Whose, OneClaim, DeletesAlone, RegDeleteTombstoneDoes DEF HandleHolders, OwnedBy, CoolingDown, SameStore, SameClient, Goes, Ends, OthersStay, SameJob, Idle, Owned, Free, Released, AtWork, ClaimPcs, RotPcs, EditPcs, DelPcs
<1>7. CASE RegPutHandle(r)
  BY <1>7, Whose, OneClaim, DeletesAlone, RegPutHandleDoes DEF HandleHolders, OwnedBy, CoolingDown, SameStore, SameClient, Goes, Ends, OthersStay, SameJob, Idle, Owned, Free, Released, AtWork, ClaimPcs, RotPcs, EditPcs, DelPcs
<1>8. CASE RegPutProfile(r)
  BY <1>8, Whose, RegPutProfileDoes DEF HandleHolders, OwnedBy, CoolingDown, SameStore, SameClient, Goes, Ends, OthersStay, SameJob, Idle, AtWork, ClaimPcs, RotPcs, EditPcs, DelPcs
<1>9. CASE RegPutDevice(r)
  BY <1>9, Whose, RegPutDeviceDoes DEF HandleHolders, OwnedBy, CoolingDown, SameStore, SameClient, Goes, Ends, OthersStay, SameJob, Idle, Owned, AtWork, ClaimPcs, RotPcs, EditPcs, DelPcs
<1>10. CASE RegUndoHandle(r)
  BY <1>10, Whose, OneClaim, DeletesAlone, RegUndoHandleDoes DEF HandleHolders, OwnedBy, CoolingDown, SameStore, SameClient, Goes, Ends, OthersStay, SameJob, Idle, Owned, Free, Released, AtWork, ClaimPcs, RotPcs, EditPcs, DelPcs
<1>11. CASE RegUndoProfile(r)
  BY <1>11, Whose, RegUndoProfileDoes DEF HandleHolders, OwnedBy, CoolingDown, SameStore, SameClient, Ends, OthersStay, Idle, AtWork, ClaimPcs, RotPcs, EditPcs, DelPcs
<1>12. CASE StartRotate(r)
  BY <1>12, Whose, DeletesAlone, StartRotateDoes DEF HandleHolders, OwnedBy, CoolingDown, SameStore, SameClient, Starts, OthersStay, MayStart, ClaimsAreNew, Remove, AtWork, ClaimPcs, RotPcs, EditPcs, DelPcs
<1>13. CASE RotLoad(r)
  BY <1>13, Whose, RotLoadDoes DEF HandleHolders, OwnedBy, CoolingDown, SameStore, SameClient, Goes, Ends, OthersStay, SameJob, Idle, AtWork, ClaimPcs, RotPcs, EditPcs, DelPcs
<1>14. CASE RotGet(r)
  BY <1>14, Whose, RotGetDoes DEF HandleHolders, OwnedBy, CoolingDown, SameStore, SameClient, Goes, Ends, OthersStay, SameJob, Idle, AtWork, ClaimPcs, RotPcs, EditPcs, DelPcs
<1>15. CASE RotPut(r)
  BY <1>15, Whose, RotPutDoes DEF HandleHolders, OwnedBy, CoolingDown, SameStore, SameClient, Goes, Ends, OthersStay, SameJob, Idle, AtWork, ClaimPcs, RotPcs, EditPcs, DelPcs
<1>16. CASE RotProject(r)
  BY <1>16, Whose, OneClaim, DeletesAlone, RotProjectDoes DEF HandleHolders, OwnedBy, CoolingDown, SameStore, SameClient, Goes, Ends, OthersStay, SameJob, Idle, Owned, Free, Released, AtWork, ClaimPcs, RotPcs, EditPcs, DelPcs
<1>17. CASE RotSave(r)
  BY <1>17, Whose, RotSaveDoes DEF HandleHolders, OwnedBy, CoolingDown, SameStore, SameClient, Ends, OthersStay, Idle, AtWork, ClaimPcs, RotPcs, EditPcs, DelPcs
<1>18. CASE StartEdit(r)
  BY <1>18, Whose, DeletesAlone, StartEditDoes DEF HandleHolders, OwnedBy, CoolingDown, SameStore, SameClient, Starts, OthersStay, MayStart, ClaimsAreNew, Remove, AtWork, ClaimPcs, RotPcs, EditPcs, DelPcs
<1>19. CASE EditGet(r)
  BY <1>19, Whose, EditGetDoes DEF HandleHolders, OwnedBy, CoolingDown, SameStore, SameClient, Goes, Ends, OthersStay, SameJob, Idle, AtWork, ClaimPcs, RotPcs, EditPcs, DelPcs
<1>20. CASE EditPut(r)
  BY <1>20, Whose, EditPutDoes DEF HandleHolders, OwnedBy, CoolingDown, SameStore, SameClient, Goes, Ends, OthersStay, SameJob, Idle, AtWork, ClaimPcs, RotPcs, EditPcs, DelPcs
<1>21. CASE EditProject(r)
  BY <1>21, Whose, OneClaim, DeletesAlone, EditProjectDoes DEF HandleHolders, OwnedBy, CoolingDown, SameStore, SameClient, Ends, OthersStay, Idle, Owned, Free, Released, AtWork, ClaimPcs, RotPcs, EditPcs, DelPcs
<1>22. CASE StartDelete(r)
  BY <1>22, Whose, DeletesAlone, StartDeleteDoes DEF HandleHolders, OwnedBy, CoolingDown, SameStore, SameClient, Starts, OthersStay, MayStart, ClaimsAreNew, Remove, AtWork, ClaimPcs, RotPcs, EditPcs, DelPcs
<1>23. CASE DelGet(r)
  BY <1>23, Whose, DelGetDoes DEF HandleHolders, OwnedBy, CoolingDown, SameStore, SameClient, Goes, Ends, OthersStay, SameJob, Idle, AtWork, ClaimPcs, RotPcs, EditPcs, DelPcs
<1>24. CASE DelList(r)
  BY <1>24, Whose, DelListDoes DEF HandleHolders, OwnedBy, CoolingDown, SameStore, SameClient, Goes, Ends, OthersStay, SameJob, Idle, AtWork, ClaimPcs, RotPcs, EditPcs, DelPcs
<1>25. CASE DelFile(r)
  BY <1>25, Whose, DeletesAlone, DelFileDoes DEF HandleHolders, OwnedBy, CoolingDown, SameStore, SameClient, Goes, Ends, OthersStay, SameJob, Idle, Remove, AtWork, ClaimPcs, RotPcs, EditPcs, DelPcs
<1>26. CASE DelLock(r)
  BY <1>26, Whose, DelLockDoes DEF HandleHolders, OwnedBy, CoolingDown, SameStore, SameClient, OthersStay, SameJob, AtWork, ClaimPcs, RotPcs, EditPcs, DelPcs
<1>27. CASE DelTombstone(r)
  BY <1>27, Whose, OneClaim, DeletesAlone, DelTombstoneDoes DEF HandleHolders, OwnedBy, CoolingDown, SameStore, SameClient, Ends, OthersStay, Idle, Owned, Free, Released, AtWork, ClaimPcs, RotPcs, EditPcs, DelPcs
<1>. QED  BY <1>1, <1>2, <1>3, <1>4, <1>5, <1>6, <1>7, <1>8, <1>9, <1>10, <1>11, <1>12, <1>13, <1>14, <1>15, <1>16, <1>17, <1>18, <1>19, <1>20, <1>21, <1>22, <1>23, <1>24, <1>25, <1>26, <1>27 DEF RequestNext

-----------------------------------------------------------------------------
(* The profile, where only rotations (and deletions) overlap on an account.*)

(* The lock of an account has one holder: one rotation is past its start.  *)
LEMMA OneRotation ==
  ASSUME RequestsInv, NEW r \in Callers, NEW s \in Callers,
         req[r].pc \in RotPcs \/ (req[r].pc = "rot_load" /\ caller[r].at = "in"),
         req[s].pc \in RotPcs, req[r].uid = req[s].uid
  PROVE  r = s
<1>1. /\ caller[r].at = "in" /\ caller[r].key = req[r].uid
      /\ caller[s].at = "in" /\ caller[s].key = req[s].uid
  BY Whose DEF RequestsInv, LocksHeld
<1>2. MutualExclusion
  BY MutexInvSuffices DEF RequestsInv
<1>. QED  BY <1>1, <1>2 DEF MutualExclusion

LEMMA EditsAlone ==
  ASSUME RequestsInv, Overlap \cap {"update", "touch"} = {}, NEW r \in Callers, NEW s \in Callers,
         r # s, req[r].kind \in {"update", "touch"}, req[s].kind # "none"
  PROVE  req[s].uid # req[r].uid
BY DEF RequestsInv, AccountsApart

(* Who has asked for a rotation has its plan.                              *)
LEMMA PlanStays ==
  ASSUME RequestsInv, NEW r \in Callers, RequestNext(r)
  PROVE  \A i \in Rids : plan[i].uid # 0 => plan'[i] = plan[i]
<1>. Typed
  BY DEF RequestsInv, Typed, MutexInv
<1>1. CASE StartRotate(r)
  <2>1. PICK u \in Uids, i \in Rids, c \in Rids \cup {0} :
          /\ plan[i].uid \in {0, u}
          /\ plan' = IF plan[i].uid = u THEN plan
                     ELSE [plan EXCEPT ![i] = [uid |-> u, kv |-> profile[u].kv + 1, cred |-> c]]
    BY <1>1, StartRotateDoes
  <2>. QED  BY <2>1 DEF Typed, ObjectTypes
<1>2. CASE ~StartRotate(r)
  <2>1. UNCHANGED plan
    BY <1>2, LockGrantedDoes, LockTimesOutDoes, LockReleasedDoes, StartRegisterDoes, RegGetDoes, RegDeleteTombstoneDoes, RegPutHandleDoes, RegPutProfileDoes, RegPutDeviceDoes, RegUndoHandleDoes, RegUndoProfileDoes, RotLoadDoes, RotGetDoes, RotPutDoes, RotProjectDoes, RotSaveDoes, StartEditDoes, EditGetDoes, EditPutDoes, EditProjectDoes, StartDeleteDoes, DelGetDoes, DelListDoes, DelFileDoes, DelLockDoes, DelTombstoneDoes
       DEF RequestNext, SameClient
  <2>. QED  BY <2>1
<1>. QED  BY <1>1, <1>2

LEMMA AsReadStep ==
  ASSUME RequestsInv, ProfileAsRead, Overlap \cap {"update", "touch"} = {}, NEW r \in Callers, RequestNext(r)
  PROVE  ProfileAsRead'
<1>. Typed /\ ClaimsAreNew
  BY DEF RequestsInv, Typed, MutexInv
<1>0. \A s \in Callers : req[s].pc = "rot_put" =>
        /\ req[s].rid \in Rids /\ plan'[req[s].rid] = plan[req[s].rid]
        /\ req[s].uid \in registered
  <2>1. \A s \in Callers : req[s].pc = "rot_put" =>
          req[s].kind = "rotate" /\ req[s].uid \in registered /\ req[s].uid # 0
    BY Whose, KeysAssumption DEF RotPcs, AtWork
  <2>. QED  BY <2>1, PlanStays DEF Typed, RequestsKnown
<1>. USE DEF At
<1>1. CASE LockGranted(r)
  BY <1>0, <1>1, Whose, LockGrantedDoes DEF ProfileAsRead, SameStore, SameClient, AtWork, ClaimPcs, RotPcs, EditPcs, DelPcs
<1>2. CASE LockTimesOut(r)
  BY <1>0, <1>2, Whose, LockTimesOutDoes DEF ProfileAsRead, SameStore, SameClient, Ends, OthersStay, Idle, AtWork, ClaimPcs, RotPcs, EditPcs, DelPcs
<1>3. CASE LockReleased(r)
  BY <1>0, <1>3, Whose, LockReleasedDoes DEF ProfileAsRead, SameStore, SameClient, AtWork, ClaimPcs, RotPcs, EditPcs, DelPcs
<1>4. CASE StartRegister(r)
  BY <1>0, <1>4, Whose, StartRegisterDoes DEF ProfileAsRead, SameStore, SameClient, Starts, OthersStay, MayStart, ClaimsAreNew, AtWork, ClaimPcs, RotPcs, EditPcs, DelPcs
<1>5. CASE RegGet(r)
  BY <1>0, <1>5, Whose, RegGetDoes DEF ProfileAsRead, SameStore, SameClient, Goes, Ends, OthersStay, SameJob, Idle, AtWork, ClaimPcs, RotPcs, EditPcs, DelPcs
<1>6. CASE RegDeleteTombstone(r)
  BY <1>0, <1>6, Whose, RegDeleteTombstoneDoes DEF ProfileAsRead, SameStore, SameClient, Goes, Ends, OthersStay, SameJob, Idle, AtWork, ClaimPcs, RotPcs, EditPcs, DelPcs
<1>7. CASE RegPutHandle(r)
  BY <1>0, <1>7, Whose, RegPutHandleDoes DEF ProfileAsRead, SameStore, SameClient, Goes, Ends, OthersStay, SameJob, Idle, AtWork, ClaimPcs, RotPcs, EditPcs, DelPcs
<1>8. CASE RegPutProfile(r)
  BY <1>0, <1>8, Whose, OneRotation, EditsAlone, RegPutProfileDoes DEF ProfileAsRead, SameStore, SameClient, Goes, Ends, OthersStay, SameJob, Idle, Typed, ObjectTypes, Exists, NoProfile, AtWork, ClaimPcs, RotPcs, EditPcs, DelPcs
<1>9. CASE RegPutDevice(r)
  BY <1>0, <1>9, Whose, RegPutDeviceDoes DEF ProfileAsRead, SameStore, SameClient, Goes, Ends, OthersStay, SameJob, Idle, AtWork, ClaimPcs, RotPcs, EditPcs, DelPcs
<1>10. CASE RegUndoHandle(r)
  BY <1>0, <1>10, Whose, RegUndoHandleDoes DEF ProfileAsRead, SameStore, SameClient, Goes, Ends, OthersStay, SameJob, Idle, AtWork, ClaimPcs, RotPcs, EditPcs, DelPcs
<1>11. CASE RegUndoProfile(r)
  BY <1>0, <1>11, Whose, OneRotation, EditsAlone, RegUndoProfileDoes DEF ProfileAsRead, SameStore, SameClient, Ends, OthersStay, Idle, Typed, ObjectTypes, Exists, NoProfile, AtWork, ClaimPcs, RotPcs, EditPcs, DelPcs
<1>12. CASE StartRotate(r)
  BY <1>0, <1>12, Whose, StartRotateDoes DEF ProfileAsRead, SameStore, SameClient, Starts, OthersStay, MayStart, ClaimsAreNew, AtWork, ClaimPcs, RotPcs, EditPcs, DelPcs
<1>13. CASE RotLoad(r)
  BY <1>0, <1>13, Whose, RotLoadDoes DEF ProfileAsRead, SameStore, SameClient, Goes, Ends, OthersStay, SameJob, Idle, AtWork, ClaimPcs, RotPcs, EditPcs, DelPcs
<1>14. CASE RotGet(r)
  BY <1>0, <1>14, Whose, RotGetDoes DEF ProfileAsRead, SameStore, SameClient, Goes, Ends, OthersStay, SameJob, Idle, Verdict, AtWork, ClaimPcs, RotPcs, EditPcs, DelPcs
<1>15. CASE RotPut(r)
  BY <1>0, <1>15, Whose, OneRotation, EditsAlone, RotPutDoes DEF ProfileAsRead, SameStore, SameClient, Goes, Ends, OthersStay, SameJob, Idle, Typed, ObjectTypes, Exists, NoProfile, AtWork, ClaimPcs, RotPcs, EditPcs, DelPcs
<1>16. CASE RotProject(r)
  BY <1>0, <1>16, Whose, RotProjectDoes DEF ProfileAsRead, SameStore, SameClient, Goes, Ends, OthersStay, SameJob, Idle, AtWork, ClaimPcs, RotPcs, EditPcs, DelPcs
<1>17. CASE RotSave(r)
  BY <1>0, <1>17, Whose, RotSaveDoes DEF ProfileAsRead, SameStore, SameClient, Ends, OthersStay, Idle, AtWork, ClaimPcs, RotPcs, EditPcs, DelPcs
<1>18. CASE StartEdit(r)
  BY <1>0, <1>18, Whose, StartEditDoes DEF ProfileAsRead, SameStore, SameClient, Starts, OthersStay, MayStart, ClaimsAreNew, AtWork, ClaimPcs, RotPcs, EditPcs, DelPcs
<1>19. CASE EditGet(r)
  BY <1>0, <1>19, Whose, EditGetDoes DEF ProfileAsRead, SameStore, SameClient, Goes, Ends, OthersStay, SameJob, Idle, AtWork, ClaimPcs, RotPcs, EditPcs, DelPcs
<1>20. CASE EditPut(r)
  BY <1>0, <1>20, Whose, OneRotation, EditsAlone, EditPutDoes DEF ProfileAsRead, SameStore, SameClient, Goes, Ends, OthersStay, SameJob, Idle, Typed, ObjectTypes, Exists, NoProfile, KeepsRead, AtWork, ClaimPcs, RotPcs, EditPcs, DelPcs
<1>21. CASE EditProject(r)
  BY <1>0, <1>21, Whose, EditProjectDoes DEF ProfileAsRead, SameStore, SameClient, Ends, OthersStay, Idle, AtWork, ClaimPcs, RotPcs, EditPcs, DelPcs
<1>22. CASE StartDelete(r)
  BY <1>0, <1>22, Whose, StartDeleteDoes DEF ProfileAsRead, SameStore, SameClient, Starts, OthersStay, MayStart, ClaimsAreNew, AtWork, ClaimPcs, RotPcs, EditPcs, DelPcs
<1>23. CASE DelGet(r)
  BY <1>0, <1>23, Whose, DelGetDoes DEF ProfileAsRead, SameStore, SameClient, Goes, Ends, OthersStay, SameJob, Idle, AtWork, ClaimPcs, RotPcs, EditPcs, DelPcs
<1>24. CASE DelList(r)
  BY <1>0, <1>24, Whose, DelListDoes DEF ProfileAsRead, SameStore, SameClient, Goes, Ends, OthersStay, SameJob, Idle, AtWork, ClaimPcs, RotPcs, EditPcs, DelPcs
<1>25. CASE DelFile(r)
  BY <1>0, <1>25, Whose, OneRotation, EditsAlone, DelFileDoes DEF ProfileAsRead, SameStore, SameClient, Goes, Ends, OthersStay, SameJob, Idle, Typed, ObjectTypes, Exists, NoProfile, Remove, AtWork, ClaimPcs, RotPcs, EditPcs, DelPcs
<1>26. CASE DelLock(r)
  BY <1>0, <1>26, Whose, DelLockDoes DEF ProfileAsRead, SameStore, SameClient, OthersStay, SameJob, AtWork, ClaimPcs, RotPcs, EditPcs, DelPcs
<1>27. CASE DelTombstone(r)
  BY <1>0, <1>27, Whose, DelTombstoneDoes DEF ProfileAsRead, SameStore, SameClient, Ends, OthersStay, Idle, AtWork, ClaimPcs, RotPcs, EditPcs, DelPcs
<1>. QED  BY <1>1, <1>2, <1>3, <1>4, <1>5, <1>6, <1>7, <1>8, <1>9, <1>10, <1>11, <1>12, <1>13, <1>14, <1>15, <1>16, <1>17, <1>18, <1>19, <1>20, <1>21, <1>22, <1>23, <1>24, <1>25, <1>26, <1>27 DEF RequestNext

-----------------------------------------------------------------------------
(* The answers of the rotations, as long as nothing failed.                *)
LEMMA AnswersStep ==
  ASSUME RequestsInv, HandleHolders, AnswersRecorded, "delete" \notin Overlap,
         NEW r \in Callers, RequestNext(r)
  PROVE  AnswersRecorded'
<1>. Typed /\ ClaimsAreNew
  BY DEF RequestsInv, Typed, MutexInv
<1>. SUFFICES ASSUME faults' = 0
              PROVE  AnswersRecorded'
  BY DEF AnswersRecorded
<1>0. /\ \A i \in Rids : plan[i].uid # 0 => plan'[i] = plan[i] /\ plan[i].uid \in registered
      /\ \A s \in Callers : req[s].kind = "rotate" =>
           /\ req[s].rid \in Rids /\ plan[req[s].rid].uid = req[s].uid /\ req[s].uid # 0
           /\ req[s].uid \in devices
           /\ \A d \in Callers : req[d].kind = "delete" => req[d].uid # req[s].uid
  <2>1. \A s \in Callers : req[s].kind = "rotate" => req[s].uid # 0 /\ req[s].uid \in devices
    BY Whose, KeysAssumption DEF HandleHolders, AtWork
  <2>2. \A s, d \in Callers : req[s].kind = "rotate" /\ req[d].kind = "delete" => req[d].uid # req[s].uid
    BY DeletesAlone
  <2>. QED  BY <2>1, <2>2, PlanStays DEF Typed, RequestsKnown, ClaimsAreNew
<1>a. "none" \notin Answers
  BY DEF Answers
<1>b. Counts => faults = 0
  BY DEF Counts, Typed, ObjectTypes
<1>c. caller[r].at = "wait" => req[r].pc \notin {"del_files", "rot_project"}
  BY DEF Typed, LocksHeld, RotPcs
<1>. USE DEF At
<1>1. CASE LockGranted(r)
  BY <1>0, <1>a, <1>b, <1>c, <1>1, Whose, LockGrantedDoes DEF AnswersRecorded, SameStore, SameClient, AtWork, ClaimPcs, RotPcs, EditPcs, DelPcs
<1>2. CASE LockTimesOut(r)
  BY <1>0, <1>a, <1>b, <1>c, <1>2, Whose, LockTimesOutDoes DEF AnswersRecorded, SameStore, SameClient, Ends, OthersStay, Idle, AtWork, ClaimPcs, RotPcs, EditPcs, DelPcs
<1>3. CASE LockReleased(r)
  BY <1>0, <1>a, <1>b, <1>c, <1>3, Whose, LockReleasedDoes DEF AnswersRecorded, SameStore, SameClient, AtWork, ClaimPcs, RotPcs, EditPcs, DelPcs
<1>4. CASE StartRegister(r)
  BY <1>0, <1>a, <1>b, <1>c, <1>4, Whose, StartRegisterDoes DEF AnswersRecorded, SameStore, SameClient, Starts, OthersStay, MayStart, Idle, AtWork, ClaimPcs, RotPcs, EditPcs, DelPcs
<1>5. CASE RegGet(r)
  BY <1>0, <1>a, <1>b, <1>c, <1>5, Whose, RegGetDoes DEF AnswersRecorded, SameStore, SameClient, Goes, Ends, OthersStay, SameJob, Idle, AtWork, ClaimPcs, RotPcs, EditPcs, DelPcs
<1>6. CASE RegDeleteTombstone(r)
  BY <1>0, <1>a, <1>b, <1>c, <1>6, Whose, RegDeleteTombstoneDoes DEF AnswersRecorded, SameStore, SameClient, Goes, Ends, OthersStay, SameJob, Idle, AtWork, ClaimPcs, RotPcs, EditPcs, DelPcs
<1>7. CASE RegPutHandle(r)
  BY <1>0, <1>a, <1>b, <1>c, <1>7, Whose, RegPutHandleDoes DEF AnswersRecorded, SameStore, SameClient, Goes, Ends, OthersStay, SameJob, Idle, AtWork, ClaimPcs, RotPcs, EditPcs, DelPcs
<1>8. CASE RegPutProfile(r)
  BY <1>0, <1>a, <1>b, <1>c, <1>8, Whose, RegPutProfileDoes DEF AnswersRecorded, SameStore, SameClient, Goes, Ends, OthersStay, SameJob, Idle, AtWork, ClaimPcs, RotPcs, EditPcs, DelPcs
<1>9. CASE RegPutDevice(r)
  BY <1>0, <1>a, <1>b, <1>c, <1>9, Whose, RegPutDeviceDoes DEF AnswersRecorded, SameStore, SameClient, Goes, Ends, OthersStay, SameJob, Idle, AtWork, ClaimPcs, RotPcs, EditPcs, DelPcs
<1>10. CASE RegUndoHandle(r)
  BY <1>0, <1>a, <1>b, <1>c, <1>10, Whose, RegUndoHandleDoes DEF AnswersRecorded, SameStore, SameClient, Goes, Ends, OthersStay, SameJob, Idle, AtWork, ClaimPcs, RotPcs, EditPcs, DelPcs
<1>11. CASE RegUndoProfile(r)
  BY <1>0, <1>a, <1>b, <1>c, <1>11, Whose, RegUndoProfileDoes DEF AnswersRecorded, SameStore, SameClient, Ends, OthersStay, Idle, AtWork, ClaimPcs, RotPcs, EditPcs, DelPcs
<1>12. CASE StartRotate(r)
  BY <1>0, <1>a, <1>b, <1>c, <1>12, Whose, StartRotateDoes DEF AnswersRecorded, SameStore, SameClient, Starts, OthersStay, MayStart, Idle, AtWork, ClaimPcs, RotPcs, EditPcs, DelPcs
<1>13. CASE RotLoad(r)
  BY <1>0, <1>a, <1>b, <1>c, <1>13, Whose, OneRotation, RotLoadDoes DEF AnswersRecorded, SameStore, SameClient, Goes, Ends, OthersStay, SameJob, Idle, AtWork, ClaimPcs, RotPcs, EditPcs, DelPcs
<1>14. CASE RotGet(r)
  BY <1>0, <1>a, <1>b, <1>c, <1>14, Whose, RotGetDoes DEF AnswersRecorded, SameStore, SameClient, Goes, Ends, OthersStay, SameJob, Idle, AtWork, ClaimPcs, RotPcs, EditPcs, DelPcs
<1>15. CASE RotPut(r)
  BY <1>0, <1>a, <1>b, <1>c, <1>15, Whose, RotPutDoes DEF AnswersRecorded, SameStore, SameClient, Goes, Ends, OthersStay, SameJob, Idle, AtWork, ClaimPcs, RotPcs, EditPcs, DelPcs
<1>16. CASE RotProject(r)
  BY <1>0, <1>a, <1>b, <1>c, <1>16, Whose, RotProjectDoes DEF AnswersRecorded, SameStore, SameClient, Goes, Ends, OthersStay, SameJob, Idle, AtWork, ClaimPcs, RotPcs, EditPcs, DelPcs
<1>17. CASE RotSave(r)
  <2>1. PICK x \in {records[req[r].rid], req[r].answer} :
          /\ records' = [records EXCEPT ![req[r].rid] = x] /\ x = req[r].answer
    BY <1>17, RotSaveDoes
  <2>2. /\ req[r].rid \in Rids /\ req[r].kind = "rotate"
        /\ answers' = answers \cup {<<req[r].rid, x>>} /\ faults = 0
        /\ records' \in [Rids -> Answers \cup {"none"}]
        /\ records'[req[r].rid] = x /\ \A i \in Rids \ {req[r].rid} : records'[i] = records[i]
    BY <1>0, <1>b, <1>17, <2>1, Whose, RotSaveDoes DEF Typed, ObjectTypes, RequestsKnown, RotPcs
  <2>3. \A s \in Callers : req'[s].pc \in RotPcs => s # r /\ req'[s] = req[s] /\ req[s].rid # req[r].rid
    BY <1>0, <1>17, <2>2, Whose, OneRotation, RotSaveDoes DEF Ends, OthersStay, Idle, RotPcs
  <2>4. \A i \in Rids, a \in Answers : <<i, a>> \in answers' =>
          \/ <<i, a>> \in answers /\ i # req[r].rid
          \/ i = req[r].rid /\ a = x
    BY <1>17, <2>2, RotSaveDoes DEF AnswersRecorded, RotPcs
  <2>5. \A s \in Callers : req[s].pc = "del_files" => req'[s] = req[s]
    BY <1>17, RotSaveDoes DEF Ends, OthersStay
  <2>6. UNCHANGED <<plan, devices>> /\ plan[req[r].rid].uid # 0
    BY <1>0, <1>17, <2>2, RotSaveDoes
  <2>7. \A i \in Rids, a \in Answers : <<i, a>> \in answers' =>
          /\ plan'[i].uid # 0
          /\ \/ records'[i] = a
             \/ plan'[i].uid \notin devices'
             \/ \E s \in Callers : req'[s].pc = "del_files" /\ req'[s].uid = plan'[i].uid
    BY <2>2, <2>4, <2>5, <2>6 DEF AnswersRecorded
  <2>8. \A s \in Callers : req'[s].pc \in RotPcs =>
          records'[req'[s].rid] = "none" /\ \A a \in Answers : <<req'[s].rid, a>> \notin answers'
    <3>1. \A s \in Callers : req[s].pc \in RotPcs => req[s].rid \in Rids
      BY <1>0, Whose
    <3>. QED  BY <2>2, <2>3, <2>4, <3>1 DEF AnswersRecorded
  <2>. QED  BY <2>7, <2>8 DEF AnswersRecorded
<1>18. CASE StartEdit(r)
  BY <1>0, <1>a, <1>b, <1>c, <1>18, Whose, StartEditDoes DEF AnswersRecorded, SameStore, SameClient, Starts, OthersStay, MayStart, Idle, AtWork, ClaimPcs, RotPcs, EditPcs, DelPcs
<1>19. CASE EditGet(r)
  BY <1>0, <1>a, <1>b, <1>c, <1>19, Whose, EditGetDoes DEF AnswersRecorded, SameStore, SameClient, Goes, Ends, OthersStay, SameJob, Idle, AtWork, ClaimPcs, RotPcs, EditPcs, DelPcs
<1>20. CASE EditPut(r)
  BY <1>0, <1>a, <1>b, <1>c, <1>20, Whose, EditPutDoes DEF AnswersRecorded, SameStore, SameClient, Goes, Ends, OthersStay, SameJob, Idle, AtWork, ClaimPcs, RotPcs, EditPcs, DelPcs
<1>21. CASE EditProject(r)
  BY <1>0, <1>a, <1>b, <1>c, <1>21, Whose, EditProjectDoes DEF AnswersRecorded, SameStore, SameClient, Ends, OthersStay, Idle, AtWork, ClaimPcs, RotPcs, EditPcs, DelPcs
<1>22. CASE StartDelete(r)
  BY <1>0, <1>a, <1>b, <1>c, <1>22, Whose, StartDeleteDoes DEF AnswersRecorded, SameStore, SameClient, Starts, OthersStay, MayStart, Idle, AtWork, ClaimPcs, RotPcs, EditPcs, DelPcs
<1>23. CASE DelGet(r)
  BY <1>0, <1>a, <1>b, <1>c, <1>23, Whose, DelGetDoes DEF AnswersRecorded, SameStore, SameClient, Goes, Ends, OthersStay, SameJob, Idle, AtWork, ClaimPcs, RotPcs, EditPcs, DelPcs
<1>24. CASE DelList(r)
  BY <1>0, <1>a, <1>b, <1>c, <1>24, Whose, DelListDoes DEF AnswersRecorded, SameStore, SameClient, Goes, Ends, OthersStay, SameJob, Idle, AtWork, ClaimPcs, RotPcs, EditPcs, DelPcs
<1>25. CASE DelFile(r)
  <2>1. PICK f \in req[r].todo :
          /\ Goes(r, "del_files") /\ Remove(req[r].uid, f) /\ SameClient /\ faults = 0
    BY <1>b, <1>25, DelFileDoes
  <2>2. /\ devices' \subseteq devices
        /\ \A i \in Rids : records'[i] = records[i] \/ (plan[i].uid = req[r].uid /\ records'[i] = "none")
    BY <2>1 DEF Remove, Typed, ObjectTypes
  <2>3. \A s \in Callers : /\ req'[s].pc = req[s].pc /\ req'[s].uid = req[s].uid /\ req'[s].rid = req[s].rid
    BY <1>25, <2>1, DelFileDoes DEF Goes, OthersStay, SameJob
  <2>4. \A s \in Callers : req[s].pc \in RotPcs => req[s].rid \in Rids
    BY <1>0, Whose
  <2>. QED  BY <1>25, <2>1, <2>2, <2>3, <2>4, DelFileDoes DEF AnswersRecorded, SameClient
<1>26. CASE DelLock(r)
  BY <1>0, <1>a, <1>b, <1>c, <1>26, Whose, DelLockDoes DEF AnswersRecorded, SameStore, SameClient, OthersStay, SameJob, HandleHolders, AtWork, ClaimPcs, RotPcs, EditPcs, DelPcs
<1>27. CASE DelTombstone(r)
  BY <1>0, <1>a, <1>b, <1>c, <1>27, Whose, DelTombstoneDoes DEF AnswersRecorded, SameStore, SameClient, Ends, OthersStay, Idle, AtWork, ClaimPcs, RotPcs, EditPcs, DelPcs
<1>. QED  BY <1>1, <1>2, <1>3, <1>4, <1>5, <1>6, <1>7, <1>8, <1>9, <1>10, <1>11, <1>12, <1>13, <1>14, <1>15, <1>16, <1>17, <1>18, <1>19, <1>20, <1>21, <1>22, <1>23, <1>24, <1>25, <1>26, <1>27 DEF RequestNext

(* The projection, as long as nothing failed.                              *)
LEMMA ProjectionStep ==
  ASSUME RequestsInv, HandleHolders, ProfileAsRead, ProjectionFollows, Overlap \subseteq {"rotate"},
         NEW r \in Callers, RequestNext(r)
  PROVE  ProjectionFollows'
<1>. Typed /\ ClaimsAreNew
  BY DEF RequestsInv, Typed, MutexInv
<1>. SUFFICES ASSUME faults' = 0
              PROVE  ProjectionFollows'
  BY DEF ProjectionFollows
<1>0. \A s \in Callers : req[s].pc = "rot_project" =>
        /\ req[s].rid \in Rids /\ plan'[req[s].rid] = plan[req[s].rid] /\ req[s].uid \in registered
        /\ \A d \in Callers : req[d].kind \in {"delete", "update", "touch"} => req[d].uid # req[s].uid
  <2>1. \A s \in Callers : req[s].pc = "rot_project" =>
          req[s].kind = "rotate" /\ req[s].uid \in registered /\ req[s].uid # 0
    BY Whose, KeysAssumption DEF RotPcs, AtWork
  <2>2. \A s, d \in Callers : /\ req[s].kind = "rotate"
                             /\ req[d].kind \in {"delete", "update", "touch"} => req[d].uid # req[s].uid
    BY DEF RequestsInv, AccountsApart
  <2>. QED  BY <2>1, <2>2, PlanStays DEF Typed, RequestsKnown
<1>b. Counts => faults = 0
  BY DEF Counts, Typed, ObjectTypes
<1>c. caller[r].at = "wait" => req[r].pc \notin {"del_files", "rot_project"}
  BY DEF Typed, LocksHeld, RotPcs
<1>. USE DEF At
<1>1. CASE LockGranted(r)
  BY <1>0, <1>b, <1>c, <1>1, Whose, LockGrantedDoes DEF ProjectionFollows, OwnedBy, SameStore, SameClient, Rotated, ClaimPcs, RotPcs, EditPcs, DelPcs
<1>2. CASE LockTimesOut(r)
  BY <1>0, <1>b, <1>c, <1>2, Whose, LockTimesOutDoes DEF ProjectionFollows, OwnedBy, SameStore, SameClient, Ends, OthersStay, Idle, Rotated, ClaimPcs, RotPcs, EditPcs, DelPcs
<1>3. CASE LockReleased(r)
  BY <1>0, <1>b, <1>c, <1>3, Whose, LockReleasedDoes DEF ProjectionFollows, OwnedBy, SameStore, SameClient, Rotated, ClaimPcs, RotPcs, EditPcs, DelPcs
<1>4. CASE StartRegister(r)
  BY <1>0, <1>b, <1>c, <1>4, Whose, StartRegisterDoes DEF ProjectionFollows, OwnedBy, SameStore, SameClient, Starts, OthersStay, MayStart, Idle, Rotated, ClaimPcs, RotPcs, EditPcs, DelPcs
<1>5. CASE RegGet(r)
  BY <1>0, <1>b, <1>c, <1>5, Whose, RegGetDoes DEF ProjectionFollows, OwnedBy, SameStore, SameClient, Goes, Ends, OthersStay, SameJob, Idle, Rotated, ClaimPcs, RotPcs, EditPcs, DelPcs
<1>6. CASE RegDeleteTombstone(r)
  <2>1. /\ UNCHANGED <<profile, plan>> /\ handle' \in {handle, Free} /\ faults = 0
        /\ \A s \in Callers : req'[s].pc = "rot_project" \/ req[s].pc = "rot_project" =>
              s # r /\ req'[s] = req[s]
    BY <1>b, <1>6, RegDeleteTombstoneDoes DEF SameClient, Ends, Goes, OthersStay, Idle
  <2>. QED  BY <1>0, <2>1 DEF ProjectionFollows, OwnedBy, Free, Rotated
<1>7. CASE RegPutHandle(r)
  <2>1. /\ UNCHANGED <<profile, plan>> /\ handle' \in {handle, Owned(req[r].uid, 1)} /\ faults = 0
        /\ \A s \in Callers : req'[s].pc = "rot_project" \/ req[s].pc = "rot_project" =>
              s # r /\ req'[s] = req[s]
    BY <1>b, <1>7, RegPutHandleDoes DEF Ends, Goes, OthersStay, Idle
  <2>2. ~ Exists(profile[req[r].uid])
    BY <1>7, Whose, RegPutHandleDoes DEF ClaimsAreNew, ClaimPcs, NoProfile, Exists
  <2>. QED  BY <1>0, <2>1, <2>2 DEF ProjectionFollows, OwnedBy, Owned, Rotated
<1>8. CASE RegPutProfile(r)
  <2>1. PICK p \in {NoProfile, [kv |-> 1, cred |-> 0]} : profile' = [profile EXCEPT ![req[r].uid] = p]
    BY <1>8, RegPutProfileDoes
  <2>2. /\ req[r].kind = "register" /\ req[r].uid \in Uids /\ req[r].uid \notin registered
        /\ handle.kv = 1 /\ UNCHANGED <<handle, plan>> /\ faults = 0
    BY <1>b, <1>8, Whose, RegPutProfileDoes DEF ClaimPcs, HandleHolders, Owned, SameClient
  <2>3. /\ \A u \in Uids : u # req[r].uid => profile'[u] = profile[u]
        /\ Exists(profile'[req[r].uid]) => profile'[req[r].uid].kv = 1
    BY <2>1, <2>2 DEF Typed, ObjectTypes, Exists, NoProfile
  <2>4. \A s \in Callers : (req[s].pc = "rot_project" \/ req'[s].pc = "rot_project") =>
          s # r /\ req'[s] = req[s]
    BY <1>8, RegPutProfileDoes DEF Goes, OthersStay
  <2>. QED  BY <1>0, <2>2, <2>3, <2>4, Whose DEF ProjectionFollows, OwnedBy, Rotated, RotPcs, AtWork
<1>9. CASE RegPutDevice(r)
  BY <1>0, <1>b, <1>c, <1>9, Whose, RegPutDeviceDoes DEF ProjectionFollows, OwnedBy, SameStore, SameClient, Goes, Ends, OthersStay, SameJob, Idle, Rotated, ClaimPcs, RotPcs, EditPcs, DelPcs
<1>10. CASE RegUndoHandle(r)
  <2>1. /\ UNCHANGED <<profile, plan>> /\ handle' \in {handle, Free} /\ faults = 0
        /\ \A s \in Callers : req'[s].pc = "rot_project" \/ req[s].pc = "rot_project" =>
              s # r /\ req'[s] = req[s]
    BY <1>b, <1>10, RegUndoHandleDoes DEF SameClient, Ends, Goes, OthersStay, Idle
  <2>. QED  BY <1>0, <2>1 DEF ProjectionFollows, OwnedBy, Free, Rotated
<1>11. CASE RegUndoProfile(r)
  <2>1. PICK p \in {profile[req[r].uid], NoProfile} : profile' = [profile EXCEPT ![req[r].uid] = p]
    BY <1>11, RegUndoProfileDoes
  <2>2. /\ req[r].kind = "register" /\ req[r].uid \in Uids /\ req[r].uid \notin registered
        /\ UNCHANGED <<handle, plan>> /\ faults = 0
    BY <1>b, <1>11, Whose, RegUndoProfileDoes DEF ClaimPcs, SameClient
  <2>3. /\ \A u \in Uids : u # req[r].uid => profile'[u] = profile[u]
        /\ profile'[req[r].uid] = profile[req[r].uid] \/ ~Exists(profile'[req[r].uid])
    BY <2>1, <2>2 DEF Typed, ObjectTypes, Exists, NoProfile
  <2>4. \A s \in Callers : (req[s].pc = "rot_project" \/ req'[s].pc = "rot_project") =>
          s # r /\ req'[s] = req[s]
    BY <1>11, RegUndoProfileDoes DEF Ends, OthersStay, Idle
  <2>. QED  BY <1>0, <2>2, <2>3, <2>4, Whose DEF ProjectionFollows, OwnedBy, Rotated, RotPcs, AtWork
<1>12. CASE StartRotate(r)
  BY <1>0, <1>b, <1>c, <1>12, Whose, StartRotateDoes DEF ProjectionFollows, OwnedBy, SameStore, SameClient, Starts, OthersStay, MayStart, Idle, Rotated, ClaimPcs, RotPcs, EditPcs, DelPcs
<1>13. CASE RotLoad(r)
  BY <1>0, <1>b, <1>c, <1>13, Whose, RotLoadDoes DEF ProjectionFollows, OwnedBy, SameStore, SameClient, Goes, Ends, OthersStay, SameJob, Idle, Rotated, ClaimPcs, RotPcs, EditPcs, DelPcs
<1>14. CASE RotGet(r)
  BY <1>0, <1>b, <1>c, <1>14, Whose, RotGetDoes DEF ProjectionFollows, OwnedBy, SameStore, SameClient, Goes, Ends, OthersStay, SameJob, Idle, Rotated, ClaimPcs, RotPcs, EditPcs, DelPcs
<1>15. CASE RotPut(r)
  <2>1. /\ Goes(r, "rot_project") /\ profile' = [profile EXCEPT ![req[r].uid] = Rotated(r)]
        /\ UNCHANGED <<handle, plan>> /\ faults = 0 /\ req[r].uid \in Uids /\ req[r].kind = "rotate"
    BY <1>b, <1>15, Whose, RotPutDoes DEF RotPcs, SameClient
  <2>2. /\ \A u \in Uids : u # req[r].uid => profile'[u] = profile[u]
        /\ profile'[req[r].uid] = Rotated(r)
    BY <2>1 DEF Typed, ObjectTypes
  <2>3. /\ \A s \in Callers : req[s].pc = "rot_project" => s # r /\ req'[s] = req[s] /\ req[s].uid # req[r].uid
        /\ \A s \in Callers : s # r => req'[s] = req[s]
        /\ req'[r].pc = "rot_project" /\ req'[r].uid = req[r].uid /\ req'[r].rid = req[r].rid
    <3>1. req[r].pc = "rot_put" /\ (\A s \in Callers : s # r => req'[s] = req[s])
      BY <1>15, <2>1, RotPutDoes DEF Goes, OthersStay
    <3>2. req'[r].pc = "rot_project" /\ req'[r].uid = req[r].uid /\ req'[r].rid = req[r].rid
      BY <2>1 DEF Goes, SameJob
    <3>3. \A s \in Callers : req[s].pc = "rot_project" => s # r /\ req[s].uid # req[r].uid
      BY <3>1, OneRotation DEF RotPcs
    <3>. QED  BY <3>1, <3>2, <3>3
  <2>4. \A s \in Callers : req[s].pc = "rot_project" => req[s].uid \in Uids
    BY Whose DEF RotPcs
  <2>. QED  BY <2>1, <2>2, <2>3, <2>4 DEF ProjectionFollows, OwnedBy, Rotated
<1>16. CASE RotProject(r)
  <2>1. /\ Goes(r, "rot_save") /\ handle' = Owned(req[r].uid, Rotated(r).kv)
        /\ UNCHANGED <<profile, plan>> /\ faults = 0
    BY <1>b, <1>16, RotProjectDoes DEF SameClient
  <2>2. profile[req[r].uid] = Rotated(r)
    BY <1>16, <2>1, RotProjectDoes DEF ProjectionFollows
  <2>3. \A s \in Callers : req'[s].pc = "rot_project" => req'[s] = req[s]
    BY <2>1 DEF Goes, OthersStay
  <2>4. handle'.uid = req[r].uid /\ handle'.kv = profile'[req[r].uid].kv
    BY <2>1, <2>2 DEF Owned
  <2>. QED  BY <2>1, <2>3, <2>4 DEF ProjectionFollows, OwnedBy, Rotated
<1>17. CASE RotSave(r)
  BY <1>0, <1>b, <1>c, <1>17, Whose, RotSaveDoes DEF ProjectionFollows, OwnedBy, SameStore, SameClient, Ends, OthersStay, Idle, Rotated, ClaimPcs, RotPcs, EditPcs, DelPcs
<1>18. CASE StartEdit(r)
  BY <1>0, <1>b, <1>c, <1>18, Whose, StartEditDoes DEF ProjectionFollows, OwnedBy, SameStore, SameClient, Starts, OthersStay, MayStart, Idle, Rotated, ClaimPcs, RotPcs, EditPcs, DelPcs
<1>19. CASE EditGet(r)
  BY <1>0, <1>b, <1>c, <1>19, Whose, EditGetDoes DEF ProjectionFollows, OwnedBy, SameStore, SameClient, Goes, Ends, OthersStay, SameJob, Idle, Rotated, ClaimPcs, RotPcs, EditPcs, DelPcs
<1>20. CASE EditPut(r)
  <2>1. UNCHANGED <<profile, handle, plan>> /\ faults = 0
    BY <1>b, <1>20, Whose, EditPutDoes DEF ProfileAsRead, EditPcs, Typed, ObjectTypes, SameClient
  <2>2. \A s \in Callers : (req[s].pc = "rot_project" \/ req'[s].pc = "rot_project") => req'[s] = req[s]
    BY <1>20, EditPutDoes DEF Goes, Ends, OthersStay, Idle
  <2>. QED  BY <2>1, <2>2 DEF ProjectionFollows, OwnedBy, Rotated
<1>21. CASE EditProject(r)
  BY <1>0, <1>b, <1>c, <1>21, Whose, EditProjectDoes DEF ProjectionFollows, OwnedBy, SameStore, SameClient, Ends, OthersStay, Idle, Owned, Free, Released, ProfileAsRead, ClaimsAreNew, NoProfile, Exists, Rotated, ClaimPcs, RotPcs, EditPcs, DelPcs
<1>22. CASE StartDelete(r)
  BY <1>0, <1>b, <1>c, <1>22, Whose, StartDeleteDoes DEF ProjectionFollows, OwnedBy, SameStore, SameClient, Starts, OthersStay, MayStart, Idle, Rotated, ClaimPcs, RotPcs, EditPcs, DelPcs
<1>23. CASE DelGet(r)
  BY <1>0, <1>b, <1>c, <1>23, Whose, DelGetDoes DEF ProjectionFollows, OwnedBy, SameStore, SameClient, Goes, Ends, OthersStay, SameJob, Idle, Rotated, ClaimPcs, RotPcs, EditPcs, DelPcs
<1>24. CASE DelList(r)
  BY <1>0, <1>b, <1>c, <1>24, Whose, DelListDoes DEF ProjectionFollows, OwnedBy, SameStore, SameClient, Goes, Ends, OthersStay, SameJob, Idle, Rotated, ClaimPcs, RotPcs, EditPcs, DelPcs
<1>25. CASE DelFile(r)
  <2>1. PICK f \in req[r].todo :
          /\ Goes(r, "del_files") /\ Remove(req[r].uid, f) /\ UNCHANGED <<handle, plan>> /\ faults = 0
    BY <1>b, <1>25, DelFileDoes DEF SameClient
  <2>2. \A u \in Uids : profile'[u] = profile[u] \/ (u = req[r].uid /\ ~Exists(profile'[u]))
    BY <2>1 DEF Remove, Typed, ObjectTypes, Exists, NoProfile
  <2>3. \A s \in Callers : (req[s].pc = "rot_project" \/ req'[s].pc = "rot_project") =>
          req'[s] = req[s] /\ req[s].uid # req[r].uid /\ req[s].uid \in Uids
    BY <1>0, <1>25, <2>1, Whose, DelFileDoes DEF Goes, OthersStay, RotPcs, DelPcs
  <2>. QED  BY <2>1, <2>2, <2>3 DEF ProjectionFollows, OwnedBy, Rotated
<1>26. CASE DelLock(r)
  BY <1>0, <1>b, <1>c, <1>26, Whose, DelLockDoes DEF ProjectionFollows, OwnedBy, SameStore, SameClient, OthersStay, SameJob, Rotated, ClaimPcs, RotPcs, EditPcs, DelPcs
<1>27. CASE DelTombstone(r)
  BY <1>0, <1>b, <1>c, <1>27, Whose, DelTombstoneDoes DEF ProjectionFollows, OwnedBy, SameStore, SameClient, Ends, OthersStay, Idle, Owned, Free, Released, ProfileAsRead, ClaimsAreNew, NoProfile, Exists, Rotated, ClaimPcs, RotPcs, EditPcs, DelPcs
<1>. QED  BY <1>1, <1>2, <1>3, <1>4, <1>5, <1>6, <1>7, <1>8, <1>9, <1>10, <1>11, <1>12, <1>13, <1>14, <1>15, <1>16, <1>17, <1>18, <1>19, <1>20, <1>21, <1>22, <1>23, <1>24, <1>25, <1>26, <1>27 DEF RequestNext

-----------------------------------------------------------------------------
(* The versions, counted by the request ids that have been used.           *)
LEMMA AskedFinite ==
  ASSUME IsFiniteSet(Rids)
  PROVE  /\ IsFiniteSet(Asked) /\ Cardinality(Asked) \in Nat
<1>1. Asked \in SUBSET Rids
  BY DEF Asked
<1>. QED  BY <1>1, FS_Subset, FS_CardinalityType

(* A rotation asked for with a new request id is counted.                  *)
LEMMA AskedGrows ==
  ASSUME IsFiniteSet(Rids), RequestsInv, NEW r \in Callers, StartRotate(r)
  PROVE  /\ Cardinality(Asked') \in Nat /\ Cardinality(Asked') >= Cardinality(Asked)
         /\ \A j \in Rids : plan'[j] = plan[j] \/ (/\ Cardinality(Asked') = Cardinality(Asked) + 1
                                                /\ \E u \in Uids : plan'[j].kv = profile[u].kv + 1)
<1>. Typed
  BY DEF RequestsInv, Typed, MutexInv
<1>1. PICK u \in Uids, i \in Rids, c \in Rids \cup {0} :
        /\ plan[i].uid \in {0, u}
        /\ plan' = IF plan[i].uid = u THEN plan
                   ELSE [plan EXCEPT ![i] = [uid |-> u, kv |-> profile[u].kv + 1, cred |-> c]]
  BY StartRotateDoes
<1>2. CASE plan[i].uid = u
  BY <1>1, <1>2, AskedFinite DEF Asked
<1>3. CASE plan[i].uid # u
  <2>1. plan' = [plan EXCEPT ![i] = [uid |-> u, kv |-> profile[u].kv + 1, cred |-> c]] /\ plan[i].uid = 0
    BY <1>1, <1>3
  <2>2. /\ \A j \in Rids : j # i => plan'[j] = plan[j]
        /\ plan'[i].uid = u /\ plan'[i].kv = profile[u].kv + 1
    BY <2>1 DEF Typed, ObjectTypes
  <2>3. i \notin Asked /\ Asked' = Asked \cup {i}
    BY <2>1, <2>2, KeysAssumption DEF Asked
  <2>4. Cardinality(Asked') = Cardinality(Asked) + 1
    BY <2>3, AskedFinite, FS_AddElement
  <2>. QED  BY <2>2, <2>4, AskedFinite
<1>. QED  BY <1>2, <1>3

LEMMA VersionsStep ==
  ASSUME IsFiniteSet(Rids), RequestsInv, VersionsCounted, NEW r \in Callers, RequestNext(r)
  PROVE  VersionsCounted'
<1>. Typed
  BY DEF RequestsInv, Typed, MutexInv
<1>0. /\ Cardinality(Asked) \in Nat /\ (UNCHANGED plan => Cardinality(Asked') = Cardinality(Asked))
      /\ Cardinality(Asked') \in Nat /\ Cardinality(Asked') >= Cardinality(Asked)
      /\ \A j \in Rids : plan'[j] = plan[j] \/ (/\ Cardinality(Asked') = Cardinality(Asked) + 1
                                             /\ \E u \in Uids : plan'[j].kv = profile[u].kv + 1)
  <2>1. CASE StartRotate(r)
    BY <2>1, AskedGrows, AskedFinite DEF Asked
  <2>2. CASE UNCHANGED plan
    BY <2>2, AskedFinite DEF Asked
  <2>3. ~StartRotate(r) => UNCHANGED plan
    BY LockGrantedDoes, LockTimesOutDoes, LockReleasedDoes, StartRegisterDoes, RegGetDoes,
       RegDeleteTombstoneDoes, RegPutHandleDoes, RegPutProfileDoes, RegPutDeviceDoes, RegUndoHandleDoes,
       RegUndoProfileDoes, RotLoadDoes, RotGetDoes, RotPutDoes, RotProjectDoes, RotSaveDoes, StartEditDoes,
       EditGetDoes, EditPutDoes, EditProjectDoes, StartDeleteDoes, DelGetDoes, DelListDoes, DelFileDoes,
       DelLockDoes, DelTombstoneDoes
       DEF RequestNext, SameClient
  <2>. QED  BY <2>1, <2>2, <2>3
<1>1. /\ handle.kv \in Nat /\ \A u \in Uids : profile[u].kv \in Nat
      /\ \A i \in Rids : plan[i].kv \in Nat
      /\ \A s \in Callers : req[s].read.kv \in Nat
  BY DEF Typed, ObjectTypes, RequestTypes, RequestRecords, Profiles
<1>2. /\ Idle.read.kv = 0 /\ NoProfile.kv = 0
      /\ req[r].kind # "none" => req[r].uid \in Uids
      /\ req[r].kind = "rotate" => req[r].rid \in Rids
  BY Whose DEF Idle, NoProfile, Typed, RequestsKnown

(* What the handle, a profile or a request may hold next.                  *)
<1>3. \A i \in Rids : plan'[i].kv <= 1 + Cardinality(Asked')
  BY <1>0, <1>1 DEF VersionsCounted
<1>4. handle'.kv <= 1 + Cardinality(Asked')
  <2>1. \/ handle' = handle \/ handle'.kv = 0 \/ handle'.kv = 1
        \/ req[r].kind = "rotate" /\ handle'.kv = plan[req[r].rid].kv
        \/ handle'.kv = req[r].read.kv
    <3>1. CASE RegDeleteTombstone(r)
      BY <3>1, Whose, RegDeleteTombstoneDoes DEF Free, Owned, Released, Rotated, RotPcs, At
    <3>2. CASE RegPutHandle(r)
      BY <3>2, Whose, RegPutHandleDoes DEF Free, Owned, Released, Rotated, RotPcs, At
    <3>3. CASE RegUndoHandle(r)
      BY <3>3, Whose, RegUndoHandleDoes DEF Free, Owned, Released, Rotated, RotPcs, At
    <3>4. CASE RotProject(r)
      BY <3>4, Whose, RotProjectDoes DEF Free, Owned, Released, Rotated, RotPcs, At
    <3>5. CASE EditProject(r)
      BY <3>5, Whose, EditProjectDoes DEF Free, Owned, Released, Rotated, RotPcs, At
    <3>6. CASE DelTombstone(r)
      BY <3>6, Whose, DelTombstoneDoes DEF Free, Owned, Released, Rotated, RotPcs, At
    <3>7. CASE ~(RegDeleteTombstone(r) \/ RegPutHandle(r) \/ RegUndoHandle(r) \/ RotProject(r) \/ EditProject(r) \/ DelTombstone(r))
      <4>1. UNCHANGED handle
        BY <3>7,
           LockGrantedDoes, LockTimesOutDoes, LockReleasedDoes, StartRegisterDoes, RegGetDoes,
           RegPutProfileDoes, RegPutDeviceDoes, RegUndoProfileDoes, StartRotateDoes, RotLoadDoes,
           RotGetDoes, RotPutDoes, RotSaveDoes, StartEditDoes, EditGetDoes, EditPutDoes,
           StartDeleteDoes, DelGetDoes, DelListDoes, DelFileDoes, DelLockDoes
           DEF RequestNext, SameStore
      <4>. QED  BY <4>1
    <3>. QED  BY <3>1, <3>2, <3>3, <3>4, <3>5, <3>6, <3>7
  <2>. QED  BY <1>0, <1>1, <1>2, <2>1 DEF VersionsCounted
<1>5. \A u \in Uids : profile'[u].kv <= 1 + Cardinality(Asked')
  <2>1. \/ UNCHANGED profile
        \/ \E p : /\ profile' = [profile EXCEPT ![req[r].uid] = p]
                 /\ \/ p.kv \in {0, 1} \/ p = req[r].read
                    \/ req[r].kind # "none" /\ p = profile[req[r].uid]
                    \/ req[r].kind = "rotate" /\ p.kv = plan[req[r].rid].kv
    <3>1. CASE RegPutProfile(r)
      BY <3>1, Whose, RegPutProfileDoes DEF NoProfile, Remove, Rotated, ClaimPcs, RotPcs, EditPcs, DelPcs, At
    <3>2. CASE RegUndoProfile(r)
      BY <3>2, Whose, RegUndoProfileDoes DEF NoProfile, Remove, Rotated, ClaimPcs, RotPcs, EditPcs, DelPcs, At
    <3>3. CASE RotPut(r)
      <4>1. req[r].kind = "rotate"
        BY <3>3, Whose, RotPutDoes DEF RotPcs, At
      <4>2. PICK p \in {profile[req[r].uid], Rotated(r)} : profile' = [profile EXCEPT ![req[r].uid] = p]
        BY <3>3, RotPutDoes
      <4>3. Rotated(r).kv = plan[req[r].rid].kv
        BY DEF Rotated
      <4>. QED  BY <4>1, <4>2, <4>3
    <3>4. CASE EditPut(r)
      BY <3>4, Whose, EditPutDoes DEF NoProfile, Remove, Rotated, ClaimPcs, RotPcs, EditPcs, DelPcs, At
    <3>5. CASE DelFile(r)
      BY <3>5, Whose, DelFileDoes DEF NoProfile, Remove, Rotated, ClaimPcs, RotPcs, EditPcs, DelPcs, At
    <3>6. CASE ~(RegPutProfile(r) \/ RegUndoProfile(r) \/ RotPut(r) \/ EditPut(r) \/ DelFile(r))
      <4>1. UNCHANGED profile
        BY <3>6,
           LockGrantedDoes, LockTimesOutDoes, LockReleasedDoes, StartRegisterDoes, RegGetDoes,
           RegDeleteTombstoneDoes, RegPutHandleDoes, RegPutDeviceDoes, RegUndoHandleDoes,
           StartRotateDoes, RotLoadDoes, RotGetDoes, RotProjectDoes, RotSaveDoes, StartEditDoes,
           EditGetDoes, EditProjectDoes, StartDeleteDoes, DelGetDoes, DelListDoes, DelLockDoes,
           DelTombstoneDoes
           DEF RequestNext, SameStore
      <4>. QED  BY <4>1
    <3>. QED  BY <3>1, <3>2, <3>3, <3>4, <3>5, <3>6
  <2>2. \A u \in Uids : \/ profile'[u].kv \in {0, 1} \/ profile'[u] = profile[u]
                        \/ profile'[u].kv = req[r].read.kv
                        \/ req[r].kind # "none" /\ profile'[u] = profile[req[r].uid]
                        \/ req[r].kind = "rotate" /\ profile'[u].kv = plan[req[r].rid].kv
    BY <2>1 DEF Typed, ObjectTypes
  <2>. QED  BY <1>0, <1>1, <1>2, <2>2 DEF VersionsCounted
<1>6. \A s \in Callers : req'[s].read.kv <= 1 + Cardinality(Asked')
  <2>1. \A s \in Callers : \/ req'[s].read = req[s].read \/ req'[s].read.kv = 0
                           \/ req[s].kind # "none" /\ req'[s].read = profile[req[s].uid]
    BY <1>2, Whose, LockGrantedDoes, LockTimesOutDoes, LockReleasedDoes, StartRegisterDoes, RegGetDoes,
       RegDeleteTombstoneDoes, RegPutHandleDoes, RegPutProfileDoes, RegPutDeviceDoes, RegUndoHandleDoes,
       RegUndoProfileDoes, StartRotateDoes, RotLoadDoes, RotGetDoes, RotPutDoes, RotProjectDoes, RotSaveDoes,
       StartEditDoes, EditGetDoes, EditPutDoes, EditProjectDoes, StartDeleteDoes, DelGetDoes, DelListDoes,
       DelFileDoes, DelLockDoes, DelTombstoneDoes
       DEF RequestNext, Ends, Goes, Starts, OthersStay, KeepsRead, ClaimPcs, RotPcs, EditPcs, DelPcs, At
  <2>2. \A s \in Callers : req[s].kind # "none" => req[s].uid \in Uids
    BY Whose
  <2>. QED  BY <1>0, <1>1, <2>1, <2>2 DEF VersionsCounted
<1>. QED  BY <1>3, <1>4, <1>5, <1>6 DEF VersionsCounted

-----------------------------------------------------------------------------
(* The parts of the invariant that no request concerns: nobody is at work  *)
(* when the server comes up again, nor when a day passes.                  *)
Quiet == \A s \in Callers : req'[s] = Idle

LEMMA AtRest ==
  ASSUME RequestsInv, Crash \/ Day
  PROVE  /\ Quiet /\ SameStore /\ SameClient /\ today' >= today /\ faults' \in {0, faults'}
         /\ faults' = 0 => faults = 0 /\ \A s \in Callers : req[s] = Idle
<1>1. Typed
  BY DEF RequestsInv, Typed, MutexInv
<1>2. CASE Crash
  <2>1. today' = today /\ today \in Nat
    BY <1>1, <1>2, CrashDoes, AccountBounds DEF Typed, ObjectTypes
  <2>. QED  BY <1>1, <1>2, <2>1, CrashDoes DEF Quiet
<1>3. CASE Day
  BY <1>1, <1>3, DayDoes, AccountBounds DEF Quiet, Typed, ObjectTypes
<1>. QED  BY <1>2, <1>3

LEMMA HoldersAtRest ==
  ASSUME RequestsInv, HandleHolders, Crash \/ Day
  PROVE  HandleHolders'
<1>1. \A s \in Callers : req'[s].pc = "idle" /\ ~AtWork(s)'
  BY AtRest DEF Quiet, Idle, AtWork
<1>. QED  BY <1>1, AtRest DEF HandleHolders, OwnedBy, SameStore, SameClient

LEMMA AnswersAtRest ==
  ASSUME RequestsInv, AnswersRecorded, Crash \/ Day
  PROVE  AnswersRecorded'
<1>1. \A s \in Callers : req'[s].pc = "idle"
  BY AtRest DEF Quiet, Idle
<1>2. faults' = 0 => faults = 0 /\ \A s \in Callers : req[s].pc = "idle"
  BY AtRest DEF Idle
<1>. QED  BY <1>1, <1>2, AtRest DEF AnswersRecorded, SameStore, SameClient, RotPcs

LEMMA AsReadAtRest ==
  ASSUME RequestsInv, ProfileAsRead, Crash \/ Day
  PROVE  ProfileAsRead'
<1>1. \A s \in Callers : req'[s].pc = "idle"
  BY AtRest DEF Quiet, Idle
<1>. QED  BY <1>1 DEF ProfileAsRead

LEMMA ProjectionAtRest ==
  ASSUME RequestsInv, ProjectionFollows, Crash \/ Day
  PROVE  ProjectionFollows'
<1>1. \A s \in Callers : req'[s].pc = "idle"
  BY AtRest DEF Quiet, Idle
<1>2. faults' = 0 => faults = 0 /\ \A s \in Callers : req[s].pc = "idle"
  BY AtRest DEF Idle
<1>. QED  BY <1>1, <1>2, AtRest DEF ProjectionFollows, OwnedBy, SameStore, SameClient

LEMMA VersionsAtRest ==
  ASSUME IsFiniteSet(Rids), RequestsInv, VersionsCounted, Crash \/ Day
  PROVE  VersionsCounted'
<1>1. \A s \in Callers : req'[s].read.kv = 0
  BY AtRest DEF Quiet, Idle, NoProfile
<1>2. Asked' = Asked /\ Cardinality(Asked) \in Nat
  BY AtRest, AskedFinite DEF Asked, SameClient
<1>. QED  BY <1>1, <1>2, AtRest DEF VersionsCounted, SameStore, SameClient

(* The invariant of the account handlers.                                  *)
LEMMA AccountInvInit ==
  ASSUME AccountInit
  PROVE  AccountInv
<1>1. RequestsInv
  BY RequestsInvInit
<1>2. \A s \in Callers : req[s] = Idle /\ req[s].pc = "idle" /\ ~AtWork(s) /\ req[s].read.kv = 0
  BY DEF AccountInit, Idle, AtWork, NoProfile
<1>3. HandleHolders /\ AnswersRecorded /\ ProfileAsRead
  BY <1>2 DEF AccountInit, HandleHolders, AnswersRecorded, ProfileAsRead, RotPcs
<1>4. ProjectionFollows
  BY <1>2 DEF AccountInit, ProjectionFollows, OwnedBy, Free
<1>5. IsFiniteSet(Rids) => VersionsCounted
  BY <1>2, AskedFinite DEF AccountInit, VersionsCounted, Free, NoProfile
<1>. QED  BY <1>1, <1>3, <1>4, <1>5 DEF AccountInv

LEMMA AccountInvStep ==
  ASSUME AccountInv, [AccountNext]_accountVars
  PROVE  AccountInv'
<1>1. RequestsInv /\ RequestsInv'
  BY RequestsInvStep DEF AccountInv
<1>2. CASE \E r \in Callers : RequestNext(r)
  <2>1. PICK r \in Callers : RequestNext(r)
    BY <1>2
  <2>2. ASSUME "delete" \notin Overlap
        PROVE  HandleHolders' /\ AnswersRecorded'
    BY <1>1, <2>1, <2>2, HoldersStep, AnswersStep DEF AccountInv
  <2>3. ASSUME Overlap \cap {"update", "touch"} = {}
        PROVE  ProfileAsRead'
    BY <1>1, <2>1, <2>3, AsReadStep DEF AccountInv
  <2>4. ASSUME Overlap \subseteq {"rotate"}
        PROVE  ProjectionFollows'
    <3>1. Overlap \cap {"update", "touch"} = {} /\ "delete" \notin Overlap
      BY <2>4
    <3>. QED  BY <1>1, <2>1, <2>4, <3>1, ProjectionStep DEF AccountInv
  <2>5. IsFiniteSet(Rids) => VersionsCounted'
    BY <1>1, <2>1, VersionsStep DEF AccountInv
  <2>. QED  BY <1>1, <2>2, <2>3, <2>4, <2>5 DEF AccountInv
<1>3. CASE Crash \/ Day
  BY <1>1, <1>3, HoldersAtRest, AnswersAtRest, AsReadAtRest, ProjectionAtRest, VersionsAtRest DEF AccountInv
<1>4. CASE UNCHANGED accountVars
  <2>1. /\ HandleHolders => HandleHolders'
        /\ ProfileAsRead => ProfileAsRead'
    BY <1>4 DEF HandleHolders, ProfileAsRead, AtWork, OwnedBy, CoolingDown, accountVars
  <2>2. /\ AnswersRecorded => AnswersRecorded'
        /\ ProjectionFollows => ProjectionFollows'
        /\ VersionsCounted => VersionsCounted'
    BY <1>4 DEF AnswersRecorded, ProjectionFollows, VersionsCounted, Asked, OwnedBy, Rotated, accountVars
  <2>. QED  BY <1>1, <2>1, <2>2 DEF AccountInv
<1>. QED  BY <1>2, <1>3, <1>4 DEF AccountNext

(* Every reachable state of the handlers satisfies the invariant.          *)
THEOREM AccountInvariant == AccountSpec => []AccountInv
<1>1. AccountInit => AccountInv
  BY AccountInvInit
<1>2. AccountInv /\ [AccountNext]_accountVars => AccountInv'
  BY AccountInvStep
<1>. QED  BY <1>1, <1>2, PTL DEF AccountSpec

-----------------------------------------------------------------------------
(* Types: a key_version is at most one more than the rotations asked for.  *)
THEOREM AccountTypeCorrect ==
  ASSUME IsFiniteSet(Rids)
  PROVE  AccountSpec => []AccountTypeOK
<1>1. ASSUME AccountInv
      PROVE  AccountTypeOK
  <2>1. RequestsInv /\ VersionsCounted
    BY <1>1 DEF AccountInv
  <2>2. MutexTypeOK /\ RequestTypes /\ ObjectTypes
    BY <2>1 DEF RequestsInv, MutexInv
  <2>3. /\ Cardinality(Rids) \in Nat /\ Cardinality(Asked) \in Nat
        /\ Cardinality(Asked) <= Cardinality(Rids)
    BY FS_Subset, FS_CardinalityType, AskedFinite DEF Asked
  <2>4. \A n \in Nat : n <= 1 + Cardinality(Asked) => n \in Versions
    BY <2>3 DEF Versions
  <2>5. /\ handle.kind \in {"free", "owned", "released"}
        /\ handle.uid \in Uids \cup {0} /\ handle.kv \in Versions /\ handle.since \in Nat
    BY <2>1, <2>2, <2>4 DEF ObjectTypes, VersionsCounted
  <2>6. profile \in [Uids -> [kv : Versions, cred : Rids \cup {0}]]
    BY <2>1, <2>2, <2>4 DEF ObjectTypes, VersionsCounted, Profiles
  <2>7. plan \in [Rids -> [uid : Uids \cup {0}, kv : Versions, cred : Rids \cup {0}]]
    BY <2>1, <2>2, <2>4 DEF ObjectTypes, VersionsCounted
  <2>8. registered \subseteq minted /\ leaving \subseteq registered
    BY <2>1 DEF RequestsInv, ClaimsAreNew
  <2>9. ASSUME NEW r \in Callers
        PROVE  /\ req[r].kind \in Kinds
               /\ req[r].uid \in Uids \cup {0} /\ req[r].rid \in Rids \cup {0}
               /\ req[r].read \in [kv : Versions, cred : Rids \cup {0}]
               /\ req[r].todo \subseteq Files
               /\ req[r].pc = "idle" <=> req[r] = Idle
               /\ caller[r].at \in {"wait", "in"} => req[r].pc # "idle"
    <3>1. req[r] \in RequestRecords /\ req[r].read.kv <= 1 + Cardinality(Asked)
      BY <2>1, <2>2 DEF RequestTypes, VersionsCounted
    <3>2. req[r].read \in [kv : Versions, cred : Rids \cup {0}]
      BY <3>1, <2>4 DEF RequestRecords, Profiles
    <3>3. req[r].pc = "idle" <=> req[r] = Idle
      <4>1. req[r].pc = "idle" => req[r] = Idle
        BY <2>1, Whose DEF RequestsInv, RequestsKnown
      <4>2. Idle.pc = "idle"
        BY DEF Idle
      <4>. QED  BY <4>1, <4>2
    <3>4. caller[r].at \in {"wait", "in"} => req[r].pc # "idle"
      BY <2>1, Whose DEF RequestsInv, LocksHeld
    <3>. QED  BY <3>1, <3>2, <3>3, <3>4 DEF RequestRecords
  <2>. QED  BY <2>2, <2>5, <2>6, <2>7, <2>8, <2>9 DEF ObjectTypes, AccountTypeOK
<1>. QED  BY <1>1, AccountInvariant, PTL

(* An account whose registration was answered owns its handle until it     *)
(* asks to leave, whatever claims, roll backs, retries, crashes and other  *)
(* requests meet it; only a deletion overlapping another request of the    *)
(* same account is excluded.                                               *)
THEOREM HandleKept ==
  ASSUME "delete" \notin Overlap
  PROVE  AccountSpec => []HandleIsKept
<1>1. AccountInv => HandleIsKept
  <2>1. AccountInv => HandleHolders /\ registered \subseteq Uids
    BY DEF AccountInv, RequestsInv, ClaimsAreNew, ObjectTypes
  <2>. QED  BY <2>1 DEF HandleHolders, HandleIsKept, OwnedBy
<1>. QED  BY <1>1, AccountInvariant, PTL

(* A tombstone is left alone for the whole cooldown: every write to the    *)
(* handle is a claim that read it free or expired, or is made for an       *)
(* account that still owns it.                                             *)
THEOREM TombstoneIsHeld ==
  ASSUME "delete" \notin Overlap
  PROVE  AccountSpec => TombstoneHolds
<1>1. ASSUME AccountInv, [AccountNext]_accountVars,
             handle.kind = "released", today < handle.since + Cooldown
      PROVE  handle' = handle
  <2>1. RequestsInv /\ HandleHolders /\ Typed
    BY <1>1 DEF AccountInv, RequestsInv, Typed, MutexInv
  <2>2. CoolingDown(handle) /\ \A s \in Callers : ~AtWork(s)
    BY <1>1, <2>1 DEF CoolingDown, HandleHolders, OwnedBy
  <2>3. ASSUME NEW r \in Callers, RequestNext(r)
        PROVE  UNCHANGED handle
    <3>1. ~RegDeleteTombstone(r) /\ ~RegPutHandle(r) /\ ~RegUndoHandle(r)
      BY <1>1, <2>1, <2>2, RegDeleteTombstoneDoes, RegPutHandleDoes, RegUndoHandleDoes
         DEF HandleHolders, At, Owned
    <3>2. ~RotProject(r) /\ ~EditProject(r) /\ ~DelTombstone(r)
      BY <2>1, <2>2, Whose, RotProjectDoes, EditProjectDoes, DelTombstoneDoes
         DEF At, AtWork, RotPcs, EditPcs, DelPcs
    <3>. QED  BY <2>1, <2>3, <3>1, <3>2,
              LockGrantedDoes, LockTimesOutDoes, LockReleasedDoes, StartRegisterDoes, RegGetDoes,
              RegPutProfileDoes, RegPutDeviceDoes, RegUndoProfileDoes, StartRotateDoes, RotLoadDoes,
              RotGetDoes, RotPutDoes, RotSaveDoes, StartEditDoes, EditGetDoes, EditPutDoes,
              StartDeleteDoes, DelGetDoes, DelListDoes, DelFileDoes, DelLockDoes
              DEF RequestNext, SameStore
  <2>4. CASE Crash \/ Day
    BY <2>1, <2>4, AtRest DEF SameStore
  <2>. QED  BY <1>1, <2>3, <2>4 DEF AccountNext, accountVars
<1>. QED  BY <1>1, AccountInvariant, PTL DEF AccountSpec, TombstoneHolds

(* A credential is replaced only by the next one of its chain: a rotation  *)
(* writes the profile it checked, since no other of the account is past    *)
(* its lock and no edit overlaps it, and everything else writes back what  *)
(* is there, a first profile or none.                                      *)
THEOREM ChainOfRotations ==
  ASSUME Overlap \cap {"update", "touch"} = {}
  PROVE  AccountSpec => RotationChain
<1>. DEFINE Chained(u) ==
       Exists(profile[u]) /\ Exists(profile'[u]) /\ profile'[u] # profile[u] =>
         /\ profile'[u].kv = profile[u].kv + 1
         /\ plan[profile'[u].cred].cred = profile[u].cred
<1>1. ASSUME AccountInv, [AccountNext]_accountVars, NEW u \in Uids
      PROVE  Chained(u)
  <2>1. RequestsInv /\ ProfileAsRead /\ Typed /\ ClaimsAreNew
    BY <1>1 DEF AccountInv, RequestsInv, Typed, MutexInv
  <2>2. ASSUME NEW r \in Callers, NEW p, profile' = [profile EXCEPT ![req[r].uid] = p],
               p = profile[req[r].uid] \/ ~Exists(p) \/ ~Exists(profile[req[r].uid])
        PROVE  Chained(u)
    BY <2>1, <2>2 DEF Typed, ObjectTypes
  <2>3. ~Exists(NoProfile)
    BY DEF Exists, NoProfile
  <2>4. ASSUME NEW r \in Callers, RequestNext(r)
        PROVE  Chained(u)
    <3>1. CASE RegPutProfile(r)
      <4>1. profile[req[r].uid] = NoProfile
        BY <2>1, <3>1, Whose, RegPutProfileDoes DEF ClaimsAreNew, ClaimPcs, At
      <4>. QED  BY <2>1, <2>2, <2>3, <3>1, <4>1, RegPutProfileDoes
    <3>2. CASE RegUndoProfile(r)
      BY <2>1, <2>2, <2>3, <3>2, RegUndoProfileDoes
    <3>3. CASE RotPut(r)
      <4>1. PICK p \in {profile[req[r].uid], Rotated(r)} : profile' = [profile EXCEPT ![req[r].uid] = p]
        BY <2>1, <3>3, RotPutDoes
      <4>2. CASE p = profile[req[r].uid]
        BY <2>2, <4>1, <4>2
      <4>3. CASE p = Rotated(r)
        <5>1. req[r].uid \in Uids /\ req[r].pc = "rot_put"
          BY <2>1, <3>3, Whose, RotPutDoes DEF RotPcs, At
        <5>2. profile'[req[r].uid] = Rotated(r) /\ \A v \in Uids : v # req[r].uid => profile'[v] = profile[v]
          BY <2>1, <4>1, <4>3, <5>1 DEF Typed, ObjectTypes
        <5>3. Exists(profile[req[r].uid]) => Verdict(profile[req[r].uid], plan[req[r].rid]) = "ok"
          BY <2>1, <5>1 DEF ProfileAsRead
        <5>4. Exists(profile[req[r].uid]) => /\ plan[req[r].rid].kv = profile[req[r].uid].kv + 1
                                             /\ plan[req[r].rid].cred = profile[req[r].uid].cred
          BY <5>3 DEF Verdict
        <5>. QED  BY <5>2, <5>4 DEF Rotated
      <4>. QED  BY <4>1, <4>2, <4>3
    <3>4. CASE EditPut(r)
      <4>1. req[r].read = profile[req[r].uid]
        BY <2>1, <3>4, EditPutDoes DEF ProfileAsRead, At
      <4>. QED  BY <2>1, <2>2, <3>4, <4>1, EditPutDoes
    <3>5. CASE DelFile(r)
      <4>1. \/ UNCHANGED profile
            \/ profile' = [profile EXCEPT ![req[r].uid] = NoProfile]
        BY <2>1, <3>5, DelFileDoes DEF Remove
      <4>. QED  BY <2>2, <2>3, <4>1
    <3>6. CASE ~(RegPutProfile(r) \/ RegUndoProfile(r) \/ RotPut(r) \/ EditPut(r) \/ DelFile(r))
      <4>1. UNCHANGED profile
        BY <2>1, <2>4, <3>6,
           LockGrantedDoes, LockTimesOutDoes, LockReleasedDoes, StartRegisterDoes, RegGetDoes,
           RegDeleteTombstoneDoes, RegPutHandleDoes, RegPutDeviceDoes, RegUndoHandleDoes,
           StartRotateDoes, RotLoadDoes, RotGetDoes, RotProjectDoes, RotSaveDoes, StartEditDoes,
           EditGetDoes, EditProjectDoes, StartDeleteDoes, DelGetDoes, DelListDoes, DelLockDoes,
           DelTombstoneDoes
           DEF RequestNext, SameStore
      <4>. QED  BY <4>1
    <3>. QED  BY <3>1, <3>2, <3>3, <3>4, <3>5, <3>6
  <2>5. CASE Crash \/ Day
    BY <2>1, <2>5, AtRest DEF SameStore
  <2>. QED  BY <1>1, <2>4, <2>5 DEF AccountNext, accountVars
<1>2. AccountInv /\ [AccountNext]_accountVars => \A u \in Uids : Chained(u)
  BY <1>1
<1>. QED  BY <1>2, AccountInvariant, PTL DEF AccountSpec, RotationChain

(* Until something fails a request id is answered once and for all: its    *)
(* answer is recorded before its account's lock is given up.               *)
THEOREM OneAnswer ==
  ASSUME "delete" \notin Overlap
  PROVE  AccountSpec => []AnswersAgree
<1>1. AccountInit => AnswersAgree
  BY DEF AccountInit, AnswersAgree
<1>2. ASSUME AccountInv, AnswersAgree, [AccountNext]_accountVars
      PROVE  AnswersAgree'
  <2>1. RequestsInv /\ HandleHolders /\ AnswersRecorded /\ Typed
    BY <1>2 DEF AccountInv, RequestsInv, Typed, MutexInv
  <2>2. CASE UNCHANGED answers /\ (faults' = 0 => faults = 0)
    BY <1>2, <2>2 DEF AnswersAgree
  <2>3. ASSUME NEW r \in Callers, RequestNext(r)
        PROVE  AnswersAgree'
    <3>1. CASE RotLoad(r)
      <4>1. \/ UNCHANGED answers
            \/ answers' = answers \cup {<<req[r].rid, records[req[r].rid]>>}
        BY <2>1, <3>1, RotLoadDoes
      <4>2. /\ req[r].rid \in Rids /\ plan[req[r].rid].uid = req[r].uid /\ req[r].kind = "rotate"
            /\ req[r].uid \in devices
        BY <2>1, <3>1, Whose, RotLoadDoes DEF Typed, RequestsKnown, HandleHolders, AtWork, RotPcs, At
      <4>3. \A s \in Callers : req[s].pc = "del_files" => req[s].uid # req[r].uid
        BY <2>1, <4>2, Whose, DeletesAlone DEF DelPcs
      <4>4. faults' = 0 => faults = 0
        BY <2>1, <3>1, RotLoadDoes, AccountBounds DEF Counts, Typed, ObjectTypes
      <4>5. ASSUME faults' = 0, NEW a \in answers, a[1] = req[r].rid
            PROVE  a[2] = records[req[r].rid]
        <5>1. a[2] \in Answers /\ a = <<req[r].rid, a[2]>>
          BY <2>1, <4>5 DEF Typed, ObjectTypes
        <5>. QED  BY <2>1, <4>2, <4>3, <4>4, <4>5, <5>1 DEF AnswersRecorded
      <4>6. \A a \in answers : a = <<a[1], a[2]>>
        BY <2>1 DEF Typed, ObjectTypes
      <4>. QED  BY <1>2, <4>1, <4>4, <4>5, <4>6 DEF AnswersAgree
    <3>2. CASE RotSave(r)
      <4>1. /\ answers' = answers \cup {<<req[r].rid, req[r].answer>>}
            /\ req[r].pc = "rot_save" /\ (faults' = 0 => faults = 0)
        BY <2>1, <3>2, RotSaveDoes, AccountBounds DEF Counts, Typed, ObjectTypes, At
      <4>2. ASSUME faults' = 0, NEW a \in answers
            PROVE  a[1] # req[r].rid
        <5>1. a[2] \in Answers /\ a = <<a[1], a[2]>>
          BY <2>1, <4>2 DEF Typed, ObjectTypes
        <5>. QED  BY <2>1, <4>1, <4>2, <5>1 DEF AnswersRecorded, RotPcs
      <4>. QED  BY <1>2, <4>1, <4>2 DEF AnswersAgree
    <3>3. CASE ~RotLoad(r) /\ ~RotSave(r)
      <4>1. UNCHANGED answers /\ (Counts \/ UNCHANGED faults)
        BY <2>1, <2>3, <3>3,
           LockGrantedDoes, LockTimesOutDoes, LockReleasedDoes, StartRegisterDoes, RegGetDoes,
           RegDeleteTombstoneDoes, RegPutHandleDoes, RegPutProfileDoes, RegPutDeviceDoes, RegUndoHandleDoes,
           RegUndoProfileDoes, StartRotateDoes, RotGetDoes, RotPutDoes, RotProjectDoes, StartEditDoes,
           EditGetDoes, EditPutDoes, EditProjectDoes, StartDeleteDoes, DelGetDoes, DelListDoes, DelFileDoes,
           DelLockDoes, DelTombstoneDoes
           DEF RequestNext, SameClient
      <4>. QED  BY <2>1, <2>2, <4>1, AccountBounds DEF Counts, Typed, ObjectTypes
    <3>. QED  BY <3>1, <3>2, <3>3
  <2>4. CASE Crash \/ Day
    BY <2>1, <2>2, <2>4, AtRest DEF SameClient
  <2>. QED  BY <1>2, <2>2, <2>3, <2>4 DEF AccountNext, accountVars
<1>. QED  BY <1>1, <1>2, AccountInvariant, PTL DEF AccountSpec

(* Until something fails, resolve tells the current key_version of every   *)
(* account nobody is working on.                                           *)
THEOREM ResolveCurrent ==
  ASSUME Overlap \subseteq {"rotate"}
  PROVE  AccountSpec => []ResolveIsCurrent
<1>1. AccountInv => ResolveIsCurrent
  <2>1. AccountInv => ProjectionFollows /\ registered \subseteq Uids
    BY DEF AccountInv, RequestsInv, ClaimsAreNew, ObjectTypes
  <2>. QED  BY <2>1 DEF ProjectionFollows, ResolveIsCurrent, OwnedBy
<1>. QED  BY <1>1, AccountInvariant, PTL

(* The handlers use the keyed mutex as it wants to be used: under every    *)
(* interleaving of claims, rotations, burials, time outs and crashes at    *)
(* most one of them is inside for a handle or a user, and no two keys      *)
(* share a semaphore.                                                      *)
THEOREM AccountLocks ==
  AccountSpec => [](MutualExclusion /\ KeysAreApart)
<1>1. AccountInv => MutualExclusion /\ KeysAreApart
  BY MutexInvSuffices DEF AccountInv, RequestsInv, KeysAreApart
<1>. QED  BY <1>1, AccountInvariant, PTL
==============================================================================
