----------------------------- MODULE ServerEdge -----------------------------
(***************************************************************************)
(* The parts of the server around the inbox and the account: the request     *)
(* guard, the registration's proof of work, the media quota, the delivery    *)
(* of a message with its events, and the retention sweep.  They share no     *)
(* state, so their steps commute, and a behaviour of the composition is a    *)
(* behaviour of one of them while the others keep their initial state.       *)
(***************************************************************************)
EXTENDS Guard, Registration, MediaQuota, Delivery, Retention

VARIABLE edgePart   \* the part that moves

edgeVars == <<edgePart, gVars, rVars, qVars, dVars, tVars>>

\* The initial states of the parts that do not move are fixed to one.
EdgeInit ==
    /\ edgePart \in {"guard", "registration", "quota", "delivery", "retention"}
    /\ GuardInit /\ RegistrationInit /\ DeliveryInit
    /\ QuotaInit /\ (edgePart # "quota" => qStored = {})
    /\ RetentionInit /\ (edgePart # "retention" => ~tDry /\ \A h \in HandleKeys : tHandle[h] = "free")

EdgeNext ==
    /\ UNCHANGED edgePart
    /\ \/ edgePart = "guard" /\ GuardNext /\ UNCHANGED <<rVars, qVars, dVars, tVars>>
       \/ edgePart = "registration" /\ RegistrationNext /\ UNCHANGED <<gVars, qVars, dVars, tVars>>
       \/ edgePart = "quota" /\ QuotaNext /\ UNCHANGED <<gVars, rVars, dVars, tVars>>
       \/ edgePart = "delivery" /\ DeliveryNext /\ UNCHANGED <<gVars, rVars, qVars, tVars>>
       \/ edgePart = "retention" /\ RetentionNext /\ UNCHANGED <<gVars, rVars, qVars, dVars>>

\* The browser and the network answer, with a result or with a failure.
EdgeFairness == \A f \in Forms : WF_rVars(FormStep(f))

EdgeSpec == EdgeInit /\ [][EdgeNext]_edgeVars /\ EdgeFairness

\* The state of every part stays in its types.
EdgeTypeOK ==
    GuardTypeOK /\ RegistrationTypeOK /\ QuotaTypeOK /\ DeliveryTypeOK /\ RetentionTypeOK
=============================================================================
