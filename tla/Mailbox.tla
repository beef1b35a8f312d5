------------------------------ MODULE Mailbox ------------------------------
(***************************************************************************)
(* What the server promises about one mailbox (`inbox/{uid}/` or           *)
(* `keys/{uid}/`): an object it has accepted stays readable for ever, and  *)
(* nothing it has not accepted appears.  Compaction, which moves objects   *)
(* from `live/` into `archive/`, is invisible here: it is a stuttering     *)
(* step.  InboxStore is shown to implement this module.                    *)
(***************************************************************************)
CONSTANT Messages

VARIABLE stored     \* every object a reader can still find, live or archived

Init == stored = {}

Accept(m) == stored' = stored \cup {m}

Next == \E m \in Messages : Accept(m)

Spec == Init /\ [][Next]_stored

(* Type correctness of the abstract mailbox. *)
TypeOK == stored \subseteq Messages
=============================================================================
