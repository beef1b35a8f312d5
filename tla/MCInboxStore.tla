---------------------------- MODULE MCInboxStore ----------------------------
(* Instances of InboxStore for TLC: the sets of message ids. *)
EXTENDS InboxStore, TLC

ThreeMessages == 1..3
TwoMessages   == 1..2

HandlerSymmetry == Permutations(Handlers)
=============================================================================
