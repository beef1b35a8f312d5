---------------------------- MODULE MCServerEdge ----------------------------
(* Values for TLC: a batch for the peer and the sender's own devices, the     *)
(* stream of a device of the peer, and two keys under handles/.                *)
EXTENDS ServerEdge

MCRecipients == <<"peer", "me">>
MCStreams == [c \in {"s1"} |-> "peer"]
MCHandleKeys == {1, 2}
=============================================================================
