---------------------------- MODULE MCDeviceSync ----------------------------
(* Instances of DeviceSync for TLC.  Message 1 is the key share that opens *)
(* every later one.                                                        *)
EXTENDS DeviceSync, TLC

Two    == 1..2
Three  == 1..3
Four   == 1..4
Share  == {1}
None   == {}
Second == {2}

OpensWithFirst == [m \in Messages \ Shares |-> 1]
OneDevice      == [t \in Tabs |-> CHOOSE d \in Devices : TRUE]

CONSTANTS t1, t2, d1, d2
EachItsOwn == [t \in Tabs |-> IF t = t1 THEN d1 ELSE d2]

NothingLost   == [d \in Devices |-> {}]
LostOnSecond  == [d \in Devices |-> IF d = d2 THEN Shares ELSE {}]
=============================================================================
