----------------------------- MODULE MCAccount -----------------------------
EXTENDS Account, TLC

CONSTANTS r1, r2, h, s1, s2

RegisteredUsers == {1, 2}
RequestIds      == {1, 2}
LockedKeys      == RegisteredUsers \cup {h}
Requests        == Permutations(Callers)
Rotations == {"rotate"}
WithDeletion == {"rotate", "delete"}
WithTouch    == {"rotate", "touch"}
=============================================================================
