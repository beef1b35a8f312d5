------------------------------ MODULE MCClient ------------------------------
(* Values for TLC: two sends in one tab, or one send in each of two tabs.      *)
EXTENDS Client

MCLoads == {<<1, 2>>, <<2, 1>>}
MCOneLoad == {<<1, 1>>}
=============================================================================
