------------------------------ MODULE MCVoxTimeMap ------------------------------
(* Small instances of the expiring map for TLC.                            *)
EXTENDS VoxTimeMap

CONSTANTS k1, k2, v1, u1, u2

TwoKeys  == {k1, k2}
OneVal   == {v1}
TwoUsers == {u1, u2}
===============================================================================
