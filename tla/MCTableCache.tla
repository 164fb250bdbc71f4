------------------------------ MODULE MCTableCache ------------------------------
(* Small instances of the table for TLC.                                   *)
EXTENDS TableCache

CONSTANTS a, b, x, y

MCCallers  == {a, b}
One        == {a}
TwoObjects == {x, y}
===============================================================================
