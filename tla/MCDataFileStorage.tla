-------------------------- MODULE MCDataFileStorage --------------------------
(* Small instances of the table for TLC.                                   *)
EXTENDS DataFileStorage

CONSTANTS a, b, x, y

MCCallers  == {a, b}
One        == {a}
TwoObjects == {x, y}
===============================================================================
