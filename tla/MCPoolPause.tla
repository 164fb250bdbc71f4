------------------------------ MODULE MCPoolPause ------------------------------
(* A small instance of the pool that is paused and resumed, for TLC.       *)
EXTENDS PoolPause

CONSTANTS t1, t2, main, j1, j2

TwoThreads == {t1, t2}
OneCaller  == {main}
TwoJobs    == {j1, j2}
===============================================================================
