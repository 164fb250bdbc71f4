----------------------------- MODULE MCThreadPool -----------------------------
(* Small instances of the thread pool for TLC.                             *)
EXTENDS ThreadPool, TLC

CONSTANTS t1, t2, main, other, j1, j2, j3

MCThreads   == {t1, t2}
TwoCallers  == {main, other}
MCJobs3     == {j1, j2, j3}

(* Threads and job addresses are interchangeable.                          *)
Symmetry == Permutations(MCThreads) \cup Permutations(MCJobs3)
===============================================================================
