------------------------------ MODULE WorkQueue ------------------------------
(***************************************************************************)
(* What the thread pool of Custom/thpool.h promises its callers: submitted *)
(* jobs are started in the order of submission, each by one worker, and as *)
(* long as the pool is open every submitted job is started.  Closing it    *)
(* lets running jobs finish and discards the ones not started.             *)
(***************************************************************************)
EXTENDS Sequences, Naturals

CONSTANTS Workers, Jobs, NULL

VARIABLES pending,  \* submitted and not started, in order
          running,  \* the job each worker runs, or NULL
          open      \* FALSE once thpool_destroy has begun

wvars == <<pending, running, open>>

InUse == { pending[i] : i \in DOMAIN pending } \cup { running[w] : w \in Workers }

Init ==
  /\ pending = <<>>
  /\ running = [w \in Workers |-> NULL]
  /\ open = TRUE

Submit(j) ==
  /\ open
  /\ j \notin InUse
  /\ pending' = Append(pending, j)
  /\ UNCHANGED <<running, open>>

Take(w) ==
  /\ pending # <<>>
  /\ running[w] = NULL
  /\ running' = [running EXCEPT ![w] = Head(pending)]
  /\ pending' = Tail(pending)
  /\ UNCHANGED open

Finish(w) ==
  /\ running[w] # NULL
  /\ running' = [running EXCEPT ![w] = NULL]
  /\ UNCHANGED <<pending, open>>

Close ==
  /\ open
  /\ open' = FALSE
  /\ UNCHANGED <<pending, running>>

Discard ==
  /\ ~open
  /\ \A w \in Workers : running[w] = NULL
  /\ pending' = <<>>
  /\ UNCHANGED <<running, open>>

Next ==
  \/ \E j \in Jobs : Submit(j)
  \/ \E w \in Workers : Take(w) \/ Finish(w)
  \/ Close
  \/ Discard

Spec == Init /\ [][Next]_wvars

(* A worker that is free takes the next job; a job that runs ends; a       *)
(* closed queue is emptied.                                                *)
FairSpec ==
  /\ Spec
  /\ WF_wvars(\E w \in Workers : Take(w))
  /\ \A w \in Workers : WF_wvars(Finish(w))
  /\ WF_wvars(~open /\ pending # <<>> /\ Discard)
===============================================================================
