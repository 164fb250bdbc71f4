------------------------------- MODULE PoolPause -------------------------------
(***************************************************************************)
(* thpool_pause and thpool_resume: the caller sends SIGUSR1 to every       *)
(* thread of the pool, whose handler thread_hold raises the flag           *)
(* threads_on_hold and stays until somebody lowers it.  A signal arrives   *)
(* some time after it was sent, wherever the thread is, with or without a  *)
(* mutex; while the handler runs another SIGUSR1 waits, and two that wait  *)
(* are one.                                                                *)
(*                                                                         *)
(* thpool_pause_First and thpool_resume_Forgets are not the code: each is  *)
(* the function with one mistake that a property below must notice.        *)
(***************************************************************************)
EXTENDS ThreadPool

CONSTANTS
  MaxPauses,   \* bound: how often the pool is paused
  Patient      \* the caller pauses when no thread is on hold, resumes when all
               \* are, and only adds work in between

ASSUME PauseAssumption == MaxPauses \in Nat /\ Patient \in BOOLEAN

VARIABLES
  threads_on_hold,
  signalled,   \* threads SIGUSR1 was sent to and has not interrupted yet
  held,        \* threads inside thread_hold
  paused,      \* history: the last call was thpool_pause, not thpool_resume
  pauses       \* how many calls of thpool_pause there were

pauseVars == <<threads_on_hold, signalled, held, paused, pauses>>

PauseInit ==
  /\ Init
  /\ threads_on_hold = 0 /\ signalled = {} /\ held = {}
  /\ paused = FALSE /\ pauses = 0

-----------------------------------------------------------------------------
thpool_pause_First ==
  /\ cpc[Main] \in {"idle", "waited"}
  /\ pauses < MaxPauses
  /\ Patient => ~paused /\ held = {} /\ signalled = {}
  /\ \E t \in Threads : signalled' = {t}
  /\ paused' = TRUE
  /\ pauses' = pauses + 1
  /\ UNCHANGED <<vars, threads_on_hold, held>>

(* num_threads_alive is all of them from thpool_init to thpool_destroy.    *)
thpool_pause ==
  /\ cpc[Main] \in {"idle", "waited"}
  /\ pauses < MaxPauses
  /\ Patient => ~paused /\ held = {} /\ signalled = {}
  /\ signalled' = Threads
  /\ paused' = TRUE
  /\ pauses' = pauses + 1
  /\ UNCHANGED <<vars, threads_on_hold, held>>

thpool_resume_Forgets ==
  /\ paused /\ cpc[Main] \in {"idle", "waited"}
  /\ Patient => held = Threads
  /\ paused' = FALSE
  /\ UNCHANGED <<vars, threads_on_hold, signalled, held, pauses>>

thpool_resume ==
  /\ paused /\ cpc[Main] \in {"idle", "waited"}
  /\ Patient => held = Threads
  /\ threads_on_hold' = 0
  /\ paused' = FALSE
  /\ UNCHANGED <<vars, signalled, held, pauses>>

(* thread_hold: the flag goes up on entry; the loop ends when it is down.  *)
thread_hold(t) ==
  /\ t \in signalled \ held /\ pc[t] # "gone"
  /\ signalled' = signalled \ {t}
  /\ held' = held \cup {t}
  /\ threads_on_hold' = 1
  /\ UNCHANGED <<vars, paused, pauses>>

Unhold(t) ==
  /\ t \in held
  /\ threads_on_hold = 0
  /\ held' = held \ {t}
  /\ UNCHANGED <<vars, threads_on_hold, signalled, paused, pauses>>

(* The pool's own steps; a thread that is on hold takes none.              *)
Others ==
  \/ InitDone \/ DestroyPost \/ DestroyFree
  \/ \E c \in Callers, j \in Jobs : AddWork(c, j)
  \/ \E c \in Callers : CallerStep(c) \/ SpuriousIdle(c)
  \/ (Patient => ~paused) /\ (DestroyBegin \/ \E c \in Callers : WaitLock(c))

Runs(t) == t \notin held /\ (ThreadStep(t) \/ SpuriousWake(t)) /\ UNCHANGED pauseVars

PauseNext ==
  \/ thpool_pause \/ thpool_resume
  \/ \E t \in Threads : thread_hold(t) \/ Unhold(t) \/ Runs(t)
  \/ Others /\ UNCHANGED pauseVars

PauseSpec == PauseInit /\ [][PauseNext]_<<vars, pauseVars>>

(* A signal that was sent arrives, a caller that pauses resumes, the rest  *)
(* is the fairness of the pool.                                            *)
GoesOn(c) ==
  \/ CallerStep(c) \/ (cpc[c] = "relock" /\ WaitLock(c))
  \/ c = Main /\ (InitDone \/ DestroyPost \/ DestroyFree)

PauseFairness ==
  /\ \A t \in Threads : /\ WF_<<vars, pauseVars>>(thread_hold(t))
                        /\ WF_<<vars, pauseVars>>(Unhold(t))
                        /\ WF_<<vars, pauseVars>>(Runs(t))
  /\ WF_<<vars, pauseVars>>(thpool_resume)
  /\ \A c \in Callers : WF_<<vars, pauseVars>>(GoesOn(c) /\ Others /\ UNCHANGED pauseVars)

FairPauseSpec == PauseSpec /\ PauseFairness

-----------------------------------------------------------------------------
(* thpool.h:101-103 "The threads will be paused no matter if they are idle *)
(* or working.  The threads return to their previous states once           *)
(* thpool_resume is called": after the last thpool_resume every thread     *)
(* leaves thread_hold for good.                                            *)
ResumeReleases == <>[](~paused) => <>[](held = {})

(* thpool_pause puts every thread on hold, whatever it was doing, unless   *)
(* the caller resumes before.                                              *)
PauseHolds == [](paused => <>(held = Threads \/ ~paused))
===============================================================================
