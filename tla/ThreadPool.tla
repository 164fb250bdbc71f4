------------------------------ MODULE ThreadPool ------------------------------
(***************************************************************************)
(* The thread pool of Custom/thpool.cpp: a linked job queue under rwmutex, *)
(* a binary semaphore has_jobs that is posted when there may be work, and  *)
(* the two thread counters under thcount_lock that thpool_wait and         *)
(* thpool_destroy rely on.                                                 *)
(*                                                                         *)
(* A region of code that runs under one mutex and touches nothing another  *)
(* thread may touch without that mutex is one action, enabled when the     *)
(* mutex is free.  Where the code releases a mutex later than its last     *)
(* write, or reads a variable without its mutex, the mutex has an explicit *)
(* holder and the steps are separate.                                      *)
(*                                                                         *)
(* A definition named Op_Fault is not the code: it is Op with one mistake, *)
(* named after it, that a property below must notice.                      *)
(***************************************************************************)
EXTENDS Integers, Sequences, FiniteSets

CONSTANTS
  Threads,   \* the threads thpool_init creates
  Callers,   \* the threads that call the pool's functions
  Main,      \* the caller that creates and destroys the pool
  Jobs,      \* the addresses malloc may return for a struct job
  MaxJobs,   \* bound: how many jobs are submitted in all
  Spurious,  \* whether pthread_cond_wait may return without a signal
  NULL

ASSUME PoolAssumption ==
  /\ IsFiniteSet(Threads) /\ Threads # {}
  /\ Main \in Callers
  /\ Threads \cap Callers = {}
  /\ NULL \notin Jobs \cup Threads \cup Callers
  /\ MaxJobs \in Nat
  /\ Spurious \in BOOLEAN

VARIABLES
  front, rear, prev, len,  \* jobqueue: prev[j] is j->prev
  rwmutex,                 \* holder of jobqueue.rwmutex, or NULL
  has_jobs,                \* bsem.v
  threads_keepalive,
  num_threads_alive, num_threads_working,
  thcount_lock,            \* holder of thcount_lock, or NULL
  pc,                      \* where each pool thread is in thread_do
  job,                     \* the job_p of each pool thread
  cpc,                     \* where each caller is in the pool's functions
  submitted, pulled,       \* history: jobs linked and jobs unlinked, in order
  mark                     \* history: what was submitted when a wait began

queueVars == <<front, rear, prev, len, rwmutex>>
countVars == <<num_threads_alive, num_threads_working, thcount_lock>>
history   == <<submitted, pulled, mark>>
vars == <<front, rear, prev, len, rwmutex, has_jobs, threads_keepalive,
          num_threads_alive, num_threads_working, thcount_lock, pc, job, cpc,
          submitted, pulled, mark>>

-----------------------------------------------------------------------------
(* The jobs whose memory is still allocated: linked ones and held ones.    *)

Pending == { submitted[i] : i \in Len(pulled) + 1 .. Len(submitted) }
Held    == { job[t] : t \in Threads } \ {NULL}

Asleep(t)  == pc[t] = "sleep"
Sleeping   == { t \in Threads : Asleep(t) }

(* bsem_post: v becomes 1 and at least one thread waiting on the condition *)
(* variable, if there is one, leaves it.  base is pc with the poster's own *)
(* step applied.                                                           *)
bsem_post_Counts(base) ==
  /\ has_jobs' = has_jobs + 1
  /\ \/ Sleeping = {} /\ pc' = base
     \/ \E t \in Sleeping : pc' = [base EXCEPT ![t] = "bsem"]

bsem_post(base) ==
  /\ has_jobs' = 1
  /\ \/ Sleeping = {} /\ pc' = base
     \/ \E t \in Sleeping : pc' = [base EXCEPT ![t] = "bsem"]

(* pthread_cond_signal(threads_all_idle): one caller in thpool_wait leaves *)
(* the condition variable; it must take thcount_lock before it goes on.    *)
SignalIdle_Missing == UNCHANGED cpc

SignalIdle ==
  LET waiting == { c \in Callers : cpc[c] = "asleep" }
  IN  \/ waiting = {} /\ UNCHANGED cpc
      \/ \E c \in waiting : cpc' = [cpc EXCEPT ![c] = "relock"]

-----------------------------------------------------------------------------
Init ==
  /\ front = NULL /\ rear = NULL /\ len = 0
  /\ prev = [j \in Jobs |-> NULL]
  /\ rwmutex = NULL
  /\ has_jobs = 0
  /\ threads_keepalive = 1
  /\ num_threads_alive = 0 /\ num_threads_working = 0
  /\ thcount_lock = NULL
  /\ pc = [t \in Threads |-> "new"]
  /\ job = [t \in Threads |-> NULL]
  /\ cpc = [c \in Callers |-> "init"]
  /\ submitted = <<>> /\ pulled = <<>>
  /\ mark = [c \in Callers |-> 0]

(* thpool_init spins until every thread has counted itself; only then has  *)
(* any caller a pool to use.                                               *)
InitDone ==
  /\ cpc[Main] = "init"
  /\ num_threads_alive = Cardinality(Threads)
  /\ cpc' = [c \in Callers |-> "idle"]
  /\ UNCHANGED <<queueVars, has_jobs, threads_keepalive, countVars, pc, job, history>>

-----------------------------------------------------------------------------
(* jobqueue_push links a job behind the rear one.                          *)
push_KeepsRear(j) ==
  /\ rear' = IF len = 0 THEN j ELSE rear
  /\ \/ /\ len = 0
        /\ front' = j
        /\ prev' = [prev EXCEPT ![j] = NULL]
     \/ /\ len # 0
        /\ prev' = [prev EXCEPT ![j] = NULL, ![rear] = j]
        /\ UNCHANGED front
  /\ len' = len + 1

jobqueue_push(j) ==
  /\ rear' = j
  /\ \/ /\ len = 0
        /\ front' = j
        /\ prev' = [prev EXCEPT ![j] = NULL]
     \/ /\ len # 0
        /\ prev' = [prev EXCEPT ![j] = NULL, ![rear] = j]
        /\ UNCHANGED front
  /\ len' = len + 1

(* thpool_add_work: jobqueue_push links the new job, then posts has_jobs   *)
(* before rwmutex is released.                                             *)
AddWork(c, j) ==
  /\ cpc[c] \in {"idle", "waited"}
  /\ rwmutex = NULL
  /\ Len(submitted) < MaxJobs
  /\ j \notin Pending \cup Held
  /\ jobqueue_push(j)
  /\ rwmutex' = c
  /\ cpc' = [cpc EXCEPT ![c] = "post"]
  /\ submitted' = Append(submitted, j)
  /\ UNCHANGED <<has_jobs, threads_keepalive, countVars, pc, job, pulled, mark>>

AddPost(c) ==
  /\ cpc[c] = "post"
  /\ bsem_post(pc)
  /\ rwmutex' = NULL
  /\ cpc' = [cpc EXCEPT ![c] = "idle"]
  /\ UNCHANGED <<front, rear, prev, len, threads_keepalive, countVars, job, history>>

(* thpool_wait: with thcount_lock held, len is read without rwmutex, then  *)
(* num_threads_working; waiting on threads_all_idle releases the lock.     *)
WaitLock(c) ==
  /\ cpc[c] \in {"idle", "waited", "relock"}
  /\ thcount_lock = NULL
  /\ thcount_lock' = c
  /\ mark' = IF cpc[c] = "relock" THEN mark ELSE [mark EXCEPT ![c] = Len(submitted)]
  /\ cpc' = [cpc EXCEPT ![c] = "len"]
  /\ UNCHANGED <<queueVars, has_jobs, threads_keepalive, num_threads_alive,
                 num_threads_working, pc, job, submitted, pulled>>

WaitLen_Unread(c) ==
  /\ cpc[c] = "len"
  /\ cpc' = [cpc EXCEPT ![c] = "working"]
  /\ UNCHANGED <<queueVars, has_jobs, threads_keepalive, countVars, pc, job, history>>

WaitLen(c) ==
  /\ cpc[c] = "len"
  /\ \/ /\ len # 0
        /\ cpc' = [cpc EXCEPT ![c] = "asleep"]
        /\ thcount_lock' = NULL
     \/ /\ len = 0
        /\ cpc' = [cpc EXCEPT ![c] = "working"]
        /\ UNCHANGED thcount_lock
  /\ UNCHANGED <<queueVars, has_jobs, threads_keepalive, num_threads_alive,
                 num_threads_working, pc, job, history>>

WaitWorking(c) ==
  /\ cpc[c] = "working"
  /\ cpc' = [cpc EXCEPT ![c] = IF num_threads_working # 0 THEN "asleep" ELSE "waited"]
  /\ thcount_lock' = NULL
  /\ UNCHANGED <<queueVars, has_jobs, threads_keepalive, num_threads_alive,
                 num_threads_working, pc, job, history>>

SpuriousIdle(c) ==
  /\ Spurious
  /\ cpc[c] = "asleep"
  /\ cpc' = [cpc EXCEPT ![c] = "relock"]
  /\ UNCHANGED <<queueVars, has_jobs, threads_keepalive, countVars, pc, job, history>>

(* thpool_destroy is called when no other call is in progress.  Both of    *)
(* its loops post to every thread until none is alive; then the queue is   *)
(* cleared and the pool's memory is freed.                                 *)
DestroyBegin ==
  /\ cpc[Main] \in {"idle", "waited"}
  /\ \A c \in Callers \ {Main} : cpc[c] \in {"idle", "waited"}
  /\ threads_keepalive' = 0
  /\ cpc' = [c \in Callers |-> IF c = Main THEN "poll" ELSE "barred"]
  /\ UNCHANGED <<queueVars, has_jobs, countVars, pc, job, history>>

bsem_post_all_Silent == has_jobs' = 1 /\ UNCHANGED pc

bsem_post_all ==
  /\ has_jobs' = 1
  /\ pc' = [t \in Threads |-> IF Asleep(t) THEN "bsem" ELSE pc[t]]

DestroyPost ==
  /\ cpc[Main] = "poll"
  /\ num_threads_alive # 0
  /\ bsem_post_all
  /\ UNCHANGED <<queueVars, threads_keepalive, countVars, job, cpc, history>>

DestroyFree_Impatient ==
  /\ cpc[Main] = "poll"
  /\ front' = NULL /\ rear' = NULL /\ len' = 0
  /\ has_jobs' = 0
  /\ cpc' = [cpc EXCEPT ![Main] = "freed"]
  /\ UNCHANGED <<prev, rwmutex, threads_keepalive, countVars, pc, job, history>>

DestroyFree ==
  /\ cpc[Main] = "poll"
  /\ num_threads_alive = 0
  /\ front' = NULL /\ rear' = NULL /\ len' = 0
  /\ has_jobs' = 0
  /\ cpc' = [cpc EXCEPT ![Main] = "freed"]
  /\ UNCHANGED <<prev, rwmutex, threads_keepalive, countVars, pc, job, history>>

-----------------------------------------------------------------------------
(* thread_do.                                                              *)

Start(t) ==
  /\ pc[t] = "new"
  /\ thcount_lock = NULL
  /\ num_threads_alive' = num_threads_alive + 1
  /\ pc' = [pc EXCEPT ![t] = "loop"]
  /\ UNCHANGED <<queueVars, has_jobs, threads_keepalive, num_threads_working,
                 thcount_lock, job, cpc, history>>

LoopTest(t) ==
  /\ pc[t] = "loop"
  /\ pc' = [pc EXCEPT ![t] = IF threads_keepalive = 1 THEN "bsem" ELSE "exit"]
  /\ UNCHANGED <<queueVars, has_jobs, threads_keepalive, countVars, job, cpc, history>>

(* bsem_wait: take the semaphore, or sleep on its condition variable.      *)
bsem_wait(t) ==
  /\ pc[t] = "bsem"
  /\ has_jobs' = 0
  /\ pc' = [pc EXCEPT ![t] = IF has_jobs = 1 THEN "woken" ELSE "sleep"]
  /\ UNCHANGED <<queueVars, threads_keepalive, countVars, job, cpc, history>>

SpuriousWake(t) ==
  /\ Spurious
  /\ pc[t] = "sleep"
  /\ pc' = [pc EXCEPT ![t] = "bsem"]
  /\ UNCHANGED <<queueVars, has_jobs, threads_keepalive, countVars, job, cpc, history>>

Recheck(t) ==
  /\ pc[t] = "woken"
  /\ pc' = [pc EXCEPT ![t] = IF threads_keepalive = 1 THEN "count" ELSE "loop"]
  /\ UNCHANGED <<queueVars, has_jobs, threads_keepalive, countVars, job, cpc, history>>

CountWorking(t) ==
  /\ pc[t] = "count"
  /\ thcount_lock = NULL
  /\ num_threads_working' = num_threads_working + 1
  /\ pc' = [pc EXCEPT ![t] = "pull"]
  /\ UNCHANGED <<queueVars, has_jobs, threads_keepalive, num_threads_alive,
                 thcount_lock, job, cpc, history>>

(* jobqueue_pull unlinks the front job; with more jobs behind it has_jobs  *)
(* is posted again before rwmutex is released.                             *)
jobqueue_pull(t) ==
  /\ pc[t] = "pull"
  /\ rwmutex = NULL
  /\ job' = [job EXCEPT ![t] = front]
  /\ pulled' = IF front = NULL THEN pulled ELSE Append(pulled, front)
  /\ \/ /\ len = 0
        /\ pc' = [pc EXCEPT ![t] = "run"]
        /\ UNCHANGED <<front, rear, len, rwmutex>>
     \/ /\ len = 1
        /\ front' = NULL /\ rear' = NULL /\ len' = 0
        /\ pc' = [pc EXCEPT ![t] = "run"]
        /\ UNCHANGED rwmutex
     \/ /\ len > 1
        /\ front' = prev[front]
        /\ len' = len - 1
        /\ rwmutex' = t
        /\ pc' = [pc EXCEPT ![t] = "repost"]
        /\ UNCHANGED rear
  /\ UNCHANGED <<prev, has_jobs, threads_keepalive, countVars, cpc, submitted, mark>>

PullPost_Missing(t) ==
  /\ pc[t] = "repost"
  /\ pc' = [pc EXCEPT ![t] = "run"]
  /\ rwmutex' = NULL
  /\ UNCHANGED <<front, rear, prev, len, has_jobs, threads_keepalive, countVars, job, cpc, history>>

PullPost(t) ==
  /\ pc[t] = "repost"
  /\ bsem_post([pc EXCEPT ![t] = "run"])
  /\ rwmutex' = NULL
  /\ UNCHANGED <<front, rear, prev, len, threads_keepalive, countVars, job, cpc, history>>

(* func_buff(arg_buff); free(job_p) -- when a job was pulled at all.       *)
RunJob_Continues(t) ==
  /\ pc[t] = "run"
  /\ job' = [job EXCEPT ![t] = NULL]
  /\ pc' = [pc EXCEPT ![t] = IF job[t] = NULL THEN "loop" ELSE "uncount"]
  /\ UNCHANGED <<queueVars, has_jobs, threads_keepalive, countVars, cpc, history>>

RunJob(t) ==
  /\ pc[t] = "run"
  /\ job' = [job EXCEPT ![t] = NULL]
  /\ pc' = [pc EXCEPT ![t] = "uncount"]
  /\ UNCHANGED <<queueVars, has_jobs, threads_keepalive, countVars, cpc, history>>

UncountWorking(t) ==
  /\ pc[t] = "uncount"
  /\ thcount_lock = NULL
  /\ num_threads_working' = num_threads_working - 1
  /\ IF num_threads_working' = 0 THEN SignalIdle ELSE UNCHANGED cpc
  /\ pc' = [pc EXCEPT ![t] = "loop"]
  /\ UNCHANGED <<queueVars, has_jobs, threads_keepalive, num_threads_alive,
                 thcount_lock, job, history>>

(* The last thing a thread does is to count itself out; the mutex that     *)
(* guards the counter is released after that.                              *)
CountOut(t) ==
  /\ pc[t] = "exit"
  /\ thcount_lock = NULL
  /\ num_threads_alive' = num_threads_alive - 1
  /\ thcount_lock' = t
  /\ pc' = [pc EXCEPT ![t] = "unlock"]
  /\ UNCHANGED <<queueVars, has_jobs, threads_keepalive, num_threads_working,
                 job, cpc, history>>

Unlock(t) ==
  /\ pc[t] = "unlock"
  /\ thcount_lock' = NULL
  /\ pc' = [pc EXCEPT ![t] = "gone"]
  /\ UNCHANGED <<queueVars, has_jobs, threads_keepalive, num_threads_alive,
                 num_threads_working, job, cpc, history>>

-----------------------------------------------------------------------------
(* What a thread does once scheduled, and what a caller inside the pool's  *)
(* functions does; beginning a call and waking spuriously are not owed.    *)

ThreadStep(t) ==
  \/ Start(t) \/ LoopTest(t) \/ bsem_wait(t) \/ Recheck(t) \/ CountWorking(t)
  \/ jobqueue_pull(t) \/ PullPost(t) \/ RunJob(t) \/ UncountWorking(t)
  \/ CountOut(t) \/ Unlock(t)

CallerStep(c) == AddPost(c) \/ WaitLen(c) \/ WaitWorking(c)

Next ==
  \/ InitDone \/ DestroyBegin \/ DestroyPost \/ DestroyFree
  \/ \E c \in Callers, j \in Jobs : AddWork(c, j)
  \/ \E c \in Callers : CallerStep(c) \/ WaitLock(c) \/ SpuriousIdle(c)
  \/ \E t \in Threads : ThreadStep(t) \/ SpuriousWake(t)

Spec == Init /\ [][Next]_vars

(* The scheduler runs every thread; a call that has begun goes on.         *)
Fairness ==
  /\ \A t \in Threads : WF_vars(ThreadStep(t))
  /\ \A c \in Callers : WF_vars(CallerStep(c))
  /\ \A c \in Callers : WF_vars(cpc[c] = "relock" /\ WaitLock(c))
  /\ WF_vars(InitDone) /\ WF_vars(DestroyPost) /\ WF_vars(DestroyFree)

FairSpec == Spec /\ Fairness

-----------------------------------------------------------------------------
ThreadPCs == {"new", "loop", "bsem", "sleep", "woken", "count", "pull", "repost",
              "run", "uncount", "exit", "unlock", "gone"}
CallerPCs == {"init", "idle", "post", "len", "working", "asleep", "relock",
              "waited", "barred", "poll", "freed"}

(* Every variable has its type.                                            *)
TypeOK ==
  /\ front \in Jobs \cup {NULL} /\ rear \in Jobs \cup {NULL}
  /\ prev \in [Jobs -> Jobs \cup {NULL}]
  /\ len \in Nat
  /\ rwmutex \in Threads \cup Callers \cup {NULL}
  /\ has_jobs \in {0, 1} /\ threads_keepalive \in {0, 1}
  /\ num_threads_alive \in Int /\ num_threads_working \in Int
  /\ thcount_lock \in Threads \cup Callers \cup {NULL}
  /\ pc \in [Threads -> ThreadPCs]
  /\ job \in [Threads -> Jobs \cup {NULL}]
  /\ cpc \in [Callers -> CallerPCs]
  /\ submitted \in Seq(Jobs) /\ pulled \in Seq(Jobs)
  /\ mark \in [Callers -> Nat]

Freed == cpc[Main] = "freed"

(* FIFO: the jobs handed to threads so far are exactly the first jobs      *)
(* submitted, in the order of submission -- none lost, none twice -- and   *)
(* the rest is what len counts.  The order comes from the linked list      *)
(* alone: jobqueue_pull hands out whatever front points to.                *)
Fifo ==
  /\ Len(pulled) <= Len(submitted)
  /\ \A i \in 1 .. Len(pulled) : pulled[i] = submitted[i]
  /\ ~Freed => len = Len(submitted) - Len(pulled)

(* No job is stranded: while the pool is in use, a linked job always has a *)
(* thread that will look at the queue -- the semaphore is up and some      *)
(* thread is not asleep on it, or a thread has taken the semaphore and not *)
(* pulled yet, or whoever changed the queue is about to post.              *)
NoStrandedJob ==
  (threads_keepalive = 1 /\ cpc[Main] # "init" /\ len > 0) =>
     \/ has_jobs = 1 /\ Sleeping # Threads
     \/ \E t \in Threads : pc[t] \in {"woken", "count", "pull", "repost"}
     \/ \E c \in Callers : cpc[c] = "post"

(* The two counters count what thpool_wait and thpool_destroy take them to *)
(* count: a thread that may hold a job is working, a thread that may still *)
(* take the semaphore is alive.                                            *)
Counters ==
  /\ num_threads_alive =
       Cardinality({ t \in Threads : pc[t] \notin {"new", "unlock", "gone"} })
  /\ num_threads_working =
       Cardinality({ t \in Threads : pc[t] \in {"pull", "repost", "run", "uncount"} })

(* thpool_destroy frees the pool only when no thread runs a job, holds one *)
(* or will look at the queue again: all that is left of a thread is the    *)
(* release of thcount_lock.                                                *)
DestroyWaits ==
  Freed => \A t \in Threads : pc[t] \in {"unlock", "gone"} /\ job[t] = NULL

(* thpool_wait returns only when everything submitted before the call has  *)
(* been handed out and no thread holds a job any more.                     *)
WaitSound ==
  [][\A c \in Callers : cpc[c] = "working" /\ cpc'[c] = "waited" =>
        Len(pulled) >= mark[c] /\ Held = {}]_vars

(* Every submitted job is handed to a thread, unless the pool is destroyed *)
(* first.                                                                  *)
EveryJobStarts ==
  \A i \in 1 .. MaxJobs : Len(submitted) >= i ~> (Len(pulled) >= i \/ Freed)

(* thpool.h:71 "Once the queue is empty and all work has completed, the    *)
(* calling thread will continue."                                          *)
WaitReturns == \A c \in Callers : cpc[c] \in {"len", "working", "asleep"} ~> cpc[c] = "waited"

(* thpool_destroy returns, whatever the threads were doing when it began.  *)
DestroyReturns == cpc[Main] = "poll" ~> Freed

(* The queue as the linked list spells it, and the pool as a FIFO server   *)
(* of jobs.                                                                *)
Chain == LET walk[i \in 1 .. len] == IF i = 1 THEN front ELSE prev[walk[i - 1]]
         IN  walk

Queue == INSTANCE WorkQueue WITH
           Workers <- Threads, pending <- Chain, running <- job,
           open <- threads_keepalive = 1

(* The pool implements the FIFO job server, its liveness included.         *)
ImplementsWorkQueue == Queue!FairSpec
===============================================================================
