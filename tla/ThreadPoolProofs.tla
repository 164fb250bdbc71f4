--------------------------- MODULE ThreadPoolProofs ---------------------------
(***************************************************************************)
(* Machine-checked proofs about the thread pool, for any number of         *)
(* threads, callers and jobs.  Inv is the inductive invariant; its parts   *)
(* are preserved separately, each lemma assuming the parts it needs.  From *)
(* it follows that the pool implements the FIFO job server of WorkQueue,   *)
(* as far as safety goes; and all of it holds of a pool that is paused and *)
(* resumed, too.                                                           *)
(***************************************************************************)
EXTENDS PoolPause, FiniteSetTheorems, Induction

(* The phases of the pool's life: nobody calls before thpool_init is done, *)
(* and once thpool_destroy has begun nobody else calls.                    *)
Phases ==
  /\ cpc[Main] = "init" => \A c \in Callers : cpc[c] = "init"
  /\ cpc[Main] \in {"poll", "freed"} =>
       threads_keepalive = 0 /\ \A c \in Callers \ {Main} : cpc[c] = "barred"

(* The linked list spells the submitted jobs that have not been pulled.    *)
List ==
  /\ Len(pulled) <= Len(submitted)
  /\ \A i \in 1 .. Len(pulled) : pulled[i] = submitted[i]
  /\ len = 0 => front = NULL
  /\ Freed => len = 0
  /\ ~Freed => len = Len(submitted) - Len(pulled)
  /\ len > 0 => front = submitted[Len(pulled) + 1] /\ rear = submitted[Len(submitted)]
  /\ len > 0 => \A i \in Len(pulled) + 1 .. Len(submitted) - 1 :
                   prev[submitted[i]] = submitted[i + 1]
  /\ len > 0 => \A i, k \in Len(pulled) + 1 .. Len(submitted) :
                   submitted[i] = submitted[k] => i = k

(* The semaphore is up only if some thread can take it, and a linked job   *)
(* has somebody who will see to it.                                        *)
Watched ==
  /\ has_jobs = 1 => Sleeping # Threads
  /\ (threads_keepalive = 1 /\ len > 0) =>
        \/ has_jobs = 1
        \/ \E t \in Threads : pc[t] \in {"woken", "count", "pull", "repost"}
        \/ \E c \in Callers : cpc[c] = "post"

Alive   == { t \in Threads : pc[t] \notin {"new", "unlock", "gone"} }
Working == { t \in Threads : pc[t] \in {"pull", "repost", "run", "uncount"} }

(* The counters count; after thpool_init every thread has started, and     *)
(* when the pool is freed every one has counted itself out.                *)
Counting ==
  /\ num_threads_alive = Cardinality(Alive)
  /\ num_threads_working = Cardinality(Working)
  /\ cpc[Main] # "init" => \A t \in Threads : pc[t] # "new"
  /\ Freed => \A t \in Threads : pc[t] \in {"unlock", "gone"}

(* Only a thread between its pull and its free holds a job.                *)
Holding == \A t \in Threads : job[t] # NULL => pc[t] \in {"repost", "run"}

(* What a waiting caller has seen so far.                                  *)
Waiting ==
  /\ \A c \in Callers : mark[c] <= Len(submitted)
  /\ \A c \in Callers : cpc[c] = "working" => Len(pulled) >= mark[c]

Inv == TypeOK /\ Phases /\ List /\ Watched /\ Counting /\ Holding /\ Waiting

-----------------------------------------------------------------------------
(* Every step keeps the types.                                             *)
LEMMA Types == ASSUME TypeOK, List, [Next]_vars PROVE TypeOK'
<1> USE DEF TypeOK
<1> USE PoolAssumption DEF PoolAssumption, queueVars, countVars, history
<1>1. CASE UNCHANGED vars
  BY <1>1 DEF vars
<1>2. CASE InitDone \/ DestroyBegin \/ DestroyPost \/ DestroyFree
  BY <1>2, Z3 DEF InitDone, DestroyBegin, DestroyPost, bsem_post_all, DestroyFree, ThreadPCs,
                  CallerPCs, Asleep
<1>3. ASSUME NEW c \in Callers, NEW j \in Jobs, AddWork(c, j) PROVE TypeOK'
  <2>1. prev' \in [Jobs -> Jobs \cup {NULL}]
    <3>1. [prev EXCEPT ![j] = NULL] \in [Jobs -> Jobs \cup {NULL}]
      OBVIOUS
    <3>2. [prev EXCEPT ![j] = NULL, ![rear] = j] \in [Jobs -> Jobs \cup {NULL}]
      OBVIOUS
    <3> QED
      BY <1>3, <3>1, <3>2, Zenon DEF AddWork, jobqueue_push
  <2>2. /\ front' \in Jobs \cup {NULL} /\ rear' \in Jobs \cup {NULL}
        /\ cpc' \in [Callers -> CallerPCs]
    BY <1>3 DEF AddWork, jobqueue_push, CallerPCs
  <2>3. len' \in Nat /\ rwmutex' \in Threads \cup Callers \cup {NULL} /\ submitted' \in Seq(Jobs)
    BY <1>3 DEF AddWork, jobqueue_push
  <2> QED
    BY <1>3, <2>1, <2>2, <2>3 DEF AddWork, jobqueue_push
<1>4. ASSUME NEW c \in Callers, AddPost(c) PROVE TypeOK'
  BY <1>4 DEF AddPost, bsem_post, Sleeping, ThreadPCs, CallerPCs
<1>5. ASSUME NEW c \in Callers, WaitLock(c) PROVE TypeOK'
  <2>1. mark' \in [Callers -> Nat]
    BY <1>5 DEF WaitLock
  <2> QED
    BY <1>5, <2>1 DEF WaitLock, CallerPCs
<1>6. ASSUME NEW c \in Callers, WaitLen(c) \/ WaitWorking(c) \/ SpuriousIdle(c)
      PROVE  TypeOK'
  BY <1>6 DEF WaitLen, WaitWorking, SpuriousIdle, CallerPCs
<1>7. ASSUME NEW t \in Threads, ThreadStep(t) \/ SpuriousWake(t)
      PROVE  pc' \in [Threads -> ThreadPCs]
  <2>1. \A x \in {"loop", "bsem", "sleep", "woken", "count", "pull", "repost", "run",
                  "uncount", "exit", "unlock", "gone"} :
          [pc EXCEPT ![t] = x] \in [Threads -> ThreadPCs]
    BY DEF ThreadPCs
  <2>2. ASSUME PullPost(t) PROVE pc' \in [Threads -> ThreadPCs]
    BY <2>2 DEF PullPost, bsem_post, Sleeping, ThreadPCs
  <2>3. ASSUME jobqueue_pull(t) PROVE pc' \in [Threads -> ThreadPCs]
    BY <2>1, <2>3 DEF jobqueue_pull
  <2> QED
    BY <1>7, <2>1, <2>2, <2>3
       DEF ThreadStep, Start, LoopTest, bsem_wait, SpuriousWake, Recheck, CountWorking,
           RunJob, UncountWorking, CountOut, Unlock
<1>8. ASSUME NEW t \in Threads,
             \/ Start(t) \/ LoopTest(t) \/ bsem_wait(t) \/ SpuriousWake(t) \/ Recheck(t)
             \/ CountWorking(t) \/ CountOut(t) \/ Unlock(t)
      PROVE  TypeOK'
  BY <1>7, <1>8
     DEF ThreadStep, Start, LoopTest, bsem_wait, SpuriousWake, Recheck, CountWorking,
         CountOut, Unlock
<1>9. ASSUME NEW t \in Threads, jobqueue_pull(t) PROVE TypeOK'
  <2>1. pc' \in [Threads -> ThreadPCs]
    BY <1>7, <1>9 DEF ThreadStep
  <2>2. rwmutex' \in Threads \cup Callers \cup {NULL} /\ len' \in Nat
    BY <1>9 DEF jobqueue_pull
  <2>3. /\ job' \in [Threads -> Jobs \cup {NULL}] /\ rear' \in Jobs \cup {NULL}
        /\ pulled' \in Seq(Jobs)
    BY <1>9 DEF jobqueue_pull
  <2>4. front' \in Jobs \cup {NULL}
    <3>1. len > 0 => front \in Jobs
      <4> SUFFICES ASSUME len > 0 PROVE front \in Jobs
        OBVIOUS
      <4>1. len = Len(submitted) - Len(pulled) /\ front = submitted[Len(pulled) + 1]
        BY DEF List
      <4>2. Len(pulled) + 1 \in 1 .. Len(submitted)
        BY <4>1 DEF List
      <4> QED
        BY <4>1, <4>2
    <3> QED
      BY <1>9, <3>1 DEF jobqueue_pull
  <2> QED
    BY <1>9, <2>1, <2>2, <2>3, <2>4 DEF jobqueue_pull
<1>10. ASSUME NEW t \in Threads, PullPost(t) \/ RunJob(t) PROVE TypeOK'
  BY <1>7, <1>10 DEF ThreadStep, PullPost, bsem_post, RunJob
<1>11. ASSUME NEW t \in Threads, UncountWorking(t) PROVE TypeOK'
  <2>1. cpc' \in [Callers -> CallerPCs]
    BY <1>11 DEF UncountWorking, SignalIdle, CallerPCs
  <2>2. num_threads_working' \in Int
    BY <1>11 DEF UncountWorking
  <2> QED
    BY <1>7, <1>11, <2>1, <2>2 DEF ThreadStep, UncountWorking
<1> QED
  BY <1>1, <1>2, <1>3, <1>4, <1>5, <1>6, <1>7, <1>8, <1>9, <1>10, <1>11
     DEF Next, CallerStep, ThreadStep

-----------------------------------------------------------------------------
(* Every step keeps what the start and the end of the pool mean for its callers. *)
LEMMA PhasesKept == ASSUME TypeOK, Phases, [Next]_vars PROVE Phases'
<1> USE PoolAssumption DEF PoolAssumption, TypeOK, Phases
<1>1. CASE UNCHANGED vars
  BY <1>1 DEF vars
<1>2. CASE InitDone \/ DestroyBegin \/ DestroyPost \/ DestroyFree
  BY <1>2 DEF InitDone, DestroyBegin, DestroyPost, bsem_post_all, DestroyFree
<1>3. ASSUME NEW c \in Callers, NEW j \in Jobs, AddWork(c, j) PROVE Phases'
  BY <1>3 DEF AddWork, jobqueue_push
<1>4. ASSUME NEW c \in Callers, CallerStep(c) PROVE Phases'
  BY <1>4 DEF CallerStep, AddPost, WaitLen, WaitWorking
<1>5. ASSUME NEW c \in Callers, WaitLock(c) \/ SpuriousIdle(c) PROVE Phases'
  BY <1>5 DEF WaitLock, SpuriousIdle
<1>6. ASSUME NEW t \in Threads, UncountWorking(t) PROVE Phases'
  BY <1>6 DEF UncountWorking, SignalIdle
<1>7. ASSUME NEW t \in Threads, ThreadStep(t) \/ SpuriousWake(t), ~UncountWorking(t)
      PROVE  UNCHANGED <<cpc, threads_keepalive>>
  BY <1>7 DEF ThreadStep, Start, LoopTest, bsem_wait, SpuriousWake, Recheck, CountWorking,
       jobqueue_pull, PullPost, RunJob, CountOut, Unlock
<1> QED
  BY <1>1, <1>2, <1>3, <1>4, <1>5, <1>6, <1>7 DEF Next

-----------------------------------------------------------------------------
listVars == <<front, rear, prev, len, submitted, pulled>>

(* Only a push, a pull and the final clearing touch the list.              *)
LEMMA ListFrame ==
  ASSUME TypeOK, Phases, [Next]_vars,
         \A c \in Callers, j \in Jobs : ~AddWork(c, j),
         \A t \in Threads : ~jobqueue_pull(t),
         ~DestroyFree
  PROVE  UNCHANGED listVars /\ Freed' = Freed
<1> USE PoolAssumption DEF PoolAssumption, TypeOK, Phases, Freed, listVars, queueVars, history
<1>1. CASE UNCHANGED vars
  BY <1>1 DEF vars
<1>2. CASE InitDone \/ DestroyBegin \/ DestroyPost
  BY <1>2 DEF InitDone, DestroyBegin, DestroyPost, bsem_post_all
<1>3. ASSUME NEW c \in Callers, CallerStep(c) PROVE UNCHANGED listVars /\ Freed' = Freed
  BY <1>3 DEF CallerStep, AddPost, WaitLen, WaitWorking
<1>4. ASSUME NEW c \in Callers, WaitLock(c) \/ SpuriousIdle(c)
      PROVE  UNCHANGED listVars /\ Freed' = Freed
  BY <1>4 DEF WaitLock, SpuriousIdle
<1>5. ASSUME NEW t \in Threads, UncountWorking(t) PROVE UNCHANGED listVars /\ Freed' = Freed
  BY <1>5 DEF UncountWorking, SignalIdle
<1>6. ASSUME NEW t \in Threads, ThreadStep(t) \/ SpuriousWake(t), ~UncountWorking(t)
      PROVE  UNCHANGED listVars /\ Freed' = Freed
  BY <1>6 DEF ThreadStep, Start, LoopTest, bsem_wait, SpuriousWake, Recheck, CountWorking,
       PullPost, RunJob, CountOut, Unlock
<1> QED
  BY <1>1, <1>2, <1>3, <1>4, <1>5, <1>6 DEF Next

(* A job added keeps the list well linked.                                 *)
LEMMA PushKeepsList ==
  ASSUME TypeOK, Phases, List, NEW c \in Callers, NEW j \in Jobs, AddWork(c, j)
  PROVE  List'
<1> USE DEF TypeOK
<1> DEFINE h == Len(pulled)
           n == Len(submitted)
<1>1. ~Freed /\ ~Freed'
  BY PoolAssumption DEF AddWork, jobqueue_push, Phases, Freed, PoolAssumption
<1>2. /\ submitted' = Append(submitted, j) /\ pulled' = pulled /\ len' = len + 1
      /\ rear' = j /\ Len(submitted') = n + 1
      /\ submitted'[n + 1] = j
      /\ \A i \in 1 .. n : submitted'[i] = submitted[i]
  BY DEF AddWork, jobqueue_push
<1>3. h \in Nat /\ n \in Nat /\ h <= n /\ len = n - h
  BY <1>1 DEF List
<1>4. \A i \in 1 .. h : pulled'[i] = submitted'[i]
  BY <1>2, <1>3 DEF List
<1>5. \A i \in h + 1 .. n : submitted[i] # j /\ submitted[i] \in Jobs
  BY DEF AddWork, jobqueue_push, Pending
<1>6. front' = submitted'[h + 1]
  <2>1. CASE len = 0
    BY <1>2, <1>3, <2>1 DEF AddWork, jobqueue_push
  <2>2. CASE len # 0
    BY <1>2, <1>3, <2>2 DEF AddWork, jobqueue_push, List
  <2> QED
    BY <2>1, <2>2
<1>7. ASSUME NEW i \in h + 1 .. n PROVE prev'[submitted'[i]] = submitted'[i + 1]
  <2>1. len # 0 /\ rear = submitted[n] /\ prev' = [prev EXCEPT ![j] = NULL, ![rear] = j]
    BY <1>3, <1>7 DEF AddWork, jobqueue_push, List
  <2>2. submitted'[i] = submitted[i] /\ submitted[i] \in Jobs /\ submitted[i] # j
    BY <1>2, <1>3, <1>5
  <2>3. CASE i = n
    BY <1>2, <2>1, <2>2, <2>3
  <2>4. CASE i < n
    <3>1. submitted[i] # submitted[n]
      BY <1>3, <2>1, <2>4 DEF List
    <3>2. prev'[submitted[i]] = prev[submitted[i]]
      BY <2>1, <2>2, <3>1
    <3>3. prev[submitted[i]] = submitted[i + 1]
      BY <1>3, <2>1, <2>4 DEF List
    <3> QED
      BY <1>2, <1>3, <2>2, <2>4, <3>2, <3>3
  <2> QED
    BY <1>3, <2>3, <2>4
<1>8. \A i, k \in h + 1 .. n + 1 : submitted'[i] = submitted'[k] => i = k
  <2>1. \A i, k \in h + 1 .. n : submitted[i] = submitted[k] => i = k
    BY <1>3 DEF List
  <2> QED
    BY <1>2, <1>3, <1>5, <2>1
<1> QED
  BY <1>1, <1>2, <1>3, <1>4, <1>6, <1>7, <1>8 DEF List

(* A job taken keeps the list well linked.                                 *)
LEMMA PullKeepsList ==
  ASSUME TypeOK, List, NEW t \in Threads, jobqueue_pull(t)
  PROVE  List'
<1> USE DEF TypeOK
<1> DEFINE h == Len(pulled)
           n == Len(submitted)
<1>1. Freed' = Freed /\ submitted' = submitted /\ prev' = prev
  BY DEF jobqueue_pull, Freed
<1>2. CASE len = 0
  BY <1>1, <1>2 DEF jobqueue_pull, List
<1>3. CASE len > 0
  <2>1. ~Freed /\ h \in Nat /\ n \in Nat /\ len = n - h
    BY <1>3 DEF List
  <2>2. front = submitted[h + 1] /\ front \in Jobs
    BY <1>3, <2>1 DEF List
  <2>3. /\ pulled' = Append(pulled, front) /\ len' = len - 1
        /\ Len(pulled') = h + 1 /\ pulled'[h + 1] = front
        /\ \A i \in 1 .. h : pulled'[i] = pulled[i]
    BY <1>3, <2>2, PoolAssumption DEF jobqueue_pull, PoolAssumption
  <2>4. \A i \in 1 .. h + 1 : pulled'[i] = submitted[i]
    BY <2>1, <2>2, <2>3 DEF List
  <2>5. CASE len = 1
    <3>1. front' = NULL /\ len' = 0
      BY <2>5 DEF jobqueue_pull
    <3> QED
      BY <1>1, <2>1, <2>3, <2>4, <2>5, <3>1 DEF List
  <2>6. CASE len > 1
    <3>1. front' = prev[front] /\ rear' = rear
      BY <2>6 DEF jobqueue_pull
    <3>2. prev[submitted[h + 1]] = submitted[h + 2] /\ rear = submitted[n]
      BY <2>1, <2>6 DEF List
    <3>3. front' = submitted[Len(pulled') + 1] /\ rear' = submitted[n]
      BY <2>1, <2>2, <2>3, <3>1, <3>2
    <3>4. \A i \in Len(pulled') + 1 .. n - 1 : prev[submitted[i]] = submitted[i + 1]
      BY <2>1, <2>3, <2>6 DEF List
    <3>5. \A i, k \in Len(pulled') + 1 .. n : submitted[i] = submitted[k] => i = k
      <4>1. \A i \in Len(pulled') + 1 .. n : i \in h + 1 .. n
        BY <2>1, <2>3
      <4>2. \A i, k \in h + 1 .. n : submitted[i] = submitted[k] => i = k
        BY <2>6 DEF List
      <4> QED
        BY <4>1, <4>2, Zenon
    <3>6. Len(pulled') <= n /\ ~Freed' /\ len' = n - Len(pulled') /\ len' # 0
      BY <1>1, <2>1, <2>3, <2>6
    <3> QED
      BY <1>1, <2>3, <2>4, <3>3, <3>4, <3>5, <3>6 DEF List
  <2> QED
    BY <1>3, <2>5, <2>6
<1> QED
  BY <1>2, <1>3

(* Every step keeps the list well linked.                                  *)
LEMMA ListKept == ASSUME TypeOK, Phases, List, [Next]_vars PROVE List'
<1>1. CASE DestroyFree
  <2>1. front' = NULL /\ len' = 0 /\ Freed' /\ UNCHANGED <<submitted, pulled>>
    BY <1>1, PoolAssumption DEF DestroyFree, Freed, TypeOK, history, PoolAssumption
  <2> QED
    BY <2>1 DEF List
<1>2. CASE \E c \in Callers, j \in Jobs : AddWork(c, j)
  BY <1>2, PushKeepsList
<1>3. CASE \E t \in Threads : jobqueue_pull(t)
  BY <1>3, PullKeepsList
<1>4. ASSUME UNCHANGED listVars /\ Freed' = Freed PROVE List'
  BY <1>4 DEF List, listVars
<1> QED
  BY <1>1, <1>2, <1>3, <1>4, ListFrame

-----------------------------------------------------------------------------
(* Whoever is not asleep before a step that posts or that puts nobody to   *)
(* sleep can still take the semaphore.                                     *)
LEMMA WatchedByPost ==
  ASSUME TypeOK, NEW base, NEW t \in Threads, base \in [Threads -> ThreadPCs],
         bsem_post(base), base = pc \/ base = [pc EXCEPT ![t] = "run"]
  PROVE  has_jobs' = 1 /\ Sleeping' # Threads
<1>1. CASE Sleeping = {} /\ pc' = base
  BY <1>1 DEF bsem_post, Sleeping, Asleep, TypeOK
<1>2. ASSUME NEW u \in Sleeping, pc' = [base EXCEPT ![u] = "bsem"]
      PROVE  Sleeping' # Threads
  BY <1>2 DEF Sleeping, Asleep, TypeOK
<1> QED
  BY <1>1, <1>2 DEF bsem_post

(* Every step keeps someone awake, or about to wake someone, while jobs wait. *)
LEMMA WatchedKept == ASSUME TypeOK, Phases, Watched, [Next]_vars PROVE Watched'
<1> USE PoolAssumption DEF PoolAssumption, TypeOK, Sleeping, Asleep, queueVars
<1>1. CASE UNCHANGED vars
  BY <1>1 DEF vars, Watched
<1>2. CASE InitDone
  BY <1>2 DEF InitDone, Watched, Phases
<1>3. CASE DestroyBegin \/ DestroyPost
  BY <1>3 DEF DestroyBegin, DestroyPost, bsem_post_all, Watched, Phases
<1>4. CASE DestroyFree
  BY <1>4 DEF DestroyFree, Watched
<1>5. ASSUME NEW c \in Callers, NEW j \in Jobs, AddWork(c, j) PROVE Watched'
  BY <1>5 DEF AddWork, jobqueue_push, Watched
<1>6. ASSUME NEW c \in Callers, AddPost(c) PROVE Watched'
  BY <1>6, WatchedByPost DEF AddPost, Watched
<1>7. ASSUME NEW c \in Callers, WaitLock(c) \/ WaitLen(c) \/ WaitWorking(c) \/ SpuriousIdle(c)
      PROVE  Watched'
  BY <1>7 DEF WaitLock, WaitLen, WaitWorking, SpuriousIdle, Watched
<1>8. ASSUME NEW t \in Threads, \/ Start(t) \/ LoopTest(t) \/ SpuriousWake(t) \/ Recheck(t)
             \/ CountWorking(t) \/ RunJob(t) \/ CountOut(t) \/ Unlock(t)
      PROVE  Watched'
  BY <1>8 DEF Start, LoopTest, SpuriousWake, Recheck, CountWorking, RunJob, CountOut, Unlock,
              Watched
<1>9. ASSUME NEW t \in Threads, bsem_wait(t) PROVE Watched'
  BY <1>9 DEF bsem_wait, Watched
<1>10. ASSUME NEW t \in Threads, jobqueue_pull(t) PROVE Watched'
  BY <1>10 DEF jobqueue_pull, Watched
<1>11. ASSUME NEW t \in Threads, PullPost(t) PROVE Watched'
  <2>1. [pc EXCEPT ![t] = "run"] \in [Threads -> ThreadPCs]
    BY DEF ThreadPCs
  <2> QED
    BY <1>11, <2>1, WatchedByPost DEF PullPost, Watched
<1>12. ASSUME NEW t \in Threads, UncountWorking(t) PROVE Watched'
  BY <1>12 DEF UncountWorking, SignalIdle, Watched
<1> QED
  BY <1>1, <1>2, <1>3, <1>4, <1>5, <1>6, <1>7, <1>8, <1>9, <1>10, <1>11, <1>12
     DEF Next, CallerStep, ThreadStep

-----------------------------------------------------------------------------
(* The threads counted are finitely many.                                  *)
LEMMA CountsFinite == IsFiniteSet(Alive) /\ IsFiniteSet(Working)
<1>1. Alive \in SUBSET Threads /\ Working \in SUBSET Threads
  BY DEF Alive, Working
<1> QED
  BY <1>1, FS_Subset, PoolAssumption DEF PoolAssumption

(* The two counters follow the sets they count.                            *)
LEMMA CountsFollow ==
  ASSUME TypeOK, Counting, [Next]_vars
  PROVE  /\ num_threads_alive' = Cardinality(Alive')
         /\ num_threads_working' = Cardinality(Working')
<1> USE DEF TypeOK
<1>1. /\ num_threads_alive = Cardinality(Alive) /\ num_threads_working = Cardinality(Working)
      /\ IsFiniteSet(Alive) /\ IsFiniteSet(Working)
  BY CountsFinite DEF Counting
<1>2. ASSUME Alive' = Alive, Working' = Working,
             UNCHANGED <<num_threads_alive, num_threads_working>>
      PROVE  /\ num_threads_alive' = Cardinality(Alive')
             /\ num_threads_working' = Cardinality(Working')
  BY <1>1, <1>2
<1>3. ASSUME NEW t \in Threads, Start(t)
      PROVE  /\ num_threads_alive' = Cardinality(Alive')
             /\ num_threads_working' = Cardinality(Working')
  <2>1. t \notin Alive /\ Alive' = Alive \cup {t} /\ Working' = Working
    BY <1>3 DEF Start, Alive, Working
  <2> QED
    BY <1>1, <1>3, <2>1, FS_AddElement DEF Start
<1>4. ASSUME NEW t \in Threads, CountOut(t)
      PROVE  /\ num_threads_alive' = Cardinality(Alive')
             /\ num_threads_working' = Cardinality(Working')
  <2>1. t \in Alive /\ Alive' = Alive \ {t} /\ Working' = Working
    BY <1>4 DEF CountOut, Alive, Working
  <2> QED
    BY <1>1, <1>4, <2>1, FS_RemoveElement DEF CountOut
<1>5. ASSUME NEW t \in Threads, CountWorking(t)
      PROVE  /\ num_threads_alive' = Cardinality(Alive')
             /\ num_threads_working' = Cardinality(Working')
  <2>1. t \notin Working /\ Working' = Working \cup {t} /\ Alive' = Alive
    BY <1>5 DEF CountWorking, Alive, Working
  <2> QED
    BY <1>1, <1>5, <2>1, FS_AddElement DEF CountWorking
<1>6. ASSUME NEW t \in Threads, UncountWorking(t)
      PROVE  /\ num_threads_alive' = Cardinality(Alive')
             /\ num_threads_working' = Cardinality(Working')
  <2>1. t \in Working /\ Working' = Working \ {t} /\ Alive' = Alive
    BY <1>6 DEF UncountWorking, Alive, Working
  <2>2. num_threads_working' = num_threads_working - 1 /\ num_threads_alive' = num_threads_alive
    BY <1>6 DEF UncountWorking
  <2> QED
    BY <1>1, <2>1, <2>2, FS_RemoveElement
<1>7. CASE UNCHANGED vars
  BY <1>2, <1>7 DEF vars, Alive, Working
<1>8. CASE InitDone \/ DestroyBegin \/ DestroyPost \/ DestroyFree
  BY <1>2, <1>8 DEF InitDone, DestroyBegin, DestroyPost, bsem_post_all, DestroyFree, Alive, Working,
                    Asleep, countVars
<1>9. ASSUME NEW c \in Callers, NEW j \in Jobs, AddWork(c, j)
      PROVE  UNCHANGED <<num_threads_alive, num_threads_working, pc>>
  BY <1>9 DEF AddWork, jobqueue_push, countVars
<1>10. ASSUME NEW c \in Callers, WaitLock(c) \/ WaitLen(c) \/ WaitWorking(c) \/ SpuriousIdle(c)
       PROVE  UNCHANGED <<num_threads_alive, num_threads_working, pc>>
  BY <1>10 DEF WaitLock, WaitLen, WaitWorking, SpuriousIdle, countVars
<1>11. ASSUME NEW c \in Callers, AddPost(c)
       PROVE  /\ Alive' = Alive /\ Working' = Working
              /\ UNCHANGED <<num_threads_alive, num_threads_working>>
  BY <1>11 DEF AddPost, bsem_post, Sleeping, Asleep, Alive, Working, countVars
<1>12. ASSUME NEW t \in Threads, PullPost(t)
       PROVE  /\ Alive' = Alive /\ Working' = Working
              /\ UNCHANGED <<num_threads_alive, num_threads_working>>
  BY <1>12 DEF PullPost, bsem_post, Sleeping, Asleep, Alive, Working, countVars
<1>13. ASSUME NEW t \in Threads, \/ LoopTest(t) \/ bsem_wait(t) \/ SpuriousWake(t) \/ Recheck(t)
              \/ jobqueue_pull(t) \/ RunJob(t) \/ Unlock(t)
       PROVE  /\ Alive' = Alive /\ Working' = Working
              /\ UNCHANGED <<num_threads_alive, num_threads_working>>
  BY <1>13 DEF LoopTest, bsem_wait, SpuriousWake, Recheck, jobqueue_pull, RunJob, Unlock,
               Alive, Working, countVars
<1>14. ASSUME UNCHANGED pc PROVE Alive' = Alive /\ Working' = Working
  BY <1>14 DEF Alive, Working
<1> QED
  BY <1>2, <1>3, <1>4, <1>5, <1>6, <1>7, <1>8, <1>9, <1>10, <1>11, <1>12, <1>13, <1>14
     DEF Next, CallerStep, ThreadStep

(* No thread becomes new, and a thread that has counted itself out stays so.*)
LEMMA ThreadsOnward ==
  ASSUME TypeOK, [Next]_vars, NEW t \in Threads
  PROVE  /\ pc[t] # "new" => pc'[t] # "new"
         /\ pc[t] \in {"unlock", "gone"} => pc'[t] \in {"unlock", "gone"}
<1> USE DEF TypeOK
<1>1. CASE UNCHANGED vars
  BY <1>1 DEF vars
<1>2. CASE InitDone \/ DestroyBegin \/ DestroyPost \/ DestroyFree
  BY <1>2 DEF InitDone, DestroyBegin, DestroyPost, bsem_post_all, DestroyFree, Asleep
<1>3. CASE \E c \in Callers, j \in Jobs : AddWork(c, j)
  BY <1>3 DEF AddWork, jobqueue_push
<1>4. CASE \E c \in Callers : CallerStep(c) \/ WaitLock(c) \/ SpuriousIdle(c)
  BY <1>4 DEF CallerStep, AddPost, WaitLock, WaitLen, WaitWorking, SpuriousIdle, bsem_post,
              Sleeping, Asleep
<1>5. ASSUME NEW u \in Threads, PullPost(u)
      PROVE  /\ pc[t] # "new" => pc'[t] # "new"
             /\ pc[t] \in {"unlock", "gone"} => pc'[t] \in {"unlock", "gone"}
  BY <1>5 DEF PullPost, bsem_post, Sleeping, Asleep
<1>6. ASSUME NEW u \in Threads, ThreadStep(u) \/ SpuriousWake(u), ~PullPost(u)
      PROVE  /\ pc[t] # "new" => pc'[t] # "new"
             /\ pc[t] \in {"unlock", "gone"} => pc'[t] \in {"unlock", "gone"}
  BY <1>6 DEF ThreadStep, Start, LoopTest, bsem_wait, SpuriousWake, Recheck, CountWorking,
       jobqueue_pull, RunJob, UncountWorking, CountOut, Unlock
<1> QED
  BY <1>1, <1>2, <1>3, <1>4, <1>5, <1>6 DEF Next

(* Main leaves "init" by InitDone and becomes "freed" by DestroyFree only. *)
LEMMA MainOnward ==
  ASSUME TypeOK, Phases, [Next]_vars
  PROVE  /\ ~InitDone => (cpc[Main] = "init" <=> cpc'[Main] = "init")
         /\ ~DestroyFree => Freed' = Freed
<1> USE PoolAssumption DEF PoolAssumption, TypeOK, Freed, Phases
<1>1. CASE UNCHANGED vars
  BY <1>1 DEF vars
<1>2. CASE InitDone \/ DestroyBegin \/ DestroyPost \/ DestroyFree
  BY <1>2 DEF InitDone, DestroyBegin, DestroyPost, bsem_post_all, DestroyFree
<1>3. ASSUME NEW c \in Callers, NEW j \in Jobs, AddWork(c, j)
      PROVE  (cpc[Main] = "init" <=> cpc'[Main] = "init") /\ Freed' = Freed
  BY <1>3 DEF AddWork, jobqueue_push
<1>4. ASSUME NEW c \in Callers, CallerStep(c) \/ WaitLock(c) \/ SpuriousIdle(c)
      PROVE  (cpc[Main] = "init" <=> cpc'[Main] = "init") /\ Freed' = Freed
  BY <1>4 DEF CallerStep, AddPost, WaitLock, WaitLen, WaitWorking, SpuriousIdle
<1>5. ASSUME NEW t \in Threads, UncountWorking(t)
      PROVE  (cpc[Main] = "init" <=> cpc'[Main] = "init") /\ Freed' = Freed
  BY <1>5 DEF UncountWorking, SignalIdle
<1>6. ASSUME NEW t \in Threads, ThreadStep(t) \/ SpuriousWake(t), ~UncountWorking(t)
      PROVE  UNCHANGED cpc
  BY <1>6 DEF ThreadStep, Start, LoopTest, bsem_wait, SpuriousWake, Recheck, CountWorking,
       jobqueue_pull, PullPost, RunJob, CountOut, Unlock
<1> QED
  BY <1>1, <1>2, <1>3, <1>4, <1>5, <1>6 DEF Next

(* Every step keeps the counters true to the threads.                      *)
LEMMA CountingKept == ASSUME TypeOK, Phases, Counting, [Next]_vars PROVE Counting'
<1>1. cpc'[Main] # "init" => \A t \in Threads : pc'[t] # "new"
  <2>1. CASE cpc[Main] # "init"
    BY <2>1, ThreadsOnward DEF Counting
  <2>2. CASE InitDone
    <3>1. Cardinality(Alive) = Cardinality(Threads) /\ Alive \in SUBSET Threads
      BY <2>2 DEF InitDone, Counting, Alive
    <3>2. Alive = Threads
      BY <3>1, FS_Subset, PoolAssumption DEF PoolAssumption
    <3> QED
      BY <2>2, <3>2 DEF InitDone, Alive
  <2>3. CASE cpc[Main] = "init" /\ ~InitDone
    BY <2>3, MainOnward
  <2> QED
    BY <2>1, <2>2, <2>3
<1>2. Freed' => \A t \in Threads : pc'[t] \in {"unlock", "gone"}
  <2>1. CASE Freed
    BY <2>1, ThreadsOnward DEF Counting
  <2>2. CASE DestroyFree
    <3>1. Alive = {} /\ cpc[Main] # "init" /\ UNCHANGED pc
      BY <2>2, CountsFinite, FS_EmptySet DEF DestroyFree, Counting
    <3> QED
      BY <3>1, ThreadsOnward DEF Counting, Alive
  <2>3. CASE ~Freed /\ ~DestroyFree
    BY <2>3, MainOnward
  <2> QED
    BY <2>1, <2>2, <2>3
<1> QED
  BY <1>1, <1>2, CountsFollow DEF Counting

-----------------------------------------------------------------------------
(* Every step keeps jobs in the hands only of threads about to run them.   *)
LEMMA HoldingKept == ASSUME TypeOK, List, Holding, [Next]_vars PROVE Holding'
<1> USE PoolAssumption DEF PoolAssumption, TypeOK, Holding
<1>1. CASE UNCHANGED vars
  BY <1>1 DEF vars
<1>2. CASE InitDone \/ DestroyBegin \/ DestroyPost \/ DestroyFree
  BY <1>2 DEF InitDone, DestroyBegin, DestroyPost, bsem_post_all, DestroyFree, Asleep
<1>3. CASE \E c \in Callers, j \in Jobs : AddWork(c, j)
  BY <1>3 DEF AddWork, jobqueue_push
<1>4. CASE \E c \in Callers : CallerStep(c) \/ WaitLock(c) \/ SpuriousIdle(c)
  BY <1>4 DEF CallerStep, AddPost, WaitLock, WaitLen, WaitWorking, SpuriousIdle, bsem_post,
              Sleeping, Asleep
<1>5. ASSUME NEW t \in Threads, PullPost(t) PROVE Holding'
  BY <1>5 DEF PullPost, bsem_post, Sleeping, Asleep
<1>6. ASSUME NEW t \in Threads, jobqueue_pull(t) PROVE Holding'
  BY <1>6 DEF jobqueue_pull, List
<1>7. ASSUME NEW t \in Threads, ThreadStep(t) \/ SpuriousWake(t),
             ~PullPost(t), ~jobqueue_pull(t)
      PROVE  Holding'
  BY <1>7 DEF ThreadStep, Start, LoopTest, bsem_wait, SpuriousWake, Recheck, CountWorking,
       RunJob, UncountWorking, CountOut, Unlock
<1> QED
  BY <1>1, <1>2, <1>3, <1>4, <1>5, <1>6, <1>7 DEF Next

-----------------------------------------------------------------------------
(* The histories only grow.                                                *)
LEMMA HistoryGrows ==
  ASSUME TypeOK, List, Phases, [Next]_vars
  PROVE  Len(submitted') >= Len(submitted) /\ Len(pulled') >= Len(pulled)
<1> USE DEF TypeOK
<1>1. CASE DestroyFree
  BY <1>1 DEF DestroyFree, history
<1>2. ASSUME NEW c \in Callers, NEW j \in Jobs, AddWork(c, j)
      PROVE  Len(submitted') >= Len(submitted) /\ Len(pulled') >= Len(pulled)
  BY <1>2 DEF AddWork, jobqueue_push
<1>3. ASSUME NEW t \in Threads, jobqueue_pull(t)
      PROVE  Len(submitted') >= Len(submitted) /\ Len(pulled') >= Len(pulled)
  BY <1>3 DEF jobqueue_pull
<1>4. CASE UNCHANGED listVars
  BY <1>4 DEF listVars
<1> QED
  BY <1>1, <1>2, <1>3, <1>4, ListFrame

(* Every step keeps what a caller in thpool_wait has seen so far.          *)
LEMMA WaitingKept == ASSUME TypeOK, Phases, List, Waiting, [Next]_vars PROVE Waiting'
<1> USE DEF TypeOK, Waiting
<1>1. Len(submitted') >= Len(submitted) /\ Len(pulled') >= Len(pulled)
  BY HistoryGrows
<1>2. Len(submitted') \in Nat /\ Len(pulled') \in Nat
  BY Types
<1>3. ASSUME UNCHANGED mark, \A c \in Callers : cpc'[c] = "working" => cpc[c] = "working"
      PROVE  Waiting'
  BY <1>1, <1>2, <1>3
<1>4. CASE UNCHANGED vars
  BY <1>3, <1>4 DEF vars
<1>5. CASE InitDone \/ DestroyBegin \/ DestroyPost \/ DestroyFree
  BY <1>3, <1>5 DEF InitDone, DestroyBegin, DestroyPost, bsem_post_all, DestroyFree, history
<1>6. ASSUME NEW c \in Callers, NEW j \in Jobs, AddWork(c, j) PROVE Waiting'
  BY <1>3, <1>6 DEF AddWork, jobqueue_push
<1>7. ASSUME NEW c \in Callers, AddPost(c) \/ WaitWorking(c) \/ SpuriousIdle(c) PROVE Waiting'
  BY <1>3, <1>7 DEF AddPost, WaitWorking, SpuriousIdle, history
<1>8. ASSUME NEW c \in Callers, WaitLock(c) PROVE Waiting'
  <2>1. /\ cpc' = [cpc EXCEPT ![c] = "len"]
        /\ mark' = IF cpc[c] = "relock" THEN mark ELSE [mark EXCEPT ![c] = Len(submitted)]
        /\ UNCHANGED <<submitted, pulled>>
    BY <1>8 DEF WaitLock
  <2>2. \A d \in Callers : mark'[d] <= Len(submitted)
    BY <2>1
  <2>3. \A d \in Callers : cpc'[d] = "working" => cpc[d] = "working" /\ mark'[d] = mark[d]
    BY <2>1
  <2> QED
    BY <2>1, <2>2, <2>3
<1>9. ASSUME NEW c \in Callers, WaitLen(c) PROVE Waiting'
  <2>1. UNCHANGED <<submitted, pulled, mark>>
    BY <1>9 DEF WaitLen, history
  <2>2. len = 0 => Len(pulled) = Len(submitted)
    <3>1. ~Freed
      BY <1>9, PoolAssumption DEF WaitLen, Phases, Freed, PoolAssumption
    <3> QED
      BY <3>1 DEF List
  <2>3. \A d \in Callers : cpc'[d] = "working" => cpc[d] = "working" \/ (d = c /\ len = 0)
    BY <1>9 DEF WaitLen
  <2>4. \A d \in Callers : cpc'[d] = "working" => Len(pulled) >= mark[d]
    BY <2>2, <2>3
  <2> QED
    BY <2>1, <2>4
<1>10. ASSUME NEW t \in Threads, UncountWorking(t) PROVE Waiting'
  BY <1>3, <1>10 DEF UncountWorking, SignalIdle, history
<1>11. ASSUME NEW t \in Threads, ThreadStep(t) \/ SpuriousWake(t), ~UncountWorking(t)
       PROVE  UNCHANGED <<cpc, mark>>
  BY <1>11 DEF ThreadStep, Start, LoopTest, bsem_wait, SpuriousWake, Recheck, CountWorking,
       jobqueue_pull, PullPost, RunJob, CountOut, Unlock, history
<1> QED
  BY <1>3, <1>4, <1>5, <1>6, <1>7, <1>8, <1>9, <1>10, <1>11 DEF Next, CallerStep

-----------------------------------------------------------------------------
(* The pool starts in its invariant.                                       *)
LEMMA InvInit == Init => Inv
<1> SUFFICES ASSUME Init PROVE Inv
  OBVIOUS
<1> USE PoolAssumption DEF PoolAssumption, Init
<1>1. TypeOK
  BY DEF TypeOK, ThreadPCs, CallerPCs
<1>2. Phases /\ List /\ Holding /\ Waiting
  BY DEF Phases, List, Holding, Waiting, Freed
<1>3. Watched
  BY DEF Watched, Sleeping, Asleep
<1>4. Alive = {} /\ Working = {}
  BY DEF Alive, Working
<1>5. Counting
  BY <1>4, FS_EmptySet DEF Counting, Freed
<1> QED
  BY <1>1, <1>2, <1>3, <1>5 DEF Inv

(* Every step keeps the invariant of the pool.                             *)
LEMMA InvStep == Inv /\ [Next]_vars => Inv'
  BY Types, PhasesKept, ListKept, WatchedKept, CountingKept, HoldingKept, WaitingKept DEF Inv

(* Inv holds in every reachable state of the pool.                         *)
THEOREM Invariance == Spec => []Inv
  BY InvInit, InvStep, PTL DEF Spec

(* Type correctness: it needs the shape of the list, or jobqueue_pull      *)
(* could follow a pointer that is not a job.                               *)
THEOREM PoolTypes == Spec => []TypeOK
  BY Invariance, PTL DEF Inv

(* The linked list hands the jobs out in the order thpool_add_work put     *)
(* them in, none lost and none twice, for any number of threads.           *)
THEOREM PoolFifo == Spec => []Fifo
<1>1. Inv => Fifo
  BY DEF Inv, List, Fifo
<1> QED
  BY <1>1, Invariance, PTL

(* The binary semaphore never forgets a job: while the pool is in use a    *)
(* linked job always has somebody who is on the way to it.                 *)
THEOREM PoolNoStrandedJob == Spec => []NoStrandedJob
<1>1. Inv => NoStrandedJob
  BY DEF Inv, Watched, NoStrandedJob
<1> QED
  BY <1>1, Invariance, PTL

(* num_threads_alive and num_threads_working count what they should.       *)
THEOREM PoolCounters == Spec => []Counters
<1>1. Inv => Counters
  BY DEF Inv, Counting, Counters, Alive, Working
<1> QED
  BY <1>1, Invariance, PTL

(* thpool_destroy frees the pool only when every thread has left its loop. *)
THEOREM PoolDestroyWaits == Spec => []DestroyWaits
<1>1. Inv => DestroyWaits
  BY DEF Inv, Counting, Holding, DestroyWaits
<1> QED
  BY <1>1, Invariance, PTL

(* thpool_wait returns only when everything submitted before it has been   *)
(* pulled and no thread holds a job.                                       *)
THEOREM PoolWaitSound == Spec => WaitSound
<1>1. ASSUME Inv, [Next]_vars, NEW c \in Callers, cpc[c] = "working", cpc'[c] = "waited"
      PROVE  Len(pulled) >= mark[c] /\ Held = {}
  <2>1. num_threads_working = 0
    <3>1. ASSUME NEW t \in Threads, UncountWorking(t) PROVE FALSE
      BY <1>1, <3>1 DEF UncountWorking, SignalIdle, Inv, TypeOK
    <3>2. \A d \in Callers \ {c} : ~WaitWorking(d) /\ ~AddPost(d) /\ ~WaitLen(d)
      BY <1>1 DEF WaitWorking, AddPost, WaitLen, Inv, TypeOK
    <3> QED
      BY <1>1, <3>1, <3>2
         DEF Next, vars, CallerStep, ThreadStep, InitDone, DestroyBegin, DestroyPost,
             bsem_post_all, DestroyFree, AddWork, AddPost, WaitLock, WaitLen, WaitWorking, SpuriousIdle, Start, LoopTest,
             bsem_wait, SpuriousWake, Recheck, CountWorking, jobqueue_pull, PullPost, RunJob,
             CountOut, Unlock, Inv, TypeOK
  <2>2. Working = {}
    BY <1>1, <2>1, CountsFinite, FS_EmptySet DEF Inv, Counting
  <2>3. \A t \in Threads : job[t] = NULL
    BY <1>1, <2>2 DEF Inv, Holding, Working
  <2> QED
    BY <1>1, <2>3 DEF Inv, Waiting, Held
<1>2. Inv /\ [Next]_vars =>
        [\A c \in Callers : cpc[c] = "working" /\ cpc'[c] = "waited" =>
            Len(pulled) >= mark[c] /\ Held = {}]_vars
  BY <1>1
<1> QED
  BY <1>2, Invariance, PTL DEF Spec, WaitSound

-----------------------------------------------------------------------------
(* The pending jobs, read off the history.                                 *)
Unpulled == [i \in 1 .. len |-> submitted[Len(pulled) + i]]

JobServer == INSTANCE WorkQueue WITH
            Workers <- Threads, pending <- Unpulled, running <- job,
            open <- threads_keepalive = 1

(* Only thpool_destroy closes the pool.                                    *)
Closing == threads_keepalive = 0 => cpc[Main] \in {"poll", "freed"}

Known == Inv /\ Closing

-----------------------------------------------------------------------------
(* Every step keeps: the threads are told to end only by the destruction.  *)
LEMMA ClosingKept == ASSUME Inv, Closing, [Next]_vars PROVE Closing'
<1> USE PoolAssumption DEF PoolAssumption, Inv, TypeOK, Closing
<1>1. CASE UNCHANGED vars
  BY <1>1 DEF vars
<1>2. CASE InitDone \/ DestroyBegin \/ DestroyPost \/ DestroyFree
  BY <1>2 DEF InitDone, DestroyBegin, DestroyPost, DestroyFree
<1>3. ASSUME NEW c \in Callers, NEW j \in Jobs, AddWork(c, j) PROVE Closing'
  BY <1>3 DEF AddWork, Phases
<1>4. ASSUME NEW c \in Callers, CallerStep(c) \/ WaitLock(c) \/ SpuriousIdle(c) PROVE Closing'
  BY <1>4 DEF CallerStep, AddPost, WaitLen, WaitWorking, WaitLock, SpuriousIdle
<1>5. ASSUME NEW t \in Threads, ThreadStep(t) \/ SpuriousWake(t) PROVE Closing'
  BY <1>5 DEF ThreadStep, Start, LoopTest, bsem_wait, SpuriousWake, Recheck, CountWorking,
              jobqueue_pull, PullPost, RunJob, UncountWorking, SignalIdle, CountOut, Unlock
<1> QED
  BY <1>1, <1>2, <1>3, <1>4, <1>5 DEF Next

(* What the refinement needs to know holds always.                         *)
LEMMA KnownAlways == Spec => []Known
<1>1. Init => Known
  BY InvInit DEF Known, Closing, Init
<1>2. Known /\ [Next]_vars => Known'
  BY InvStep, ClosingKept DEF Known
<1> QED
  BY <1>1, <1>2, PTL DEF Spec

(* A step that touches neither the list nor a job is a stutter.            *)
LEMMA Stutter ==
  ASSUME UNCHANGED <<len, submitted, pulled, job, threads_keepalive>> PROVE UNCHANGED JobServer!wvars
BY DEF JobServer!wvars, Unpulled

-----------------------------------------------------------------------------
(* Adding a job submits it to the queue promised.                          *)
LEMMA AddWorkSubmits ==
  ASSUME Known, NEW c \in Callers, NEW j \in Jobs, AddWork(c, j) PROVE JobServer!Submit(j)
<1> USE PoolAssumption DEF PoolAssumption, Known, Inv
<1>1. threads_keepalive = 1 /\ ~Freed
  BY DEF AddWork, Closing, Phases, TypeOK, Freed
<1>2. /\ len \in Nat /\ len = Len(submitted) - Len(pulled)
      /\ submitted \in Seq(Jobs) /\ pulled \in Seq(Jobs)
  BY <1>1 DEF List, TypeOK
<1>3. /\ submitted' = Append(submitted, j) /\ len' = len + 1
      /\ UNCHANGED <<pulled, job, threads_keepalive>>
  BY DEF AddWork, jobqueue_push
<1>4. Unpulled' = Append(Unpulled, j)
  <2>1. Unpulled \in Seq(Jobs) /\ Len(Unpulled) = len
    BY <1>2 DEF Unpulled
  <2>2. submitted' \in Seq(Jobs) /\ Len(submitted') = Len(submitted) + 1
    BY <1>2, <1>3
  <2>3. Unpulled' \in Seq(Jobs) /\ Len(Unpulled') = len + 1
    BY <1>2, <1>3, <2>2 DEF Unpulled
  <2>4. \A i \in 1 .. len : Unpulled'[i] = Unpulled[i]
    BY <1>2, <1>3 DEF Unpulled
  <2>5. Unpulled'[len + 1] = j
    BY <1>2, <1>3 DEF Unpulled
  <2>6. /\ Append(Unpulled, j) \in Seq(Jobs) /\ Len(Append(Unpulled, j)) = len + 1
        /\ \A i \in 1 .. len : Append(Unpulled, j)[i] = Unpulled[i]
        /\ Append(Unpulled, j)[len + 1] = j
    BY <2>1, AppendProperties
  <2> HIDE DEF Known, Inv, PoolAssumption
  <2>7. ASSUME NEW i \in 1 .. len + 1 PROVE Unpulled'[i] = Append(Unpulled, j)[i]
    <3>1. CASE i = len + 1
      BY <2>5, <2>6, <3>1
    <3>2. CASE i \in 1 .. len
      BY <2>4, <2>6, <3>2
    <3>3. i = len + 1 \/ i \in 1 .. len
      BY <1>2
    <3> QED
      BY <3>1, <3>2, <3>3, Zenon
  <2> QED
    BY <2>3, <2>6, <2>7, SeqEqual
<1>5. j \notin JobServer!InUse
  <2>1. \A i \in DOMAIN Unpulled : Unpulled[i] \in Pending
    BY <1>2 DEF Unpulled, Pending
  <2>2. j \notin Pending /\ \A t \in Threads : job[t] # j
    BY DEF AddWork, Held
  <2> QED
    BY <2>1, <2>2 DEF JobServer!InUse
<1> QED
  BY <1>1, <1>3, <1>4, <1>5 DEF JobServer!Submit

(* Pulling a job takes it from the queue promised, or finds none.          *)
LEMMA PullTakes ==
  ASSUME Known, NEW t \in Threads, jobqueue_pull(t)
  PROVE  JobServer!Take(t) \/ UNCHANGED JobServer!wvars
<1> USE PoolAssumption DEF PoolAssumption, Known, Inv
<1>1. job[t] = NULL /\ ~Freed
  BY DEF jobqueue_pull, Holding, Counting
<1>2. /\ len \in Nat /\ len = Len(submitted) - Len(pulled)
      /\ submitted \in Seq(Jobs) /\ pulled \in Seq(Jobs) /\ job \in [Threads -> Jobs \cup {NULL}]
  BY <1>1 DEF List, TypeOK
<1>3. CASE len = 0
  <2>1. front = NULL
    BY <1>3 DEF List
  <2>2. UNCHANGED <<len, submitted, pulled, threads_keepalive>> /\ job' = [job EXCEPT ![t] = NULL]
    BY <1>3, <2>1 DEF jobqueue_pull
  <2>3. job' = job
    BY <1>1, <1>2, <2>2
  <2> QED
    BY <2>2, <2>3, Stutter
<1>4. CASE len > 0
  <2>1. front = submitted[Len(pulled) + 1] /\ front \in Jobs
    BY <1>2, <1>4 DEF List
  <2>2. /\ job' = [job EXCEPT ![t] = front] /\ pulled' = Append(pulled, front)
        /\ len' = len - 1 /\ UNCHANGED <<submitted, threads_keepalive>>
    BY <1>2, <1>4, <2>1 DEF jobqueue_pull
  <2>3. /\ Unpulled \in Seq(Jobs) /\ Len(Unpulled) = len /\ Unpulled # <<>>
        /\ Head(Unpulled) = front
    <3>1. Unpulled \in Seq(Jobs) /\ Len(Unpulled) = len /\ Unpulled[1] = front
      BY <1>2, <1>4, <2>1 DEF Unpulled
    <3> QED
      BY <1>2, <1>4, <3>1
  <2>4. Unpulled' = Tail(Unpulled)
    <3>1. /\ Tail(Unpulled) \in Seq(Jobs) /\ Len(Tail(Unpulled)) = len - 1
          /\ \A i \in 1 .. len - 1 : Tail(Unpulled)[i] = Unpulled[i + 1]
      BY <1>2, <2>3, HeadTailProperties
    <3>2. \A i \in 1 .. len - 1 : submitted[Len(pulled) + 1 + i] = Unpulled[i + 1]
      BY <1>2 DEF Unpulled
    <3>3. Len(pulled') = Len(pulled) + 1
      BY <1>2, <2>1, <2>2
    <3>4. Unpulled' \in Seq(Jobs) /\ Len(Unpulled') = len - 1
      BY <1>2, <1>4, <2>2, <3>3 DEF Unpulled
    <3>5. \A i \in 1 .. len - 1 : Unpulled'[i] = Unpulled[i + 1]
      BY <1>2, <2>2, <3>2, <3>3 DEF Unpulled
    <3> QED
      BY <1>2, <1>4, <3>1, <3>4, <3>5, SeqEqual
  <2> QED
    BY <1>1, <2>2, <2>3, <2>4 DEF JobServer!Take
<1> QED
  BY <1>2, <1>3, <1>4

(* Every step of the pool is one of the queue promised, or none.           *)
LEMMA StepSimulates == Known /\ [Next]_vars => [JobServer!Next]_(JobServer!wvars)
<1> SUFFICES ASSUME Known, [Next]_vars PROVE JobServer!Next \/ UNCHANGED JobServer!wvars
  OBVIOUS
<1> USE PoolAssumption DEF PoolAssumption
<1>1. CASE UNCHANGED vars
  BY <1>1, Stutter DEF vars
<1>2. CASE InitDone \/ DestroyPost
  BY <1>2, Stutter DEF InitDone, DestroyPost, queueVars, history
<1>3. CASE DestroyBegin
  <2>1. threads_keepalive = 1 /\ threads_keepalive' = 0
    BY <1>3 DEF DestroyBegin, Known, Closing, Inv, TypeOK
  <2>2. UNCHANGED <<Unpulled, job>>
    BY <1>3 DEF DestroyBegin, queueVars, history, Unpulled
  <2>3. JobServer!Close
    BY <2>1, <2>2 DEF JobServer!Close
  <2> QED
    BY <2>3 DEF JobServer!Next
<1>4. CASE DestroyFree
  <2>1. threads_keepalive = 0 /\ UNCHANGED <<job, threads_keepalive>> /\ len' = 0
    BY <1>4 DEF DestroyFree, Known, Inv, Phases
  <2>2. \A t \in Threads : job[t] = NULL
    <3>1. Alive = {}
      BY <1>4, CountsFinite, FS_EmptySet DEF DestroyFree, Known, Inv, Counting
    <3> QED
      BY <3>1 DEF Alive, Known, Inv, Holding
  <2>3. Unpulled' = <<>>
    BY <2>1 DEF Unpulled
  <2>4. JobServer!Discard
    BY <2>1, <2>2, <2>3 DEF JobServer!Discard
  <2> QED
    BY <2>4 DEF JobServer!Next
<1>5. ASSUME NEW c \in Callers, NEW j \in Jobs, AddWork(c, j) PROVE JobServer!Next
  BY <1>5, AddWorkSubmits DEF JobServer!Next
<1>6. ASSUME NEW c \in Callers, CallerStep(c) \/ WaitLock(c) \/ SpuriousIdle(c)
      PROVE  UNCHANGED JobServer!wvars
  BY <1>6, Stutter DEF CallerStep, AddPost, WaitLen, WaitWorking, WaitLock, SpuriousIdle, queueVars,
                       history
<1>7. ASSUME NEW t \in Threads, jobqueue_pull(t) PROVE JobServer!Next \/ UNCHANGED JobServer!wvars
  BY <1>7, PullTakes DEF JobServer!Next
<1>8. ASSUME NEW t \in Threads, RunJob(t) PROVE JobServer!Next \/ UNCHANGED JobServer!wvars
  <2>1. job' = [job EXCEPT ![t] = NULL] /\ UNCHANGED <<len, submitted, pulled, threads_keepalive>>
    BY <1>8 DEF RunJob, queueVars, history
  <2>2. CASE job[t] = NULL
    <3>1. job' = job
      BY <2>1, <2>2 DEF Known, Inv, TypeOK
    <3> QED
      BY <2>1, <3>1, Stutter
  <2>3. CASE job[t] # NULL
    <3>1. JobServer!Finish(t)
      BY <2>1, <2>3 DEF JobServer!Finish, Unpulled
    <3> QED
      BY <3>1 DEF JobServer!Next
  <2> QED
    BY <2>2, <2>3
<1>9. ASSUME NEW t \in Threads, ThreadStep(t) \/ SpuriousWake(t), ~jobqueue_pull(t), ~RunJob(t)
      PROVE  UNCHANGED JobServer!wvars
  BY <1>9, Stutter DEF ThreadStep, Start, LoopTest, bsem_wait, SpuriousWake, Recheck, CountWorking,
       PullPost, UncountWorking, CountOut, Unlock, queueVars, history
<1> QED
  BY <1>1, <1>2, <1>3, <1>4, <1>5, <1>6, <1>7, <1>8, <1>9 DEF Next

(* The pool implements the queue promised, told from its history.          *)
LEMMA ServesHistory == Spec => JobServer!Spec
<1>1. Init => JobServer!Init
  BY DEF Init, JobServer!Init, Unpulled
<1> QED
  BY <1>1, StepSimulates, KnownAlways, PTL DEF Spec, JobServer!Spec

-----------------------------------------------------------------------------
(* What is pending as the history tells it is what the linked list spells. *)
LEMMA ChainSpells == ASSUME TypeOK, List PROVE Chain = Unpulled
<1> DEFINE Is(f) == f = [i \in 1 .. len |-> IF i = 1 THEN front ELSE prev[f[i - 1]]]
           walk == CHOOSE f : Is(f)
           h == Len(pulled)
<1>1. Chain = walk
  BY Zenon DEF Chain
<1>2. /\ len \in Nat /\ h \in Nat /\ Len(submitted) \in Nat /\ submitted \in Seq(Jobs)
      /\ len > 0 => len = Len(submitted) - h
  BY DEF TypeOK, List
<1> HIDE DEF h
<1>3. Unpulled = [i \in 1 .. len |-> submitted[h + i]]
  BY DEF Unpulled, h
<1>4. ASSUME NEW i \in 1 .. len
      PROVE  Unpulled[i] = IF i = 1 THEN front ELSE prev[Unpulled[i - 1]]
  <2>1. Unpulled[i] = submitted[h + i] /\ len > 0
    BY <1>2, <1>3
  <2>2. CASE i = 1
    BY <2>1, <2>2 DEF List, h
  <2>3. CASE i # 1
    <3>1. i - 1 \in 1 .. len /\ h + i - 1 \in h + 1 .. Len(submitted) - 1 /\ h + (i - 1) = h + i - 1
          /\ (h + i - 1) + 1 = h + i
      BY <1>2, <2>1, <2>3
    <3>2. Unpulled[i - 1] = submitted[h + i - 1]
      BY <1>3, <3>1
    <3>3. prev[submitted[h + i - 1]] = submitted[(h + i - 1) + 1]
      BY <2>1, <3>1 DEF List, h
    <3> QED
      BY <2>1, <2>3, <3>1, <3>2, <3>3
  <2> QED
    BY <2>2, <2>3
<1>5. Is(walk)
  <2>1. Is(Unpulled)
    BY <1>3, <1>4
  <2> HIDE DEF Is
  <2> QED
    BY <2>1
<1>6. /\ walk = [i \in 1 .. len |-> walk[i]]
      /\ \A i \in 1 .. len : walk[i] = IF i = 1 THEN front ELSE prev[walk[i - 1]]
  <2> HIDE DEF walk
  <2> QED
    BY <1>5
<1> HIDE DEF walk, Is
<1> DEFINE E == { i \in Nat : i # 0 => walk[i] = Unpulled[i] }
<1>7. 0 \in E
  OBVIOUS
<1>8. ASSUME NEW i \in 0 .. len - 1, i \in E PROVE i + 1 \in E
  <2>1. i + 1 \in 1 .. len /\ (i + 1) - 1 = i /\ i \in Nat
    BY <1>2
  <2>2. walk[i + 1] = IF i + 1 = 1 THEN front ELSE prev[walk[i]]
    BY <1>6, <2>1
  <2>3. Unpulled[i + 1] = IF i + 1 = 1 THEN front ELSE prev[Unpulled[i]]
    BY <1>4, <2>1
  <2>4. i # 0 => walk[i] = Unpulled[i]
    BY <1>8
  <2>5. walk[i + 1] = Unpulled[i + 1]
    BY <2>1, <2>2, <2>3, <2>4
  <2> QED
    BY <2>1, <2>5
<1> HIDE DEF E
<1>9. \A i \in 1 .. len : walk[i] = Unpulled[i]
  <2>1. 0 .. len \subseteq E
    BY <1>2, <1>7, <1>8, UpTo
  <2> QED
    BY <1>2, <2>1 DEF E
<1>10. walk = Unpulled
  BY <1>3, <1>6, <1>9
<1> QED
  BY <1>1, <1>10

(* The linked list spells the jobs not yet pulled.                         *)
LEMMA KnownSpells == Known => Chain = Unpulled
BY ChainSpells DEF Known, Inv

(* A step told from the history is one told from the list.                 *)
LEMMA SameServer ==
  ASSUME Chain = Unpulled, Chain' = Unpulled', [JobServer!Next]_(JobServer!wvars)
  PROVE  [Queue!Next]_(Queue!wvars)
<1>1. ASSUME UNCHANGED JobServer!wvars PROVE UNCHANGED Queue!wvars
  BY <1>1 DEF JobServer!wvars, Queue!wvars
<1>2. ASSUME NEW j \in Jobs, JobServer!Submit(j) PROVE Queue!Submit(j)
  BY <1>2 DEF JobServer!Submit, Queue!Submit, JobServer!InUse, Queue!InUse
<1>3. ASSUME NEW w \in Threads, JobServer!Take(w) PROVE Queue!Take(w)
  BY <1>3 DEF JobServer!Take, Queue!Take
<1>4. ASSUME NEW w \in Threads, JobServer!Finish(w) PROVE Queue!Finish(w)
  BY <1>4 DEF JobServer!Finish, Queue!Finish
<1>5. ASSUME JobServer!Close \/ JobServer!Discard PROVE Queue!Close \/ Queue!Discard
  BY <1>5 DEF JobServer!Close, Queue!Close, JobServer!Discard, Queue!Discard
<1> QED
  BY <1>1, <1>2, <1>3, <1>4, <1>5 DEF JobServer!Next, Queue!Next

(* The pool of thpool.cpp does nothing a FIFO job server would not do:     *)
(* whatever the interleaving, its steps submit a job, start the oldest one *)
(* of the linked list, finish one, close the queue, discard it when all is *)
(* quiet -- or cannot be seen.  This is ImplementsWorkQueue but for its    *)
(* liveness.                                                               *)
THEOREM PoolImplementsWorkQueue == Spec => Queue!Spec
<1>1. JobServer!Init /\ Chain = Unpulled => Queue!Init
  BY DEF JobServer!Init, Queue!Init
<1>2. /\ Chain = Unpulled /\ (Chain = Unpulled)' /\ [JobServer!Next]_(JobServer!wvars)
      => [Queue!Next]_(Queue!wvars)
  BY SameServer
<1>3. Spec => [](Chain = Unpulled)
  BY KnownAlways, KnownSpells, PTL
<1> QED
  BY <1>1, <1>2, <1>3, ServesHistory, PTL DEF JobServer!Spec, Queue!Spec

-----------------------------------------------------------------------------
(* thpool_pause and thpool_resume only keep threads from going on: what a  *)
(* pool does that is paused and resumed, with signals that arrive at any   *)
(* point of thread_do, a pool that never is might do as well.  So all that *)
(* is proved here of Spec holds of PauseSpec.                              *)
THEOREM PausedIsPool == PauseSpec => Spec
<1>1. PauseInit => Init
  BY DEF PauseInit
<1>2. [PauseNext]_<<vars, pauseVars>> => [Next]_vars
  <2>1. ASSUME UNCHANGED <<vars, pauseVars>> PROVE UNCHANGED vars
    BY <2>1
  <2>2. ASSUME thpool_pause \/ thpool_resume PROVE UNCHANGED vars
    BY <2>2 DEF thpool_pause, thpool_resume
  <2>3. ASSUME NEW t \in Threads, thread_hold(t) \/ Unhold(t) PROVE UNCHANGED vars
    BY <2>3 DEF thread_hold, Unhold
  <2>4. ASSUME NEW t \in Threads, Runs(t) PROVE Next
    BY <2>4 DEF Runs, Next
  <2>5. ASSUME Others PROVE Next
    BY <2>5 DEF Others, Next
  <2> QED
    BY <2>1, <2>2, <2>3, <2>4, <2>5 DEF PauseNext
<1> QED
  BY <1>1, <1>2, PTL DEF PauseSpec, Spec

(* A paused pool, too, hands out the jobs of the linked list in order.     *)
THEOREM PausedImplementsWorkQueue == PauseSpec => Queue!Spec
BY PausedIsPool, PoolImplementsWorkQueue, PTL
===============================================================================
