--------------------------- MODULE DataFileStorage ---------------------------
(***************************************************************************)
(* Database/DataFileStorage.h: a table of fixed-size records in a file.    *)
(* Callers (the pool's threads, in the pages of a site) queue writes under *)
(* the mutex cs and read records back by number; one thread, FileWorker,   *)
(* takes the writes off the queue and performs them.  It takes cs for the  *)
(* queue only, so its fseek and fwrite fall between the fseek and the      *)
(* fread of Load, which share the FILE and its position.                   *)
(*                                                                         *)
(* The file is a sequence of records and positions count records: every    *)
(* offset the code computes is a multiple of sizeof(T).  It is opened with *)
(* "ab+", so a write lands at the end of it wherever fseek went.           *)
(*                                                                         *)
(* A definition named Op_Fault is not the code: it is Op with one mistake, *)
(* named after it, that a property below must notice.                      *)
(***************************************************************************)
EXTENDS Integers, Sequences, FiniteSets

CONSTANTS
  Callers,     \* the threads that use the table
  Inserters,   \* those of them that insert
  Updaters,    \* those of them that update
  Objects,     \* the objects that are stored, each once
  MaxCrashes,  \* bound: how often the server is killed and started again
  NULL

Items == [Data : Objects, FileAddr : Nat, InDB : BOOLEAN, Destroy : BOOLEAN]

ASSUME StorageAssumption ==
  /\ Inserters \subseteq Callers /\ Updaters \subseteq Callers
  /\ NULL \notin Callers \cup Objects \cup Items
  /\ MaxCrashes \in Nat

VARIABLES
  FileQueue, FileSz,
  cs,         \* holder of the mutex, or NULL
  file, pos,  \* the file, and the position of the FILE
  heap,       \* the objects that are allocated
  kept,       \* those of them whose caller has kept the pointer
  item, fpc,  \* FileWorker: the DBItem it works on, and what it does next
  call, cpc,  \* each caller: the DBItem or the record numbers of its call
  given,      \* history: the numbers Insert has returned, with their objects
  got,        \* history: what Load has returned, with the number asked for
  updated,    \* history: somebody has called Update
  crashes

fileVars   == <<file, pos>>
workerVars == <<item, fpc>>
records    == <<given, got, updated, crashes>>
vars == <<FileQueue, FileSz, cs, file, pos, heap, kept, item, fpc, call, cpc,
          given, got, updated, crashes>>

DBItem(d, at, in, destroy) == [Data |-> d, FileAddr |-> at, InDB |-> in, Destroy |-> destroy]
Span(lo, hi)               == [lo |-> lo, hi |-> hi]

(* A new table, or the same one after a restart: FileSz is the file's      *)
(* length, the rest of the memory starts afresh.                           *)
Boot(length) ==
  /\ FileQueue' = <<>> /\ FileSz' = length /\ cs' = NULL
  /\ pos' = 0 /\ heap' = {} /\ kept' = {}
  /\ item' = NULL /\ fpc' = "idle"
  /\ call' = [c \in Callers |-> NULL] /\ cpc' = [c \in Callers |-> "idle"]

Init ==
  /\ FileQueue = <<>> /\ FileSz = 0 /\ cs = NULL
  /\ file = <<>> /\ pos = 0 /\ heap = {} /\ kept = {}
  /\ item = NULL /\ fpc = "idle"
  /\ call = [c \in Callers |-> NULL] /\ cpc = [c \in Callers |-> "idle"]
  /\ given = {} /\ got = {} /\ updated = FALSE /\ crashes = 0

Used == heap \cup { file[i] : i \in DOMAIN file } \cup { g[2] : g \in given }

-----------------------------------------------------------------------------
(* Insert: the record's number and the new size are computed before the    *)
(* mutex is taken.                                                         *)
Insert(c) ==
  /\ cpc[c] = "idle" /\ c \in Inserters
  /\ \E d \in Objects \ Used, destroy \in BOOLEAN :
       /\ heap' = heap \cup {d}
       /\ call' = [call EXCEPT ![c] = DBItem(d, FileSz, TRUE, destroy)]
  /\ cpc' = [cpc EXCEPT ![c] = "grow"]
  /\ UNCHANGED <<FileQueue, FileSz, cs, fileVars, kept, workerVars, records>>

Grow_FromFile(c) ==
  /\ cpc[c] = "grow"
  /\ FileSz' = Len(file)
  /\ cpc' = [cpc EXCEPT ![c] = "give"]
  /\ UNCHANGED <<FileQueue, cs, fileVars, heap, kept, workerVars, call, records>>

Grow(c) ==
  /\ cpc[c] = "grow"
  /\ FileSz' = call[c].FileAddr + 1
  /\ cpc' = [cpc EXCEPT ![c] = "give"]
  /\ UNCHANGED <<FileQueue, cs, fileVars, heap, kept, workerVars, call, records>>

(* Update: of any record whose number is known.                            *)
Update(c) ==
  /\ cpc[c] = "idle" /\ c \in Updaters
  /\ \E d \in Objects \ Used, destroy \in BOOLEAN, g \in given :
       /\ heap' = heap \cup {d}
       /\ call' = [call EXCEPT ![c] = DBItem(d, g[1], TRUE, destroy)]
  /\ cpc' = [cpc EXCEPT ![c] = "push"]
  /\ updated' = TRUE
  /\ UNCHANGED <<FileQueue, FileSz, cs, fileVars, kept, workerVars, given, got, crashes>>

(* DelPointer: of an object that was stored with destroy = false.          *)
DelPointer(c) ==
  /\ cpc[c] = "idle"
  /\ \E d \in kept :
       /\ kept' = kept \ {d}
       /\ call' = [call EXCEPT ![c] = DBItem(d, 0, FALSE, TRUE)]
  /\ cpc' = [cpc EXCEPT ![c] = "push"]
  /\ UNCHANGED <<FileQueue, FileSz, cs, fileVars, heap, workerVars, records>>

(* All three end with a push under the mutex; Insert returns the number.   *)
Push_InFront(c) ==
  /\ cpc[c] \in {"give", "push"} /\ cs = NULL
  /\ FileQueue' = <<call[c]>> \o FileQueue
  /\ kept' = IF call[c].Destroy THEN kept ELSE kept \cup {call[c].Data}
  /\ given' = IF cpc[c] = "give" THEN given \cup {<<call[c].FileAddr, call[c].Data>>} ELSE given
  /\ call' = [call EXCEPT ![c] = NULL] /\ cpc' = [cpc EXCEPT ![c] = "idle"]
  /\ UNCHANGED <<FileSz, cs, fileVars, heap, workerVars, got, updated, crashes>>

Push(c) ==
  /\ cpc[c] \in {"give", "push"} /\ cs = NULL
  /\ FileQueue' = Append(FileQueue, call[c])
  /\ kept' = IF call[c].Destroy THEN kept ELSE kept \cup {call[c].Data}
  /\ given' = IF cpc[c] = "give" THEN given \cup {<<call[c].FileAddr, call[c].Data>>} ELSE given
  /\ call' = [call EXCEPT ![c] = NULL] /\ cpc' = [cpc EXCEPT ![c] = "idle"]
  /\ UNCHANGED <<FileSz, cs, fileVars, heap, workerVars, got, updated, crashes>>

-----------------------------------------------------------------------------
(* Load reads one record, LoadAll those there were when Size was called,   *)
(* holding the mutex; a read at or behind the end of the file fails.       *)
Load(c) ==
  /\ cpc[c] = "idle" /\ cs = NULL
  /\ cs' = c
  /\ \/ \E id \in 0 .. FileSz : call' = [call EXCEPT ![c] = Span(id, id)]
     \/ FileSz > 0 /\ call' = [call EXCEPT ![c] = Span(0, FileSz - 1)]
  /\ cpc' = [cpc EXCEPT ![c] = "seek"]
  /\ UNCHANGED <<FileQueue, FileSz, fileVars, heap, kept, workerVars, records>>

LoadSeek_Missing(c) ==
  /\ cpc[c] = "seek"
  /\ cpc' = [cpc EXCEPT ![c] = "read"]
  /\ UNCHANGED <<FileQueue, FileSz, cs, fileVars, heap, kept, workerVars, call, records>>

LoadSeek(c) ==
  /\ cpc[c] = "seek"
  /\ pos' = call[c].lo
  /\ cpc' = [cpc EXCEPT ![c] = "read"]
  /\ UNCHANGED <<FileQueue, FileSz, cs, file, heap, kept, workerVars, call, records>>

LoadRead(c) ==
  /\ cpc[c] = "read"
  /\ \/ pos >= Len(file) /\ UNCHANGED <<pos, got>>
     \/ /\ pos < Len(file)
        /\ got' = got \cup {<<call[c].lo, file[pos + 1]>>}
        /\ pos' = pos + 1
  /\ \/ /\ call[c].lo < call[c].hi
        /\ call' = [call EXCEPT ![c].lo = @ + 1]
        /\ cpc' = [cpc EXCEPT ![c] = "seek"]
        /\ UNCHANGED cs
     \/ /\ call[c].lo = call[c].hi
        /\ call' = [call EXCEPT ![c] = NULL]
        /\ cpc' = [cpc EXCEPT ![c] = "idle"]
        /\ cs' = NULL
  /\ UNCHANGED <<FileQueue, FileSz, file, heap, kept, workerVars, given, updated, crashes>>

-----------------------------------------------------------------------------
(* FileWorker.                                                             *)
Take_Clears ==
  /\ fpc = "idle" /\ cs = NULL
  /\ FileQueue # <<>>
  /\ item' = Head(FileQueue)
  /\ FileQueue' = <<>>
  /\ fpc' = IF item'.InDB THEN "seek" ELSE "free"
  /\ UNCHANGED <<FileSz, cs, fileVars, heap, kept, call, cpc, records>>

Take ==
  /\ fpc = "idle" /\ cs = NULL
  /\ FileQueue # <<>>
  /\ item' = Head(FileQueue)
  /\ FileQueue' = Tail(FileQueue)
  /\ fpc' = IF item'.InDB THEN "seek" ELSE "free"
  /\ UNCHANGED <<FileSz, cs, fileVars, heap, kept, call, cpc, records>>

Seek ==
  /\ fpc = "seek"
  /\ pos' = item.FileAddr
  /\ fpc' = "write"
  /\ UNCHANGED <<FileQueue, FileSz, cs, file, heap, kept, item, call, cpc, records>>

Write ==
  /\ fpc = "write"
  /\ file' = Append(file, item.Data)
  /\ pos' = Len(file')
  /\ fpc' = "free"
  /\ UNCHANGED <<FileQueue, FileSz, cs, heap, kept, item, call, cpc, records>>

Free ==
  /\ fpc = "free"
  /\ heap' = IF item.Destroy THEN heap \ {item.Data} ELSE heap
  /\ item' = NULL
  /\ fpc' = "idle"
  /\ UNCHANGED <<FileQueue, FileSz, cs, fileVars, kept, call, cpc, records>>

FileWorker == Take \/ Seek \/ Write \/ Free

(* The server is killed and started again: what was not written is lost,   *)
(* and so are the numbers given for it.                                    *)
Crash ==
  /\ crashes < MaxCrashes
  /\ crashes' = crashes + 1
  /\ Boot(Len(file))
  /\ given' = { g \in given : g[1] < Len(file) }
  /\ UNCHANGED <<file, got, updated>>

Proceed(c) == Grow(c) \/ Push(c) \/ LoadSeek(c) \/ LoadRead(c)

Next ==
  \/ FileWorker
  \/ \E c \in Callers : Insert(c) \/ Update(c) \/ DelPointer(c) \/ Load(c) \/ Proceed(c)
  \/ Crash

Spec == Init /\ [][Next]_vars

(* FileWorker runs, and a call that has begun goes on; who waits for the   *)
(* mutex gets it some time although others keep taking it.                 *)
Fairness == SF_vars(Take) /\ WF_vars(Seek \/ Write \/ Free)
              /\ \A c \in Callers : SF_vars(Proceed(c))

FairSpec == Spec /\ Fairness

-----------------------------------------------------------------------------
(* Every variable has its type.                                            *)
TypeOK ==
  /\ FileQueue \in Seq(Items) /\ FileSz \in Nat /\ cs \in Callers \cup {NULL}
  /\ file \in Seq(Objects) /\ pos \in Nat
  /\ heap \subseteq Objects /\ kept \subseteq heap
  /\ item \in Items \cup {NULL} /\ fpc \in {"idle", "seek", "write", "free"}
  /\ call \in [Callers -> Items \cup [lo : Nat, hi : Nat] \cup {NULL}]
  /\ cpc \in [Callers -> {"idle", "grow", "give", "push", "seek", "read"}]
  /\ given \subseteq Nat \X Objects /\ got \subseteq Nat \X Objects
  /\ updated \in BOOLEAN /\ crashes \in Nat

(* With one thread inserting and nobody updating, the number Insert returns*)
(* is where the object ends up, although it was computed from a size that  *)
(* runs ahead of the file -- and a restart, which loses the queue, gives   *)
(* the numbers of the lost records out again.                              *)
Numbered == updated \/ \A g \in given : g[1] < Len(file) => file[g[1] + 1] = g[2]

(* As long as nobody updates, Load may fail (FileWorker moved the shared   *)
(* position) but never returns a record that is not the one asked for.     *)
LoadNeverWrong == updated \/ \A r \in got : r[1] < Len(file) /\ file[r[1] + 1] = r[2]

(* FileWorker never writes or deletes an object that is already deleted:   *)
(* DelPointer comes after the writes of the object, and a pointer is       *)
(* handed over once.                                                       *)
NoDangling ==
  /\ \A i \in DOMAIN FileQueue : FileQueue[i].Data \in heap
  /\ item # NULL => item.Data \in heap

(* Every object that is stored is written, unless the server is killed.    *)
Stored ==
  \A d \in Objects :
    (\E g \in given : g[2] = d) ~>
      \/ \E i \in DOMAIN file : file[i] = d
      \/ \A g \in given : g[2] # d
===============================================================================
