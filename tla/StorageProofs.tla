----------------------------- MODULE StorageProofs -----------------------------
(***************************************************************************)
(* Machine-checked proofs about the record storage and the tables on it,   *)
(* for any callers, objects, sizes of a container and number of restarts:  *)
(* nothing that is queued dangles; with one thread that inserts, and none  *)
(* that updates, the numbers of the records are right and no read returns  *)
(* another record; a table uses its storage as a storage may be used, and  *)
(* the list of its rows stays a list while rows are added to it.           *)
(***************************************************************************)
EXTENDS TableCache, TLAPS

Writing(c) == cpc[c] \in {"grow", "give", "push"}
Reading(c) == cpc[c] \in {"seek", "read"}

(* What the places in the code say of the variables used there; Load holds *)
(* the mutex throughout.                                                   *)
Places ==
  /\ \A c \in Callers : Writing(c) => call[c] \in Items
  /\ \A c \in Callers : cpc[c] \in {"grow", "give"} => c \in Inserters /\ call[c].InDB
  /\ \A c \in Callers : Reading(c) => call[c] \in [lo : Nat, hi : Nat]
  /\ \A c \in Callers : Reading(c) <=> cs = c
  /\ fpc = "idle" <=> item = NULL
  /\ fpc \in {"seek", "write"} => item.InDB

(* Every pointer in the queue, in the hands of FileWorker or on its way    *)
(* there is allocated, and the one that destroys it is the last.           *)
Pointers ==
  /\ NoDangling
  /\ \A c \in Callers : Writing(c) => call[c].Data \in heap \ kept
  /\ \A c, e \in Callers : Writing(c) /\ Writing(e) /\ c # e => call[c].Data # call[e].Data
  /\ \A i \in DOMAIN FileQueue : FileQueue[i].Destroy =>
       /\ FileQueue[i].Data \notin kept
       /\ \A j \in DOMAIN FileQueue : j > i => FileQueue[j].Data # FileQueue[i].Data
       /\ \A c \in Callers : Writing(c) => call[c].Data # FileQueue[i].Data
  /\ item # NULL /\ item.Destroy =>
       /\ item.Data \notin kept
       /\ \A j \in DOMAIN FileQueue : FileQueue[j].Data # item.Data
       /\ \A c \in Callers : Writing(c) => call[c].Data # item.Data

Safe == TypeOK /\ Places /\ Pointers

-----------------------------------------------------------------------------
(* The storage starts safe.                                                *)
LEMMA SafeInit == Init => Safe
<1> SUFFICES ASSUME Init PROVE Safe
  OBVIOUS
<1> USE StorageAssumption DEF StorageAssumption, Init
<1>1. TypeOK
  <2>1. FileQueue \in Seq(Items) /\ file \in Seq(Objects)
    OBVIOUS
  <2>2. call \in [Callers -> Items \cup [lo : Nat, hi : Nat] \cup {NULL}]
    OBVIOUS
  <2> QED
    BY <2>1, <2>2 DEF TypeOK
<1>2. Places
  BY DEF Places, Writing, Reading
<1>3. Pointers
  BY DEF Pointers, NoDangling, Writing
<1> QED
  BY <1>1, <1>2, <1>3 DEF Safe

(* Every step keeps the types.                                             *)
LEMMA Types == ASSUME Safe, [Next]_vars PROVE TypeOK'
<1> USE StorageAssumption DEF StorageAssumption, Safe, TypeOK, fileVars, workerVars, records
<1>1. CASE UNCHANGED vars
  BY <1>1 DEF vars
<1>2. ASSUME NEW c \in Callers, Insert(c) PROVE TypeOK'
  BY <1>2 DEF Insert, DBItem, Items
<1>3. ASSUME NEW c \in Callers, Update(c) PROVE TypeOK'
  BY <1>3 DEF Update, DBItem, Items
<1>4. ASSUME NEW c \in Callers, DelPointer(c) PROVE TypeOK'
  BY <1>4 DEF DelPointer, DBItem, Items
<1>5. ASSUME NEW c \in Callers, Load(c) PROVE TypeOK'
  BY <1>5 DEF Load, Span
<1>6. ASSUME NEW c \in Callers, Grow(c) PROVE TypeOK'
  BY <1>6 DEF Grow, Places, Writing, Items
<1>7. ASSUME NEW c \in Callers, Push(c) PROVE TypeOK'
  <2>1. call[c] \in Items /\ call[c].Data \in heap
    BY <1>7 DEF Push, Places, Writing, Pointers
  <2>2. call[c].FileAddr \in Nat /\ call[c].Data \in Objects
    BY <2>1 DEF Items
  <2>3. FileQueue' \in Seq(Items) /\ kept' \subseteq heap'
    BY <1>7, <2>1 DEF Push
  <2>4. given' \subseteq Nat \X Objects
    BY <1>7, <2>2 DEF Push
  <2>5. call' \in [Callers -> Items \cup [lo : Nat, hi : Nat] \cup {NULL}]
    BY <1>7 DEF Push
  <2>6. cpc' \in [Callers -> {"idle", "grow", "give", "push", "seek", "read"}]
    BY <1>7 DEF Push
  <2>7. UNCHANGED <<FileSz, cs, file, pos, heap, item, fpc, got, updated, crashes>>
    BY <1>7 DEF Push
  <2> QED
    BY <2>3, <2>4, <2>5, <2>6, <2>7
<1>8. ASSUME NEW c \in Callers, LoadSeek(c) PROVE TypeOK'
  BY <1>8 DEF LoadSeek, Places, Reading
<1>9. ASSUME NEW c \in Callers, LoadRead(c) PROVE TypeOK'
  <2>1. call[c] \in [lo : Nat, hi : Nat]
    BY <1>9 DEF LoadRead, Places, Reading
  <2>2. [call[c] EXCEPT !.lo = @ + 1] \in [lo : Nat, hi : Nat]
    BY <2>1
  <2>3. pos < Len(file) => file[pos + 1] \in Objects
    OBVIOUS
  <2>4. pos' \in Nat /\ got' \subseteq Nat \X Objects
    <3>1. call[c].lo \in Nat
      BY <2>1
    <3> QED
      BY <1>9, <2>3, <3>1 DEF LoadRead
  <2>5. call' \in [Callers -> Items \cup [lo : Nat, hi : Nat] \cup {NULL}]
    <3>1. \/ call' = [call EXCEPT ![c] = [call[c] EXCEPT !.lo = @ + 1]]
          \/ call' = [call EXCEPT ![c] = NULL]
      BY <1>9 DEF LoadRead
    <3> QED
      BY <2>2, <3>1
  <2>6. /\ cpc' \in [Callers -> {"idle", "grow", "give", "push", "seek", "read"}]
        /\ cs' \in Callers \cup {NULL}
    BY <1>9 DEF LoadRead
  <2>7. UNCHANGED <<FileQueue, FileSz, file, heap, kept, item, fpc, given, updated, crashes>>
    BY <1>9 DEF LoadRead
  <2> QED
    BY <2>4, <2>5, <2>6, <2>7
<1>10. CASE Take
  <2>1. Head(FileQueue) \in Items /\ Tail(FileQueue) \in Seq(Items)
    BY <1>10 DEF Take
  <2> QED
    BY <1>10, <2>1 DEF Take
<1>11. CASE Seek
  BY <1>11 DEF Seek, Places, Items
<1>12. CASE Write
  <2>1. item.Data \in Objects
    BY <1>12 DEF Write, Places, Items
  <2> QED
    BY <1>12, <2>1 DEF Write
<1>13. CASE Free
  <2>1. item.Destroy => item.Data \notin kept
    BY <1>13 DEF Free, Places, Pointers
  <2> QED
    BY <1>13, <2>1 DEF Free
<1>14. CASE Crash
  BY <1>14 DEF Crash, Boot
<1> QED
  BY <1>1, <1>2, <1>3, <1>4, <1>5, <1>6, <1>7, <1>8, <1>9, <1>10, <1>11, <1>12, <1>13, <1>14
  DEF Next, Proceed, FileWorker

(* Every step keeps what the places in the code say of their variables.    *)
LEMMA KeepsPlaces == ASSUME Safe, [Next]_vars PROVE Places'
<1> USE StorageAssumption DEF StorageAssumption, Safe, TypeOK, Places, Writing, Reading, fileVars,
        workerVars, records
<1>1. CASE UNCHANGED vars
  BY <1>1 DEF vars
<1>2. ASSUME NEW c \in Callers, Insert(c) PROVE Places'
  BY <1>2 DEF Insert, DBItem, Items
<1>3. ASSUME NEW c \in Callers, Update(c) PROVE Places'
  BY <1>3 DEF Update, DBItem, Items
<1>4. ASSUME NEW c \in Callers, DelPointer(c) PROVE Places'
  BY <1>4 DEF DelPointer, DBItem, Items
<1>5. ASSUME NEW c \in Callers, Load(c) PROVE Places'
  BY <1>5 DEF Load, Span
<1>6. ASSUME NEW c \in Callers, Grow(c) \/ Push(c) \/ LoadSeek(c) PROVE Places'
  BY <1>6 DEF Grow, Push, LoadSeek
<1>7. ASSUME NEW c \in Callers, LoadRead(c) PROVE Places'
  <2>1. call[c] \in [lo : Nat, hi : Nat] /\ cs = c
    BY <1>7 DEF LoadRead
  <2>2. [call[c] EXCEPT !.lo = @ + 1] \in [lo : Nat, hi : Nat]
    BY <2>1
  <2>3. CASE call[c].lo < call[c].hi
    <3>1. /\ call' = [call EXCEPT ![c] = [call[c] EXCEPT !.lo = @ + 1]]
          /\ cpc' = [cpc EXCEPT ![c] = "seek"] /\ cs' = cs
          /\ UNCHANGED <<item, fpc>>
      BY <1>7, <2>1, <2>3 DEF LoadRead
    <3> QED
      BY <1>7, <2>1, <2>2, <3>1 DEF LoadRead
  <2>4. CASE call[c].lo = call[c].hi
    BY <1>7, <2>1, <2>4 DEF LoadRead
  <2> QED
    BY <1>7, <2>3, <2>4 DEF LoadRead
<1>8. CASE Take
  <2>1. Head(FileQueue) \in Items /\ Head(FileQueue) # NULL
    BY <1>8 DEF Take
  <2> QED
    BY <1>8, <2>1 DEF Take
<1>9. CASE Seek \/ Write \/ Free
  BY <1>9 DEF Seek, Write, Free
<1>10. CASE Crash
  BY <1>10 DEF Crash, Boot
<1> QED
  BY <1>1, <1>2, <1>3, <1>4, <1>5, <1>6, <1>7, <1>8, <1>9, <1>10 DEF Next, Proceed, FileWorker

(* Every step keeps the pointers on their way to FileWorker allocated.     *)
LEMMA KeepsPointers == ASSUME Safe, [Next]_vars PROVE Pointers'
<1> USE StorageAssumption DEF StorageAssumption, Safe, Pointers, NoDangling, Writing, fileVars,
        workerVars, records
<1>0. FileQueue \in Seq(Items) /\ kept \subseteq heap
  BY DEF TypeOK
<1>1. CASE UNCHANGED vars
  BY <1>1 DEF vars
<1>2. ASSUME NEW c \in Callers, Insert(c) \/ Update(c) PROVE Pointers'
  <2>1. PICK d \in Objects \ Used, n \in Nat, destroy \in BOOLEAN :
          heap' = heap \cup {d} /\ call' = [call EXCEPT ![c] = DBItem(d, n, TRUE, destroy)]
    <3>1. FileSz \in Nat /\ \A g \in given : g[1] \in Nat
      BY DEF TypeOK
    <3>2. CASE Insert(c)
      BY <3>1, <3>2 DEF Insert
    <3>3. CASE Update(c)
      <4>1. PICK d \in Objects \ Used, destroy \in BOOLEAN, g \in given :
              heap' = heap \cup {d} /\ call' = [call EXCEPT ![c] = DBItem(d, g[1], TRUE, destroy)]
        BY <3>3, Zenon DEF Update
      <4> QED
        BY <3>1, <4>1, Zenon
    <3> QED
      BY <1>2, <3>2, <3>3
  <2>2. d \notin heap /\ UNCHANGED <<FileQueue, item, kept>>
    BY <1>2 DEF Insert, Update, Used
  <2>3. \A e \in Callers : e # c => call'[e] = call[e] /\ (Writing(e)' <=> Writing(e))
    BY <1>2, <2>1 DEF Insert, Update, TypeOK
  <2>4. call'[c].Data = d
    BY <2>1 DEF TypeOK, DBItem
  <2>5. \A e \in Callers : Writing(e)' /\ e # c => call'[e].Data # d
    BY <2>2, <2>3
  <2>6. /\ \A i \in DOMAIN FileQueue : FileQueue[i].Data # d
        /\ item # NULL => item.Data # d
    BY <2>2
  <2>7. d \notin kept /\ heap \subseteq heap' /\ d \in heap'
    BY <1>0, <2>1, <2>2
  <2> HIDE DEF Writing
  <2> QED
    BY <2>2, <2>3, <2>4, <2>5, <2>6, <2>7
<1>3. ASSUME NEW c \in Callers, DelPointer(c) PROVE Pointers'
  <2>1. PICK d \in kept : kept' = kept \ {d} /\ call' = [call EXCEPT ![c] = DBItem(d, 0, FALSE, TRUE)]
    BY <1>3 DEF DelPointer
  <2>2. UNCHANGED <<FileQueue, item, heap>>
    BY <1>3 DEF DelPointer
  <2>3. \A e \in Callers : e # c => call'[e] = call[e] /\ (Writing(e)' <=> Writing(e))
    BY <1>3, <2>1 DEF DelPointer, TypeOK
  <2>4. call'[c].Data = d
    BY <2>1 DEF TypeOK, DBItem
  <2>5. d \in heap /\ \A e \in Callers : Writing(e)' /\ e # c => call'[e].Data # d
    BY <1>0, <2>3
  <2>6. \A i \in DOMAIN FileQueue : FileQueue[i].Destroy => FileQueue[i].Data # d
    OBVIOUS
  <2>7. item # NULL /\ item.Destroy => item.Data # d
    OBVIOUS
  <2>8. kept' \subseteq kept /\ d \notin kept'
    BY <2>1
  <2> HIDE DEF Writing
  <2> QED
    BY <2>2, <2>3, <2>4, <2>5, <2>6, <2>7, <2>8
<1>4. ASSUME NEW c \in Callers, Load(c) \/ Grow(c) \/ LoadSeek(c) \/ LoadRead(c) PROVE Pointers'
  <2>1. UNCHANGED <<FileQueue, item, heap, kept>>
    BY <1>4 DEF Load, Grow, LoadSeek, LoadRead
  <2>2. \A e \in Callers : Writing(e)' => Writing(e) /\ call'[e] = call[e]
    BY <1>4 DEF Load, Grow, LoadSeek, LoadRead, TypeOK
  <2> QED
    BY <2>1, <2>2
<1>5. ASSUME NEW c \in Callers, Push(c) PROVE Pointers'
  <2>1. /\ Writing(c) /\ FileQueue' = Append(FileQueue, call[c])
        /\ kept' = IF call[c].Destroy THEN kept ELSE kept \cup {call[c].Data}
        /\ UNCHANGED <<heap, item>>
    BY <1>5 DEF Push
  <2>2. \A e \in Callers : Writing(e)' => e # c /\ Writing(e) /\ call'[e] = call[e]
    BY <1>5 DEF Push, TypeOK
  <2>3. /\ DOMAIN FileQueue' = 1 .. Len(FileQueue) + 1
        /\ \A i \in DOMAIN FileQueue : FileQueue'[i] = FileQueue[i]
        /\ FileQueue'[Len(FileQueue) + 1] = call[c]
        /\ DOMAIN FileQueue = 1 .. Len(FileQueue) /\ Len(FileQueue) \in Nat
    BY <1>0, <2>1
  <2> QED
    BY <2>1, <2>2, <2>3
<1>6. CASE Take
  <2>1. /\ UNCHANGED <<heap, kept, call, cpc>>
        /\ item' = FileQueue[1] /\ 1 \in DOMAIN FileQueue
        /\ DOMAIN FileQueue' = 1 .. Len(FileQueue) - 1
        /\ DOMAIN FileQueue = 1 .. Len(FileQueue) /\ Len(FileQueue) \in Nat
        /\ \A i \in DOMAIN FileQueue' : FileQueue'[i] = FileQueue[i + 1]
    BY <1>0, <1>6 DEF Take
  <2> QED
    BY <2>1
<1>7. CASE Seek \/ Write
  BY <1>7 DEF Seek, Write
<1>8. CASE Free
  BY <1>8 DEF Free, Places
<1>9. CASE Crash
  BY <1>9 DEF Crash, Boot
<1> QED
  BY <1>1, <1>2, <1>3, <1>4, <1>5, <1>6, <1>7, <1>8, <1>9 DEF Next, Proceed, FileWorker

(* The storage is safe always.                                             *)
LEMMA Safety == Spec => []Safe
<1>1. Safe /\ [Next]_vars => Safe'
  BY Types, KeepsPlaces, KeepsPointers DEF Safe
<1> QED
  BY <1>1, SafeInit, PTL DEF Spec

(* Every variable of the storage keeps its type.                           *)
THEOREM StorageTypes == Spec => []TypeOK
  BY Safety, PTL DEF Safe

(* FileWorker never writes from, nor deletes, an object that is deleted.   *)
THEOREM StorageNoDangling == Spec => []NoDangling
  BY Safety, PTL DEF Safe, Pointers

-----------------------------------------------------------------------------
OneInserter == \A c, d \in Inserters : c = d

Storing == fpc \in {"seek", "write"}
Giving  == \E c \in Callers : cpc[c] = "give"

(* How many records the file has once FileWorker has done what it is at,   *)
(* and how many it will have when the queue is empty.                      *)
Begun  == IF Storing THEN Len(file) + 1 ELSE Len(file)
Pushed == IF Giving THEN FileSz - 1 ELSE FileSz

(* The numbers of the inserts in flight.                                   *)
Inserts ==
  /\ \A c \in Callers : cpc[c] = "grow" => call[c].FileAddr = FileSz
  /\ \A c \in Callers : cpc[c] = "give" => call[c].FileAddr = FileSz - 1
  /\ \A c \in Callers : cpc[c] = "push" => ~call[c].InDB

(* The writes in the queue are those of the records from Begun up to       *)
(* Pushed, in that order: the number of each is where "ab+" will put it.   *)
Queue ==
  /\ Begun <= Pushed
  /\ Storing => item.FileAddr = Len(file)
  /\ \A i \in DOMAIN FileQueue : FileQueue[i].InDB =>
       Begun <= FileQueue[i].FileAddr /\ FileQueue[i].FileAddr < Pushed
  /\ \A i, j \in DOMAIN FileQueue : FileQueue[i].InDB /\ FileQueue[j].InDB /\ i < j =>
       FileQueue[i].FileAddr < FileQueue[j].FileAddr
  /\ \A n \in Begun .. Pushed - 1 :
       \E i \in DOMAIN FileQueue : FileQueue[i].InDB /\ FileQueue[i].FileAddr = n

(* A number that was returned is that of its object, wherever it is now.   *)
Given ==
  \A g \in given :
    /\ g[1] < Pushed
    /\ g[1] < Len(file) => file[g[1] + 1] = g[2]
    /\ Storing /\ g[1] = Len(file) => item.Data = g[2]
    /\ \A i \in DOMAIN FileQueue : FileQueue[i].InDB /\ FileQueue[i].FileAddr = g[1] =>
         FileQueue[i].Data = g[2]

(* FileWorker moves the position to the end of the file only, from where   *)
(* Load can read nothing.                                                  *)
Reads ==
  /\ \A r \in got : r[1] < Len(file) /\ file[r[1] + 1] = r[2]
  /\ \A c \in Callers : cpc[c] = "read" => pos = call[c].lo \/ pos >= Len(file)

Numbers == Inserts /\ Queue /\ Given /\ Reads

NumInv == Safe /\ (updated \/ Numbers)

(* The storage starts with its numbers in order.                           *)
LEMMA NumbersInit == Init => Numbers
<1> SUFFICES ASSUME Init PROVE Numbers
  OBVIOUS
<1>1. /\ FileQueue = <<>> /\ DOMAIN FileQueue = {} /\ file = <<>> /\ Len(file) = 0
      /\ FileSz = 0 /\ ~Storing /\ ~Giving
  BY DEF Init, Storing, Giving
<1>2. Begun = 0 /\ Pushed = 0
  BY <1>1 DEF Begun, Pushed
<1> QED
  BY <1>1, <1>2 DEF Init, Numbers, Inserts, Queue, Given, Reads

(* With one caller that inserts, a step keeps the numbers or is an update. *)
LEMMA NumbersNext ==
  ASSUME OneInserter, Safe, ~updated, Numbers, [Next]_vars PROVE updated' \/ Numbers'
<1> USE StorageAssumption DEF StorageAssumption, OneInserter, Safe, Numbers, fileVars, workerVars,
        records
<1>0. /\ FileQueue \in Seq(Items) /\ FileSz \in Nat /\ file \in Seq(Objects) /\ pos \in Nat
      /\ Len(file) \in Nat /\ Begun \in Nat /\ Pushed \in Int
      /\ \A i \in DOMAIN FileQueue : FileQueue[i].FileAddr \in Nat
      /\ \A g \in given : g[1] \in Nat
  <2>1. Len(file) \in Nat /\ FileSz \in Nat
    BY DEF TypeOK
  <2>2. Begun \in Nat /\ Pushed \in Int
    BY <2>1 DEF Begun, Pushed
  <2>3. \A i \in DOMAIN FileQueue : FileQueue[i] \in Items
    BY DEF TypeOK
  <2>4. /\ \A i \in DOMAIN FileQueue : FileQueue[i].FileAddr \in Nat
        /\ \A g \in given : g[1] \in Nat
    BY <2>3 DEF TypeOK, Items
  <2> QED
    BY <2>1, <2>2, <2>4 DEF TypeOK
<1>1. CASE UNCHANGED vars
  BY <1>1 DEF vars, Inserts, Queue, Given, Reads, Begun, Pushed, Storing, Giving
<1>2. ASSUME NEW c \in Callers, Insert(c) PROVE Numbers'
  <2>1. UNCHANGED <<FileQueue, FileSz, file, pos, item, fpc, given, got>>
    BY <1>2 DEF Insert
  <2>2. /\ Giving' <=> Giving
        /\ \A e \in Callers : cpc'[e] # cpc[e] \/ call'[e] # call[e] => e = c /\ cpc'[e] = "grow"
    BY <1>2 DEF Insert, Giving, TypeOK
  <2>3. Begun' = Begun /\ Pushed' = Pushed /\ Storing' = Storing
    BY <2>1, <2>2 DEF Begun, Pushed, Storing
  <2>4. call'[c].FileAddr = FileSz
    BY <1>2 DEF Insert, DBItem, TypeOK
  <2> QED
    BY <2>1, <2>2, <2>3, <2>4 DEF Inserts, Queue, Given, Reads
<1>3. ASSUME NEW c \in Callers, Update(c) PROVE updated'
  BY <1>3 DEF Update
<1>4. ASSUME NEW c \in Callers, DelPointer(c) PROVE Numbers'
  <2>1. UNCHANGED <<FileQueue, FileSz, file, pos, item, fpc, given, got>>
    BY <1>4 DEF DelPointer
  <2>2. /\ Giving' <=> Giving
        /\ \A e \in Callers : cpc'[e] # cpc[e] \/ call'[e] # call[e] => e = c /\ cpc'[e] = "push"
    BY <1>4 DEF DelPointer, Giving, TypeOK
  <2>3. Begun' = Begun /\ Pushed' = Pushed /\ Storing' = Storing
    BY <2>1, <2>2 DEF Begun, Pushed, Storing
  <2>4. ~call'[c].InDB
    BY <1>4 DEF DelPointer, DBItem, TypeOK
  <2> QED
    BY <2>1, <2>2, <2>3, <2>4 DEF Inserts, Queue, Given, Reads
<1>5. ASSUME NEW c \in Callers, Grow(c) PROVE Numbers'
  <2>1. UNCHANGED <<FileQueue, file, pos, item, fpc, given, got, call>>
    BY <1>5 DEF Grow
  <2>2. /\ FileSz' = FileSz + 1 /\ call[c].FileAddr = FileSz
    BY <1>5 DEF Grow, Inserts
  <2>3. /\ c \in Inserters /\ cpc[c] = "grow" /\ cpc'[c] = "give"
        /\ \A e \in Callers : e # c => cpc'[e] = cpc[e] /\ cpc[e] \notin {"grow", "give"}
    BY <1>5 DEF Grow, TypeOK, Places
  <2>4. ~Giving /\ Giving'
    BY <2>3 DEF Giving
  <2>5. Begun' = Begun /\ Pushed' = Pushed /\ Storing' = Storing
    BY <1>0, <2>1, <2>2, <2>4 DEF Begun, Pushed, Storing
  <2> QED
    BY <1>0, <2>1, <2>2, <2>3, <2>5 DEF Inserts, Queue, Given, Reads
<1>6. ASSUME NEW c \in Callers, Push(c) PROVE Numbers'
  <2>1. /\ UNCHANGED <<FileSz, file, pos, item, fpc, got>>
        /\ cpc'[c] = "idle" /\ \A e \in Callers : e # c => cpc'[e] = cpc[e] /\ call'[e] = call[e]
    BY <1>6 DEF Push, TypeOK
  <2>2. /\ DOMAIN FileQueue' = 1 .. Len(FileQueue) + 1
        /\ \A i \in DOMAIN FileQueue : FileQueue'[i] = FileQueue[i]
        /\ FileQueue'[Len(FileQueue) + 1] = call[c]
        /\ DOMAIN FileQueue = 1 .. Len(FileQueue) /\ Len(FileQueue) \in Nat
    BY <1>0, <1>6 DEF Push
  <2>3. Begun' = Begun /\ Storing' = Storing
    BY <2>1 DEF Begun, Storing
  <2>4. Inserts' /\ Reads'
    BY <2>1 DEF Inserts, Reads
  <2>5. CASE cpc[c] = "give"
    <3>1. \A e \in Callers : e # c => cpc[e] # "give"
      BY <2>5 DEF Places
    <3>2. Giving /\ ~Giving'
      BY <2>1, <2>5, <3>1 DEF Giving
    <3>3. Pushed' = Pushed + 1 /\ call[c].FileAddr = Pushed /\ call[c].InDB
      BY <1>0, <2>1, <2>5, <3>2 DEF Pushed, Inserts, Places
    <3>4. given' = given \cup {<<Pushed, call[c].Data>>}
      BY <1>6, <2>5, <3>3 DEF Push
    <3>5. Queue'
      <4>1. \A n \in Begun .. Pushed :
              \E i \in DOMAIN FileQueue' : FileQueue'[i].InDB /\ FileQueue'[i].FileAddr = n
        <5>1. ASSUME NEW n \in Begun .. Pushed - 1
              PROVE  \E i \in DOMAIN FileQueue' : FileQueue'[i].InDB /\ FileQueue'[i].FileAddr = n
          BY <2>2 DEF Queue
        <5> QED
          BY <1>0, <2>2, <3>3, <5>1
      <4>2. \A i \in DOMAIN FileQueue' : FileQueue'[i].InDB =>
              Begun <= FileQueue'[i].FileAddr /\ FileQueue'[i].FileAddr < Pushed + 1
        BY <1>0, <2>2, <3>3 DEF Queue
      <4>3. \A i, j \in DOMAIN FileQueue' : FileQueue'[i].InDB /\ FileQueue'[j].InDB /\ i < j =>
              FileQueue'[i].FileAddr < FileQueue'[j].FileAddr
        <5>1. ASSUME NEW i \in DOMAIN FileQueue', NEW j \in DOMAIN FileQueue',
                     FileQueue'[i].InDB, FileQueue'[j].InDB, i < j
              PROVE  FileQueue'[i].FileAddr < FileQueue'[j].FileAddr
          <6>1. i \in DOMAIN FileQueue
            BY <2>2, <5>1
          <6>2. CASE j \in DOMAIN FileQueue
            BY <2>2, <5>1, <6>1, <6>2 DEF Queue
          <6>3. CASE j = Len(FileQueue) + 1
            BY <2>2, <3>3, <5>1, <6>1, <6>3 DEF Queue
          <6> QED
            BY <2>2, <6>2, <6>3
        <5> QED
          BY <5>1
      <4> QED
        BY <1>0, <2>1, <2>3, <3>3, <4>1, <4>2, <4>3 DEF Queue
    <3>6. Given'
      <4>1. Len(file) <= Pushed /\ (Storing => Len(file) < Pushed)
        BY <1>0 DEF Queue, Begun
      <4>2. ASSUME NEW g \in given' PROVE
              /\ g[1] < Pushed + 1
              /\ g[1] < Len(file) => file[g[1] + 1] = g[2]
              /\ Storing /\ g[1] = Len(file) => item.Data = g[2]
        BY <1>0, <3>4, <4>1 DEF Given
      <4>3. ASSUME NEW g \in given', NEW i \in DOMAIN FileQueue', FileQueue'[i].InDB,
                   FileQueue'[i].FileAddr = g[1]
            PROVE  FileQueue'[i].Data = g[2]
        <5>1. CASE i \in DOMAIN FileQueue /\ g \in given
          BY <2>2, <4>3, <5>1 DEF Given
        <5>2. CASE i \in DOMAIN FileQueue /\ g = <<Pushed, call[c].Data>>
          BY <1>0, <2>2, <4>3, <5>2 DEF Queue
        <5>3. CASE i = Len(FileQueue) + 1 /\ g \in given
          BY <1>0, <2>2, <3>3, <4>3, <5>3 DEF Given
        <5>4. CASE i = Len(FileQueue) + 1 /\ g = <<Pushed, call[c].Data>>
          BY <2>2, <5>4
        <5> QED
          BY <2>2, <3>4, <5>1, <5>2, <5>3, <5>4
      <4> QED
        BY <2>1, <2>3, <3>3, <4>2, <4>3 DEF Given
    <3> QED
      BY <2>4, <3>5, <3>6
  <2>6. CASE cpc[c] = "push"
    <3>1. ~call[c].InDB /\ given' = given
      BY <1>6, <2>6 DEF Push, Inserts
    <3>2. Giving' <=> Giving
      BY <2>1, <2>6 DEF Giving
    <3>3. Pushed' = Pushed
      BY <2>1, <3>2 DEF Pushed
    <3>4. \A i \in DOMAIN FileQueue' : FileQueue'[i].InDB =>
            i \in DOMAIN FileQueue /\ FileQueue'[i] = FileQueue[i]
      BY <2>2, <3>1
    <3>5. \A i \in DOMAIN FileQueue : i \in DOMAIN FileQueue' /\ FileQueue'[i] = FileQueue[i]
      BY <2>2
    <3>6. Queue'
      BY <1>0, <2>1, <2>3, <3>3, <3>4, <3>5 DEF Queue
    <3>7. Given'
      BY <1>0, <2>1, <2>3, <3>1, <3>3, <3>4 DEF Given
    <3> QED
      BY <2>4, <3>6, <3>7
  <2> QED
    BY <1>6, <2>5, <2>6 DEF Push
<1>7. ASSUME NEW c \in Callers, Load(c) PROVE Numbers'
  <2>1. /\ UNCHANGED <<FileQueue, FileSz, file, pos, item, fpc, given, got>>
        /\ cpc'[c] = "seek" /\ cpc[c] = "idle"
        /\ \A e \in Callers : e # c => cpc'[e] = cpc[e] /\ call'[e] = call[e]
    BY <1>7 DEF Load, TypeOK
  <2>2. Giving' <=> Giving
    BY <2>1 DEF Giving
  <2>3. Begun' = Begun /\ Pushed' = Pushed /\ Storing' = Storing
    BY <2>1, <2>2 DEF Begun, Pushed, Storing
  <2> QED
    BY <2>1, <2>3 DEF Inserts, Queue, Given, Reads
<1>8. ASSUME NEW c \in Callers, LoadSeek(c) PROVE Numbers'
  <2>1. /\ UNCHANGED <<FileQueue, FileSz, file, item, fpc, given, got, call>>
        /\ cpc'[c] = "read" /\ cpc[c] = "seek" /\ pos' = call[c].lo
        /\ \A e \in Callers : e # c => cpc'[e] = cpc[e] /\ cpc[e] # "read"
    BY <1>8 DEF LoadSeek, TypeOK, Places, Reading
  <2>2. Giving' <=> Giving
    BY <2>1 DEF Giving
  <2>3. Begun' = Begun /\ Pushed' = Pushed /\ Storing' = Storing
    BY <2>1, <2>2 DEF Begun, Pushed, Storing
  <2> QED
    BY <2>1, <2>3 DEF Inserts, Queue, Given, Reads
<1>9. ASSUME NEW c \in Callers, LoadRead(c) PROVE Numbers'
  <2>1. /\ UNCHANGED <<FileQueue, FileSz, file, item, fpc, given>>
        /\ cpc'[c] \in {"seek", "idle"} /\ cpc[c] = "read"
        /\ \A e \in Callers : e # c => cpc'[e] = cpc[e] /\ cpc[e] # "read" /\ call'[e] = call[e]
    BY <1>9 DEF LoadRead, TypeOK, Places, Reading
  <2>2. Giving' <=> Giving
    BY <2>1 DEF Giving
  <2>3. Begun' = Begun /\ Pushed' = Pushed /\ Storing' = Storing
    BY <2>1, <2>2 DEF Begun, Pushed, Storing
  <2>4. got' = got \/ (pos < Len(file) /\ got' = got \cup {<<call[c].lo, file[pos + 1]>>})
    BY <1>9 DEF LoadRead
  <2>5. pos < Len(file) => pos = call[c].lo
    BY <1>0, <2>1 DEF Reads
  <2>6. Reads'
    BY <2>1, <2>4, <2>5 DEF Reads
  <2> QED
    BY <2>1, <2>3, <2>6 DEF Inserts, Queue, Given
<1>10. CASE Take
  <2>1. /\ UNCHANGED <<FileSz, file, pos, call, cpc, given, got>>
        /\ item' = FileQueue[1] /\ 1 \in DOMAIN FileQueue
        /\ DOMAIN FileQueue' = 1 .. Len(FileQueue) - 1
        /\ DOMAIN FileQueue = 1 .. Len(FileQueue) /\ Len(FileQueue) \in Nat
        /\ \A i \in DOMAIN FileQueue' : FileQueue'[i] = FileQueue[i + 1]
        /\ ~Storing
    BY <1>0, <1>10 DEF Take, Storing
  <2>2. Pushed' = Pushed /\ Begun = Len(file)
    BY <1>0, <2>1 DEF Pushed, Giving, Begun
  <2>3. Inserts' /\ Reads'
    BY <2>1 DEF Inserts, Reads
  <2>4. CASE FileQueue[1].InDB
    <3>1. Storing' /\ Begun' = Begun + 1
      BY <1>0, <1>10, <2>1, <2>4 DEF Take, Storing, Begun
    <3>2. FileQueue[1].FileAddr = Begun
      <4>1. Begun \in Begun .. Pushed - 1
        BY <1>0, <2>1, <2>4 DEF Queue
      <4>2. PICK i \in DOMAIN FileQueue : FileQueue[i].InDB /\ FileQueue[i].FileAddr = Begun
        BY <4>1 DEF Queue
      <4> QED
        BY <1>0, <2>1, <2>4, <4>2 DEF Queue
    <3>3. ASSUME NEW n \in Begun + 1 .. Pushed - 1
          PROVE  \E i \in DOMAIN FileQueue' : FileQueue'[i].InDB /\ FileQueue'[i].FileAddr = n
      <4>1. PICK i \in DOMAIN FileQueue : FileQueue[i].InDB /\ FileQueue[i].FileAddr = n
        BY <1>0 DEF Queue
      <4>2. i # 1 /\ i - 1 \in DOMAIN FileQueue'
        BY <1>0, <2>1, <3>2, <4>1
      <4> QED
        BY <1>0, <2>1, <4>1, <4>2
    <3>4. Begun' <= Pushed' /\ item'.FileAddr = Len(file)
      BY <1>0, <2>1, <2>2, <2>4, <3>1, <3>2 DEF Queue
    <3>5. \A i \in DOMAIN FileQueue' :
            /\ i + 1 \in DOMAIN FileQueue /\ i + 1 > 1
            /\ FileQueue'[i] = FileQueue[i + 1]
      BY <2>1
    <3>6. Queue'
      <4>1. \A i \in DOMAIN FileQueue' : FileQueue'[i].InDB =>
              Begun + 1 <= FileQueue'[i].FileAddr /\ FileQueue'[i].FileAddr < Pushed
        <5>1. ASSUME NEW i \in DOMAIN FileQueue', FileQueue'[i].InDB
              PROVE  Begun < FileQueue'[i].FileAddr /\ FileQueue'[i].FileAddr < Pushed
          BY <2>1, <2>4, <3>2, <3>5, <5>1 DEF Queue
        <5> QED
          BY <1>0, <3>5, <5>1
      <4>2. \A i, j \in DOMAIN FileQueue' : FileQueue'[i].InDB /\ FileQueue'[j].InDB /\ i < j =>
              FileQueue'[i].FileAddr < FileQueue'[j].FileAddr
        BY <2>1, <3>5 DEF Queue
      <4> QED
        BY <2>1, <2>2, <3>1, <3>3, <3>4, <4>1, <4>2 DEF Queue
    <3>7. Given'
      BY <1>0, <2>1, <2>2, <2>4, <3>2, <3>5 DEF Given
    <3> QED
      BY <2>3, <3>6, <3>7
  <2>5. CASE ~FileQueue[1].InDB
    <3>1. ~Storing' /\ Begun' = Begun
      BY <1>10, <2>1, <2>5 DEF Take, Storing, Begun
    <3>2. ASSUME NEW n \in Begun .. Pushed - 1
          PROVE  \E i \in DOMAIN FileQueue' : FileQueue'[i].InDB /\ FileQueue'[i].FileAddr = n
      <4>1. PICK i \in DOMAIN FileQueue : FileQueue[i].InDB /\ FileQueue[i].FileAddr = n
        BY <1>0 DEF Queue
      <4>2. i # 1 /\ i - 1 \in DOMAIN FileQueue'
        BY <2>1, <2>5, <4>1
      <4> QED
        BY <2>1, <4>1, <4>2
    <3>3. \A i \in DOMAIN FileQueue' :
            i + 1 \in DOMAIN FileQueue /\ FileQueue'[i] = FileQueue[i + 1]
      BY <2>1
    <3>4. Queue'
      <4>1. \A i \in DOMAIN FileQueue' : FileQueue'[i].InDB =>
              Begun <= FileQueue'[i].FileAddr /\ FileQueue'[i].FileAddr < Pushed
        BY <3>3 DEF Queue
      <4>2. \A i, j \in DOMAIN FileQueue' : FileQueue'[i].InDB /\ FileQueue'[j].InDB /\ i < j =>
              FileQueue'[i].FileAddr < FileQueue'[j].FileAddr
        BY <2>1, <3>3 DEF Queue
      <4>3. Begun <= Pushed
        BY DEF Queue
      <4> QED
        BY <2>1, <2>2, <3>1, <3>2, <4>1, <4>2, <4>3 DEF Queue
    <3>5. Given'
      BY <1>0, <2>1, <2>2, <3>1, <3>3 DEF Given
    <3> QED
      BY <2>3, <3>4, <3>5
  <2> QED
    BY <2>4, <2>5
<1>11. CASE Seek
  <2>1. /\ UNCHANGED <<FileQueue, FileSz, file, item, call, cpc, given, got>>
        /\ Storing /\ Storing' /\ pos' = Len(file)
    BY <1>11 DEF Seek, Storing, Queue
  <2>2. Begun' = Begun /\ Pushed' = Pushed
    BY <2>1 DEF Begun, Pushed, Giving
  <2> QED
    BY <1>0, <2>1, <2>2 DEF Inserts, Queue, Given, Reads
<1>12. CASE Write
  <2>1. /\ UNCHANGED <<FileQueue, FileSz, item, call, cpc, given, got>>
        /\ Storing /\ ~Storing' /\ file' = Append(file, item.Data) /\ pos' = Len(file')
    BY <1>12 DEF Write, Storing
  <2>2. /\ Len(file') = Len(file) + 1 /\ file'[Len(file) + 1] = item.Data
        /\ \A i \in 1 .. Len(file) : file'[i] = file[i]
    BY <1>0, <2>1
  <2>3. Begun' = Begun /\ Pushed' = Pushed
    BY <1>0, <2>1, <2>2 DEF Begun, Pushed, Giving
  <2>4. Given'
    BY <1>0, <2>1, <2>2, <2>3 DEF Given
  <2>5. Reads'
    <3>1. \A r \in got : r[1] \in Nat
      BY DEF TypeOK
    <3> QED
      BY <1>0, <2>1, <2>2, <3>1 DEF Reads
  <2> QED
    BY <2>1, <2>3, <2>4, <2>5 DEF Inserts, Queue
<1>13. CASE Free
  <2>1. /\ UNCHANGED <<FileQueue, FileSz, file, pos, call, cpc, given, got>>
        /\ ~Storing /\ ~Storing'
    BY <1>13 DEF Free, Storing
  <2>2. Begun' = Begun /\ Pushed' = Pushed
    BY <2>1 DEF Begun, Pushed, Giving
  <2> QED
    BY <2>1, <2>2 DEF Inserts, Queue, Given, Reads
<1>14. CASE Crash
  <2>1. /\ DOMAIN FileQueue' = {} /\ FileSz' = Len(file) /\ UNCHANGED <<file, got>>
        /\ ~Storing' /\ ~Giving' /\ \A c \in Callers : cpc'[c] = "idle"
        /\ given' = { g \in given : g[1] < Len(file) }
    BY <1>14 DEF Crash, Boot, Storing, Giving
  <2>2. Begun' = Len(file) /\ Pushed' = Len(file)
    BY <1>0, <2>1 DEF Begun, Pushed
  <2> QED
    BY <1>0, <2>1, <2>2 DEF Inserts, Queue, Given, Reads
<1> QED
  BY <1>1, <1>2, <1>3, <1>4, <1>5, <1>6, <1>7, <1>8, <1>9, <1>10, <1>11, <1>12, <1>13, <1>14
  DEF Next, Proceed, FileWorker

(* An update stays on record.                                              *)
LEMMA UpdatedStays == updated /\ [Next]_vars => updated'
  BY DEF Next, Proceed, FileWorker, Insert, Update, DelPointer, Load, Grow, Push, LoadSeek, LoadRead,
         Take, Seek, Write, Free, Crash, vars, records

(* With one caller that inserts, the numbers stay in order until an update. *)
LEMMA Numbering == ASSUME OneInserter PROVE Spec => []NumInv
<1>1. Init => NumInv
  BY SafeInit, NumbersInit DEF NumInv
<1>2. NumInv /\ [Next]_vars => NumInv'
  BY Types, KeepsPlaces, KeepsPointers, NumbersNext, UpdatedStays DEF NumInv, Safe
<1> QED
  BY <1>1, <1>2, PTL DEF Spec

(* With one thread that inserts and none that updates, the number Insert   *)
(* returned is where the object is in the file, once it is there.          *)
THEOREM StorageNumbered == ASSUME OneInserter PROVE Spec => []Numbered
<1>1. NumInv => Numbered
  BY DEF NumInv, Numbers, Given, Numbered
<1> QED
  BY <1>1, Numbering, PTL

(* Then Load may fail, but never returns another record.                   *)
THEOREM StorageLoadNeverWrong == ASSUME OneInserter PROVE Spec => []LoadNeverWrong
<1>1. NumInv => LoadNeverWrong
  BY DEF NumInv, Numbers, Reads, LoadNeverWrong
<1> QED
  BY <1>1, Numbering, PTL

-----------------------------------------------------------------------------
(* The tables.                                                             *)

(* A table does with the storage what Next of the storage allows.          *)
LEMMA StorageStep == [TableNext]_allVars => [Next]_vars
  BY DEF TableNext, GetByID, Scan, LoadRow, ReadRow, AddRow, Store, GoOn, Killed, Next, Proceed,
         allVars

(* Whatever is proved of the storage holds in a table.                     *)
THEOREM TableUsesStorage == TableSpec => Spec
<1>1. TableInit => Init
  BY DEF TableInit
<1> QED
  BY <1>1, StorageStep, PTL DEF TableSpec, Spec

-----------------------------------------------------------------------------
(* Division, of which the prover needs these facts.                        *)
LEMMA DivMod ==
  ASSUME NEW k \in Nat \ {0}, NEW a \in Nat
  PROVE  a \div k \in Nat /\ a % k \in 0 .. k - 1 /\ a = k * (a \div k) + (a % k)
<1>1. a \div k \in Int /\ a % k \in 0 .. k - 1
  OBVIOUS
<1>2. a = k * (a \div k) + (a % k)
  OBVIOUS
<1>3. a \div k >= 0
  <2> SUFFICES ASSUME a \div k < 0 PROVE FALSE
    BY <1>1
  <2>1. k * (a \div k) <= -k
    BY <1>1
  <2> QED
    BY <1>1, <1>2, <2>1
<1> QED
  BY <1>1, <1>2, <1>3

(* Inside a container the number of the container stays.                   *)
LEMMA DivNext ==
  ASSUME NEW k \in Nat \ {0}, NEW s \in Nat \ {0}, NEW m \in Nat \ {0},
         (s - 1) \div k = m - 1, s # m * k
  PROVE  s \div k = m - 1
  OBVIOUS

(* The first index behind m full containers is in container m.             *)
LEMMA DivFull == ASSUME NEW k \in Nat \ {0}, NEW m \in Nat PROVE (m * k) \div k = m
  OBVIOUS

-----------------------------------------------------------------------------
Slots   == [0 .. cont_sz - 1 -> Rows \cup {EMPTY}]
Wanting == [id : Nat, do : {"scan", "load", "read", "add", "put", "size", "data", "done"},
            item : Nat, SZ : Int, listed : BOOLEAN, Data : Objects \cup {NULL}]

(* A caller in GetByID is in the storage only to read the one record.      *)
Callings ==
  /\ want \in [Callers -> Wanting \cup {NULL}]
  /\ \A c \in Callers : want[c] # NULL /\ cpc[c] # "idle" =>
       want[c].do = "read" /\ Reading(c) /\ call[c].lo = call[c].hi

ChainTypes ==
  /\ containers \in Seq(Slots) /\ added \in Seq(Rows)
  /\ chainSize \in Nat /\ linked \in Nat /\ linked <= Len(containers) /\ chainCs \in BOOLEAN

(* Slot number index is slot index % cont_sz of container index \div       *)
(* cont_sz, counted from 0.                                                *)
Last(index) == Len(containers) > 0 /\ index \div cont_sz = Len(containers) - 1

Adding(c) == want[c] # NULL /\ want[c].do \in {"put", "size", "data", "done"}

(* Who adds holds the mutex, and is the only one; the slot it writes is    *)
(* the one behind the last, in the last container.                         *)
Adders ==
  /\ \A c \in Callers : Adding(c) => chainCs
  /\ \A c, d \in Callers : Adding(c) /\ Adding(d) => c = d
  /\ \A c \in Callers : Adding(c) =>
       /\ Last(Len(added))
       /\ want[c].do \in {"put", "size"} => chainSize = Len(added)
       /\ want[c].do \in {"data", "done"} => chainSize = Len(added) + 1
       /\ want[c].do \in {"size", "done"} => At(Len(added)) = Row(want[c].id, want[c].Data)
  /\ ~chainCs => linked = Len(containers)
  /\ ~chainCs => IF added = <<>> THEN containers = <<>> ELSE Last(Len(added) - 1)

TableInv == Safe /\ Callings /\ ChainTypes /\ Adders /\ ChainIsList

-----------------------------------------------------------------------------
(* The table starts in its invariant.                                      *)
LEMMA TableInvInit == TableInit => TableInv
<1> SUFFICES ASSUME TableInit PROVE TableInv
  OBVIOUS
<1>1. Safe
  BY SafeInit DEF TableInit
<1>2. Callings
  <2>1. want = [c \in Callers |-> NULL]
    BY DEF TableInit
  <2> QED
    BY <2>1 DEF Callings
<1>3. ChainTypes /\ ChainIsList
  <2>1. /\ containers = <<>> /\ linked = 0 /\ chainSize = 0 /\ chainCs = FALSE /\ added = <<>>
    BY DEF TableInit, ChainInit
  <2>2. <<>> \in Seq(Slots) /\ <<>> \in Seq(Rows) /\ Len(<<>>) = 0 /\ DOMAIN <<>> = {}
    OBVIOUS
  <2>3. ChainTypes
    <3>1. containers \in Seq(Slots) /\ added \in Seq(Rows) /\ linked <= Len(containers)
      BY <2>1, <2>2
    <3>2. chainSize \in Nat /\ linked \in Nat
      BY <2>1
    <3>3. chainCs \in BOOLEAN
      BY <2>1
    <3> QED
      BY <3>1, <3>2, <3>3 DEF ChainTypes
  <2>4. ChainIsList
    BY <2>1, <2>2 DEF ChainIsList
  <2> QED
    BY <2>3, <2>4
<1>4. Adders
  BY DEF TableInit, ChainInit, Adders, Adding
<1> QED
  BY <1>1, <1>2, <1>3, <1>4 DEF TableInv

(* Every step keeps what each caller is about to do.                       *)
LEMMA CallingsKept == ASSUME TableInv, [TableNext]_allVars PROVE Callings'
<1> USE DEF TableInv, Callings, Reading
<1>0. /\ cpc \in [Callers -> {"idle", "grow", "give", "push", "seek", "read"}]
      /\ DOMAIN call = Callers /\ FileSz \in Nat /\ chainSize \in Nat /\ pos \in Nat
      /\ file \in Seq(Objects)
  BY DEF Safe, TypeOK, ChainTypes
<1>1. CASE UNCHANGED allVars
  BY <1>1 DEF allVars, tableVars, vars
<1>2. ASSUME NEW c \in Callers, GetByID(c) PROVE Callings'
  <2>1. ASSUME NEW id \in Nat PROVE Calls(id, Listed(id)) \in Wanting
    BY <1>0 DEF Calls, Listed, Wanting
  <2>2. PICK id \in 0 .. FileSz : want' = [want EXCEPT ![c] = Calls(id, Listed(id))]
    BY <1>2 DEF GetByID
  <2>3. id \in Nat /\ UNCHANGED <<cpc, call>> /\ cpc[c] = "idle"
    BY <1>0, <1>2 DEF GetByID, vars
  <2> QED
    BY <2>1, <2>2, <2>3
<1>3. ASSUME NEW c \in Callers, Scan(c) \/ AddRow(c) PROVE Callings'
  <2>1. want[c] \in Wanting /\ want[c] # NULL /\ UNCHANGED <<cpc, call>>
    BY <1>3 DEF Scan, AddRow, vars
  <2>2. want[c].do # "read"
    BY <1>3 DEF Scan, AddRow
  <2>3. PICK w : want' = [want EXCEPT ![c] = w] /\ w \in Wanting \cup {NULL}
    <3>1. CASE Scan(c)
      <4>1. cont_sz \in Nat
        BY ChainAssumption DEF ChainAssumption
      <4>2. [want[c] EXCEPT !.do = "load"] \in Wanting /\ Further(want[c]) \in Wanting
        <5>1. [want[c] EXCEPT !.do = "load"] \in Wanting
          BY <2>1 DEF Wanting
        <5>2. want[c].item + 1 \in Nat /\ want[c].SZ - cont_sz \in Int
          BY <2>1, <4>1 DEF Wanting
        <5>3. Further(want[c]) \in Wanting
          BY <2>1, <5>2 DEF Wanting, Further
        <5> QED
          BY <5>1, <5>3
      <4>3. CASE want[c].item > linked
        <5>1. want' = [want EXCEPT ![c] = [want[c] EXCEPT !.do = "load"]]
          BY <3>1, <4>3 DEF Scan
        <5> QED
          BY <4>2, <5>1
      <4>4. CASE ~(want[c].item > linked)
        <5>1. CASE \E r \in Seen(want[c].item, want[c].SZ) : r.ID = want[c].id
          <6>1. want' = [want EXCEPT ![c] = NULL]
            BY <3>1, <4>4, <5>1 DEF Scan
          <6> QED
            BY <6>1
        <5>2. CASE ~\E r \in Seen(want[c].item, want[c].SZ) : r.ID = want[c].id
          <6>1. want' = [want EXCEPT ![c] = Further(want[c])]
            BY <3>1, <4>4, <5>2 DEF Scan
          <6> QED
            BY <4>2, <6>1
        <5> QED
          BY <5>1, <5>2
      <4> QED
        BY <4>3, <4>4
    <3>2. CASE AddRow(c)
      BY <2>1, <3>2 DEF AddRow, Wanting
    <3> QED
      BY <1>3, <3>1, <3>2
  <2> QED
    BY <1>0, <1>3, <2>1, <2>2, <2>3
<1>4. ASSUME NEW c \in Callers, LoadRow(c) PROVE Callings'
  <2>1. want' = [want EXCEPT ![c] = [want[c] EXCEPT !.do = "read"]] /\ want[c] \in Wanting
    BY <1>4 DEF LoadRow
  <2>2. /\ cpc' = [cpc EXCEPT ![c] = "seek"] /\ call'[c] = Span(want[c].id, want[c].id)
        /\ \A d \in Callers : d # c => call'[d] = call[d]
    BY <1>0, <1>4 DEF LoadRow, Load
  <2>3. [want[c] EXCEPT !.do = "read"] \in Wanting /\ [want[c] EXCEPT !.do = "read"].do = "read"
    BY <2>1 DEF Wanting
  <2>4. want' \in [Callers -> Wanting \cup {NULL}]
    BY <2>1, <2>3
  <2> QED
    BY <1>0, <2>1, <2>2, <2>3, <2>4 DEF Span
<1>5. ASSUME NEW c \in Callers, ReadRow(c) PROVE Callings'
  <2>1. /\ want[c] \in Wanting /\ want[c] # NULL /\ cpc[c] = "read" /\ call[c].lo = call[c].hi
    BY <1>5 DEF ReadRow, LoadRead
  <2>2. call[c].lo \in Nat
    BY <2>1 DEF Safe, Places
  <2>3. cpc' = [cpc EXCEPT ![c] = "idle"] /\ call' = [call EXCEPT ![c] = NULL]
    BY <1>5, <2>1, <2>2 DEF ReadRow, LoadRead
  <2>4. pos < Len(file) => file[pos + 1] \in Objects
    BY <1>0
  <2>5. pos < Len(file) => [want[c] EXCEPT !.do = "add", !.Data = file[pos + 1]] \in Wanting
    BY <2>1, <2>4 DEF Wanting
  <2>6. want' \in [Callers -> Wanting \cup {NULL}] /\ \A d \in Callers : d # c => want'[d] = want[d]
    BY <1>5, <2>5 DEF ReadRow
  <2> QED
    BY <1>0, <2>3, <2>6
<1>6. ASSUME NEW c \in Callers, Store(c) PROVE Callings'
  <2>1. want[c] = NULL /\ want' = want
        /\ \A d \in Callers : d # c => cpc'[d] = cpc[d] /\ call'[d] = call[d]
    BY <1>0, <1>6 DEF Store, tableVars, Insert, Update
  <2> QED
    BY <2>1
<1>7. ASSUME NEW c \in Callers, Grow(c) \/ Push(c) \/ LoadSeek(c), UNCHANGED tableVars
      PROVE  Callings'
  <2>1. /\ want' = want
        /\ \A d \in Callers : d # c => cpc'[d] = cpc[d] /\ call'[d] = call[d]
        /\ cpc[c] \in {"grow", "give", "push"} \/ (cpc'[c] = "read" /\ call'[c] = call[c])
        /\ cpc[c] # "idle"
    BY <1>0, <1>7 DEF Grow, Push, LoadSeek, tableVars
  <2> QED
    BY <1>0, <2>1
<1>8. CASE FileWorker /\ UNCHANGED tableVars
  BY <1>8 DEF FileWorker, Take, Seek, Write, Free, tableVars
<1>9. CASE Killed
  BY <1>9 DEF Killed, Crash, Boot
<1> QED
  BY <1>1, <1>2, <1>3, <1>4, <1>5, <1>6, <1>7, <1>8, <1>9 DEF TableNext, GoOn

-----------------------------------------------------------------------------
(* What the steps below have to keep, beside Callings.                     *)
Chained == ChainTypes /\ Adders /\ ChainIsList

(* The counts of the table are numbers.                                    *)
LEMMA Sizes ==
  ASSUME TableInv
  PROVE  /\ cont_sz \in Nat \ {0} /\ chainSize \in Nat /\ linked \in Nat
         /\ Len(added) \in Nat /\ DOMAIN added = 1 .. Len(added)
         /\ Len(containers) \in Nat /\ DOMAIN containers = 1 .. Len(containers)
         /\ linked <= Len(containers)
         /\ want \in [Callers -> Wanting \cup {NULL}]
  BY ChainAssumption DEF ChainAssumption, TableInv, Callings, ChainTypes

(* A step that leaves the chain and those that add alone.                  *)
LEMMA Quiet ==
  ASSUME TableInv, UNCHANGED chainVars,
         \A c \in Callers : (want'[c] # NULL /\ want'[c].do \in {"put", "size", "data", "done"}) =>
           Adding(c) /\ want'[c] = want[c]
  PROVE  Chained'
<1>1. ChainTypes' /\ ChainIsList'
  BY DEF TableInv, ChainTypes, ChainIsList, At, chainVars
<1>2. \A c \in Callers : Adding(c)' => Adding(c) /\ want'[c] = want[c]
  BY DEF Adding
<1>3. UNCHANGED <<containers, linked, chainSize, chainCs, added>>
  BY DEF chainVars
<1>4. Adders'
  BY <1>2, <1>3 DEF TableInv, Adders, Last, At
<1> QED
  BY <1>1, <1>4 DEF Chained

(* Adding is the caller c's alone after a step of c.                       *)
LEMMA Alone ==
  ASSUME TableInv, NEW c \in Callers, NEW do, Adding(c) \/ ~chainCs,
         want' = [want EXCEPT ![c] = [want[c] EXCEPT !.do = do]], want[c] # NULL
  PROVE  /\ \A d \in Callers : Adding(d)' => d = c
         /\ want'[c].do = do /\ want'[c].id = want[c].id /\ want'[c].Data = want[c].Data
<1>1. want[c] \in Wanting
  BY Sizes
<1>2. \A d \in Callers : d # c => want'[d] = want[d]
  BY Sizes
<1>3. \A d \in Callers : d # c => ~Adding(d)
  BY DEF TableInv, Adders
<1>4. want'[c] = [want[c] EXCEPT !.do = do]
  BY Sizes
<1> QED
  BY <1>1, <1>2, <1>3, <1>4 DEF Adding, Wanting

(* Starting an addition keeps the chain of containers.                     *)
LEMMA AddKept ==
  ASSUME TableInv, NEW c \in Callers, want[c] # NULL, Add,
         want' = [want EXCEPT ![c] = [want[c] EXCEPT !.do = "put"]]
  PROVE  Chained'
<1>0. /\ ~chainCs /\ chainCs' = TRUE /\ UNCHANGED <<chainSize, added>>
      /\ chainSize = Len(added) /\ linked = Len(containers)
      /\ IF added = <<>> THEN containers = <<>> ELSE Last(Len(added) - 1)
  BY DEF Add, TableInv, Adders, ChainIsList
<1>1. /\ \A d \in Callers : Adding(d)' => d = c
      /\ want'[c].do = "put"
  BY <1>0, Alone
<1>2. CASE Len(containers) * cont_sz = chainSize
  <2>1. /\ containers' = Append(containers, Container)
        /\ linked' = IF containers = <<>> THEN 0 ELSE linked + 1
    BY <1>2 DEF Add
  <2>2. Container \in Slots /\ containers \in Seq(Slots)
    BY DEF Container, Slots, TableInv, ChainTypes
  <2>3. /\ containers' \in Seq(Slots) /\ Len(containers') = Len(containers) + 1
        /\ \A i \in 1 .. Len(containers) : containers'[i] = containers[i]
    BY <2>1, <2>2, Sizes
  <2>4. linked' \in Nat /\ linked' >= linked /\ linked' <= Len(containers')
    BY <1>0, <2>1, <2>3, Sizes
  <2>5. Len(added) \div cont_sz = Len(containers)
    <3>1. (Len(containers) * cont_sz) \div cont_sz = Len(containers)
      BY DivFull, Sizes
    <3> QED
      BY <1>0, <1>2, <3>1
  <2>6. Last(Len(added))'
    BY <1>0, <2>3, <2>5, Sizes DEF Last
  <2>7. ASSUME NEW i \in DOMAIN added
        PROVE  (i - 1) \div cont_sz < linked' /\ At(i - 1)' = added[i]
    <3>1. (i - 1) \div cont_sz < linked /\ At(i - 1) = added[i]
      BY DEF TableInv, ChainIsList
    <3>2. (i - 1) \div cont_sz \in Nat
      BY DivMod, Sizes
    <3>3. ((i - 1) \div cont_sz) + 1 \in 1 .. Len(containers)
      BY <3>1, <3>2, Sizes
    <3> QED
      BY <2>3, <2>4, <3>1, <3>2, <3>3, Sizes DEF At
  <2> QED
    BY <1>0, <1>1, <2>3, <2>4, <2>6, <2>7, Sizes
    DEF Chained, ChainTypes, Adders, ChainIsList, Adding, TableInv
<1>3. CASE Len(containers) * cont_sz # chainSize
  <2>1. UNCHANGED <<containers, linked>>
    BY <1>3 DEF Add
  <2>2. added # <<>>
    <3> SUFFICES ASSUME added = <<>> PROVE FALSE
      OBVIOUS
    <3>1. Len(containers) = 0 /\ Len(added) = 0
      BY <1>0
    <3> QED
      BY <1>0, <1>3, <3>1, Sizes
  <2>3. Len(added) # 0
    BY <2>2 DEF TableInv, ChainTypes
  <2>4. Len(added) \div cont_sz = Len(containers) - 1 /\ Len(containers) # 0
    <3>1. (Len(added) - 1) \div cont_sz = Len(containers) - 1 /\ Len(containers) # 0
      BY <1>0, <2>2, Sizes DEF Last
    <3> QED
      BY <1>0, <1>3, <2>3, <3>1, DivNext, Sizes
  <2>5. Last(Len(added))'
    BY <1>0, <2>1, <2>4, Sizes DEF Last
  <2> QED
    BY <1>0, <1>1, <2>1, <2>5, Sizes
    DEF Chained, ChainTypes, Adders, ChainIsList, Adding, At, TableInv
<1> QED
  BY <1>2, <1>3

(* What is known while c adds.                                             *)
LEMMA Midway ==
  ASSUME TableInv, NEW c \in Callers, Adding(c)
  PROVE  /\ Len(containers) \in Nat \ {0} /\ Len(added) \div cont_sz = Len(containers) - 1
         /\ Len(added) % cont_sz \in 0 .. cont_sz - 1
         /\ containers \in Seq(Slots) /\ added \in Seq(Rows)
         /\ Row(want[c].id, want[c].Data) \in Rows
         /\ chainCs
         /\ \A i \in DOMAIN added : (i - 1) \div cont_sz < linked /\ At(i - 1) = added[i]
<1>1. want[c] \in Wanting /\ Last(Len(added))
  BY Sizes DEF TableInv, Adders, Adding
<1>2. Row(want[c].id, want[c].Data) \in Rows
  BY <1>1 DEF Wanting, Row, Rows
<1>3. Len(added) % cont_sz \in 0 .. cont_sz - 1
  BY DivMod, Sizes
<1>4. Len(containers) \in Nat \ {0} /\ Len(added) \div cont_sz = Len(containers) - 1
  BY <1>1, Sizes DEF Last
<1> QED
  BY <1>2, <1>3, <1>4 DEF TableInv, ChainTypes, Adders, ChainIsList

(* Writing the row into its place keeps the chain of containers.           *)
LEMMA PutDataKept ==
  ASSUME TableInv, NEW c \in Callers, Adding(c), PutData(Row(want[c].id, want[c].Data), Len(added) + 1),
         \/ /\ want[c].do = "put"
            /\ want' = [want EXCEPT ![c] = [want[c] EXCEPT !.do = "size"]]
         \/ /\ want[c].do = "data"
            /\ want' = [want EXCEPT ![c] = [want[c] EXCEPT !.do = "done"]]
  PROVE  Chained'
<1> DEFINE n   == Len(containers)
           at  == Len(added) % cont_sz
           row == Row(want[c].id, want[c].Data)
<1>0. UNCHANGED <<linked, chainSize, chainCs, added>>
  BY DEF PutData
<1>1. n \in Nat \ {0} /\ at \in 0 .. cont_sz - 1 /\ containers \in Seq(Slots) /\ row \in Rows
  BY Midway
<1>2. containers' = [containers EXCEPT ![n][at] = row]
  <2>1. Slot(Len(added) + 1) = at
    BY Sizes DEF Slot
  <2> QED
    BY <2>1 DEF PutData
<1>3. /\ containers' \in Seq(Slots) /\ Len(containers') = n
      /\ \A j \in 1 .. n - 1 : containers'[j] = containers[j]
      /\ containers'[n] = [containers[n] EXCEPT ![at] = row]
  <2>1. containers[n] \in Slots /\ n \in 1 .. n
    BY <1>1
  <2>2. [containers[n] EXCEPT ![at] = row] \in Slots
    BY <1>1, <2>1 DEF Slots
  <2>3. containers' = [containers EXCEPT ![n] = [containers[n] EXCEPT ![at] = row]]
    BY <1>2
  <2> QED
    BY <1>1, <2>1, <2>2, <2>3
<1>4. containers'[n][at] = row /\ \A j \in 0 .. cont_sz - 1 : j # at => containers'[n][j] = containers[n][j]
  <2>1. containers[n] \in Slots
    BY <1>1
  <2> QED
    BY <1>1, <1>3, <2>1 DEF Slots
<1>5. At(Len(added))' = row
  BY <1>0, <1>1, <1>4, Midway, Sizes DEF At
<1>6. ASSUME NEW i \in DOMAIN added PROVE At(i - 1)' = added[i]
  <2> DEFINE q == (i - 1) \div cont_sz
             r == (i - 1) % cont_sz
  <2>1. q \in Nat /\ r \in 0 .. cont_sz - 1 /\ i - 1 = cont_sz * q + r
    <3>1. i - 1 \in Nat /\ cont_sz \in Nat \ {0}
      BY Sizes
    <3> QED
      BY <3>1, DivMod
  <2>2. q < linked /\ containers[q + 1][r] = added[i]
    BY Midway DEF At
  <2> HIDE DEF q, r
  <2>3. q + 1 \in 1 .. n
    BY <2>1, <2>2, Sizes
  <2>4. q + 1 = n => r # at
    <3>1. Len(added) = cont_sz * (Len(added) \div cont_sz) + at
      BY DivMod, Sizes
    <3>2. Len(added) = cont_sz * (n - 1) + at
      BY <3>1, Midway
    <3>3. i - 1 # Len(added) /\ i - 1 \in Nat
      BY Sizes
    <3>4. q + 1 = n => i - 1 = cont_sz * (n - 1) + r
      <4>1. q + 1 = n => q = n - 1
        BY <1>1, <2>1
      <4> QED
        BY <2>1, <4>1
    <3> QED
      BY <3>2, <3>3, <3>4
  <2>5. containers'[q + 1][r] = containers[q + 1][r]
    <3>1. CASE q + 1 = n
      BY <1>4, <2>1, <2>4, <3>1
    <3>2. CASE q + 1 # n
      <4>1. q + 1 \in 1 .. n - 1
        BY <1>1, <2>1, <2>3, <3>2
      <4> QED
        BY <1>3, <4>1
    <3> QED
      BY <3>1, <3>2
  <2> QED
    BY <2>2, <2>5 DEF At, q, r
<1>7. /\ \A d \in Callers : Adding(d)' => d = c
      /\ want'[c].do = IF want[c].do = "put" THEN "size" ELSE "done"
      /\ want'[c].id = want[c].id /\ want'[c].Data = want[c].Data
  <2>1. CASE want[c].do = "put"
    <3>1. want' = [want EXCEPT ![c] = [want[c] EXCEPT !.do = "size"]] /\ want[c] # NULL
      BY <2>1 DEF Adding
    <3> QED
      BY <2>1, <3>1, Alone
  <2>2. CASE want[c].do = "data"
    <3>1. want' = [want EXCEPT ![c] = [want[c] EXCEPT !.do = "done"]] /\ want[c] # NULL
      BY <2>2 DEF Adding
    <3> QED
      BY <2>2, <3>1, Alone
  <2> QED
    BY <2>1, <2>2
<1>8. ChainTypes' /\ ChainIsList'
  BY <1>0, <1>3, <1>6, Sizes DEF TableInv, ChainTypes, ChainIsList
<1>9. Adders'
  <2>1. chainCs' /\ Last(Len(added))'
    BY <1>0, <1>3, Midway, Sizes DEF Last
  <2>2. /\ want[c].do = "put" => chainSize = Len(added)
        /\ want[c].do = "data" => chainSize = Len(added) + 1
    BY DEF TableInv, Adders
  <2> QED
    BY <1>0, <1>5, <1>7, <2>1, <2>2 DEF Adders
<1> QED
  BY <1>8, <1>9 DEF Chained

(* Counting the row keeps the chain of containers.                         *)
LEMMA PutSizeKept ==
  ASSUME TableInv, NEW c \in Callers, Adding(c), PutSize(Len(added) + 1),
         \/ /\ want[c].do = "put"
            /\ want' = [want EXCEPT ![c] = [want[c] EXCEPT !.do = "data"]]
         \/ /\ want[c].do = "size"
            /\ want' = [want EXCEPT ![c] = [want[c] EXCEPT !.do = "done"]]
  PROVE  Chained'
<1>1. UNCHANGED <<containers, linked, chainCs, added>> /\ chainSize' = Len(added) + 1
  BY DEF PutSize
<1>2. /\ \A d \in Callers : Adding(d)' => d = c
      /\ want'[c].do = IF want[c].do = "put" THEN "data" ELSE "done"
      /\ want'[c].id = want[c].id /\ want'[c].Data = want[c].Data
  <2>1. CASE want[c].do = "put"
    <3>1. want' = [want EXCEPT ![c] = [want[c] EXCEPT !.do = "data"]] /\ want[c] # NULL
      BY <2>1 DEF Adding
    <3> QED
      BY <2>1, <3>1, Alone
  <2>2. CASE want[c].do = "size"
    <3>1. want' = [want EXCEPT ![c] = [want[c] EXCEPT !.do = "done"]] /\ want[c] # NULL
      BY <2>2 DEF Adding
    <3> QED
      BY <2>2, <3>1, Alone
  <2> QED
    BY <2>1, <2>2
<1>3. ChainTypes'
  BY <1>1, Sizes DEF TableInv, ChainTypes
<1>4. ChainIsList'
  <2>1. \A i \in DOMAIN added : At(i - 1)' = At(i - 1)
    BY <1>1 DEF At
  <2>2. \A i \in DOMAIN added : i <= chainSize'
    BY <1>1, Sizes
  <2>3. chainCs' /\ \A i \in DOMAIN added : (i - 1) \div cont_sz < linked /\ At(i - 1) = added[i]
    BY <1>1, Midway
  <2> HIDE DEF TableInv
  <2> QED
    BY <1>1, <2>1, <2>2, <2>3 DEF ChainIsList
<1>5. Adders'
  <2>1. chainCs' /\ Last(Len(added))'
    BY <1>1, Midway, Sizes DEF Last
  <2>2. want[c].do = "size" => At(Len(added)) = Row(want[c].id, want[c].Data)
    BY DEF TableInv, Adders
  <2>3. At(Len(added))' = At(Len(added))
    BY <1>1 DEF At
  <2> QED
    BY <1>1, <1>2, <2>1, <2>2, <2>3 DEF Adders
<1> QED
  BY <1>3, <1>4, <1>5 DEF Chained

(* Ending an addition keeps the chain of containers.                       *)
LEMMA AddDoneKept ==
  ASSUME TableInv, NEW c \in Callers, Adding(c), want[c].do = "done",
         AddDone(Row(want[c].id, want[c].Data)), want' = [want EXCEPT ![c] = NULL]
  PROVE  Chained'
<1> DEFINE row == Row(want[c].id, want[c].Data)
<1>1. /\ UNCHANGED <<containers, chainSize>> /\ linked' = Len(containers)
      /\ chainCs' = FALSE /\ added' = Append(added, row)
  BY DEF AddDone
<1>2. /\ added' \in Seq(Rows) /\ Len(added') = Len(added) + 1
      /\ DOMAIN added' = 1 .. Len(added) + 1 /\ added'[Len(added) + 1] = row
      /\ \A i \in 1 .. Len(added) : added'[i] = added[i]
  BY <1>1, Midway, Sizes
<1>3. chainSize = Len(added) + 1 /\ At(Len(added)) = row
  BY DEF TableInv, Adders
<1>4. \A d \in Callers : ~Adding(d)'
  <2>1. \A d \in Callers : IF d = c THEN want'[d] = NULL ELSE want'[d] = want[d]
    BY Sizes
  <2>2. \A d \in Callers : d # c => ~Adding(d)
    BY DEF TableInv, Adders
  <2> QED
    BY <2>1, <2>2 DEF Adding
<1>5. ChainTypes'
  <2>1. containers' \in Seq(Slots) /\ Len(containers') = Len(containers)
    BY <1>1, Midway
  <2>2. chainSize' \in Nat /\ linked' \in Nat /\ linked' <= Len(containers')
    BY <1>1, Sizes
  <2>3. chainCs' \in BOOLEAN
    BY <1>1
  <2> QED
    BY <1>2, <2>1, <2>2, <2>3 DEF ChainTypes
<1>6. ChainIsList'
  <2>1. ASSUME NEW i \in DOMAIN added'
        PROVE  i <= chainSize' /\ (i - 1) \div cont_sz < linked' /\ At(i - 1)' = added'[i]
    <3>1. CASE i \in DOMAIN added
      BY <1>1, <1>2, <1>3, <3>1, Midway, Sizes DEF At
    <3>2. CASE i = Len(added) + 1
      <4>1. i - 1 = Len(added)
        BY <3>2, Sizes
      <4> QED
        BY <1>1, <1>2, <1>3, <3>2, <4>1, Midway, Sizes DEF At
    <3> QED
      BY <1>2, <3>1, <3>2, Sizes
  <2> QED
    BY <1>1, <1>2, <1>3, <2>1 DEF ChainIsList
<1>7. Adders'
  <2>1. Len(added') - 1 = Len(added) /\ added' # <<>>
    BY <1>2, Sizes
  <2>2. Len(containers') > 0 /\ Len(added) \div cont_sz = Len(containers') - 1
    BY <1>1, Midway
  <2>3. Last(Len(added) - 1)'
    BY <2>1, <2>2 DEF Last
  <2>4. linked' = Len(containers') /\ ~chainCs'
    BY <1>1
  <2> QED
    BY <1>4, <2>1, <2>3, <2>4 DEF Adders
<1> QED
  BY <1>5, <1>6, <1>7 DEF Chained

(* Every step of a table keeps the list.                                   *)
LEMMA ChainKept == ASSUME TableInv, [TableNext]_allVars PROVE Chained'
<1>1. CASE UNCHANGED <<want, chainVars>>
  BY <1>1, Quiet DEF Adding
<1>2. ASSUME NEW c \in Callers, UNCHANGED chainVars, NEW w, want' = [want EXCEPT ![c] = w],
             w = NULL \/ w.do \in {"scan", "load", "read", "add"}
      PROVE  Chained'
  <2>1. \A d \in Callers : IF d = c THEN want'[d] = w ELSE want'[d] = want[d]
    BY <1>2, Sizes
  <2>2. \A d \in Callers : (want'[d] # NULL /\ want'[d].do \in {"put", "size", "data", "done"}) =>
          Adding(d) /\ want'[d] = want[d]
    BY <1>2, <2>1 DEF Adding
  <2> QED
    BY <1>2, <2>2, Quiet
<1>3. ASSUME NEW c \in Callers, GetByID(c) PROVE Chained'
  <2>1. PICK id : want' = [want EXCEPT ![c] = Calls(id, Listed(id))]
    BY <1>3 DEF GetByID
  <2>2. Calls(id, Listed(id)).do = "scan"
    BY DEF Calls
  <2>3. UNCHANGED chainVars
    BY <1>3 DEF GetByID
  <2> QED
    BY <1>2, <2>1, <2>2, <2>3
<1>4. ASSUME NEW c \in Callers, Scan(c) PROVE Chained'
  <2>1. want[c] \in Wanting /\ want[c].do = "scan" /\ UNCHANGED chainVars
    BY <1>4, Sizes DEF Scan
  <2>2. [want[c] EXCEPT !.do = "load"].do = "load" /\ Further(want[c]).do = "scan"
    BY <2>1 DEF Wanting, Further
  <2>3. CASE want[c].item > linked
    <3>1. want' = [want EXCEPT ![c] = [want[c] EXCEPT !.do = "load"]]
      BY <1>4, <2>3 DEF Scan
    <3> QED
      BY <1>2, <2>1, <2>2, <3>1
  <2>4. CASE ~(want[c].item > linked)
    <3>1. CASE \E r \in Seen(want[c].item, want[c].SZ) : r.ID = want[c].id
      <4>1. want' = [want EXCEPT ![c] = NULL]
        BY <1>4, <2>4, <3>1 DEF Scan
      <4> QED
        BY <1>2, <2>1, <4>1
    <3>2. CASE ~\E r \in Seen(want[c].item, want[c].SZ) : r.ID = want[c].id
      <4>1. want' = [want EXCEPT ![c] = Further(want[c])]
        BY <1>4, <2>4, <3>2 DEF Scan
      <4> QED
        BY <1>2, <2>1, <2>2, <4>1
    <3> QED
      BY <3>1, <3>2
  <2> QED
    BY <2>3, <2>4
<1>5. ASSUME NEW c \in Callers, LoadRow(c) PROVE Chained'
  <2>1. want' = [want EXCEPT ![c] = [want[c] EXCEPT !.do = "read"]] /\ UNCHANGED chainVars
        /\ want[c] \in Wanting
    BY <1>5, Sizes DEF LoadRow
  <2>2. [want[c] EXCEPT !.do = "read"].do = "read"
    BY <2>1 DEF Wanting
  <2> QED
    BY <1>2, <2>1, <2>2
<1>6. ASSUME NEW c \in Callers, ReadRow(c) PROVE Chained'
  <2>1. UNCHANGED chainVars /\ want[c] \in Wanting
    BY <1>6, Sizes DEF ReadRow
  <2>2. [want[c] EXCEPT !.do = "add", !.Data = file[pos + 1]].do = "add"
    BY <2>1 DEF Wanting
  <2>3. CASE pos < Len(file)
    <3>1. want' = [want EXCEPT ![c] = [want[c] EXCEPT !.do = "add", !.Data = file[pos + 1]]]
      BY <1>6, <2>3 DEF ReadRow
    <3> QED
      BY <1>2, <2>1, <2>2, <3>1
  <2>4. CASE ~(pos < Len(file))
    <3>1. want' = [want EXCEPT ![c] = NULL]
      BY <1>6, <2>4 DEF ReadRow
    <3> QED
      BY <1>2, <2>1, <3>1
  <2> QED
    BY <2>3, <2>4
<1>7. ASSUME NEW c \in Callers, AddRow(c) PROVE Chained'
  <2>1. want[c] # NULL
    BY <1>7 DEF AddRow
  <2>2. CASE want[c].do = "add"
    BY <1>7, <2>1, <2>2, AddKept DEF AddRow
  <2>3. CASE want[c].do = "put"
    BY <1>7, <2>1, <2>3, PutDataKept, PutSizeKept DEF AddRow, Adding
  <2>4. CASE want[c].do = "data"
    BY <1>7, <2>1, <2>4, PutDataKept DEF AddRow, Adding
  <2>5. CASE want[c].do = "size"
    BY <1>7, <2>1, <2>5, PutSizeKept DEF AddRow, Adding
  <2>6. CASE want[c].do = "done"
    BY <1>7, <2>1, <2>6, AddDoneKept DEF AddRow, Adding
  <2> QED
    BY <1>7, <2>2, <2>3, <2>4, <2>5, <2>6 DEF AddRow
<1>8. CASE Killed
  <2>1. /\ containers' = <<>> /\ linked' = 0 /\ chainSize' = 0 /\ chainCs' = FALSE /\ added' = <<>>
        /\ \A c \in Callers : want'[c] = NULL
    BY <1>8 DEF Killed
  <2>2. <<>> \in Seq(Slots) /\ <<>> \in Seq(Rows) /\ Len(<<>>) = 0 /\ DOMAIN <<>> = {}
    OBVIOUS
  <2>3. ChainTypes'
    <3>1. containers' \in Seq(Slots) /\ added' \in Seq(Rows) /\ linked' <= Len(containers')
      BY <2>1, <2>2
    <3>2. chainSize' \in Nat /\ linked' \in Nat
      BY <2>1
    <3>3. chainCs' \in BOOLEAN
      BY <2>1
    <3> QED
      BY <3>1, <3>2, <3>3 DEF ChainTypes
  <2>4. ChainIsList'
    BY <2>1, <2>2 DEF ChainIsList
  <2>5. Adders'
    BY <2>1, <2>2 DEF Adders, Adding
  <2> QED
    BY <2>3, <2>4, <2>5 DEF Chained
<1> HIDE DEF TableInv
<1>9. CASE UNCHANGED allVars
  BY <1>1, <1>9 DEF allVars, tableVars
<1>10. ASSUME NEW c \in Callers, Store(c) \/ GoOn(c) PROVE Chained'
  BY <1>1, <1>6, <1>10 DEF Store, GoOn, tableVars
<1>11. CASE FileWorker /\ UNCHANGED tableVars
  BY <1>1, <1>11 DEF tableVars
<1> QED
  BY <1>3, <1>4, <1>5, <1>7, <1>8, <1>9, <1>10, <1>11 DEF TableNext

-----------------------------------------------------------------------------
(* The invariant of the table holds always.                                *)
LEMMA TableInvariant == TableSpec => []TableInv
<1>1. TableInv /\ [TableNext]_allVars => TableInv'
  <2> SUFFICES ASSUME TableInv, [TableNext]_allVars PROVE TableInv'
    OBVIOUS
  <2>1. Safe'
    BY StorageStep, Types, KeepsPlaces, KeepsPointers DEF TableInv, Safe
  <2> QED
    BY <2>1, CallingsKept, ChainKept DEF TableInv, Chained
<1> QED
  BY <1>1, TableInvInit, PTL DEF TableSpec

(* While rows are added by any number of threads, outside an Add the chain *)
(* is the list of the rows that were added, in that order, at the indexes  *)
(* where operator[] finds them.                                            *)
THEOREM TableChainIsList == TableSpec => []ChainIsList
<1>1. TableInv => ChainIsList
  BY DEF TableInv
<1> QED
  BY <1>1, TableInvariant, PTL

-----------------------------------------------------------------------------
(* The row that c looks for is in the chain, at a place c has yet to look  *)
(* at: i is its place, counted from 1.                                     *)
Ahead(c, i) ==
  /\ i \in DOMAIN added /\ added[i].ID = want[c].id
  /\ want[c].item - 1 <= (i - 1) \div cont_sz
  /\ i - 1 < want[c].SZ + cont_sz * (want[c].item - 1)

Sought ==
  \A c \in Callers : want[c] # NULL /\ want[c].listed =>
    want[c].do = "scan" /\ \E i \in DOMAIN added : Ahead(c, i)

(* Rows never leave the chain, nor move.                                   *)
LEMMA RowsStay ==
  ASSUME TableInv, [TableNext]_allVars
  PROVE  Killed \/ \A i \in DOMAIN added : i \in DOMAIN added' /\ added'[i] = added[i]
<1>1. CASE UNCHANGED added
  BY <1>1
<1>2. ASSUME NEW row, added' = Append(added, row)
      PROVE  \A i \in DOMAIN added : i \in DOMAIN added' /\ added'[i] = added[i]
  <2>1. added \in Seq(Rows)
    BY DEF TableInv, ChainTypes
  <2> QED
    BY <1>2, <2>1
<1>3. UNCHANGED added \/ Killed \/ \E row : added' = Append(added, row)
  BY DEF TableNext, GetByID, Scan, LoadRow, ReadRow, AddRow, Store, GoOn, Add, PutData, PutSize,
         AddDone, chainVars, tableVars, allVars
<1> QED
  BY <1>1, <1>2, <1>3

(* The arithmetic of a row within the size the walk has left.              *)
LEMMA Within ==
  ASSUME NEW x \in Int, NEW y \in Int, NEW r \in Int, NEW n \in Int, n = x + r, n < y + x
  PROVE  r < y
  OBVIOUS

(* The walk does not pass the row: it finds it, or it is still ahead.      *)
LEMMA ScanFinds ==
  ASSUME TableInv, NEW c \in Callers, Scan(c), NEW i \in DOMAIN added, Ahead(c, i)
  PROVE  \/ want' = [want EXCEPT ![c] = NULL]
         \/ want' = [want EXCEPT ![c] = Further(want[c])] /\ want[c].item <= (i - 1) \div cont_sz
<1> DEFINE q == (i - 1) \div cont_sz
           r == (i - 1) % cont_sz
<1>0. /\ want[c] \in Wanting /\ cont_sz \in Nat \ {0} /\ i - 1 \in Nat /\ linked \in Nat
      /\ want[c].item \in Nat /\ want[c].SZ \in Int /\ Len(containers) \in Nat
  <2>1. want[c] \in Wanting
    BY Sizes DEF Scan
  <2>2. i - 1 \in Nat
    BY Sizes
  <2> QED
    BY <2>1, <2>2, Sizes DEF Wanting
<1>1. q \in Nat /\ r \in 0 .. cont_sz - 1 /\ i - 1 = cont_sz * q + r
  BY <1>0, DivMod
<1>2. /\ q < linked /\ containers[q + 1][r] = added[i] /\ added[i] \in Rows
      /\ want[c].item - 1 <= q /\ i - 1 < want[c].SZ + cont_sz * (want[c].item - 1)
      /\ added[i].ID = want[c].id
  BY DEF TableInv, ChainIsList, ChainTypes, At, Ahead
<1> HIDE DEF q, r
<1>3. ~(want[c].item > linked)
  BY <1>0, <1>1, <1>2
<1>4. CASE want[c].item - 1 = q
  <2>1. r < want[c].SZ /\ q + 1 = want[c].item
    <3>1. i - 1 < want[c].SZ + cont_sz * q
      BY <1>2, <1>4
    <3>2. cont_sz * q \in Int /\ r \in Int /\ want[c].SZ \in Int /\ i - 1 \in Int
      BY <1>0, <1>1
    <3>3. r < want[c].SZ
      BY <1>1, <3>1, <3>2, Within
    <3>4. q + 1 = want[c].item
      BY <1>0, <1>1, <1>4
    <3> QED
      BY <3>3, <3>4
  <2>2. added[i] # EMPTY
    BY <1>2, TableAssumption DEF TableAssumption
  <2>3. added[i] \in Seen(want[c].item, want[c].SZ)
    BY <1>1, <1>2, <2>1, <2>2 DEF Seen
  <2>4. \E w \in Seen(want[c].item, want[c].SZ) : w.ID = want[c].id
    BY <1>2, <2>3
  <2> QED
    BY <1>3, <2>4 DEF Scan
<1>5. CASE want[c].item - 1 # q
  <2>1. want[c].item <= q
    BY <1>0, <1>1, <1>2, <1>5
  <2>2. \/ want' = [want EXCEPT ![c] = NULL]
        \/ want' = [want EXCEPT ![c] = Further(want[c])]
    BY <1>3 DEF Scan
  <2> QED
    BY <2>1, <2>2 DEF q
<1> QED
  BY <1>4, <1>5

(* Every step keeps a row that was listed ahead of the walk that seeks it. *)
LEMMA SoughtKept == ASSUME TableInv, Sought, [TableNext]_allVars PROVE Sought'
<1>0. want \in [Callers -> Wanting \cup {NULL}]
  BY Sizes
<1>1. CASE Killed
  BY <1>1 DEF Killed, Sought
<1>2. ASSUME NEW c \in Callers, want'[c] = want[c], ~Killed, want[c] # NULL, want[c].listed
      PROVE  want'[c].do = "scan" /\ \E i \in DOMAIN added' : Ahead(c, i)'
  <2>1. PICK i \in DOMAIN added : Ahead(c, i)
    BY <1>2 DEF Sought
  <2>2. i \in DOMAIN added' /\ added'[i] = added[i]
    BY <1>2, RowsStay
  <2> QED
    BY <1>2, <2>1, <2>2 DEF Sought, Ahead
<1>3. ASSUME NEW c \in Callers, NEW w, want' = [want EXCEPT ![c] = w], ~Killed,
             w # NULL /\ w.listed => w.do = "scan" /\ \E i \in DOMAIN added' : Ahead(c, i)'
      PROVE  Sought'
  <2>1. \A d \in Callers : IF d = c THEN want'[d] = w ELSE want'[d] = want[d]
    BY <1>0, <1>3
  <2> QED
    BY <1>2, <1>3, <2>1 DEF Sought
<1>4. CASE UNCHANGED want /\ ~Killed
  BY <1>2, <1>4 DEF Sought
<1>5. ASSUME NEW c \in Callers, GetByID(c), ~Killed PROVE Sought'
  <2>1. PICK id : want' = [want EXCEPT ![c] = Calls(id, Listed(id))]
    BY <1>5 DEF GetByID
  <2>2. want'[c] = Calls(id, Listed(id)) /\ UNCHANGED chainVars
    BY <1>0, <1>5, <2>1 DEF GetByID
  <2>3. ASSUME Listed(id) PROVE \E i \in DOMAIN added' : Ahead(c, i)'
    <3>1. PICK i \in DOMAIN added : added[i].ID = id
      BY <2>3 DEF Listed
    <3>2. i <= chainSize /\ i \in Nat /\ i - 1 \in Nat /\ chainSize \in Nat /\ cont_sz \in Nat \ {0}
      BY Sizes DEF TableInv, ChainIsList
    <3>3. (i - 1) \div cont_sz \in Nat
      BY <3>2, DivMod
    <3>4. cont_sz * (1 - 1) = 0
      BY <3>2
    <3>5. want'[c].item = 1 /\ want'[c].SZ = chainSize /\ want'[c].id = id
      BY <2>2 DEF Calls
    <3>6. want'[c].item - 1 = 0 /\ cont_sz * (want'[c].item - 1) = 0
      BY <3>4, <3>5
    <3>7. added' = added
      BY <2>2 DEF chainVars
    <3>8. i - 1 < want'[c].SZ + cont_sz * (want'[c].item - 1)
      <4>1. want'[c].SZ + cont_sz * (want'[c].item - 1) = chainSize + 0
        BY <3>5, <3>6
      <4> QED
        BY <3>2, <4>1
    <3> QED
      BY <3>1, <3>3, <3>5, <3>6, <3>7, <3>8 DEF Ahead
  <2>4. Calls(id, Listed(id)).do = "scan" /\ Calls(id, Listed(id)).listed = Listed(id)
    BY DEF Calls
  <2> QED
    BY <1>3, <1>5, <2>1, <2>3, <2>4
<1>6. ASSUME NEW c \in Callers, Scan(c), ~Killed PROVE Sought'
  <2>0. want[c] \in Wanting /\ want[c] # NULL /\ UNCHANGED chainVars
    BY <1>0, <1>6 DEF Scan
  <2>1. CASE want' = [want EXCEPT ![c] = NULL]
    BY <1>3, <1>6, <2>1
  <2>2. CASE want[c].listed /\ want' # [want EXCEPT ![c] = NULL]
    <3>1. PICK i \in DOMAIN added : Ahead(c, i)
      BY <2>0, <2>2 DEF Sought
    <3>2. want' = [want EXCEPT ![c] = Further(want[c])] /\ want[c].item <= (i - 1) \div cont_sz
      BY <1>6, <2>2, <3>1, ScanFinds
    <3>3. want'[c] = Further(want[c]) /\ added' = added
      BY <1>0, <2>0, <3>2 DEF chainVars
    <3>4. /\ want'[c].item = want[c].item + 1 /\ want'[c].SZ = want[c].SZ - cont_sz
          /\ want'[c].id = want[c].id /\ Further(want[c]).do = "scan"
      <4>1. want[c].do = "scan"
        BY <1>6 DEF Scan
      <4>2. /\ Further(want[c]).item = want[c].item + 1 /\ Further(want[c]).SZ = want[c].SZ - cont_sz
            /\ Further(want[c]).id = want[c].id /\ Further(want[c]).do = want[c].do
        BY <2>0 DEF Wanting, Further
      <4> QED
        BY <3>3, <4>1, <4>2
    <3>5. want[c].item \in Nat /\ want[c].SZ \in Int /\ cont_sz \in Nat /\ i - 1 \in Nat
      BY <2>0, Sizes DEF Wanting
    <3>6. cont_sz * want[c].item = cont_sz * (want[c].item - 1) + cont_sz
      BY <3>5
    <3>7. want'[c].item - 1 = want[c].item
      BY <3>4, <3>5
    <3>8. i - 1 < want'[c].SZ + cont_sz * (want'[c].item - 1)
      <4>1. i - 1 < want[c].SZ + cont_sz * (want[c].item - 1)
        BY <3>1 DEF Ahead
      <4>2. cont_sz * (want[c].item - 1) \in Int
        BY <3>5
      <4>3. want'[c].SZ + cont_sz * want[c].item = want[c].SZ + cont_sz * (want[c].item - 1)
        BY <3>4, <3>5, <3>6, <4>2
      <4> QED
        BY <3>7, <4>1, <4>3
    <3>9. Ahead(c, i)'
      BY <3>1, <3>2, <3>3, <3>4, <3>7, <3>8 DEF Ahead
    <3> QED
      BY <1>3, <1>6, <3>2, <3>3, <3>4, <3>9
  <2>3. CASE ~want[c].listed /\ want' # [want EXCEPT ![c] = NULL]
    <3>1. PICK w : want' = [want EXCEPT ![c] = w] /\ w \in {[want[c] EXCEPT !.do = "load"], Further(want[c])}
      <4>1. CASE want[c].item > linked
        BY <1>6, <4>1 DEF Scan
      <4>2. CASE ~(want[c].item > linked)
        BY <1>6, <2>3, <4>2 DEF Scan
      <4> QED
        BY <4>1, <4>2
    <3>2. w.listed = want[c].listed
      BY <2>0, <3>1 DEF Wanting, Further
    <3> QED
      BY <1>3, <1>6, <2>3, <3>1, <3>2
  <2> QED
    BY <2>1, <2>2, <2>3
<1>7. ASSUME NEW c \in Callers, want[c] # NULL, want[c].do # "scan", ~Killed, NEW w,
             want' = [want EXCEPT ![c] = w], w = NULL \/ w.listed = want[c].listed
      PROVE  Sought'
  <2>1. ~want[c].listed
    BY <1>7 DEF Sought
  <2> QED
    BY <1>3, <1>7, <2>1
<1>8. ASSUME NEW c \in Callers, LoadRow(c) \/ ReadRow(c) \/ AddRow(c), ~Killed PROVE Sought'
  <2>1. want[c] # NULL /\ want[c] \in Wanting
    BY <1>0, <1>8 DEF LoadRow, ReadRow, AddRow
  <2>2. want[c].do # "scan"
    <3>1. CASE ReadRow(c)
      BY <2>1, <3>1 DEF ReadRow, LoadRead, TableInv, Callings
    <3> QED
      BY <1>8, <3>1 DEF LoadRow, AddRow
  <2>3. /\ \A do : [want[c] EXCEPT !.do = do].listed = want[c].listed
        /\ \A d : [want[c] EXCEPT !.do = "add", !.Data = d].listed = want[c].listed
    BY <2>1 DEF Wanting
  <2>4. CASE LoadRow(c)
    <3>1. want' = [want EXCEPT ![c] = [want[c] EXCEPT !.do = "read"]]
      BY <2>4 DEF LoadRow
    <3> QED
      BY <1>7, <1>8, <2>1, <2>2, <2>3, <3>1
  <2>5. CASE ReadRow(c)
    <3>1. \/ want' = [want EXCEPT ![c] = [want[c] EXCEPT !.do = "add", !.Data = file[pos + 1]]]
          \/ want' = [want EXCEPT ![c] = NULL]
      <4>1. CASE pos < Len(file)
        BY <2>5, <4>1 DEF ReadRow
      <4>2. CASE ~(pos < Len(file))
        BY <2>5, <4>2 DEF ReadRow
      <4> QED
        BY <4>1, <4>2
    <3> QED
      BY <1>7, <1>8, <2>1, <2>2, <2>3, <3>1
  <2>6. CASE AddRow(c)
    <3>1. PICK w : want' = [want EXCEPT ![c] = w] /\ (w = NULL \/ \E do : w = [want[c] EXCEPT !.do = do])
      BY <2>6 DEF AddRow
    <3> QED
      BY <1>7, <1>8, <2>1, <2>2, <2>3, <3>1
  <2> QED
    BY <1>8, <2>4, <2>5, <2>6
<1>9. ASSUME NEW c \in Callers, Store(c) \/ GoOn(c), ~Killed PROVE Sought'
  BY <1>4, <1>8, <1>9 DEF Store, GoOn, tableVars
<1>10. CASE (UNCHANGED allVars \/ (FileWorker /\ UNCHANGED tableVars)) /\ ~Killed
  BY <1>4, <1>10 DEF tableVars, allVars
<1> QED
  BY <1>1, <1>5, <1>6, <1>8, <1>9, <1>10 DEF TableNext

(* GetByID never makes a second object of a row that was in the chain when *)
(* it began to look.                                                       *)
THEOREM TableNoSecondRow == TableSpec => []NoSecondRow
<1>1. TableInit => TableInv /\ Sought
  BY TableInvInit DEF TableInit, Sought
<1>2. TableInv /\ Sought /\ [TableNext]_allVars => Sought'
  BY SoughtKept
<1>3. Sought => NoSecondRow
  BY TableAssumption DEF Sought, NoSecondRow, TableAssumption
<1> QED
  BY <1>1, <1>2, <1>3, TableInvariant, PTL DEF TableSpec
===============================================================================
