--------------------------- MODULE VoxTimeMapProofs ---------------------------
(***************************************************************************)
(* Machine-checked proofs about the expiring map, for any keys, values,    *)
(* users and lifetime.                                                     *)
(***************************************************************************)
EXTENDS VoxTimeMap, TLAPS

(* What the places in the code say of the variables used there.            *)
Places ==
  /\ \A u \in Users : upc[u] # "idle" => key[u] \in Keys
  /\ \A u \in Users : upc[u] \in {"lock", "put"} => rs[u] \in Vals
  /\ spc = "erase" => spot \in Keys

(* An entry is there, with at least the rest of its lifetime, for as long  *)
(* as Add has promised; and what the sweep is about to erase is older.  The*)
(* mutex it holds since it compared keeps Add from making it young again.  *)
Promise ==
  /\ \A k \in Keys : added[k] <= timepp =>
       Data[k] # NULL /\ Data[k].left >= timepp - added[k]
  /\ spc = "erase" => added[spot] > timepp

Inv == TypeOK /\ Places /\ Promise

-----------------------------------------------------------------------------
(* The slot of a key holds an entry.                                       *)
LEMMA SlotType == ASSUME TypeOK, NEW k \in Keys PROVE Slot(k) \in Entry
  BY TimeAssumption DEF TimeAssumption, TypeOK, Slot, Blank, Entry

(* The map starts in its invariant.                                        *)
LEMMA InvInit == Init => Inv
  BY TimeAssumption DEF TimeAssumption, Init, Inv, TypeOK, Places, Promise

(* Every step keeps the invariant of the map.                              *)
LEMMA InvNext == Inv /\ [Next]_vars => Inv'
<1> SUFFICES ASSUME Inv, [Next]_vars PROVE Inv'
  OBVIOUS
<1> USE TimeAssumption DEF Inv, TimeAssumption
<1>1. CASE UNCHANGED vars
  BY <1>1 DEF vars, TypeOK, Places, Promise
<1>2. ASSUME NEW u \in Users, NEW k \in Keys, NEW v \in Vals, Add(u, k, v) PROVE Inv'
  BY <1>2 DEF Add, TypeOK, Places, Promise
<1>3. ASSUME NEW u \in Users, AddLock(u) PROVE Inv'
  BY <1>3 DEF AddLock, TypeOK, Places, Promise
<1>4. ASSUME NEW u \in Users, AddPut(u) PROVE Inv'
  <2> DEFINE e == [left |-> timepp, val |-> rs[u]]
  <2>1. key[u] \in Keys /\ rs[u] \in Vals /\ cs = u /\ spc # "erase"
    BY <1>4 DEF AddPut, TypeOK, Places
  <2>2. e \in Entry /\ e # NULL /\ e.left = timepp
    BY <2>1 DEF Entry
  <2>3. TypeOK'
    BY <1>4, <2>1, <2>2 DEF AddPut, TypeOK
  <2>4. Places'
    BY <1>4 DEF AddPut, Places, TypeOK
  <2>5. Promise'
    <3>1. Data' = [Data EXCEPT ![key[u]] = e] /\ added' = [added EXCEPT ![key[u]] = 0]
      BY <1>4 DEF AddPut
    <3>2. spc' # "erase"
      BY <1>4, <2>1 DEF AddPut
    <3> HIDE DEF e
    <3> QED
      BY <2>1, <2>2, <3>1, <3>2 DEF Promise, TypeOK
  <2> QED
    BY <2>3, <2>4, <2>5
<1>5. ASSUME NEW u \in Users, AddUnlock(u) PROVE Inv'
  BY <1>5 DEF AddUnlock, TypeOK, Places, Promise
<1>6. ASSUME NEW u \in Users, NEW k \in Keys, Get(u, k) PROVE Inv'
  BY <1>6 DEF Get, TypeOK, Places, Promise
<1>7. ASSUME NEW u \in Users, GetTouch(u) PROVE Inv'
  <2> DEFINE e == [Slot(key[u]) EXCEPT !.left = timepp]
  <2>1. key[u] \in Keys
    BY <1>7 DEF GetTouch, Places
  <2>2. e \in Entry /\ e # NULL /\ e.left = timepp
    BY <2>1, SlotType DEF Entry
  <2>3. Data' = [Data EXCEPT ![key[u]] = e]
    BY <1>7 DEF GetTouch
  <2> HIDE DEF e
  <2>4. TypeOK'
    BY <1>7, <2>1, <2>2, <2>3 DEF GetTouch, TypeOK
  <2>5. Places'
    BY <1>7 DEF GetTouch, Places, TypeOK
  <2>6. Promise'
    BY <1>7, <2>1, <2>2, <2>3 DEF GetTouch, Promise, TypeOK
  <2> QED
    BY <2>4, <2>5, <2>6
<1>8. ASSUME NEW u \in Users, GetRead(u) PROVE Inv'
  <2>1. key[u] \in Keys /\ Slot(key[u]) \in Entry /\ Slot(key[u]) # NULL
    BY <1>8, SlotType DEF GetRead, Places
  <2>2. Slot(key[u]).val \in Vals \cup {Default}
    BY <2>1 DEF Entry
  <2>3. Data[key[u]] # NULL => Slot(key[u]) = Data[key[u]]
    BY DEF Slot
  <2>4. TypeOK'
    BY <1>8, <2>1, <2>2 DEF GetRead, TypeOK
  <2>5. Places'
    BY <1>8 DEF GetRead, Places, TypeOK
  <2>6. Promise'
    BY <1>8, <2>1, <2>3 DEF GetRead, Promise, TypeOK
  <2> QED
    BY <2>4, <2>5, <2>6
<1>9. CASE Wake \/ SweepLock \/ SweepUnlock
  BY <1>9 DEF Wake, SweepLock, SweepUnlock, TypeOK, Places, Promise
<1>10. ASSUME NEW k \in Keys, Compare(k) PROVE Inv'
  <2>1. Data[k] # NULL /\ Expired(k) => added[k] > timepp
    BY DEF Expired, Promise, TypeOK, Entry
  <2> QED
    BY <1>10, <2>1 DEF Compare, TypeOK, Places, Promise
<1>11. CASE Erase
  BY <1>11 DEF Erase, TypeOK, Places, Promise
<1>12. CASE Tick
  <2>1. ASSUME NEW k \in Keys, Data[k] # NULL
        PROVE  [Data[k] EXCEPT !.left = Later(@)] \in Entry
    BY <2>1 DEF TypeOK, Entry, Later
  <2>2. TypeOK'
    BY <1>12, <2>1 DEF Tick, TypeOK, Older
  <2>3. Places'
    BY <1>12 DEF Tick, Places
  <2>4. ASSUME NEW k \in Keys, added'[k] <= timepp
        PROVE  Data'[k] # NULL /\ Data'[k].left >= timepp - added'[k]
    <3>1. added[k] \in Nat /\ added'[k] = added[k] + 1 /\ added[k] < timepp
      BY <1>12, <2>4 DEF Tick, TypeOK, Older
    <3>2. Data[k] # NULL /\ Data[k] \in Entry /\ Data[k].left \in Int /\ Data[k].left >= timepp - added[k]
      BY <3>1 DEF Promise, TypeOK, Entry
    <3>3. Data'[k] = [Data[k] EXCEPT !.left = Later(@)]
      BY <1>12, <3>2 DEF Tick
    <3>4. Data'[k].left = Data[k].left - 1
      BY <3>1, <3>2, <3>3 DEF Later, Entry
    <3> QED
      BY <2>1, <3>1, <3>2, <3>3, <3>4
  <2>5. Promise'
    BY <1>12, <2>4 DEF Tick, Promise, Places, TypeOK, Older
  <2> QED
    BY <2>2, <2>3, <2>5
<1> QED
  BY <1>1, <1>2, <1>3, <1>4, <1>5, <1>6, <1>7, <1>8, <1>9, <1>10, <1>11, <1>12
  DEF Next, User, Continue, MapWorker

(* The invariant of the map holds always.                                  *)
LEMMA Invariance == Spec => []Inv
  BY InvInit, InvNext, PTL DEF Spec

(* Every variable of the map keeps its type, and the mutex is held where   *)
(* Add and MapWorker hold it.                                              *)
THEOREM MapTypes == Spec => []TypeOK
  BY Invariance, PTL DEF Inv

(* MapWorker erases no entry that Add wrote within the last timepp seconds.*)
THEOREM MapAddedKept == Spec => AddedKept
<1>1. ASSUME Inv, [Next]_vars, NEW k \in Keys, Data[k] # NULL, Data'[k] = NULL
      PROVE  added[k] > timepp
  <2> USE TimeAssumption DEF Inv, TimeAssumption
  <2>1. CASE UNCHANGED vars
    BY <1>1, <2>1 DEF vars
  <2>2. ASSUME NEW u \in Users, AddPut(u) PROVE FALSE
    <3>1. [left |-> timepp, val |-> rs[u]] \in Entry
      BY <1>1, <2>2 DEF AddPut, Places, TypeOK, Entry
    <3> QED
      BY <1>1, <2>2, <3>1 DEF AddPut, TypeOK
  <2>3. ASSUME NEW u \in Users, GetTouch(u) PROVE FALSE
    <3>1. [Slot(key[u]) EXCEPT !.left = timepp] \in Entry
      BY <1>1, <2>3, SlotType DEF GetTouch, Places, TypeOK, Entry
    <3> QED
      BY <1>1, <2>3, <3>1 DEF GetTouch, TypeOK
  <2>4. ASSUME NEW u \in Users, GetRead(u) PROVE FALSE
    <3>1. Slot(key[u]) \in Entry
      BY <1>1, <2>4, SlotType DEF GetRead, Places, TypeOK
    <3> QED
      BY <1>1, <2>4, <3>1 DEF GetRead, TypeOK
  <2>5. CASE Erase
    BY <1>1, <2>5 DEF Erase, TypeOK, Promise
  <2>6. CASE Tick
    <3>1. [Data[k] EXCEPT !.left = Later(@)] \in Entry
      BY <1>1 DEF TypeOK, Entry, Later
    <3> QED
      BY <1>1, <2>6, <3>1 DEF Tick
  <2>7. ASSUME NEW u \in Users, NEW h \in Keys, Get(u, h) \/ (\E v \in Vals : Add(u, h, v))
        PROVE  FALSE
    BY <1>1, <2>7 DEF Get, Add
  <2>8. ASSUME NEW u \in Users, AddLock(u) \/ AddUnlock(u) PROVE FALSE
    BY <1>1, <2>8 DEF AddLock, AddUnlock
  <2>9. ASSUME NEW h \in Keys, Wake \/ SweepLock \/ Compare(h) \/ SweepUnlock PROVE FALSE
    BY <1>1, <2>9 DEF Wake, SweepLock, Compare, SweepUnlock
  <2> QED
    BY <1>1, <2>1, <2>2, <2>3, <2>4, <2>5, <2>6, <2>7, <2>8, <2>9
    DEF Next, User, Continue, MapWorker
<1>2. Inv /\ [Next]_vars =>
        [\A k \in Keys : Data[k] # NULL /\ Data'[k] = NULL => added[k] > timepp]_vars
  BY <1>1
<1> QED
  BY <1>2, Invariance, PTL DEF Spec, AddedKept
===============================================================================
