------------------------------- MODULE VoxChain -------------------------------
(***************************************************************************)
(* Ext/voxchain.h: a list in containers of cont_sz slots, to which several *)
(* threads add under a mutex while others walk it without.  A reader sees  *)
(* the containers that are linked, the size, and slots that may still be   *)
(* empty; Add writes a slot and the size in one statement, so a reader may *)
(* see either first.                                                       *)
(***************************************************************************)
EXTENDS Integers, Sequences

CONSTANTS
  cont_sz,     \* slots of a container
  EMPTY        \* a slot nothing was written to

ASSUME ChainAssumption == cont_sz \in Nat \ {0}

VARIABLES
  containers,  \* the containers, each a function from 0 .. cont_sz - 1
  linked,      \* how many of them can be reached from First
  chainSize,   \* size
  chainCs,     \* the mutex is held
  added        \* history: what was added, in the order of the Adds

chainVars == <<containers, linked, chainSize, chainCs, added>>

Container == [i \in 0 .. cont_sz - 1 |-> EMPTY]

ChainInit == containers = <<>> /\ linked = 0 /\ chainSize = 0 /\ chainCs = FALSE /\ added = <<>>

(* Add: a new container if the last is full, linked to it at once; the     *)
(* first container becomes First at the end.                               *)
Add ==
  /\ ~chainCs
  /\ chainCs' = TRUE
  /\ IF Len(containers) * cont_sz = chainSize
     THEN /\ containers' = Append(containers, Container)
          /\ linked' = IF containers = <<>> THEN 0 ELSE linked + 1
     ELSE UNCHANGED <<containers, linked>>
  /\ UNCHANGED <<chainSize, added>>

Slot_Next(n) == n % cont_sz

Slot(n) == (n - 1) % cont_sz

(* Data[size++ % cont_sz] = data, n being the size afterwards.             *)
PutData(data, n) ==
  /\ containers' = [containers EXCEPT ![Len(containers)][Slot(n)] = data]
  /\ UNCHANGED <<linked, chainSize, chainCs, added>>

PutSize(n) ==
  /\ chainSize' = n
  /\ UNCHANGED <<containers, linked, chainCs, added>>

AddDone(data) ==
  /\ linked' = Len(containers) /\ chainCs' = FALSE
  /\ added' = Append(added, data)
  /\ UNCHANGED <<containers, chainSize>>

(* operator[]: index / cont_sz links from First.                           *)
At(index) == containers[(index \div cont_sz) + 1][index % cont_sz]

(* Outside an Add the chain is the list of what was added, in that order,  *)
(* at the indexes operator[] finds them; during one, it is but for the     *)
(* slot that is being written.                                             *)
ChainIsList ==
  /\ \A i \in DOMAIN added : i <= chainSize /\ (i - 1) \div cont_sz < linked /\ At(i - 1) = added[i]
  /\ ~chainCs => chainSize = Len(added)
===============================================================================
