------------------------------- MODULE VoxTimeMap -------------------------------
(***************************************************************************)
(* voxtimemap (Ext/voxtimemap.h), a map whose entries live for a number of *)
(* seconds after their last use, and the thread that sweeps it.  Add holds *)
(* the mutex, the sweep holds the mutex, Get does not.                     *)
(*                                                                         *)
(* Time is kept relative: an entry has the seconds that are left to it,    *)
(* negative once it has expired.  A call on the std::map is one step; that *)
(* Get's calls race with the sweep's is undefined behaviour in the code,   *)
(* and what is modelled is its mildest outcome, some order of the calls.   *)
(*                                                                         *)
(* A definition named Op_Fault is not the code: it is Op with one mistake, *)
(* named after it, that a property must notice.                            *)
(***************************************************************************)
EXTENDS Integers

CONSTANTS
  Keys, Vals,
  Users,     \* the threads that call Add and Get
  timepp,    \* lifetime of an entry, in seconds
  checkt,    \* what the constructor is told to check after
  Default,   \* the value-initialised N that operator[] inserts
  NULL

Entry == [left : -(timepp + 3) .. timepp, val : Vals \cup {Default}]

ASSUME TimeAssumption ==
  /\ timepp \in Nat \ {0} /\ checkt \in Nat \ {0}
  /\ Default \notin Vals /\ "sweep" \notin Users
  /\ NULL \notin Keys \cup Users \cup Vals \cup Entry \cup {Default, "sweep"}

VARIABLES
  Data,     \* an entry for each key, or NULL
  cs,       \* who holds the mutex
  upc,      \* where each user is: "idle", in Add or in Get
  key,      \* the key it asks for
  rs,       \* the value it adds, or the one Get found
  added,    \* history: seconds since Add last wrote the key, capped
  spc,      \* where the sweep is
  nap,      \* seconds it has still to sleep
  todo,     \* the keys its iterator has not reached
  spot      \* the key its iterator is at

vars == <<Data, cs, upc, key, rs, added, spc, nap, todo, spot>>

(* An entry that operator[] had to insert: its time is 0, long ago.        *)
Blank     == [left |-> -1, val |-> Default]
Slot(k)   == IF Data[k] = NULL THEN Blank ELSE Data[k]

(* Every variable has its type, and the mutex is held where the code says. *)
TypeOK ==
  /\ Data \in [Keys -> Entry \cup {NULL}]
  /\ cs \in Users \cup {NULL, "sweep"}
  /\ upc \in [Users -> {"idle", "lock", "put", "unlock", "touch", "read"}]
  /\ key \in [Users -> Keys \cup {NULL}] /\ rs \in [Users -> Vals \cup {Default, NULL}]
  /\ added \in [Keys -> 0 .. timepp + 1]
  /\ spc \in {"sleep", "lock", "scan", "erase"} /\ nap \in 0 .. timepp
  /\ todo \subseteq Keys /\ spot \in Keys \cup {NULL}
  /\ \A u \in Users : cs = u <=> upc[u] \in {"put", "unlock"}
  /\ cs = "sweep" <=> spc \in {"scan", "erase"}

Init ==
  /\ Data = [k \in Keys |-> NULL] /\ cs = NULL
  /\ upc = [u \in Users |-> "idle"] /\ key = [u \in Users |-> NULL]
  /\ rs = [u \in Users |-> NULL]
  /\ added = [k \in Keys |-> timepp + 1]
  /\ spc = "sleep" /\ nap = timepp /\ todo = {} /\ spot = NULL

-----------------------------------------------------------------------------
(* Add.                                                                    *)
Add(u, k, v) ==
  /\ upc[u] = "idle"
  /\ upc' = [upc EXCEPT ![u] = "lock"]
  /\ key' = [key EXCEPT ![u] = k] /\ rs' = [rs EXCEPT ![u] = v]
  /\ UNCHANGED <<Data, cs, added, spc, nap, todo, spot>>

AddLock(u) ==
  /\ upc[u] = "lock"
  /\ cs = NULL
  /\ cs' = u
  /\ upc' = [upc EXCEPT ![u] = "put"]
  /\ UNCHANGED <<Data, key, rs, added, spc, nap, todo, spot>>

AddPut(u) ==
  /\ upc[u] = "put"
  /\ Data' = [Data EXCEPT ![key[u]] = [left |-> timepp, val |-> rs[u]]]
  /\ added' = [added EXCEPT ![key[u]] = 0]
  /\ upc' = [upc EXCEPT ![u] = "unlock"]
  /\ UNCHANGED <<cs, key, rs, spc, nap, todo, spot>>

AddUnlock(u) ==
  /\ upc[u] = "unlock"
  /\ cs' = NULL
  /\ upc' = [upc EXCEPT ![u] = "idle"]
  /\ key' = [key EXCEPT ![u] = NULL] /\ rs' = [rs EXCEPT ![u] = NULL]
  /\ UNCHANGED <<Data, added, spc, nap, todo, spot>>

(* Get: count, then operator[] to refresh the entry, then operator[] to    *)
(* read it, each of which inserts an entry if there is none.               *)
Get(u, k) ==
  /\ upc[u] = "idle"
  /\ rs' = [rs EXCEPT ![u] = NULL]
  /\ IF Data[k] = NULL
     THEN UNCHANGED <<upc, key>>
     ELSE /\ upc' = [upc EXCEPT ![u] = "touch"]
          /\ key' = [key EXCEPT ![u] = k]
  /\ UNCHANGED <<Data, cs, added, spc, nap, todo, spot>>

GetTouch(u) ==
  /\ upc[u] = "touch"
  /\ Data' = [Data EXCEPT ![key[u]] = [Slot(key[u]) EXCEPT !.left = timepp]]
  /\ upc' = [upc EXCEPT ![u] = "read"]
  /\ UNCHANGED <<cs, key, rs, added, spc, nap, todo, spot>>

GetRead(u) ==
  /\ upc[u] = "read"
  /\ Data' = [Data EXCEPT ![key[u]] = Slot(key[u])]
  /\ rs' = [rs EXCEPT ![u] = Slot(key[u]).val]
  /\ upc' = [upc EXCEPT ![u] = "idle"]
  /\ key' = [key EXCEPT ![u] = NULL]
  /\ UNCHANGED <<cs, added, spc, nap, todo, spot>>

-----------------------------------------------------------------------------
(* MapWorker: sleep for a lifetime, then go over the map with the mutex.   *)
Wake ==
  /\ spc = "sleep" /\ nap = 0
  /\ spc' = "lock"
  /\ UNCHANGED <<Data, cs, upc, key, rs, added, nap, todo, spot>>

SweepLock ==
  /\ spc = "lock"
  /\ cs = NULL
  /\ cs' = "sweep"
  /\ spc' = "scan" /\ todo' = Keys
  /\ UNCHANGED <<Data, upc, key, rs, added, nap, spot>>

Expired_Never(k) == FALSE

Expired_Early(k) == Data[k].left <= 0

Expired(k) == Data[k].left < 0

(* The iterator comes to an entry, in whatever order the keys have, and    *)
(* compares its time.                                                      *)
Compare(k) ==
  /\ spc = "scan" /\ k \in todo
  /\ todo' = todo \ {k}
  /\ IF Data[k] # NULL /\ Expired(k) THEN spc' = "erase" /\ spot' = k
                                     ELSE UNCHANGED <<spc, spot>>
  /\ UNCHANGED <<Data, cs, upc, key, rs, added, nap>>

Erase ==
  /\ spc = "erase"
  /\ Data' = [Data EXCEPT ![spot] = NULL]
  /\ spc' = "scan" /\ spot' = NULL
  /\ UNCHANGED <<cs, upc, key, rs, added, nap, todo>>

SweepUnlock ==
  /\ spc = "scan" /\ todo = {}
  /\ cs' = NULL
  /\ spc' = "sleep" /\ nap' = timepp
  /\ UNCHANGED <<Data, upc, key, rs, added, todo, spot>>

(* A second goes by.                                                       *)
Later(n) == IF n > -(timepp + 3) THEN n - 1 ELSE n
Older(n) == IF n > timepp THEN n ELSE n + 1

Tick ==
  /\ Data' = [k \in Keys |-> IF Data[k] = NULL THEN NULL
                                               ELSE [Data[k] EXCEPT !.left = Later(@)]]
  /\ added' = [k \in Keys |-> Older(added[k])]
  /\ nap' = IF nap = 0 THEN 0 ELSE nap - 1
  /\ UNCHANGED <<cs, upc, key, rs, spc, todo, spot>>

-----------------------------------------------------------------------------
Continue(u) == AddLock(u) \/ AddPut(u) \/ AddUnlock(u) \/ GetTouch(u) \/ GetRead(u)

User(u) ==
  \/ \E k \in Keys : Get(u, k) \/ \E v \in Vals : Add(u, k, v)
  \/ Continue(u)

MapWorker == Wake \/ SweepLock \/ (\E k \in Keys : Compare(k)) \/ Erase \/ SweepUnlock

Next == (\E u \in Users : User(u)) \/ MapWorker \/ Tick

Spec == Init /\ [][Next]_vars

(* Time passes, a call that was made goes on, and the sweep gets the mutex *)
(* sooner or later though others keep taking it.                           *)
FairSpec ==
  /\ Spec
  /\ WF_vars(Tick) /\ WF_vars(MapWorker) /\ SF_vars(SweepLock)
  /\ \A u \in Users : WF_vars(Continue(u)) /\ SF_vars(AddLock(u))

-----------------------------------------------------------------------------
(* An entry that was added is there for its lifetime: the sweep erases no  *)
(* entry that Add wrote within the last timepp seconds, whatever it saw    *)
(* when it compared.                                                       *)
AddedKept == [][\A k \in Keys : Data[k] # NULL /\ Data'[k] = NULL => added[k] > timepp]_vars

(* The map does not grow without end: an entry nobody uses any more is     *)
(* swept.                                                                  *)
Swept == \A k \in Keys : []<>(Data[k] = NULL \/ Data[k].left = timepp)
===============================================================================
