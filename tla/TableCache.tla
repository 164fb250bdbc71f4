------------------------------ MODULE TableCache ------------------------------
(***************************************************************************)
(* The tables the macros of DataFileStorage.h generate: a DataFileStorage  *)
(* and a voxchain of the rows that were read.  GetByID walks the chain     *)
(* without a lock; if the row is not there it loads the record and adds a  *)
(* row for it.                                                             *)
(***************************************************************************)
EXTENDS DataFileStorage, VoxChain

CONSTANT Getters   \* the callers that use GetByID

Rows == [ID : Nat, Data : Objects \cup {NULL}]

ASSUME TableAssumption == Getters \subseteq Callers /\ EMPTY \notin Rows

VARIABLE want      \* each caller: its call of GetByID, or NULL

tableVars == <<want, chainVars>>
allVars   == <<vars, tableVars>>

TableInit == Init /\ ChainInit /\ want = [c \in Callers |-> NULL]

Row(id, data) == [ID |-> id, Data |-> data]

Calls(id, listed) ==
  [id |-> id, do |-> "scan", item |-> 1, SZ |-> chainSize, listed |-> listed, Data |-> NULL]

Listed(id) == \E i \in DOMAIN added : added[i].ID = id

-----------------------------------------------------------------------------
(* GetByID notes the first container and the size; whether the row was in  *)
(* the chain then is history.                                              *)
GetByID(c) ==
  /\ cpc[c] = "idle" /\ want[c] = NULL /\ c \in Getters
  /\ \E id \in 0 .. FileSz : want' = [want EXCEPT ![c] = Calls(id, Listed(id))]
  /\ UNCHANGED <<vars, chainVars>>

(* It looks into one container after the other, at no more slots than the  *)
(* size says, and skips the empty ones; then it turns to the file.         *)
Seen_OneLess(n, SZ) ==
  { containers[n][i] : i \in { i \in 0 .. cont_sz - 1 : i < SZ - 1 } } \ {EMPTY}

Seen(n, SZ) ==
  { containers[n][i] : i \in { i \in 0 .. cont_sz - 1 : i < SZ } } \ {EMPTY}

Further(w) == [w EXCEPT !.item = @ + 1, !.SZ = @ - cont_sz]

Scan(c) ==
  /\ want[c] # NULL /\ want[c].do = "scan"
  /\ want' = [want EXCEPT ![c] =
       IF want[c].item > linked THEN [@ EXCEPT !.do = "load"]
       ELSE IF \E r \in Seen(want[c].item, want[c].SZ) : r.ID = want[c].id THEN NULL
       ELSE Further(@)]
  /\ UNCHANGED <<vars, chainVars>>

LoadRow(c) ==
  /\ want[c] # NULL /\ want[c].do = "load"
  /\ Load(c) /\ call'[c] = Span(want[c].id, want[c].id)
  /\ want' = [want EXCEPT ![c].do = "read"]
  /\ UNCHANGED chainVars

(* The record becomes a row, or GetByID returns 0.                         *)
ReadRow(c) ==
  /\ want[c] # NULL /\ LoadRead(c)
  /\ want' = [want EXCEPT ![c] = IF pos < Len(file) THEN [@ EXCEPT !.do = "add", !.Data = file[pos + 1]]
                                 ELSE NULL]
  /\ UNCHANGED chainVars

AddRow(c) ==
  /\ want[c] # NULL
  /\ LET row == Row(want[c].id, want[c].Data)
         n   == Len(added) + 1
         to(do) == want' = [want EXCEPT ![c].do = do]
     IN  \/ want[c].do = "add" /\ Add /\ to("put")
         \/ want[c].do = "put" /\ PutData(row, n) /\ to("size")
         \/ want[c].do = "put" /\ PutSize(n) /\ to("data")
         \/ want[c].do = "data" /\ PutData(row, n) /\ to("done")
         \/ want[c].do = "size" /\ PutSize(n) /\ to("done")
         \/ want[c].do = "done" /\ AddDone(row) /\ want' = [want EXCEPT ![c] = NULL]
  /\ UNCHANGED vars

-----------------------------------------------------------------------------
(* DBINSERT and the setters store a copy for FileWorker to delete.         *)
Store(c) ==
  /\ want[c] = NULL
  /\ (Insert(c) \/ Update(c)) /\ call'[c].Destroy
  /\ UNCHANGED tableVars

GoOn(c) ==
  \/ (Grow(c) \/ Push(c) \/ LoadSeek(c)) /\ UNCHANGED tableVars
  \/ ReadRow(c)

Killed ==
  /\ Crash
  /\ containers' = <<>> /\ linked' = 0 /\ chainSize' = 0 /\ chainCs' = FALSE /\ added' = <<>>
  /\ want' = [c \in Callers |-> NULL]

TableNext ==
  \/ FileWorker /\ UNCHANGED tableVars
  \/ \E c \in Callers : GetByID(c) \/ Scan(c) \/ LoadRow(c) \/ AddRow(c) \/ Store(c) \/ GoOn(c)
  \/ Killed

TableSpec == TableInit /\ [][TableNext]_allVars

-----------------------------------------------------------------------------
(* GetByID never makes a second object of a row that was in the chain when *)
(* it began to look, however the walk without a lock meets the Adds of     *)
(* others.  (Two that begin before the first one is added make two.)       *)
NoSecondRow == \A c \in Getters : want[c] # NULL /\ want[c].do # "scan" => ~want[c].listed
===============================================================================
