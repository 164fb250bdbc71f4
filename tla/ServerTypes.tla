------------------------------ MODULE ServerTypes ------------------------------
(***************************************************************************)
(* A machine-checked proof that every variable of the server keeps its     *)
(* type, for any connections, workers, clients and bounds: no packet runs  *)
(* past its answer, no buffer holds less than nothing, and a thread that   *)
(* works on a connection has one.                                          *)
(***************************************************************************)
EXTENDS Server, SequenceTheorems, TLAPS

(* What is to be sent of an answer is at least one unit of it.             *)
Packed == { p \in Packets : p.lo <= p.hi }

Sends ==
  /\ \A c \in Conns : SendQueue[c] \in Seq(Packed)
  /\ \A w \in Workers : outbox[w] \in Seq(Packed)
  /\ \A w \in Workers : wpc[w] \in {"direct", "push"} => outbox[w] # <<>>

(* A thread that is at a connection has one.                               *)
Places ==
  /\ \A w \in Workers : wpc[w] # "idle" => on[w] \in Conns
  /\ epc \in {"test", "read", "job", "out", "outmod", "disconnect", "reap"} => cur \in Conns
  /\ \A e \in events : e = Listener \/ e.con \in Conns

(* A client has sent at most MaxRequests requests, and some if it is in    *)
(* the middle of one.                                                      *)
Counts ==
  /\ \A c \in Conns : Len(asked[c]) <= MaxRequests
  /\ \A c \in Conns : half[c] => asked[c] # <<>>

TypeInv == TypeOK /\ Sends /\ Places /\ Counts

-----------------------------------------------------------------------------
(* The constants.                                                          *)
LEMMA Constants ==
  /\ NULL \notin Conns /\ NULL \notin Workers
  /\ SiteOf \in [Asks -> Sites \cup {NULL}] /\ MaxRequests \in Nat \ {0}
  /\ MaxParts \in Nat /\ Room \in Nat \ {0} /\ Backpressure \in BOOLEAN
  BY ConnectionAssumption, WorkersAssumption DEF ConnectionAssumption, WorkersAssumption

(* What sendall takes of a packet.                                         *)
LEMMA TakenOfPacket ==
  ASSUME TypeInv, NEW c \in Conns, NEW p \in Packed
  PROVE  /\ Taken(c, p) \in Nat /\ p.lo + Taken(c, p) - 1 <= 4
         /\ sendall(c, p) # "err" /\ Backpressure => Taken(c, p) <= room[c]
         /\ sendall(c, p) = "full" => Rest(c, p) \in Packed
<1>1. room[c] \in 0 .. Room /\ room[c] \in Nat
  BY Constants DEF TypeInv, TypeOK, ConnTypeOK
<1>2. /\ p \in Packets /\ p.req \in 1 .. MaxRequests /\ p.lo \in 1 .. 5 /\ p.hi \in 1 .. 4
      /\ p.lo <= p.hi
  BY DEF Packed, Packets
<1>3. Size(p) = p.hi - p.lo + 1 /\ Size(p) \in Nat
  BY <1>2 DEF Size
<1>4. CASE sendall(c, p) = "full"
  <2>1. Taken(c, p) = room[c] /\ room[c] < Size(p)
    <3>1. Size(p) > room[c]
      BY <1>4 DEF sendall
    <3> QED
      BY <3>1, <1>1, <1>3, <1>4 DEF Taken
  <2>2. Rest(c, p) = [p EXCEPT !.lo = p.lo + room[c]]
    BY <2>1 DEF Rest
  <2>3. p.lo + room[c] \in 1 .. 5 /\ p.lo + room[c] <= p.hi
    BY <2>1, <1>1, <1>2, <1>3
  <2>4. Rest(c, p) \in Packets /\ Rest(c, p).lo = p.lo + room[c] /\ Rest(c, p).hi = p.hi
    BY <2>2, <2>3, <1>2 DEF Packets
  <2> QED
    BY <2>1, <2>3, <2>4, <1>1, <1>2, <1>3 DEF Packed
<1>5. CASE sendall(c, p) # "full"
  <2>1. Taken(c, p) = Size(p)
    BY <1>5 DEF Taken
  <2>2. sendall(c, p) # "err" /\ Backpressure => Size(p) <= room[c]
    BY <1>1, <1>3, <1>5 DEF sendall
  <2> QED
    BY <2>1, <2>2, <1>2, <1>3, <1>5
<1> QED
  BY <1>4, <1>5

(* What has gone out, and the room there is, after it.                     *)
LEMMA DeliverTypes ==
  ASSUME TypeInv, NEW c \in Conns, NEW p \in Packed, Deliver(c, p), sendall(c, p) # "err"
  PROVE  /\ wire' \in [Conns -> Seq((1 .. MaxRequests) \X (1 .. 4))]
         /\ room' \in [Conns -> 0 .. Room]
<1> DEFINE n     == Taken(c, p)
           units == [k \in 1 .. n |-> <<p.req, p.lo + k - 1>>]
           Unit  == (1 .. MaxRequests) \X (1 .. 4)
<1>1. n \in Nat /\ p.lo + n - 1 <= 4 /\ (Backpressure => n <= room[c])
  BY TakenOfPacket
<1>2. p.req \in 1 .. MaxRequests /\ p.lo \in 1 .. 5
  BY DEF Packed, Packets
<1>3. room[c] \in 0 .. Room /\ Room \in Nat /\ room \in [Conns -> 0 .. Room]
      /\ wire \in [Conns -> Seq(Unit)]
  BY Constants DEF TypeInv, TypeOK, ConnTypeOK
<1>4. /\ wire' = [wire EXCEPT ![c] = wire[c] \o units]
      /\ room' = IF Backpressure THEN [room EXCEPT ![c] = room[c] - n] ELSE room
  BY DEF Deliver
<1> HIDE DEF n
<1>5. ASSUME NEW k \in 1 .. n
      PROVE  <<p.req, p.lo + k - 1>> \in Unit
  BY <1>1, <1>2
<1> HIDE DEF Unit
<1>6. units \in Seq(Unit)
  BY <1>1, <1>5
<1> HIDE DEF units
<1>7. wire[c] \o units \in Seq(Unit)
  BY <1>3, <1>6
<1>8. Backpressure => room[c] - n \in 0 .. Room
  BY <1>1, <1>3
<1> QED
  BY <1>3, <1>4, <1>7, <1>8 DEF Unit

-----------------------------------------------------------------------------
(* The workers' steps.  Each lemma is about the variables the step changes.*)
LEMMA GotoTypes ==
  ASSUME TypeInv, NEW w \in Workers, NEW pc \in WorkerPCs, Goto(w, pc)
  PROVE  /\ wpc' \in [Workers -> WorkerPCs] /\ wpc'[w] = pc
         /\ \A v \in Workers : v # w => wpc'[v] = wpc[v]
  BY DEF TypeInv, TypeOK, WorkTypeOK, Goto

(* A worker goes to its next place, and has typed what else it changed.    *)
LEMMA StepTypes ==
  ASSUME TypeInv, NEW w \in Workers, NEW pc \in WorkerPCs, Goto(w, pc), wpc[w] # "idle",
         UNCHANGED <<jobs, open, next, epollVars, half, asked>>,
         on' = on \/ (pc = "idle" /\ on' = [on EXCEPT ![w] = NULL]),
         ConnTypeOK', \A c \in Conns : SendQueue'[c] \in Seq(Packed),
         outbox' = outbox \/ (outbox[w] # <<>> /\ outbox' = [outbox EXCEPT ![w] = Tail(@)]),
         pc \in {"direct", "push"} => outbox'[w] # <<>>
  PROVE  TypeInv'
<1>1. /\ wpc' \in [Workers -> WorkerPCs] /\ wpc'[w] = pc
      /\ \A v \in Workers : v # w => wpc'[v] = wpc[v]
  BY GotoTypes
<1>2. /\ outbox' \in [Workers -> Seq(Packets)] /\ \A v \in Workers : outbox'[v] \in Seq(Packed)
      /\ \A v \in Workers : v # w => outbox'[v] = outbox[v]
  <2>1. outbox[w] \in Seq(Packed) /\ outbox[w] \in Seq(Packets)
    BY DEF TypeInv, TypeOK, WorkTypeOK, Sends
  <2>2. outbox[w] # <<>> => Tail(outbox[w]) \in Seq(Packed) /\ Tail(outbox[w]) \in Seq(Packets)
    BY <2>1
  <2> QED
    BY <2>1, <2>2 DEF TypeInv, TypeOK, WorkTypeOK, Sends
<1>3. /\ on' \in [Workers -> Conns \cup {NULL}] /\ (pc # "idle" => on'[w] \in Conns)
      /\ \A v \in Workers : v # w => on'[v] = on[v]
  BY DEF TypeInv, TypeOK, WorkTypeOK, Places
<1>4. EpollTypeOK' /\ half' \in [Conns -> BOOLEAN]
  BY DEF TypeInv, TypeOK, EpollTypeOK, epollVars
<1>5. WorkTypeOK'
  BY <1>1, <1>2, <1>3 DEF TypeInv, TypeOK, WorkTypeOK
<1>6. Sends'
  BY <1>1, <1>2 DEF TypeInv, Sends
<1>7. Places'
  BY <1>1, <1>3 DEF TypeInv, Places, epollVars
<1>8. Counts'
  BY DEF TypeInv, Counts
<1> QED
  BY <1>4, <1>5, <1>6, <1>7, <1>8 DEF TypeInv, TypeOK

(* The connection's variables are as before.                               *)
LEMMA SameTypes ==
  ASSUME TypeInv, UNCHANGED connVars
  PROVE  ConnTypeOK' /\ UNCHANGED asked /\ \A c \in Conns : SendQueue'[c] \in Seq(Packed)
  BY DEF TypeInv, TypeOK, ConnTypeOK, Sends, connVars

(* A worker that takes a job keeps the types.                              *)
LEMMA TakeJobTypes ==
  ASSUME TypeInv, NEW w \in Workers, TakeJob(w), UNCHANGED <<epollVars, half>>
  PROVE  TypeInv'
<1>1. Head(jobs) \in Conns /\ Tail(jobs) \in Seq(Conns)
  BY DEF TakeJob, TypeInv, TypeOK, WorkTypeOK
<1>2. /\ wpc' \in [Workers -> WorkerPCs] /\ wpc'[w] = "build"
      /\ \A v \in Workers : v # w => wpc'[v] = wpc[v]
  BY GotoTypes DEF TakeJob, WorkerPCs
<1>3. /\ on' \in [Workers -> Conns \cup {NULL}] /\ on'[w] \in Conns
      /\ \A v \in Workers : v # w => on'[v] = on[v]
  BY <1>1 DEF TakeJob, TypeInv, TypeOK, WorkTypeOK
<1>4. /\ UNCHANGED <<connVars, open, outbox, next, epollVars, half>> /\ jobs' \in Seq(Conns)
  BY <1>1 DEF TakeJob
<1>5. ConnTypeOK' /\ EpollTypeOK' /\ half' \in [Conns -> BOOLEAN]
  BY <1>4 DEF TypeInv, TypeOK, ConnTypeOK, EpollTypeOK, connVars, epollVars
<1>6. WorkTypeOK'
  BY <1>2, <1>3, <1>4 DEF TypeInv, TypeOK, WorkTypeOK
<1>7. Sends' /\ Counts'
  BY <1>2, <1>4 DEF TypeInv, Sends, Counts, connVars
<1>8. Places'
  BY <1>2, <1>3, <1>4 DEF TypeInv, Places, epollVars
<1> QED
  BY <1>5, <1>6, <1>7, <1>8 DEF TypeInv, TypeOK

(* A worker that parses a request keeps the types.                         *)
LEMMA ParseTypes ==
  ASSUME TypeInv, NEW w \in Workers, Parse(w), UNCHANGED <<epollVars, half>>
  PROVE  TypeInv'
<1> DEFINE c == on[w]
           R == 1 .. MaxRequests
<1>1. wpc[w] = "parse" /\ c \in Conns /\ RevcData[c] \in Seq(Fragments)
  BY DEF Parse, At, TypeInv, TypeOK, ConnTypeOK, Places
<1>2. (IF RevcData[c] = <<>> THEN 1 ELSE RevcData[c][1].req) \in R
  <2>1. 1 \in R
    BY Constants
  <2>2. RevcData[c] # <<>> => RevcData[c][1] \in Fragments
    BY <1>1
  <2> QED
    BY <2>1, <2>2 DEF Fragments
<1>3. ASSUME NEW r \in R, NEW a
      PROVE  Answer(r, a) \in Seq(Packed) /\ Answer(r, a) \in Seq(Packets)
  <2>1. [req |-> r, lo |-> 1, hi |-> 2] \in Packed /\ [req |-> r, lo |-> 3, hi |-> 4] \in Packed
    BY DEF Packed, Packets
  <2>2. Packed \subseteq Packets
    BY DEF Packed
  <2> QED
    BY <2>1, <2>2 DEF Answer
<1>4. PICK r \in R, out \in Seq(Packed) \cap Seq(Packets), to \in {"end", "bad", "kill"},
           site \in Sites \cup {NULL} :
        /\ ConnectedTo' \in {ConnectedTo, [ConnectedTo EXCEPT ![c] = site]}
        /\ handled' = [handled EXCEPT ![c] = Append(@, r)]
        /\ outbox' = [outbox EXCEPT ![w] = out] /\ next' = [next EXCEPT ![w] = to]
  <2> DEFINE buf  == RevcData[c]
             ask  == IF Finished(buf) THEN First(buf, asked[c]) ELSE "bad"
             q    == IF buf = <<>> THEN 1 ELSE buf[1].req
             site == IF ask \in Asks THEN SiteOf[ask] ELSE NULL
             far  == ask # "bad" /\ ConnectedTo[c] \notin {NULL, site}
  <2>1. site \in Sites \cup {NULL}
    BY Constants
  <2>2. q \in R
    BY <1>2
  <2>3. Answer(q, IF far THEN "bad" ELSE ask) \in Seq(Packed) \cap Seq(Packets)
    BY <2>2, <1>3
  <2>4. /\ ConnectedTo' = IF ask = "bad" \/ far THEN ConnectedTo
                                               ELSE [ConnectedTo EXCEPT ![c] = site]
        /\ handled' = [handled EXCEPT ![c] = Append(@, q)]
        /\ outbox' = [outbox EXCEPT ![w] = Answer(q, IF far THEN "bad" ELSE ask)]
        /\ next' = [next EXCEPT ![w] = IF far THEN "kill"
                                        ELSE IF ask \in {"bad", "dots"} THEN "bad" ELSE "end"]
    BY DEF Parse
  <2> HIDE DEF buf, ask, q, site, far
  <2> QED
    BY <2>1, <2>2, <2>3, <2>4
<1>5. /\ wpc' \in [Workers -> WorkerPCs] /\ wpc'[w] = "send"
      /\ \A v \in Workers : v # w => wpc'[v] = wpc[v]
  BY GotoTypes DEF Parse, WorkerPCs
<1>6. UNCHANGED <<mem, Connected, Processing, RevcData, SendQueue, kernelVars, asked, wire,
                  notified, jobs, open, on, epollVars, half>>
  BY DEF Parse
<1>7. ConnectedTo' \in [Conns -> Sites \cup {NULL}] /\ handled' \in [Conns -> Seq(R)]
  <2>1. Append(handled[c], r) \in Seq(R)
    BY <1>1 DEF TypeInv, TypeOK, ConnTypeOK
  <2> QED
    BY <2>1, <1>4 DEF TypeInv, TypeOK, ConnTypeOK
<1>8. ConnTypeOK' /\ EpollTypeOK' /\ half' \in [Conns -> BOOLEAN]
  BY <1>6, <1>7 DEF TypeInv, TypeOK, ConnTypeOK, EpollTypeOK, kernelVars, epollVars
<1>9. WorkTypeOK'
  BY <1>4, <1>5, <1>6 DEF TypeInv, TypeOK, WorkTypeOK
<1>10. Sends'
  <2>1. outbox'[w] = out /\ \A v \in Workers : v # w => outbox'[v] = outbox[v]
    BY <1>4 DEF TypeInv, TypeOK, WorkTypeOK
  <2> QED
    BY <2>1, <1>5, <1>6 DEF TypeInv, Sends
<1>11. Places' /\ Counts'
  BY <1>1, <1>5, <1>6 DEF TypeInv, Places, Counts, epollVars
<1> QED
  BY <1>8, <1>9, <1>10, <1>11 DEF TypeInv, TypeOK

(* Dropping and deleting a connection, and telling the site.               *)
LEMMA DropTypes ==
  ASSUME TypeInv, NEW c \in Conns, Drop(c)
  PROVE  /\ Connected' \in [Conns -> BOOLEAN] /\ sock' \in [Conns -> BOOLEAN]
         /\ poll' \in [Conns -> {"none", "IN", "OUT"}]
  BY DEF Drop, CloseSocket, TypeInv, TypeOK, ConnTypeOK

(* A connection deleted keeps its fields typed.                            *)
LEMMA DeleteTypes ==
  ASSUME TypeInv, NEW c \in Conns, Delete(c)
  PROVE  /\ mem' \in [Conns -> {"none", "live", "freed"}] /\ sock' \in [Conns -> BOOLEAN]
         /\ poll' \in [Conns -> {"none", "IN", "OUT"}] /\ RevcData' \in [Conns -> Seq(Fragments)]
         /\ SendQueue' \in [Conns -> Seq(Packets)] /\ \A d \in Conns : SendQueue'[d] \in Seq(Packed)
  BY DEF Delete, CloseSocket, TypeInv, TypeOK, ConnTypeOK, Sends

(* A connection reaped keeps the fields of all typed.                      *)
LEMMA ReapTypes ==
  ASSUME TypeInv, NEW c \in Conns, Reap(c),
         UNCHANGED <<Processing, ConnectedTo, inbox, room, peer, recordVars>>
  PROVE  ConnTypeOK' /\ UNCHANGED asked /\ \A d \in Conns : SendQueue'[d] \in Seq(Packed)
<1>1. CASE Processing[c]
  <2>1. Drop(c) /\ UNCHANGED <<mem, RevcData, SendQueue>>
    BY <1>1 DEF Reap
  <2> QED
    BY <2>1, DropTypes DEF TypeInv, TypeOK, ConnTypeOK, Sends, recordVars
<1>2. CASE ~Processing[c]
  <2>1. Delete(c) /\ UNCHANGED Connected
    BY <1>2 DEF Reap
  <2> QED
    BY <2>1, DeleteTypes DEF TypeInv, TypeOK, ConnTypeOK, recordVars
<1> QED
  BY <1>1, <1>2

(* A connection turned to writing keeps the fields of all typed.           *)
LEMMA NotifyTypes ==
  ASSUME TypeInv, NEW c \in Conns, Notify(c),
         UNCHANGED <<objectVars, kernelVars, asked, wire, handled>>
  PROVE  ConnTypeOK' /\ \A d \in Conns : SendQueue'[d] \in Seq(Packed)
  BY DEF Notify, TypeInv, TypeOK, ConnTypeOK, Sends, objectVars, kernelVars

(* A worker that sends keeps the types.                                    *)
LEMMA SendDirectTypes ==
  ASSUME TypeInv, NEW w \in Workers, SendDirect(w), UNCHANGED <<epollVars, half>>
  PROVE  TypeInv'
<1> DEFINE c == on[w]
           p == Head(outbox[w])
<1>1. wpc[w] = "direct" /\ wpc[w] # "idle" /\ c \in Conns /\ outbox[w] # <<>>
      /\ outbox[w] \in Seq(Packed)
  BY DEF SendDirect, At, TypeInv, Places, Sends
<1>2. p \in Packed
  BY <1>1
<1>3. UNCHANGED <<mem, Processing, RevcData, SendQueue, ConnectedTo, inbox, peer, asked,
                  handled, notified, jobs, open, on, next, epollVars, half>>
  BY DEF SendDirect
<1> HIDE DEF p
<1>4. CASE /\ sendall(c, p) = "ok" /\ Deliver(c, p) /\ outbox' = [outbox EXCEPT ![w] = Tail(@)]
           /\ Goto(w, "send") /\ UNCHANGED <<Connected, sock, poll>>
  <2>1. ConnTypeOK' /\ \A d \in Conns : SendQueue'[d] \in Seq(Packed)
    BY <1>1, <1>2, <1>3, <1>4, DeliverTypes DEF TypeInv, TypeOK, ConnTypeOK, Sends
  <2> QED
    BY <2>1, <1>1, <1>3, <1>4, StepTypes DEF WorkerPCs
<1>5. CASE /\ sendall(c, p) = "full" /\ Deliver(c, p) /\ outbox' = [outbox EXCEPT ![w][1] = Rest(c, p)]
           /\ Goto(w, "push") /\ UNCHANGED <<Connected, sock, poll>>
  <2>1. ConnTypeOK' /\ \A d \in Conns : SendQueue'[d] \in Seq(Packed)
    BY <1>1, <1>2, <1>3, <1>5, DeliverTypes DEF TypeInv, TypeOK, ConnTypeOK, Sends
  <2>2. Rest(c, p) \in Packed /\ Rest(c, p) \in Packets
    BY <1>1, <1>2, <1>5, TakenOfPacket DEF Packed
  <2> DEFINE rest == [outbox[w] EXCEPT ![1] = Rest(c, p)]
  <2>3. rest \in Seq(Packed) /\ rest \in Seq(Packets) /\ rest # <<>>
    <3>1. outbox[w] \in Seq(Packets) /\ 1 \in DOMAIN outbox[w]
      BY <1>1 DEF TypeInv, TypeOK, WorkTypeOK
    <3> QED
      BY <3>1, <2>2, <1>1
  <2>4. outbox' = [outbox EXCEPT ![w] = rest]
    BY <1>5
  <2> HIDE DEF rest
  <2>5. /\ outbox' \in [Workers -> Seq(Packets)] /\ outbox'[w] = rest
        /\ \A v \in Workers : v # w => outbox'[v] = outbox[v]
    BY <2>3, <2>4 DEF TypeInv, TypeOK, WorkTypeOK
  <2>6. /\ wpc' \in [Workers -> WorkerPCs] /\ wpc'[w] = "push"
        /\ \A v \in Workers : v # w => wpc'[v] = wpc[v]
    BY <1>5, GotoTypes DEF WorkerPCs
  <2>7. WorkTypeOK' /\ EpollTypeOK' /\ half' \in [Conns -> BOOLEAN]
    BY <1>3, <2>5, <2>6 DEF TypeInv, TypeOK, WorkTypeOK, EpollTypeOK, epollVars
  <2>8. Sends'
    BY <2>1, <2>3, <2>5, <2>6 DEF TypeInv, Sends
  <2>9. Places' /\ Counts'
    BY <1>1, <1>3, <2>6 DEF TypeInv, Places, Counts, epollVars
  <2> QED
    BY <2>1, <2>7, <2>8, <2>9 DEF TypeInv, TypeOK
<1>6. CASE /\ Drop(c) /\ outbox' = [outbox EXCEPT ![w] = Tail(@)] /\ Goto(w, "send")
           /\ UNCHANGED <<wire, room>>
  <2>1. ConnTypeOK' /\ \A d \in Conns : SendQueue'[d] \in Seq(Packed)
    BY <1>1, <1>3, <1>6, DropTypes DEF TypeInv, TypeOK, ConnTypeOK, Sends
  <2> QED
    BY <2>1, <1>1, <1>3, <1>6, StepTypes DEF WorkerPCs
<1> QED
  BY <1>4, <1>5, <1>6 DEF SendDirect, p

(* A step of a worker keeps the types.                                     *)
LEMMA WorkerTypes ==
  ASSUME TypeInv, NEW w \in Workers, Worker(w)
  PROVE  TypeInv'
<1> USE DEF WorkerPCs
<1>1. UNCHANGED <<epollVars, half>>
  BY DEF Worker
<1>2. wpc[w] # "idle" => /\ on[w] \in Conns
                         /\ \A c \in Conns : SendQueue[c] \in Seq(Packed)
  BY DEF TypeInv, Places, Sends
<1>3. CASE Build(w) \/ Partial(w) \/ Send(w) \/ End(w)
  <2>1. UNCHANGED <<connVars, jobs, open, on, next>> /\ wpc[w] # "idle"
    BY <1>3 DEF Build, Partial, Send, End, At
  <2>2. ConnTypeOK' /\ UNCHANGED asked /\ \A c \in Conns : SendQueue'[c] \in Seq(Packed)
    BY <2>1, SameTypes
  <2>3. CASE Build(w)
    <3>1. PICK pc \in {"clear", "parse", "partial"} : Goto(w, pc)
      BY <2>3 DEF Build
    <3> QED
      BY <1>1, <2>1, <2>2, <2>3, <3>1, StepTypes DEF Build
  <2>4. CASE Partial(w)
    <3>1. PICK pc \in {"park", "clear"} : Goto(w, pc)
      BY <2>4 DEF Partial
    <3> QED
      BY <1>1, <2>1, <2>2, <2>4, <3>1, StepTypes DEF Partial
  <2>5. CASE Send(w)
    <3>1. CASE Connected[on[w]]
      <4>1. PICK pc \in {"direct", "push"} : Goto(w, pc)
        BY <2>5, <3>1 DEF Send
      <4> QED
        BY <1>1, <2>1, <2>2, <2>5, <3>1, <4>1, StepTypes DEF Send
    <3>2. CASE ~Connected[on[w]]
      <4>1. Goto(w, "send")
        BY <2>5, <3>2 DEF Send, At, Goto, TypeInv, TypeOK, WorkTypeOK
      <4> QED
        BY <1>1, <2>1, <2>2, <2>5, <3>2, <4>1, StepTypes DEF Send
    <3> QED
      BY <3>1, <3>2
  <2>6. CASE End(w)
    <3>1. PICK pc \in {"reset", "delete"} : Goto(w, pc)
      BY <2>6 DEF End
    <3> QED
      BY <1>1, <2>1, <2>2, <2>6, <3>1, StepTypes DEF End
  <2> QED
    BY <1>3, <2>3, <2>4, <2>5, <2>6
<1>4. CASE PushPacket(w)
  <2>1. /\ wpc[w] # "idle" /\ on[w] \in Conns /\ outbox[w] # <<>>
        /\ outbox[w] \in Seq(Packed)
    BY <1>4 DEF PushPacket, At, TypeInv, Places, Sends
  <2>2. Head(outbox[w]) \in Packed /\ Packed \subseteq Packets
    BY <2>1 DEF Packed
  <2>3. /\ Append(SendQueue[on[w]], Head(outbox[w])) \in Seq(Packed)
        /\ Append(SendQueue[on[w]], Head(outbox[w])) \in Seq(Packets)
    BY <2>1, <2>2 DEF TypeInv, TypeOK, ConnTypeOK, Sends
  <2>4. ConnTypeOK' /\ \A c \in Conns : SendQueue'[c] \in Seq(Packed)
    BY <2>1, <2>3, <1>4 DEF PushPacket, TypeInv, TypeOK, ConnTypeOK, Sends, kernelVars, recordVars
  <2> QED
    BY <1>1, <1>4, <2>1, <2>4, StepTypes DEF PushPacket, recordVars
<1>5. CASE WatchOutput(w)
  <2>1. ConnTypeOK' /\ \A c \in Conns : SendQueue'[c] \in Seq(Packed)
    BY <1>2, <1>5 DEF WatchOutput, At, ChangePollState, TypeInv, TypeOK, ConnTypeOK, Sends,
                      objectVars, recordVars
  <2> QED
    BY <1>1, <1>5, <2>1, StepTypes DEF WatchOutput, At, recordVars
<1>6. CASE Handled(w)
  <2>1. wpc[w] # "idle" /\ on[w] \in Conns
    BY <1>2, <1>6 DEF Handled, At
  <2>2. /\ Connected' \in [Conns -> BOOLEAN] /\ sock' \in [Conns -> BOOLEAN]
        /\ poll' \in [Conns -> {"none", "IN", "OUT"}]
    BY <1>6, <2>1, DropTypes DEF Handled, TypeInv, TypeOK, ConnTypeOK
  <2>3. ConnTypeOK' /\ \A c \in Conns : SendQueue'[c] \in Seq(Packed)
    BY <1>6, <2>2 DEF Handled, TypeInv, TypeOK, ConnTypeOK, Sends, recordVars
  <2>4. PICK pc \in {"clear", "end"} : Goto(w, pc)
    BY <1>6 DEF Handled
  <2> QED
    BY <1>1, <1>6, <2>1, <2>3, <2>4, StepTypes DEF Handled, recordVars
<1>7. CASE WaitForRequest(w)
  <2>1. ConnTypeOK' /\ \A c \in Conns : SendQueue'[c] \in Seq(Packed)
    BY <1>2, <1>7 DEF WaitForRequest, At, TypeInv, TypeOK, ConnTypeOK, Sends, kernelVars, recordVars
  <2> QED
    BY <1>1, <1>7, <2>1, StepTypes DEF WaitForRequest, At, recordVars
<1>8. CASE Park(w)
  <2>1. wpc[w] # "idle" /\ on[w] \in Conns
    BY <1>2, <1>8 DEF Park, At
  <2>2. Processing' \in [Conns -> BOOLEAN]
    BY <1>8, <2>1 DEF Park, WaitForPacket, TypeInv, TypeOK, ConnTypeOK
  <2>3. ConnTypeOK' /\ \A c \in Conns : SendQueue'[c] \in Seq(Packed)
    BY <2>2, <1>8 DEF Park, TypeInv, TypeOK, ConnTypeOK, Sends, kernelVars, recordVars
  <2> QED
    BY <1>1, <1>8, <2>1, <2>3, StepTypes DEF Park, Return, recordVars
<1>9. CASE DeleteClient(w)
  <2>1. wpc[w] # "idle" /\ on[w] \in Conns
    BY <1>2, <1>9 DEF DeleteClient, At
  <2>2. ConnTypeOK' /\ \A c \in Conns : SendQueue'[c] \in Seq(Packed)
    BY <2>1, <1>9, DeleteTypes DEF DeleteClient, TypeInv, TypeOK, ConnTypeOK, recordVars
  <2> QED
    BY <1>1, <1>9, <2>1, <2>2, StepTypes DEF DeleteClient, Return, recordVars
<1>10. CASE ClearProcessing(w)
  <2>1. ConnTypeOK' /\ \A c \in Conns : SendQueue'[c] \in Seq(Packed)
    BY <1>2, <1>10 DEF ClearProcessing, At, TypeInv, TypeOK, ConnTypeOK, Sends, kernelVars,
                       recordVars
  <2> QED
    BY <1>1, <1>10, <2>1, StepTypes DEF ClearProcessing, At, recordVars
<1>11. CASE NotifySite(w)
  <2>1. wpc[w] # "idle" /\ on[w] \in Conns
    BY <1>2, <1>11 DEF NotifySite, At
  <2>2. ConnTypeOK' /\ \A c \in Conns : SendQueue'[c] \in Seq(Packed)
    BY <2>1, <1>11, NotifyTypes DEF NotifySite
  <2> QED
    BY <1>1, <1>11, <2>1, <2>2, StepTypes DEF NotifySite
<1>12. CASE ReapClient(w)
  <2>1. wpc[w] # "idle" /\ on[w] \in Conns
    BY <1>2, <1>12 DEF ReapClient, At
  <2>2. ConnTypeOK' /\ UNCHANGED asked /\ \A c \in Conns : SendQueue'[c] \in Seq(Packed)
    BY <2>1, <1>12, ReapTypes DEF ReapClient
  <2> QED
    BY <1>1, <1>12, <2>1, <2>2, StepTypes DEF ReapClient, Return
<1> QED
  BY <1>1, <1>3, <1>4, <1>5, <1>6, <1>7, <1>8, <1>9, <1>10, <1>11, <1>12,
     TakeJobTypes, ParseTypes, SendDirectTypes DEF Worker, OnConnect

-----------------------------------------------------------------------------
(* The epoll thread's steps.                                               *)

(* It is at a connection, if it is where it works on one; what it changes  *)
(* of the connections it has typed.                                        *)
LEMMA EpollStepTypes ==
  ASSUME TypeInv, UNCHANGED <<wpc, on, outbox, next, half, asked>>, open' \in BOOLEAN,
         jobs' \in Seq(Conns), ConnTypeOK', \A c \in Conns : SendQueue'[c] \in Seq(Packed),
         Started' \in BOOLEAN, epc' \in EpollPCs, events' \subseteq events, UNCHANGED cur,
         \/ epc' \in {"boot", "wait", "next", "accept", "stop", "down"}
         \/ cur \in Conns
  PROVE  TypeInv'
<1>1. EpollTypeOK' /\ WorkTypeOK' /\ half' \in [Conns -> BOOLEAN]
  BY DEF TypeInv, TypeOK, EpollTypeOK, WorkTypeOK
<1>2. Sends'
  BY DEF TypeInv, Sends
<1>3. Places'
  BY DEF TypeInv, Places
<1>4. Counts'
  BY DEF TypeInv, Counts
<1> QED
  BY <1>1, <1>2, <1>3, <1>4 DEF TypeInv, TypeOK

(* The steps that touch no connection.                                     *)
LEMMA LoopTypes ==
  ASSUME TypeInv, UNCHANGED half,
         Boot \/ TestProcessing \/ Submit \/ LeaveLoop \/ thpool_destroy
  PROVE  TypeInv'
<1> USE DEF EpollPCs
<1>1. UNCHANGED connVars
  BY DEF Boot, TestProcessing, Submit, LeaveLoop, thpool_destroy
<1>2. ConnTypeOK' /\ UNCHANGED asked /\ \A c \in Conns : SendQueue'[c] \in Seq(Packed)
  BY <1>1, SameTypes
<1>3. jobs \in Seq(Conns) /\ open \in BOOLEAN /\ Started \in BOOLEAN
  BY DEF TypeInv, TypeOK, WorkTypeOK, EpollTypeOK
<1>4. CASE Boot
  BY <1>2, <1>3, <1>4, EpollStepTypes DEF Boot, workVars
<1>5. CASE TestProcessing
  <2>1. cur \in Conns /\ epc' \in {"next", "read"}
    BY <1>5 DEF TestProcessing, Here, TypeInv, Places
  <2> QED
    BY <2>1, <1>2, <1>3, <1>5, EpollStepTypes DEF TestProcessing, workVars
<1>6. CASE Submit
  <2>1. cur \in Conns
    BY <1>6 DEF Submit, TypeInv, Places
  <2>2. jobs' \in Seq(Conns)
    BY <2>1, <1>3, <1>6 DEF Submit
  <2> QED
    BY <2>1, <2>2, <1>2, <1>3, <1>6, EpollStepTypes DEF Submit
<1>7. CASE LeaveLoop
  BY <1>2, <1>3, <1>7, EpollStepTypes DEF LeaveLoop
<1>8. CASE thpool_destroy
  <2>1. jobs' \in Seq(Conns)
    BY <1>8 DEF thpool_destroy
  <2> QED
    BY <2>1, <1>2, <1>3, <1>8, EpollStepTypes DEF thpool_destroy
<1> QED
  BY <1>4, <1>5, <1>6, <1>7, <1>8

(* What epoll_wait returns, and taking an event of it.                     *)
LEMMA EventTypes ==
  ASSUME TypeInv, UNCHANGED half, epoll_wait \/ NextEvent \/ LastEvent
  PROVE  TypeInv'
<1>1. UNCHANGED <<connVars, workVars, half, Started>>
  BY DEF epoll_wait, NextEvent, LastEvent
<1>2. ConnTypeOK' /\ UNCHANGED asked /\ \A c \in Conns : SendQueue'[c] \in Seq(Packed)
  BY <1>1, SameTypes
<1>3. WorkTypeOK' /\ Sends' /\ Counts' /\ half' \in [Conns -> BOOLEAN] /\ Started' \in BOOLEAN
  BY <1>1, <1>2 DEF TypeInv, TypeOK, WorkTypeOK, EpollTypeOK, Sends, Counts, workVars
<1>4. \A w \in Workers : wpc'[w] # "idle" => on'[w] \in Conns
  BY <1>1 DEF TypeInv, Places, workVars
<1>5. /\ events \subseteq [con : Conns \cup {NULL}, ev : {"IN", "OUT", "HUP"}]
      /\ \A e \in events : e = Listener \/ e.con \in Conns
      /\ cur \in Conns \cup {NULL}
  BY DEF TypeInv, TypeOK, EpollTypeOK, Places
<1> DEFINE Bits == {"IN", "OUT", "HUP"}
<1>6. /\ cur' \in Conns \cup {NULL} /\ epc' \in EpollPCs
      /\ events' \subseteq [con : Conns \cup {NULL}, ev : Bits]
      /\ \A e \in events' : e = Listener \/ e.con \in Conns
      /\ epc' \in {"test", "read", "job", "out", "outmod", "disconnect", "reap"} => cur' \in Conns
  <2>1. CASE epoll_wait
    <3>1. ASSUME NEW c \in Conns, Ready(c) # "none"
          PROVE  Event(c, Ready(c)) \in [con : Conns \cup {NULL}, ev : Bits]
                 /\ Event(c, Ready(c)).con \in Conns
      <4>1. Ready(c) \in Bits
        BY <3>1 DEF Ready
      <4> QED
        BY <4>1 DEF Event
    <3>2. Listener \in [con : Conns \cup {NULL}, ev : Bits]
      BY DEF Listener, Event
    <3>3. ASSUME NEW e \in events'
          PROVE  e = Listener \/ \E c \in Conns : Ready(c) # "none" /\ e = Event(c, Ready(c))
      BY <2>1 DEF epoll_wait
    <3> QED
      BY <2>1, <3>1, <3>2, <3>3, <1>5 DEF epoll_wait, EpollPCs
  <2>2. CASE NextEvent
    <3>1. PICK e \in events :
            /\ events' = events \ {e} /\ cur' = e.con
            /\ epc' = IF e = Listener THEN "accept"
                      ELSE CASE e.ev = "IN" -> "test" [] e.ev = "OUT" -> "out"
                             [] e.ev = "HUP" -> "disconnect"
      BY <2>2 DEF NextEvent
    <3>2. e.con \in Conns \cup {NULL} /\ e.ev \in Bits /\ (e = Listener \/ e.con \in Conns)
      BY <1>5
    <3>3. epc' \in {"accept", "test", "out", "disconnect"} /\ (e = Listener => epc' = "accept")
      BY <3>1, <3>2
    <3> QED
      BY <3>1, <3>2, <3>3, <1>5 DEF EpollPCs
  <2>3. CASE LastEvent
    BY <2>3, <1>5 DEF LastEvent, EpollPCs
  <2> QED
    BY <2>1, <2>2, <2>3
<1> QED
  BY <1>2, <1>3, <1>4, <1>6 DEF TypeInv, TypeOK, EpollTypeOK, Places

(* A connection accepted keeps the types.                                  *)
LEMMA AcceptTypes ==
  ASSUME TypeInv, UNCHANGED half, Accept
  PROVE  TypeInv'
<1>1. PICK c \in Conns :
        /\ mem' = [mem EXCEPT ![c] = "live"] /\ sock' = [sock EXCEPT ![c] = TRUE]
        /\ Connected' = [Connected EXCEPT ![c] = TRUE] /\ poll' = [poll EXCEPT ![c] = "IN"]
  BY DEF Accept, Backlog
<1>2. /\ UNCHANGED <<Processing, RevcData, SendQueue, ConnectedTo, inbox, room, peer, recordVars,
                     Started, events, cur, workVars, half>>
      /\ epc' = "next"
  BY DEF Accept
<1>3. ConnTypeOK' /\ \A d \in Conns : SendQueue'[d] \in Seq(Packed)
  BY <1>1, <1>2 DEF TypeInv, TypeOK, ConnTypeOK, Sends, recordVars
<1>4. jobs' \in Seq(Conns) /\ open' \in BOOLEAN /\ Started' \in BOOLEAN /\ events' \subseteq events
      /\ UNCHANGED <<wpc, on, outbox, next, half, asked, cur>> /\ epc' \in EpollPCs
  BY <1>2 DEF TypeInv, TypeOK, WorkTypeOK, EpollTypeOK, EpollPCs, workVars, recordVars
<1> QED
  BY <1>2, <1>3, <1>4, EpollStepTypes

(* The beginning of a sequence.                                            *)
LEMMA Cut ==
  ASSUME NEW S, NEW s \in Seq(S), NEW n \in Nat, Len(s) > n
  PROVE  SubSeq(s, 1, n) \in Seq(S)
<1>1. Len(s) \in Nat /\ s \in [1 .. Len(s) -> S]
  BY LenProperties
<1>2. \A i \in 1 .. n : s[i] \in S
  BY <1>1
<1> QED
  BY <1>2, SubSeqProperties

(* A read keeps the types.                                                 *)
LEMMA ReadTypes ==
  ASSUME TypeInv, UNCHANGED half, Read
  PROVE  TypeInv'
<1> DEFINE parts == RevcData[cur] \o inbox[cur]
           many  == Len(parts) > MaxParts + 1
           kept  == IF many THEN SubSeq(parts, 1, MaxParts + 1) ELSE parts
<1>1. cur \in Conns
  BY DEF Read, Here, TypeInv, Places
<1>2. parts \in Seq(Fragments)
  BY <1>1 DEF TypeInv, TypeOK, ConnTypeOK
<1>3. kept \in Seq(Fragments)
  <2>1. MaxParts + 1 \in Nat
    BY Constants
  <2> HIDE DEF parts
  <2> QED
    BY <1>2, <2>1, Cut
<1>4. /\ RevcData' = [RevcData EXCEPT ![cur] = kept] /\ inbox' = [inbox EXCEPT ![cur] = <<>>]
      /\ Processing' \in {Processing, [Processing EXCEPT ![cur] = TRUE]}
      /\ epc' \in {"disconnect", "next", "job"}
  BY DEF Read
<1> HIDE DEF kept, parts
<1>5. UNCHANGED <<mem, Connected, SendQueue, ConnectedTo, sock, poll, room, peer, recordVars,
                  Started, events, cur, workVars, half>>
  BY DEF Read
<1>6. ConnTypeOK' /\ \A d \in Conns : SendQueue'[d] \in Seq(Packed)
  <2>1. Processing' \in [Conns -> BOOLEAN]
    BY <1>1, <1>4 DEF TypeInv, TypeOK, ConnTypeOK
  <2>2. RevcData' \in [Conns -> Seq(Fragments)] /\ inbox' \in [Conns -> Seq(Fragments)]
    BY <1>1, <1>3, <1>4 DEF TypeInv, TypeOK, ConnTypeOK
  <2> QED
    BY <2>1, <2>2, <1>5 DEF TypeInv, TypeOK, ConnTypeOK, Sends, recordVars
<1>7. jobs' \in Seq(Conns) /\ open' \in BOOLEAN /\ Started' \in BOOLEAN /\ events' \subseteq events
      /\ UNCHANGED <<wpc, on, outbox, next, half, asked, cur>> /\ epc' \in EpollPCs
  BY <1>4, <1>5 DEF TypeInv, TypeOK, WorkTypeOK, EpollTypeOK, EpollPCs, workVars, recordVars
<1> QED
  BY <1>1, <1>6, <1>7, EpollStepTypes

(* A send from the queue keeps the types.                                  *)
LEMMA SendQueuedTypes ==
  ASSUME TypeInv, UNCHANGED half, SendQueued
  PROVE  TypeInv'
<1> DEFINE p == Head(SendQueue[cur])
           queue == SendQueue[cur]
<1>1. /\ cur \in Conns /\ queue \in Seq(Packed) /\ queue \in Seq(Packets) /\ queue # <<>>
      /\ epc = "out"
  BY DEF SendQueued, Here, TypeInv, TypeOK, ConnTypeOK, Places, Sends
<1>2. p \in Packed
  BY <1>1
<1>3. UNCHANGED <<mem, Connected, RevcData, ConnectedTo, sock, poll, inbox, peer, asked, handled,
                  notified, Started, events, cur, workVars, half>>
  BY DEF SendQueued
<1> HIDE DEF p
<1>4. PICK q \in Seq(Packed) \cap Seq(Packets) :
        SendQueue' = [SendQueue EXCEPT ![cur] = q]
  <2>1. CASE sendall(cur, p) = "full" /\ SendQueue' = [SendQueue EXCEPT ![cur][1] = Rest(cur, p)]
    <3>1. Rest(cur, p) \in Packed /\ Rest(cur, p) \in Packets
      BY <1>1, <1>2, <2>1, TakenOfPacket DEF Packed
    <3>2. 1 \in DOMAIN queue
      BY <1>1
    <3>3. [queue EXCEPT ![1] = Rest(cur, p)] \in Seq(Packed) \cap Seq(Packets)
      BY <1>1, <3>1, <3>2
    <3>4. SendQueue' = [SendQueue EXCEPT ![cur] = [queue EXCEPT ![1] = Rest(cur, p)]]
      BY <2>1
    <3> QED
      BY <3>3, <3>4
  <2>2. CASE UNCHANGED SendQueue
    BY <1>1, <2>2 DEF TypeInv, TypeOK, ConnTypeOK
  <2>3. CASE SendQueue' = [SendQueue EXCEPT ![cur] = Tail(@)]
    <3>1. Tail(queue) \in Seq(Packed) \cap Seq(Packets)
      BY <1>1
    <3> QED
      BY <2>3, <3>1
  <2> QED
    BY <2>1, <2>2, <2>3 DEF SendQueued, p
<1>5. /\ wire' \in [Conns -> Seq((1 .. MaxRequests) \X (1 .. 4))]
      /\ room' \in [Conns -> 0 .. Room]
  <2>1. CASE Deliver(cur, p) /\ sendall(cur, p) # "err"
    BY <1>1, <1>2, <2>1, DeliverTypes
  <2>2. CASE UNCHANGED <<wire, room>>
    BY <2>2 DEF TypeInv, TypeOK, ConnTypeOK
  <2> QED
    BY <2>1, <2>2 DEF SendQueued, p
<1>6. /\ Processing' \in [Conns -> BOOLEAN] /\ epc' \in {"next", "disconnect", "out"}
  BY <1>1 DEF SendQueued, TypeInv, TypeOK, ConnTypeOK
<1>7. ConnTypeOK'
  BY <1>3, <1>4, <1>5, <1>6 DEF TypeInv, TypeOK, ConnTypeOK
<1>8. \A d \in Conns : SendQueue'[d] \in Seq(Packed)
  BY <1>4 DEF TypeInv, TypeOK, ConnTypeOK, Sends
<1>9. jobs' \in Seq(Conns) /\ open' \in BOOLEAN /\ Started' \in BOOLEAN /\ events' \subseteq events
      /\ UNCHANGED <<wpc, on, outbox, next, half, asked, cur>> /\ epc' \in EpollPCs
  BY <1>3, <1>6 DEF TypeInv, TypeOK, WorkTypeOK, EpollTypeOK, EpollPCs, workVars
<1> QED
  BY <1>1, <1>7, <1>8, <1>9, EpollStepTypes

(* Handing a connection back, disconnecting and deleting it.               *)
LEMMA GiveBackTypes ==
  ASSUME TypeInv, UNCHANGED half, Drained \/ WatchInput \/ Disconnect \/ ReapConnection
  PROVE  TypeInv'
<1>1. cur \in Conns
  BY DEF Drained, WatchInput, Disconnect, ReapConnection, Here, TypeInv, Places
<1>2. /\ UNCHANGED <<asked, Started, events, cur, workVars, half>>
      /\ epc' \in {"outmod", "next", "reap"}
  BY DEF Drained, WatchInput, Disconnect, ReapConnection, recordVars
<1>3. ConnTypeOK' /\ \A d \in Conns : SendQueue'[d] \in Seq(Packed)
  <2>1. CASE Drained
    BY <1>1, <2>1 DEF Drained, TypeInv, TypeOK, ConnTypeOK, Sends, kernelVars, recordVars
  <2>2. CASE WatchInput
    BY <1>1, <2>2 DEF WatchInput, ChangePollState, TypeInv, TypeOK, ConnTypeOK, Sends, objectVars,
                      recordVars
  <2>3. CASE Disconnect
    BY <1>1, <2>3, NotifyTypes DEF Disconnect
  <2>4. CASE ReapConnection
    BY <1>1, <2>4, ReapTypes DEF ReapConnection
  <2> QED
    BY <2>1, <2>2, <2>3, <2>4
<1>4. jobs' \in Seq(Conns) /\ open' \in BOOLEAN /\ Started' \in BOOLEAN /\ events' \subseteq events
      /\ UNCHANGED <<wpc, on, outbox, next, half, asked, cur>> /\ epc' \in EpollPCs
  BY <1>2 DEF TypeInv, TypeOK, WorkTypeOK, EpollTypeOK, EpollPCs, workVars
<1> QED
  BY <1>1, <1>3, <1>4, EpollStepTypes

(* A step of the epoll thread keeps the types.                             *)
LEMMA EpollTypes ==
  ASSUME TypeInv, Epoll
  PROVE  TypeInv'
  BY LoopTypes, EventTypes, AcceptTypes, ReadTypes, SendQueuedTypes, GiveBackTypes
     DEF Epoll, EpollThread

-----------------------------------------------------------------------------
(* The clients' steps, and the operator's.                                 *)

LEMMA ClientStepTypes ==
  ASSUME TypeInv, UNCHANGED <<objectVars, sock, poll, wire, handled, notified, workVars, epollVars>>,
         inbox' \in [Conns -> Seq(Fragments)], room' \in [Conns -> 0 .. Room],
         peer' \in [Conns -> {"none", "open", "fin", "rst"}], asked' \in [Conns -> Seq(Asks)],
         half' \in [Conns -> BOOLEAN], Counts'
  PROVE  TypeInv'
<1>1. ConnTypeOK' /\ WorkTypeOK' /\ EpollTypeOK'
  BY DEF TypeInv, TypeOK, ConnTypeOK, WorkTypeOK, EpollTypeOK, objectVars, workVars, epollVars
<1>2. Sends' /\ Places'
  BY DEF TypeInv, Sends, Places, objectVars, workVars, epollVars
<1> QED
  BY <1>1, <1>2 DEF TypeInv, TypeOK

(* A request sent keeps the types.                                         *)
LEMMA RequestTypes ==
  ASSUME TypeInv, NEW c \in Conns, NEW a \in Asks, Request(c, a),
         UNCHANGED <<room, objectVars, sock, poll, wire, handled, notified, workVars, epollVars>>
  PROVE  TypeInv'
<1>1. /\ inbox \in [Conns -> Seq(Fragments)] /\ room \in [Conns -> 0 .. Room]
      /\ peer \in [Conns -> {"none", "open", "fin", "rst"}] /\ asked \in [Conns -> Seq(Asks)]
      /\ half \in [Conns -> BOOLEAN] /\ MaxRequests \in Nat
  BY Constants DEF TypeInv, TypeOK, ConnTypeOK
<1>2. Len(asked[c]) \in Nat /\ asked[c] \in Seq(Asks)
  BY <1>1, LenProperties
<1>3. PICK part \in {"whole", "head"} :
        /\ inbox' = [inbox EXCEPT ![c] = Append(@, [req |-> Len(asked[c]) + 1, part |-> part])]
        /\ half' = [half EXCEPT ![c] = part = "head"]
  BY DEF Request
<1>4. /\ Len(asked[c]) < MaxRequests /\ asked' = [asked EXCEPT ![c] = Append(asked[c], a)]
      /\ UNCHANGED peer
  BY DEF Request
<1>5. [req |-> Len(asked[c]) + 1, part |-> part] \in Fragments
  BY <1>1, <1>2, <1>4 DEF Fragments
<1>6. inbox' \in [Conns -> Seq(Fragments)]
  <2>1. Append(inbox[c], [req |-> Len(asked[c]) + 1, part |-> part]) \in Seq(Fragments)
    BY <1>1, <1>5, AppendProperties
  <2> QED
    BY <2>1, <1>1, <1>3
<1>7. /\ Append(asked[c], a) \in Seq(Asks) /\ Append(asked[c], a) # <<>>
      /\ Len(Append(asked[c], a)) = Len(asked[c]) + 1
  BY <1>2, AppendProperties
<1>8. asked' \in [Conns -> Seq(Asks)] /\ half' \in [Conns -> BOOLEAN]
  BY <1>1, <1>3, <1>4, <1>7
<1>9. Counts'
  <2>1. ASSUME NEW d \in Conns
        PROVE  Len(asked'[d]) <= MaxRequests /\ (half'[d] => asked'[d] # <<>>)
    <3>1. CASE d = c
      <4>1. asked'[d] = Append(asked[c], a)
        BY <3>1, <1>1, <1>4
      <4> QED
        BY <4>1, <1>1, <1>2, <1>4, <1>7
    <3>2. CASE d # c
      <4>1. asked'[d] = asked[d] /\ half'[d] = half[d]
        BY <3>2, <1>1, <1>3, <1>4
      <4> QED
        BY <4>1 DEF TypeInv, Counts
    <3> QED
      BY <3>1, <3>2
  <2> QED
    BY <2>1 DEF Counts
<1> QED
  BY <1>1, <1>4, <1>6, <1>8, <1>9, ClientStepTypes

(* A step of a client keeps the types.                                     *)
LEMMA ClientTypes ==
  ASSUME TypeInv, NEW c \in Conns, Client(c)
  PROVE  TypeInv'
<1>1. UNCHANGED <<objectVars, sock, poll, wire, handled, notified, workVars, epollVars>>
  BY DEF Client
<1>2. /\ inbox \in [Conns -> Seq(Fragments)] /\ room \in [Conns -> 0 .. Room]
      /\ peer \in [Conns -> {"none", "open", "fin", "rst"}] /\ asked \in [Conns -> Seq(Asks)]
      /\ half \in [Conns -> BOOLEAN] /\ Room \in Nat
  BY Constants DEF TypeInv, TypeOK, ConnTypeOK
<1>3. CASE \E a \in Asks : Request(c, a) /\ UNCHANGED room
  BY <1>1, <1>3, RequestTypes
<1>4. CASE (Connect(c) \/ HalfClose(c) \/ Reset(c)) /\ UNCHANGED room
  <2>1. /\ UNCHANGED <<asked, half>>
        /\ peer' \in [Conns -> {"none", "open", "fin", "rst"}] /\ inbox' \in [Conns -> Seq(Fragments)]
    <3>1. <<>> \in Seq(Fragments)
      BY EmptySeq
    <3>2. CASE Connect(c)
      BY <1>2, <3>2 DEF Connect
    <3>3. CASE HalfClose(c)
      BY <1>2, <3>3 DEF HalfClose
    <3>4. CASE Reset(c)
      BY <1>2, <3>1, <3>4 DEF Reset
    <3> QED
      BY <1>4, <3>2, <3>3, <3>4
  <2>2. Counts'
    BY <2>1 DEF TypeInv, Counts
  <2> QED
    BY <1>1, <1>2, <1>4, <2>1, <2>2, ClientStepTypes
<1>5. CASE RequestRest(c) /\ UNCHANGED room
  <2>1. /\ inbox' = [inbox EXCEPT ![c] = Append(@, [req |-> Len(asked[c]), part |-> "tail"])]
        /\ half' = [half EXCEPT ![c] = FALSE] /\ UNCHANGED <<peer, asked>> /\ half[c]
    BY <1>5 DEF RequestRest
  <2>2. [req |-> Len(asked[c]), part |-> "tail"] \in Fragments
    <3>1. asked[c] \in Seq(Asks) /\ asked[c] # <<>> /\ Len(asked[c]) <= MaxRequests
      BY <1>2, <2>1 DEF TypeInv, Counts
    <3>2. Len(asked[c]) \in Nat \ {0} /\ MaxRequests \in Nat
      BY <3>1, EmptySeq, Constants
    <3> QED
      BY <3>1, <3>2 DEF Fragments
  <2>3. inbox' \in [Conns -> Seq(Fragments)]
    <3>1. Append(inbox[c], [req |-> Len(asked[c]), part |-> "tail"]) \in Seq(Fragments)
      BY <1>2, <2>2, AppendProperties
    <3> QED
      BY <3>1, <1>2, <2>1
  <2>4. half' \in [Conns -> BOOLEAN] /\ \A d \in Conns : half'[d] => half[d]
    BY <1>2, <2>1
  <2>5. Counts'
    BY <2>1, <2>4 DEF TypeInv, Counts
  <2> QED
    BY <1>1, <1>2, <1>5, <2>1, <2>3, <2>4, <2>5, ClientStepTypes
<1>6. CASE ClientRead(c)
  <2>1. room' \in [Conns -> 0 .. Room] /\ UNCHANGED <<peer, inbox, asked, half>>
    BY <1>2, <1>6 DEF ClientRead
  <2>2. Counts'
    BY <2>1 DEF TypeInv, Counts
  <2> QED
    BY <1>1, <1>2, <2>1, <2>2, ClientStepTypes
<1> QED
  BY <1>3, <1>4, <1>5, <1>6 DEF Client

(* A stop keeps the types.                                                 *)
LEMMA StopTypes ==
  ASSUME TypeInv, Stop
  PROVE  TypeInv'
<1>1. UNCHANGED <<connVars, workVars, epc, events, cur, half>> /\ Started' \in BOOLEAN
  BY DEF Stop
<1>2. ConnTypeOK' /\ WorkTypeOK' /\ EpollTypeOK' /\ half' \in [Conns -> BOOLEAN]
  BY <1>1 DEF TypeInv, TypeOK, ConnTypeOK, WorkTypeOK, EpollTypeOK, connVars, workVars
<1>3. Sends' /\ Places' /\ Counts'
  BY <1>1 DEF TypeInv, Sends, Places, Counts, connVars, workVars
<1> QED
  BY <1>2, <1>3 DEF TypeInv, TypeOK

(* Nothing done keeps the types.                                           *)
LEMMA StutterTypes ==
  ASSUME TypeInv, UNCHANGED vars
  PROVE  TypeInv'
<1>1. ConnTypeOK' /\ WorkTypeOK' /\ EpollTypeOK' /\ half' \in [Conns -> BOOLEAN]
  BY DEF vars, TypeInv, TypeOK, ConnTypeOK, WorkTypeOK, EpollTypeOK
<1>2. Sends' /\ Places' /\ Counts'
  BY DEF vars, TypeInv, Sends, Places, Counts
<1> QED
  BY <1>1, <1>2 DEF TypeInv, TypeOK

-----------------------------------------------------------------------------
(* The server starts in its types.                                         *)
LEMMA InitTypes == Init => TypeInv
<1> SUFFICES ASSUME Init PROVE TypeInv
  OBVIOUS
<1> USE DEF Init, ConnInit, WorkInit, EpollInit
<1>1. Room \in 0 .. Room /\ 0 <= MaxRequests
  BY Constants
<1>2. \A S : <<>> \in Seq(S) /\ Len(<<>>) = 0
  BY EmptySeq
<1>3. ConnTypeOK
  BY <1>1, <1>2 DEF ConnTypeOK
<1>4. WorkTypeOK
  BY <1>2 DEF WorkTypeOK, WorkerPCs
<1>5. EpollTypeOK /\ half \in [Conns -> BOOLEAN]
  BY DEF EpollTypeOK, EpollPCs
<1>6. Sends
  BY <1>2 DEF Sends
<1>7. Places /\ Counts
  BY <1>1, <1>2 DEF Places, Counts
<1> QED
  BY <1>3, <1>4, <1>5, <1>6, <1>7 DEF TypeInv, TypeOK

(* Whatever the clients do: a packet that waits to be sent has at least    *)
(* one unit left, a worker about to send or queue one has one, a worker    *)
(* that is in OnConnect and the epoll thread at an event have a            *)
(* connection, and no client has sent more than MaxRequests requests.  In  *)
(* the source: PacketProcessor::SendPacket, NetworkHelper::sendall and the *)
(* loop of ConnectManager::StartServer.                                    *)
THEOREM ServerTypeInvariant == Spec => []TypeInv
<1>1. TypeInv /\ [Next]_vars => TypeInv'
  BY EpollTypes, WorkerTypes, ClientTypes, StopTypes, StutterTypes DEF Next
<1> QED
  BY InitTypes, <1>1, PTL DEF Spec

(* Every variable of the server keeps its type, whatever the clients do:   *)
(* no packet runs past the last unit of an answer, a send buffer never has *)
(* more than Room units free or less than none, the pool's queue holds     *)
(* connections and every fragment read is of a request that may have been  *)
(* sent.                                                                   *)
THEOREM ServerTypesHold == Spec => []TypeOK
<1>1. TypeInv => TypeOK
  BY DEF TypeInv
<1> QED
  BY ServerTypeInvariant, <1>1, PTL
===============================================================================
