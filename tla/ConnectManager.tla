---------------------------- MODULE ConnectManager ----------------------------
(***************************************************************************)
(* ConnectManager::StartServer, the one thread that owns the epoll set: it *)
(* accepts clients, reads what they send and submits a job for it, writes  *)
(* queued output when the socket has room, and disconnects.                *)
(*                                                                         *)
(* A definition named Op_Fault is not the code: it is Op with one mistake, *)
(* named after it, that a property of Server must notice.                  *)
(***************************************************************************)
EXTENDS PacketProcessor

VARIABLES
  Started,   \* ConnectManager::Started
  epc,       \* where the epoll thread is
  events,    \* what epoll_wait returned and the loop has not handled yet
  cur        \* the connection of the event being handled, or NULL

epollVars == <<Started, epc, events, cur>>

EpollInit == Started = FALSE /\ epc = "boot" /\ events = {} /\ cur = NULL

(* An event is a connection with one of the bits the code tests, or the    *)
(* listener's.                                                             *)
Event(c, e) == [con |-> c, ev |-> e]
Listener    == Event(NULL, "IN")

EpollPCs == {"boot", "wait", "next", "accept", "test", "read", "job", "out", "outmod",
             "disconnect", "reap", "stop", "down"}

EpollTypeOK ==
  /\ Started \in BOOLEAN /\ epc \in EpollPCs
  /\ events \subseteq [con : Conns \cup {NULL}, ev : {"IN", "OUT", "HUP"}]
  /\ cur \in Conns \cup {NULL}

(* Clients whose connection is established and waits to be accepted.       *)
Backlog == { c \in Conns : mem[c] = "none" /\ peer[c] # "none" }

(* The epoll thread is at pc, with a connection that is not freed.         *)
Here(pc) == epc = pc /\ mem[cur] = "live"

-----------------------------------------------------------------------------
(* The listener is set up, Started becomes true and the pool is created.   *)
Boot ==
  /\ epc = "boot"
  /\ Started' = TRUE
  /\ epc' = "wait"
  /\ UNCHANGED <<events, cur, connVars, workVars>>

epoll_wait ==
  /\ epc = "wait"
  /\ Started
  /\ events' = { Event(c, Ready(c)) : c \in { d \in Conns : Ready(d) # "none" } }
                 \cup (IF Backlog = {} THEN {} ELSE {Listener})
  /\ epc' = "next"
  /\ UNCHANGED <<Started, cur, connVars, workVars>>

(* The for loop: the next event, in whatever order the kernel listed them. *)
NextEvent ==
  /\ epc = "next"
  /\ \E e \in events :
       /\ events' = events \ {e}
       /\ cur' = e.con
       /\ epc' = IF e = Listener THEN "accept"
                 ELSE CASE e.ev = "IN" -> "test" [] e.ev = "OUT" -> "out"
                        [] e.ev = "HUP" -> "disconnect"
  /\ UNCHANGED <<Started, connVars, workVars>>

LastEvent ==
  /\ epc = "next"
  /\ events = {}
  /\ epc' = "wait"
  /\ cur' = NULL
  /\ UNCHANGED <<Started, events, connVars, workVars>>

Accept ==
  /\ epc = "accept"
  /\ \E c \in Backlog :
       /\ mem' = [mem EXCEPT ![c] = "live"]
       /\ sock' = [sock EXCEPT ![c] = TRUE]
       /\ Connected' = [Connected EXCEPT ![c] = TRUE]
       /\ poll' = [poll EXCEPT ![c] = "IN"]
  /\ epc' = "next"
  /\ UNCHANGED <<Processing, RevcData, SendQueue, ConnectedTo, inbox, room, peer, recordVars,
                 Started, events, cur, workVars>>

(* Data for a connection that is being processed stays in the kernel.      *)
TestProcessing_Missing ==
  /\ Here("test")
  /\ epc' = "read"
  /\ UNCHANGED <<Started, events, cur, connVars, workVars>>

TestProcessing ==
  /\ Here("test")
  /\ epc' = IF Processing[cur] THEN "next" ELSE "read"
  /\ UNCHANGED <<Started, events, cur, connVars, workVars>>

(* Read until the socket is empty.  An end of stream, an error or too many *)
(* fragments disconnect; otherwise Processing is set and a job submitted.  *)
(* After Drop the descriptor is 0, the terminal, and read does not return. *)
Read ==
  /\ Here("read")
  /\ sock[cur]
  /\ LET parts == RevcData[cur] \o inbox[cur]
         many  == Len(parts) > MaxParts + 1
         fail  == peer[cur] \in {"fin", "rst"} \/ many
     IN  /\ RevcData' = [RevcData EXCEPT ![cur] =
                           IF many THEN SubSeq(parts, 1, MaxParts + 1) ELSE parts]
         /\ inbox' = [inbox EXCEPT ![cur] = <<>>]
         /\ \/ fail /\ epc' = "disconnect" /\ UNCHANGED Processing
            \/ ~fail /\ Processing[cur] /\ epc' = "next" /\ UNCHANGED Processing
            \/ /\ ~fail /\ ~Processing[cur]
               /\ Processing' = [Processing EXCEPT ![cur] = TRUE]
               /\ epc' = "job"
  /\ UNCHANGED <<mem, Connected, SendQueue, ConnectedTo, sock, poll, room, peer, recordVars,
                 Started, events, cur, workVars>>

Submit ==
  /\ epc = "job"
  /\ jobs' = Append(jobs, cur)
  /\ epc' = "next"
  /\ UNCHANGED <<open, wpc, on, outbox, next, Started, events, cur, connVars>>

(* EPOLLOUT: send what is queued, packet by packet.                        *)
SendQueued ==
  /\ Here("out")
  /\ SendQueue[cur] # <<>>
  /\ LET p == Head(SendQueue[cur])
     IN  \/ /\ sendall(cur, p) = "full"
            /\ Deliver(cur, p)
            /\ SendQueue' = [SendQueue EXCEPT ![cur][1] = Rest(cur, p)]
            /\ epc' = "next"
            /\ UNCHANGED Processing
         \/ /\ sendall(cur, p) = "err"
            /\ Processing' = [Processing EXCEPT ![cur] = FALSE]
            /\ epc' = "disconnect"
            /\ UNCHANGED <<wire, room, SendQueue>>
         \/ /\ sendall(cur, p) = "ok"
            /\ Deliver(cur, p)
            /\ SendQueue' = [SendQueue EXCEPT ![cur] = Tail(@)]
            /\ UNCHANGED <<Processing, epc>>
  /\ UNCHANGED <<mem, Connected, RevcData, ConnectedTo, sock, poll, inbox, peer, asked, handled,
                 notified, Started, events, cur, workVars>>

(* Everything is sent: the connection is ready for a request again.        *)
Drained ==
  /\ Here("out")
  /\ SendQueue[cur] = <<>>
  /\ Processing' = [Processing EXCEPT ![cur] = FALSE]
  /\ epc' = "outmod"
  /\ UNCHANGED <<mem, Connected, RevcData, SendQueue, ConnectedTo, kernelVars, recordVars,
                 Started, events, cur, workVars>>

WatchInput ==
  /\ Here("outmod")
  /\ ChangePollState(cur, "IN")
  /\ epc' = "next"
  /\ UNCHANGED <<objectVars, sock, inbox, room, peer, recordVars, Started, events, cur, workVars>>

(* Disconnect.                                                             *)
Disconnect ==
  /\ Here("disconnect")
  /\ Notify(cur)
  /\ epc' = "reap"
  /\ UNCHANGED <<objectVars, kernelVars, asked, wire, handled, Started, events, cur, workVars>>

ReapConnection_GoesOn ==
  /\ Here("reap")
  /\ Reap(cur)
  /\ epc' = "outmod"
  /\ UNCHANGED <<Processing, ConnectedTo, inbox, room, peer, recordVars, Started, events, cur,
                 workVars>>

ReapConnection ==
  /\ Here("reap")
  /\ Reap(cur)
  /\ epc' = "next"
  /\ UNCHANGED <<Processing, ConnectedTo, inbox, room, peer, recordVars, Started, events, cur,
                 workVars>>

(* Started is false: the loop ends after the current events, thpool_destroy*)
(* lets the running jobs finish and discards the queued ones.              *)
LeaveLoop_WaitsForClients ==
  /\ epc = "wait"
  /\ ~Started /\ \A c \in Conns : mem[c] # "live"
  /\ open' = FALSE
  /\ epc' = "stop"
  /\ UNCHANGED <<jobs, wpc, on, outbox, next, Started, events, cur, connVars>>

LeaveLoop ==
  /\ epc = "wait"
  /\ ~Started
  /\ open' = FALSE
  /\ epc' = "stop"
  /\ UNCHANGED <<jobs, wpc, on, outbox, next, Started, events, cur, connVars>>

thpool_destroy_Impatient ==
  /\ epc = "stop"
  /\ jobs' = <<>>
  /\ epc' = "down"
  /\ UNCHANGED <<open, wpc, on, outbox, next, Started, events, cur, connVars>>

thpool_destroy ==
  /\ epc = "stop"
  /\ \A w \in Workers : on[w] = NULL
  /\ jobs' = <<>>
  /\ epc' = "down"
  /\ UNCHANGED <<open, wpc, on, outbox, next, Started, events, cur, connVars>>

EpollThread ==
  \/ Boot \/ epoll_wait \/ NextEvent \/ LastEvent \/ Accept \/ TestProcessing \/ Read \/ Submit
  \/ SendQueued \/ Drained \/ WatchInput \/ Disconnect \/ ReapConnection
  \/ LeaveLoop \/ thpool_destroy
===============================================================================
