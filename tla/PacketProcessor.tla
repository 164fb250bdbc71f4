---------------------------- MODULE PacketProcessor ----------------------------
(***************************************************************************)
(* PacketProcessor::OnConnect, the job the pool's threads run for a        *)
(* connection whose data has arrived: put the fragments together, wait for *)
(* more if the request is not complete, otherwise find the site, answer    *)
(* and make the connection ready for the next request -- or delete it.     *)
(*                                                                         *)
(* The pool is the FIFO job server of WorkQueue; jobs is its queue.        *)
(* A worker's step is a read or a write of the connection that another     *)
(* thread's step may come before or after.                                 *)
(*                                                                         *)
(* A definition named Op_Fault is not the code: it is Op with one mistake, *)
(* named after it, that a property of Server must notice.                  *)
(***************************************************************************)
EXTENDS Connection

CONSTANT Workers   \* the pool's threads

ASSUME WorkersAssumption == NULL \notin Workers \cup Conns

VARIABLES
  jobs,      \* the pool's queue, of connections
  open,      \* thpool_destroy has not begun
  wpc,       \* where each worker is in OnConnect
  on,        \* the connection it works on, or NULL
  outbox,    \* what the handler has still to send
  next       \* what follows the sends: "end", "bad" or "kill"

workVars == <<jobs, open, wpc, on, outbox, next>>

WorkInit ==
  /\ jobs = <<>> /\ open = TRUE
  /\ wpc = [w \in Workers |-> "idle"] /\ on = [w \in Workers |-> NULL]
  /\ outbox = [w \in Workers |-> <<>>] /\ next = [w \in Workers |-> "end"]

WorkerPCs == {"idle", "build", "partial", "parse", "send", "direct", "push", "poll", "end",
              "reset", "park", "delete", "clear", "notify", "reap"}

WorkTypeOK ==
  /\ jobs \in Seq(Conns) /\ open \in BOOLEAN
  /\ wpc \in [Workers -> WorkerPCs] /\ on \in [Workers -> Conns \cup {NULL}]
  /\ outbox \in [Workers -> Seq(Packets)] /\ next \in [Workers -> {"end", "bad", "kill"}]

-----------------------------------------------------------------------------
(* What the fragments of RevcData amount to.  A buffer that does not begin *)
(* with a request (its beginning was thrown away) still has an end of      *)
(* header somewhere; ParseHeader then finds no request in it.  A request   *)
(* counts as complete with its last fragment: HttpFraming says when it     *)
(* does not, and a post here is one with a line behind its Content-Length. *)

Finished(buf) == \E i \in DOMAIN buf : buf[i].part \in {"whole", "tail"}

First(buf, asks) ==
  IF \/ buf[1].part = "whole"
     \/ buf[1].part = "head" /\ Len(buf) > 1 /\ buf[2] = [buf[1] EXCEPT !.part = "tail"]
  THEN asks[buf[1].req]
  ELSE "bad"

(* OnConnect gives up on a Content-Length above MAX_CONTENT_LEN, which is  *)
(* seen before the request is complete, and on more data than a body has.  *)
Rejected(buf, asks) ==
  /\ buf # <<>> /\ buf[1].part # "tail"
  /\ \/ asks[buf[1].req] = "huge"
     \/ asks[buf[1].req] = "post" /\ Len(buf) > (IF buf[1].part = "whole" THEN 1 ELSE 2)

(* A worker at pc dereferences its connection; nothing is said about what  *)
(* happens if that was freed, see NoStaleTouch and StaleOnlyIfRefused.     *)
At(w, pc)   == wpc[w] = pc /\ mem[on[w]] = "live"
Goto(w, pc) == wpc' = [wpc EXCEPT ![w] = pc]
Return(w)   == Goto(w, "idle") /\ on' = [on EXCEPT ![w] = NULL]

-----------------------------------------------------------------------------
(* A pool thread takes the oldest job.                                     *)
TakeJob(w) ==
  /\ wpc[w] = "idle"
  /\ jobs # <<>>
  /\ jobs' = Tail(jobs)
  /\ on' = [on EXCEPT ![w] = Head(jobs)]
  /\ Goto(w, "build")
  /\ UNCHANGED <<connVars, open, outbox, next>>

(* BuildData and the search for the end of the request.                    *)
Build(w) ==
  /\ At(w, "build")
  /\ LET buf == RevcData[on[w]]
     IN  Goto(w, IF Rejected(buf, asked[on[w]]) THEN "clear"
                 ELSE IF Finished(buf) THEN "parse" ELSE "partial")
  /\ UNCHANGED <<connVars, jobs, open, on, outbox, next>>

(* An incomplete request: leave the connection to the epoll thread, or get *)
(* rid of it if it was dropped meanwhile.                                  *)
Partial(w) ==
  /\ At(w, "partial")
  /\ Goto(w, IF Connected[on[w]] THEN "park" ELSE "clear")
  /\ UNCHANGED <<connVars, jobs, open, on, outbox, next>>

(* ParseHeader reads RevcData again; then the site is found and bound to   *)
(* the connection, and the page, the file or an error answers.  A URL with *)
(* ".." is a bad request as well, but only ProcessFile finds that out.     *)
Parse(w) ==
  /\ At(w, "parse")
  /\ LET c    == on[w]
         buf  == RevcData[c]
         ask  == IF Finished(buf) THEN First(buf, asked[c]) ELSE "bad"
         r    == IF buf = <<>> THEN 1 ELSE buf[1].req
         site == IF ask \in Asks THEN SiteOf[ask] ELSE NULL
         far  == ask # "bad" /\ ConnectedTo[c] \notin {NULL, site}
     IN  /\ ConnectedTo' = IF ask = "bad" \/ far THEN ConnectedTo
                                               ELSE [ConnectedTo EXCEPT ![c] = site]
         /\ handled' = [handled EXCEPT ![c] = Append(@, r)]
         /\ outbox' = [outbox EXCEPT ![w] = Answer(r, IF far THEN "bad" ELSE ask)]
         /\ next' = [next EXCEPT ![w] = IF far THEN "kill"
                                         ELSE IF ask \in {"bad", "dots"} THEN "bad" ELSE "end"]
  /\ Goto(w, "send")
  /\ UNCHANGED <<mem, Connected, Processing, RevcData, SendQueue, kernelVars, asked, wire,
                 notified, jobs, open, on>>

(* SendPacket: nothing to a dropped connection, behind what is queued if   *)
(* anything is, else straight to the socket.                               *)
Send_Overtakes(w) ==
  /\ At(w, "send")
  /\ outbox[w] # <<>>
  /\ Goto(w, "direct")
  /\ UNCHANGED <<connVars, jobs, open, on, outbox, next>>

Send(w) ==
  /\ At(w, "send")
  /\ outbox[w] # <<>>
  /\ IF Connected[on[w]]
     THEN /\ Goto(w, IF SendQueue[on[w]] = <<>> THEN "direct" ELSE "push")
          /\ UNCHANGED outbox
     ELSE outbox' = [outbox EXCEPT ![w] = Tail(@)] /\ UNCHANGED wpc
  /\ UNCHANGED <<connVars, jobs, open, on, next>>

SendDirect(w) ==
  /\ At(w, "direct")
  /\ LET c == on[w]
         p == Head(outbox[w])
     IN  \/ /\ sendall(c, p) = "ok"
            /\ Deliver(c, p)
            /\ outbox' = [outbox EXCEPT ![w] = Tail(@)]
            /\ Goto(w, "send")
            /\ UNCHANGED <<Connected, sock, poll>>
         \/ /\ sendall(c, p) = "full"
            /\ Deliver(c, p)
            /\ outbox' = [outbox EXCEPT ![w][1] = Rest(c, p)]
            /\ Goto(w, "push")
            /\ UNCHANGED <<Connected, sock, poll>>
         \/ /\ sendall(c, p) = "err"
            /\ Drop(c)
            /\ outbox' = [outbox EXCEPT ![w] = Tail(@)]
            /\ Goto(w, "send")
            /\ UNCHANGED <<wire, room>>
  /\ UNCHANGED <<mem, Processing, RevcData, SendQueue, ConnectedTo, inbox, peer, asked,
                 handled, notified, jobs, open, on, next>>

PushPacket(w) ==
  /\ At(w, "push")
  /\ SendQueue' = [SendQueue EXCEPT ![on[w]] = Append(@, Head(outbox[w]))]
  /\ outbox' = [outbox EXCEPT ![w] = Tail(@)]
  /\ Goto(w, "poll")
  /\ UNCHANGED <<mem, Connected, Processing, RevcData, ConnectedTo, kernelVars, recordVars,
                 jobs, open, on, next>>

WatchOutput(w) ==
  /\ At(w, "poll")
  /\ ChangePollState(on[w], "OUT")
  /\ Goto(w, "send")
  /\ UNCHANGED <<objectVars, sock, inbox, room, peer, recordVars, jobs, open, on, outbox, next>>

(* The handler is done.  SendBadRequest drops the connection; a request    *)
(* for another site disconnects it.                                        *)
Handled(w) ==
  /\ At(w, "send")
  /\ outbox[w] = <<>>
  /\ IF next[w] = "bad" THEN Drop(on[w]) ELSE UNCHANGED <<Connected, sock, poll>>
  /\ Goto(w, IF next[w] = "kill" THEN "clear" ELSE "end")
  /\ UNCHANGED <<mem, Processing, RevcData, SendQueue, ConnectedTo, inbox, room, peer,
                 recordVars, jobs, open, on, outbox, next>>


End(w) ==
  /\ At(w, "end")
  /\ Goto(w, IF Connected[on[w]] THEN "reset" ELSE "delete")
  /\ UNCHANGED <<connVars, jobs, open, on, outbox, next>>

(* WaitForRequest throws away everything received so far ...               *)
WaitForRequest_Keeps(w) ==
  /\ At(w, "reset")
  /\ Goto(w, "park")
  /\ UNCHANGED <<connVars, jobs, open, on, outbox, next>>

WaitForRequest(w) ==
  /\ At(w, "reset")
  /\ RevcData' = [RevcData EXCEPT ![on[w]] = <<>>]
  /\ Goto(w, "park")
  /\ UNCHANGED <<mem, Connected, Processing, SendQueue, ConnectedTo, kernelVars, recordVars,
                 jobs, open, on, outbox, next>>

(* ... and hands the connection back, unless output is still queued.       *)
Park(w) ==
  /\ At(w, "park")
  /\ WaitForPacket(on[w])
  /\ Return(w)
  /\ UNCHANGED <<mem, Connected, RevcData, SendQueue, ConnectedTo, kernelVars, recordVars,
                 jobs, open, outbox, next>>

DeleteClient(w) ==
  /\ At(w, "delete")
  /\ Delete(on[w])
  /\ Return(w)
  /\ UNCHANGED <<Connected, Processing, ConnectedTo, inbox, room, peer, recordVars, jobs, open,
                 outbox, next>>

(* Processing = false; Disconnect() -- three steps the epoll thread may    *)
(* come between.                                                           *)
ClearProcessing(w) ==
  /\ At(w, "clear")
  /\ Processing' = [Processing EXCEPT ![on[w]] = FALSE]
  /\ Goto(w, "notify")
  /\ UNCHANGED <<mem, Connected, RevcData, SendQueue, ConnectedTo, kernelVars, recordVars,
                 jobs, open, on, outbox, next>>

NotifySite(w) ==
  /\ At(w, "notify")
  /\ Notify(on[w])
  /\ Goto(w, "reap")
  /\ UNCHANGED <<objectVars, kernelVars, asked, wire, handled, jobs, open, on, outbox, next>>

ReapClient(w) ==
  /\ At(w, "reap")
  /\ Reap(on[w])
  /\ Return(w)
  /\ UNCHANGED <<Processing, ConnectedTo, inbox, room, peer, recordVars, jobs, open, outbox, next>>

OnConnect(w) ==
  \/ Build(w) \/ Partial(w) \/ Parse(w) \/ Send(w) \/ SendDirect(w) \/ PushPacket(w)
  \/ WatchOutput(w) \/ Handled(w) \/ End(w) \/ WaitForRequest(w) \/ Park(w) \/ DeleteClient(w)
  \/ ClearProcessing(w) \/ NotifySite(w) \/ ReapClient(w)
===============================================================================
