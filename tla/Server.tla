-------------------------------- MODULE Server --------------------------------
(***************************************************************************)
(* The running server: the epoll thread, the pool's threads and the        *)
(* clients that connect, send requests in one piece or two, read what they *)
(* are sent and go away, and the operator who types "stop".                *)
(***************************************************************************)
EXTENDS ConnectManager, SequencesExt

CONSTANT
  Habits   \* what clients may do besides sending a whole request, waiting for
           \* its answer and sending the next:
           \*   "split"     a request arrives in two pieces
           \*   "pipeline"  the next request is sent before the answer
           \*   "fin"       close the connection, "rst" reset it
           \*   "hurry"     the latter two even before the answer

ASSUME HabitsAssumption == Habits \subseteq {"split", "pipeline", "fin", "rst", "hurry"}

VARIABLE half   \* the client has sent the beginning of its last request only

vars == <<mem, Connected, Processing, RevcData, SendQueue, ConnectedTo, sock, poll, inbox, room,
          peer, asked, wire, handled, notified, jobs, open, wpc, on, outbox, next, Started, epc,
          events, cur, half>>

Init == ConnInit /\ WorkInit /\ EpollInit /\ half = [c \in Conns |-> FALSE]

-----------------------------------------------------------------------------
(* Clients.                                                                *)

(* The answers a client expects, in the order of its requests.             *)
Expected(c) ==
  FlattenSeq([i \in DOMAIN asked[c] |-> [k \in 1 .. Units(asked[c][i]) |-> <<i, k>>]])

(* It has sent all of its requests and read all of the answers.            *)
Quiet(c) ==
  /\ ~half[c]
  /\ Len(wire[c]) = Len(Expected(c))
  /\ Backpressure => room[c] = Room

(* Its last request was one the server closes the connection for.          *)
Refused(c) ==
  /\ asked[c] # <<>>
  /\ LET last == asked[c][Len(asked[c])]
     IN  \/ last \in {"bad", "dots", "huge"}
         \/ \E i \in DOMAIN asked[c] : SiteOf[asked[c][i]] \notin {NULL, SiteOf[last]}

(* The server has not closed the connection; nor does the client expect it *)
(* to, or want to wait for an answer.                                      *)
Reachable(c)  == peer[c] = "open" /\ (mem[c] = "none" \/ sock[c])
May(c, habit) == Reachable(c) /\ (habit \in Habits \/ (Quiet(c) /\ ~Refused(c)))

Connect(c) ==
  /\ epc \notin {"boot", "stop", "down"}
  /\ peer[c] = "none"
  /\ peer' = [peer EXCEPT ![c] = "open"]
  /\ UNCHANGED <<inbox, asked, half>>

Request(c, a) ==
  /\ May(c, "pipeline") /\ ~half[c]
  /\ Len(asked[c]) < MaxRequests
  /\ asked' = [asked EXCEPT ![c] = Append(@, a)]
  /\ \E part \in IF "split" \in Habits THEN {"whole", "head"} ELSE {"whole"} :
       /\ inbox' = [inbox EXCEPT ![c] = Append(@, [req |-> Len(asked[c]) + 1, part |-> part])]
       /\ half' = [half EXCEPT ![c] = part = "head"]
  /\ UNCHANGED peer

RequestRest(c) ==
  /\ Reachable(c) /\ half[c]
  /\ inbox' = [inbox EXCEPT ![c] = Append(@, [req |-> Len(asked[c]), part |-> "tail"])]
  /\ half' = [half EXCEPT ![c] = FALSE]
  /\ UNCHANGED <<peer, asked>>

HalfClose(c) ==
  /\ "fin" \in Habits /\ May(c, "hurry")
  /\ peer' = [peer EXCEPT ![c] = "fin"]
  /\ UNCHANGED <<inbox, asked, half>>

Reset(c) ==
  /\ "rst" \in Habits /\ May(c, "hurry")
  /\ peer' = [peer EXCEPT ![c] = "rst"]
  /\ inbox' = [inbox EXCEPT ![c] = <<>>]
  /\ UNCHANGED <<asked, half>>

ClientRead(c) ==
  /\ Backpressure
  /\ peer[c] \in {"open", "fin"} /\ room[c] < Room
  /\ room' = [room EXCEPT ![c] = @ + 1]
  /\ UNCHANGED <<peer, inbox, asked, half>>

Client(c) ==
  /\ \/ (Connect(c) \/ RequestRest(c) \/ HalfClose(c) \/ Reset(c)) /\ UNCHANGED room
     \/ (\E a \in Asks : Request(c, a)) /\ UNCHANGED room
     \/ ClientRead(c)
  /\ UNCHANGED <<objectVars, sock, poll, wire, handled, notified, workVars, epollVars>>

(* main: the operator types "stop".                                        *)
Stop ==
  /\ Started
  /\ Started' = FALSE
  /\ UNCHANGED <<epc, events, cur, connVars, workVars, half>>

-----------------------------------------------------------------------------
Worker(w) == (TakeJob(w) \/ OnConnect(w)) /\ UNCHANGED <<epollVars, half>>
Epoll     == EpollThread /\ UNCHANGED half

Next ==
  \/ Epoll
  \/ \E w \in Workers : Worker(w)
  \/ \E c \in Conns : Client(c)
  \/ Stop

Spec == Init /\ [][Next]_vars

(* Every thread runs; a client finishes the request it has begun and reads *)
(* what it is sent.                                                        *)
Fairness ==
  /\ WF_vars(Epoll)
  /\ \A w \in Workers : WF_vars(Worker(w))
  /\ \A c \in Conns : WF_vars(RequestRest(c) /\ Client(c)) /\ WF_vars(ClientRead(c) /\ Client(c))

FairSpec == Spec /\ Fairness

-----------------------------------------------------------------------------
(* Every variable has its type.                                            *)
TypeOK == ConnTypeOK /\ WorkTypeOK /\ EpollTypeOK /\ half \in [Conns -> BOOLEAN]

(* No thread is about to dereference a connection that has been deleted:   *)
(* not the epoll thread, for the event it handles or one it has still to   *)
(* handle, not a worker, not a queued job.                                 *)
NoStaleTouch ==
  /\ \A e \in events : e # Listener => mem[e.con] = "live"
  /\ epc \in {"test", "read", "job", "out", "outmod", "disconnect", "reap"} => mem[cur] = "live"
  /\ \A w \in Workers : on[w] # NULL => mem[on[w]] = "live"
  /\ \A i \in DOMAIN jobs : mem[jobs[i]] = "live"

(* A request for which the worker gives the connection up: it clears       *)
(* Processing first and then disconnects, as if nobody else could look.    *)
(* The length is too big, the site is not that of an earlier request, or   *)
(* more data comes than the length says.                                   *)
GivenUp(c) ==
  \E i \in DOMAIN asked[c] :
    \/ asked[c][i] = "huge"
    \/ asked[c][i] = "post" /\ i < Len(asked[c])
    \/ /\ asked[c][i] # "bad"
       /\ \E k \in 1 .. i - 1 : SiteOf[asked[c][k]] \notin {NULL, SiteOf[asked[c][i]]}


(* The jobs there are for a connection: queued, running, being submitted.  *)
JobsOf(c) ==
  Cardinality({ i \in DOMAIN jobs : jobs[i] = c }) + Cardinality({ w \in Workers : on[w] = c })
    + (IF epc = "job" /\ cur = c THEN 1 ELSE 0)

(* Processing is the lock the code takes it for: at most one job has a     *)
(* connection at a time, and while one has, the epoll thread does not read *)
(* into it, disconnect it or delete it.                                    *)
OneOwner ==
  \A c \in Conns : /\ JobsOf(c) <= 1
                   /\ epc \in {"read", "disconnect", "reap"} /\ cur = c => JobsOf(c) = 0

(* A connection that is marked Processing and has no job is not forgotten: *)
(* it has output that epoll will report, or the epoll thread is at it.     *)
(* thpool_destroy does forget the connections whose jobs it discards.      *)
NotForgotten ==
  \A c \in Conns : mem[c] = "live" /\ Processing[c] /\ JobsOf(c) = 0 =>
     \/ epc = "down"
     \/ SendQueue[c] # <<>> /\ poll[c] = "OUT"
     \/ cur = c /\ epc \in {"out", "reap"}

(* What a client receives is, unit by unit, the beginning of the answers   *)
(* to its requests in the order it sent them: no answer is mixed into      *)
(* another, skipped or sent twice, whoever of the two threads writes it.   *)
WireInOrder == \A c \in Conns : IsPrefix(wire[c], Expected(c))

(* Weaker, for slow clients: an answer once begun is written to its end    *)
(* before another begins, and no unit of it is skipped or repeated.        *)
AnswersWhole ==
  \A c \in Conns : \A i \in 1 .. Len(wire[c]) :
    LET r == wire[c][i][1]
        k == wire[c][i][2]
    IN  IF i = 1 THEN k = 1
        ELSE \/ wire[c][i - 1] = <<r, k - 1>>
             \/ /\ k = 1
                /\ wire[c][i - 1][2] = Units(asked[c][wire[c][i - 1][1]])

(* Site::OnDisconnect is called at most once, and only for a connection    *)
(* that was bound to a site; and when a connection the server has not      *)
(* dropped itself is gone, it has been called.  (After a 400 or a send     *)
(* that failed the worker deletes the connection and the site hears        *)
(* nothing.)                                                               *)
SiteNotified ==
  \A c \in Conns :
    /\ notified[c] <= IF ConnectedTo[c] = NULL THEN 0 ELSE 1
    /\ mem[c] = "freed" /\ Connected[c] /\ ConnectedTo[c] # NULL => notified[c] = 1

(* README.md:20-22: "the request comes to ConnectionManager, from there it *)
(* gets into the thread pool, to be processed by PacketProcessor, then     *)
(* control is passed to the requested site": every request that arrives is *)
(* acted on, unless the connection or the server ends first.               *)
Served ==
  \A c \in Conns, r \in 1 .. MaxRequests :
    Len(asked[c]) >= r ~> \/ r \in { handled[c][i] : i \in DOMAIN handled[c] }
                          \/ peer[c] # "open" \/ mem[c] = "freed" \/ ~Started

(* A client that goes on reading gets the whole answer to a request that   *)
(* was acted on, however small its buffer: what one sendall does not take  *)
(* is queued and sent when epoll reports room.  Not so when an answer is   *)
(* two packets, as that of a file is.                                      *)
Delivered ==
  \A c \in Conns, r \in 1 .. MaxRequests :
    LET its(k) == <<r, k>> \in { wire[c][i] : i \in DOMAIN wire[c] }
    IN  r \in { handled[c][i] : i \in DOMAIN handled[c] } ~>
          \/ Len(asked[c]) >= r /\ \A k \in 1 .. Units(asked[c][r]) : its(k)
          \/ \E i \in DOMAIN asked[c] : asked[c][i] = "file"
          \/ peer[c] # "open" \/ mem[c] = "freed" \/ ~Started

(* The connection of a client that has gone is deleted.                    *)
Reclaimed == \A c \in Conns : peer[c] \in {"fin", "rst"} ~> mem[c] = "freed" \/ ~Started

(* "stop" ends the epoll thread and the pool, once the server is up.       *)
Stops == ~Started /\ epc # "boot" ~> epc = "down"

(* The pool as a FIFO job server whose jobs are connections: the server    *)
(* uses it as it may, and never submits a connection that is in it.        *)
Pool == INSTANCE WorkQueue WITH Jobs <- Conns, pending <- jobs, running <- on

UsesPool == Pool!Spec
===============================================================================
