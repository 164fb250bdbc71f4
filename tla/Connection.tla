------------------------------ MODULE Connection ------------------------------
(***************************************************************************)
(* One connection of the web server: the Connection object of              *)
(* RequestTypes/Connection.cpp, which the epoll thread and a pool thread    *)
(* both use without a lock, and the kernel's side of it -- its socket      *)
(* buffers and its entry in the epoll set -- as the code relies on them.   *)
(*                                                                         *)
(* Data is abstract.  What a client sends is a sequence of fragments, each *)
(* the whole of a request, its beginning or its end.  What the server      *)
(* sends are the units <<r, 1>>, <<r, 2>>, ... of the answer to request r, *)
(* and a packet is a range of them.                                        *)
(*                                                                         *)
(* A definition named Op_Fault is not the code: it is Op with one mistake, *)
(* named after it, that a property of Server must notice.                  *)
(***************************************************************************)
EXTENDS Integers, Sequences, FiniteSets

CONSTANTS
  Conns,         \* the connections clients open, each with an object of its own
  Sites,         \* the sites the server has loaded
  Asks,          \* what requests ask for: a page or a file of a site, a page of
                 \* another site, a page of no site, a URL with "..", a POST,
                 \* nothing (malformed), or a body above MAX_CONTENT_LEN
  SiteOf,        \* the site whose domain a request names, or NULL
  MaxRequests,   \* bound: requests per connection
  MaxParts,      \* MAX_PARTS
  Room,          \* units a socket's send buffer holds
  Backpressure,  \* whether a send buffer can be full at all
  NULL

ASSUME ConnectionAssumption ==
  /\ NULL \notin Sites
  /\ Asks \subseteq {"page", "file", "other", "lost", "dots", "post", "bad", "huge"}
  /\ SiteOf \in [Asks -> Sites \cup {NULL}]
  /\ MaxRequests \in Nat \ {0} /\ MaxParts \in Nat /\ Room \in Nat \ {0}
  /\ Backpressure \in BOOLEAN

VARIABLES
  mem,          \* the object: "none", "live" or "freed"
  Connected, Processing, RevcData, SendQueue, ConnectedTo,
  sock,         \* Socket is an open descriptor
  poll,         \* what the epoll set watches it for: "none", "IN", "OUT"
  inbox,        \* fragments that have arrived and are not read
  room,         \* free units in the send buffer
  peer,         \* the client: "none", "open", "fin" (half-closed), "rst"
  asked,        \* history: what each request of the connection asked for
  wire,         \* history: the units the kernel has taken, in order
  handled,      \* history: the requests the server acted on, in order
  notified      \* history: how often Site::OnDisconnect was called

objectVars == <<mem, Connected, Processing, RevcData, SendQueue, ConnectedTo>>
kernelVars == <<sock, poll, inbox, room, peer>>
recordVars == <<asked, wire, handled, notified>>
connVars   == <<mem, Connected, Processing, RevcData, SendQueue, ConnectedTo, sock, poll,
                inbox, room, peer, asked, wire, handled, notified>>

Fragments == [req : 1 .. MaxRequests, part : {"whole", "head", "tail"}]
Packets   == [req : 1 .. MaxRequests, lo : 1 .. 5, hi : 1 .. 4]

(* How many units the answer to an ask has, and the packets it is sent as: *)
(* a file goes out as a header and a body, a page in one piece.            *)
Units(a)     == CASE a = "file" -> 4 [] a = "huge" -> 0 [] OTHER -> 2
Answer(r, a) == IF a = "file" THEN << [req |-> r, lo |-> 1, hi |-> 2],
                                      [req |-> r, lo |-> 3, hi |-> 4] >>
                              ELSE << [req |-> r, lo |-> 1, hi |-> 2] >>
Size(p)      == p.hi - p.lo + 1

ConnInit ==
  /\ mem = [c \in Conns |-> "none"]
  /\ Connected = [c \in Conns |-> FALSE] /\ Processing = [c \in Conns |-> FALSE]
  /\ RevcData = [c \in Conns |-> <<>>] /\ SendQueue = [c \in Conns |-> <<>>]
  /\ ConnectedTo = [c \in Conns |-> NULL]
  /\ sock = [c \in Conns |-> FALSE] /\ poll = [c \in Conns |-> "none"]
  /\ inbox = [c \in Conns |-> <<>>] /\ room = [c \in Conns |-> Room]
  /\ peer = [c \in Conns |-> "none"]
  /\ asked = [c \in Conns |-> <<>>] /\ wire = [c \in Conns |-> <<>>]
  /\ handled = [c \in Conns |-> <<>>] /\ notified = [c \in Conns |-> 0]

ConnTypeOK ==
  /\ mem \in [Conns -> {"none", "live", "freed"}]
  /\ Connected \in [Conns -> BOOLEAN] /\ Processing \in [Conns -> BOOLEAN]
  /\ RevcData \in [Conns -> Seq(Fragments)] /\ SendQueue \in [Conns -> Seq(Packets)]
  /\ ConnectedTo \in [Conns -> Sites \cup {NULL}]
  /\ sock \in [Conns -> BOOLEAN] /\ poll \in [Conns -> {"none", "IN", "OUT"}]
  /\ inbox \in [Conns -> Seq(Fragments)] /\ room \in [Conns -> 0 .. Room]
  /\ peer \in [Conns -> {"none", "open", "fin", "rst"}]
  /\ asked \in [Conns -> Seq(Asks)] /\ wire \in [Conns -> Seq((1 .. MaxRequests) \X (1 .. 4))]
  /\ handled \in [Conns -> Seq(1 .. MaxRequests)] /\ notified \in [Conns -> Nat]

-----------------------------------------------------------------------------
(* The kernel.                                                             *)

(* Level-triggered readiness: EPOLLIN while there is something to read, an *)
(* end of stream or an error; EPOLLOUT while there is room or an error;    *)
(* EPOLLRDHUP alone when neither bit the code tests is set.                *)
Ready(c) ==
  LET hup == peer[c] \in {"fin", "rst"}
  IN  CASE poll[c] = "IN"  /\ (inbox[c] # <<>> \/ hup)           -> "IN"
        [] poll[c] = "OUT" /\ (room[c] > 0 \/ peer[c] = "rst")   -> "OUT"
        [] poll[c] = "OUT" /\ room[c] = 0 /\ peer[c] = "fin"     -> "HUP"
        [] OTHER                                                 -> "none"

(* NetworkHelper::sendall: what it returns, and what the kernel has taken  *)
(* by then.  On a descriptor that was closed (Socket = 0) it fails.        *)
sendall(c, p) ==
  IF ~sock[c] \/ peer[c] = "rst"
  THEN "err"
  ELSE IF Backpressure /\ Size(p) > room[c] THEN "full" ELSE "ok"

Taken_All(c, p) == Size(p)

Taken(c, p) == IF sendall(c, p) = "full" THEN room[c] ELSE Size(p)

Rest_SkipsOne(c, p) == [p EXCEPT !.lo = @ + Taken(c, p) + 1]

Rest(c, p)  == [p EXCEPT !.lo = @ + Taken(c, p)]

Deliver(c, p) ==
  /\ wire' = [wire EXCEPT ![c] = @ \o [k \in 1 .. Taken(c, p) |-> <<p.req, p.lo + k - 1>>]]
  /\ room' = IF Backpressure THEN [room EXCEPT ![c] = @ - Taken(c, p)] ELSE room

(* ChangePollState: epoll_ctl fails on a descriptor that was closed.       *)
ChangePollState(c, state) ==
  poll' = IF sock[c] THEN [poll EXCEPT ![c] = state] ELSE poll

-----------------------------------------------------------------------------
(* The object.  Each of these leaves the variables it does not name to its *)
(* caller.                                                                 *)

WaitForPacket_Inverted(c) ==
  Processing' = [Processing EXCEPT ![c] = @ /\ SendQueue[c] = <<>>]

WaitForPacket(c) ==
  Processing' = [Processing EXCEPT ![c] = @ /\ SendQueue[c] # <<>>]

CloseSocket(c) ==
  /\ sock' = [sock EXCEPT ![c] = FALSE]
  /\ poll' = [poll EXCEPT ![c] = "none"]

Drop(c) ==
  /\ Connected' = [Connected EXCEPT ![c] = FALSE]
  /\ CloseSocket(c)

(* ~Connection.                                                            *)
Delete(c) ==
  /\ mem' = [mem EXCEPT ![c] = "freed"]
  /\ RevcData' = [RevcData EXCEPT ![c] = <<>>]
  /\ SendQueue' = [SendQueue EXCEPT ![c] = <<>>]
  /\ CloseSocket(c)

(* PacketProcessor::OnDisonnect, the first thing Disconnect does.          *)
Notify_Unbound(c) == notified' = [notified EXCEPT ![c] = @ + 1]

Notify(c) ==
  notified' = IF ConnectedTo[c] = NULL THEN notified ELSE [notified EXCEPT ![c] = @ + 1]

(* The rest of Disconnect: delete the object, unless Processing says that  *)
(* a pool thread will.                                                     *)
Reap_Never(c) == Drop(c) /\ UNCHANGED <<mem, RevcData, SendQueue>>

Reap(c) ==
  IF Processing[c]
  THEN Drop(c) /\ UNCHANGED <<mem, RevcData, SendQueue>>
  ELSE Delete(c) /\ UNCHANGED Connected
===============================================================================
