----------------------------- MODULE ServerProofs -----------------------------
(***************************************************************************)
(* Machine-checked proofs about the server, for any connections, workers   *)
(* and requests, and clients that pipeline whole requests, or wait for the *)
(* answer to each but send it in pieces, and close their connections when  *)
(* they like: a connection has one owner at a time, is not touched once it *)
(* is deleted, is not forgotten, the site hears of its end, answers go out *)
(* whole, to clients that wait in the order of their requests, and the     *)
(* pool is used as a FIFO job server may be.                               *)
(***************************************************************************)
EXTENDS Server, Induction, FiniteSetTheorems

(* The clients and requests of the theorems.  Requests are answered and    *)
(* not refused, and no send buffer is ever full: in the other cases the    *)
(* worker deletes connections, or shares them with the epoll thread, which *)
(* the invariant below does not allow and OneOwner does not survive.       *)
Orderly ==
  /\ \/ Habits \subseteq {"pipeline", "fin", "hurry"}
     \/ Habits \subseteq {"split", "fin", "hurry"}
  /\ ~Backpressure
  /\ Asks \subseteq {"page", "file"} /\ \A a, b \in Asks : SiteOf[a] = SiteOf[b]

Pieces == [req : Nat, part : {"whole", "head", "tail"}]

Types ==
  /\ mem \in [Conns -> {"none", "live", "freed"}]
  /\ Connected \in [Conns -> BOOLEAN] /\ Processing \in [Conns -> BOOLEAN]
  /\ ConnectedTo \in [Conns -> Sites \cup {NULL}]
  /\ sock \in [Conns -> BOOLEAN] /\ poll \in [Conns -> {"none", "IN"}]
  /\ peer \in [Conns -> {"none", "open", "fin"}]
  /\ SendQueue = [c \in Conns |-> <<>>]
  /\ asked \in [Conns -> Seq(Asks)] /\ notified \in [Conns -> Nat]
  /\ jobs \in Seq(Conns) /\ open \in BOOLEAN
  /\ wpc \in [Workers -> {"idle", "build", "partial", "parse", "send", "direct", "end", "reset", "park"}]
  /\ on \in [Workers -> Conns \cup {NULL}] /\ next = [w \in Workers |-> "end"]
  /\ half \in [Conns -> BOOLEAN]
  /\ \A c \in Conns : half[c] => asked[c] # <<>> /\ "split" \in Habits
  /\ epc \in EpollPCs \ {"out", "outmod"} /\ cur \in Conns \cup {NULL}

(* A fragment is of a request the client has sent.                         *)
Sent(asks, f) ==
  /\ f.req \in DOMAIN asks
  /\ f.part = "whole" \/ "split" \in Habits

(* A buffer begins with a request, or with the beginning of one.           *)
Legible(buf) ==
  buf # <<>> =>
    \/ buf[1].part = "whole"
    \/ buf[1].part = "head" /\ (Len(buf) > 1 => buf[2] = [buf[1] EXCEPT !.part = "tail"])

(* What has arrived is what the client has sent, and a worker that reads   *)
(* it finds a request in it.                                               *)
Texts ==
  /\ RevcData \in [Conns -> Seq(Pieces)]
  /\ inbox \in [Conns -> Seq(Pieces)]
  /\ \A c \in Conns : \A i \in DOMAIN RevcData[c] : Sent(asked[c], RevcData[c][i])
  /\ \A c \in Conns : \A i \in DOMAIN inbox[c] : Sent(asked[c], inbox[c][i])
  /\ \A c \in Conns : Legible(RevcData[c])
  /\ \A w \in Workers : wpc[w] = "parse" => Finished(RevcData[on[w]])

(* A connection that is there can be used.                                 *)
Alive ==
  /\ \A c \in Conns : IF mem[c] = "live" THEN Connected[c] /\ sock[c] ELSE poll[c] = "none"
  /\ \A c \in Conns, a \in Asks : ConnectedTo[c] \in {NULL, SiteOf[a]}

(* Somebody has, or is about to have, the connection in a job.             *)
Has(c) ==
  \/ \E i \in DOMAIN jobs : jobs[i] = c
  \/ \E w \in Workers : on[w] = c
  \/ epc = "job" /\ cur = c

(* Processing says so, ...                                                 *)
Marked ==
  /\ \A c \in Conns : Processing[c] => mem[c] = "live" /\ (Has(c) \/ epc = "down")
  /\ \A c \in Conns : Has(c) => Processing[c]

(* ... and it is a single job.                                             *)
Single ==
  /\ \A i, j \in DOMAIN jobs : jobs[i] = jobs[j] => i = j
  /\ \A w, v \in Workers : on[w] = on[v] /\ on[w] # NULL => w = v
  /\ \A i \in DOMAIN jobs, w \in Workers : jobs[i] # on[w]
  /\ epc = "job" => (\A i \in DOMAIN jobs : jobs[i] # cur) /\ (\A w \in Workers : on[w] # cur)

Busy == \A w \in Workers : wpc[w] = "idle" <=> on[w] = NULL

(* The epoll thread is at a connection that is there, has no second event  *)
(* for it, and reads into it or ends it only when nobody has it.           *)
Holding == epc \in {"test", "read", "job", "disconnect", "reap"}

Looping ==
  /\ \A e \in events :
       e = Listener \/ \E c \in Conns : e = Event(c, "IN") /\ mem[c] = "live"
  /\ Holding => cur \in Conns /\ mem[cur] = "live" /\ Event(cur, "IN") \notin events
  /\ epc \in {"read", "disconnect", "reap"} => ~Processing[cur]
  /\ open <=> epc \notin {"stop", "down"}

(* The site has heard of the ends of connections, and of nothing else.     *)
Told(c) == IF ConnectedTo[c] = NULL THEN 0 ELSE 1

Notices ==
  \A c \in Conns :
    notified[c] = IF mem[c] = "freed" \/ (epc = "reap" /\ cur = c) THEN Told(c) ELSE 0

ServerInv == Types /\ Texts /\ Alive /\ Marked /\ Single /\ Busy /\ Looping /\ Notices

-----------------------------------------------------------------------------
(* What the proofs use of an action that leaves a part alone.              *)
partVars == <<mem, Connected, Processing, RevcData, SendQueue, ConnectedTo, sock, poll, inbox,
              peer, asked, notified, half, jobs, open, on, next>>
loopVars == <<epc, events, cur>>

(* A worker that only goes on to its next step keeps the invariant.        *)
LEMMA Moves ==
  ASSUME ServerInv, UNCHANGED <<partVars, loopVars>>, NEW w \in Workers, wpc[w] # "idle",
         NEW pc \in {"build", "partial", "parse", "send", "direct", "end", "reset", "park"},
         Goto(w, pc), pc = "parse" => Finished(RevcData[on[w]])
  PROVE  ServerInv'
<1> USE DEF partVars, loopVars
<1>1. Types'
  BY DEF ServerInv, Types, Goto
<1>2. Texts'
  BY DEF ServerInv, Types, Texts, Sent, Goto
<1>3. Alive'
  BY DEF ServerInv, Alive
<1>4. Marked'
  BY DEF ServerInv, Marked, Has
<1>5. Single'
  BY DEF ServerInv, Single
<1>6. Busy'
  BY DEF ServerInv, Types, Busy, Goto
<1>7. Looping'
  BY DEF ServerInv, Looping, Holding
<1>8. Notices'
  BY DEF ServerInv, Notices, Told
<1> QED
  BY <1>1, <1>2, <1>3, <1>4, <1>5, <1>6, <1>7, <1>8 DEF ServerInv

(* Clients that behave and one worker's step: no request is refused, no    *)
(* send fails, so nothing is queued and no worker ends a connection.       *)
LEMMA OrderlyFacts ==
  ASSUME Orderly
  PROVE  /\ \A a \in Asks : a \in {"page", "file"} /\ SiteOf[a] \in Sites \cup {NULL}
         /\ NULL \notin Conns /\ NULL \notin Workers
         /\ Backpressure = FALSE
  BY ConnectionAssumption, WorkersAssumption
  DEF ConnectionAssumption, WorkersAssumption, Orderly

(* A worker that takes a job keeps the invariant.                          *)
LEMMA TakeJobStep ==
  ASSUME Orderly, ServerInv, NEW w \in Workers, TakeJob(w), UNCHANGED <<epollVars, half>>
  PROVE  ServerInv'
<1> DEFINE c == Head(jobs)
<1> USE DEF TakeJob, epollVars, connVars
<1>1. /\ jobs \in Seq(Conns) /\ jobs # <<>> /\ c \in Conns /\ c = jobs[1] /\ 1 \in DOMAIN jobs
      /\ wpc[w] = "idle" /\ on[w] = NULL /\ c # NULL
  BY OrderlyFacts DEF ServerInv, Types, Busy
<1>2. /\ jobs' \in Seq(Conns)
      /\ \A i \in DOMAIN jobs' : i + 1 \in DOMAIN jobs /\ i + 1 # 1 /\ jobs'[i] = jobs[i + 1]
      /\ \A i \in DOMAIN jobs : i # 1 => i - 1 \in DOMAIN jobs' /\ jobs'[i - 1] = jobs[i]
  BY <1>1
<1>3. /\ on' \in [Workers -> Conns \cup {NULL}] /\ on'[w] = c
      /\ \A v \in Workers : v # w => on'[v] = on[v]
      /\ wpc'[w] = "build" /\ \A v \in Workers : v # w => wpc'[v] = wpc[v]
  BY <1>1 DEF ServerInv, Types, Goto
<1>4. Types'
  BY <1>2, <1>3 DEF ServerInv, Types, Goto
<1>5. Texts'
  BY <1>3 DEF ServerInv, Types, Texts
<1>6. Alive'
  BY DEF ServerInv, Alive
<1>7. ASSUME NEW d \in Conns
      PROVE  Has(d)' <=> Has(d)
  <2>1. CASE d = c
    BY <2>1, <1>1, <1>3 DEF Has
  <2>2. CASE d # c
    <3>1. (\E i \in DOMAIN jobs' : jobs'[i] = d) <=> (\E i \in DOMAIN jobs : jobs[i] = d)
      <4>1. ASSUME NEW i \in DOMAIN jobs', jobs'[i] = d
            PROVE  \E k \in DOMAIN jobs : jobs[k] = d
        BY <4>1, <1>2
      <4>2. ASSUME NEW i \in DOMAIN jobs, jobs[i] = d
            PROVE  \E k \in DOMAIN jobs' : jobs'[k] = d
        <5>1. i # 1
          BY <4>2, <2>2, <1>1
        <5> QED
          BY <4>2, <5>1, <1>2
      <4> QED
        BY <4>1, <4>2
    <3>2. (\E v \in Workers : on'[v] = d) <=> (\E v \in Workers : on[v] = d)
      BY <2>2, <1>1, <1>3, OrderlyFacts
    <3> QED
      BY <3>1, <3>2 DEF Has
  <2> QED
    BY <2>1, <2>2
<1>8. Marked'
  BY <1>7 DEF ServerInv, Marked
<1>9. Single'
  <2>1. \A i, j \in DOMAIN jobs' : jobs'[i] = jobs'[j] => i = j
    <3> SUFFICES ASSUME NEW i \in DOMAIN jobs', NEW j \in DOMAIN jobs', jobs'[i] = jobs'[j]
                 PROVE  i = j
      OBVIOUS
    <3>1. i + 1 = j + 1
      BY <1>2 DEF ServerInv, Single
    <3>2. i \in Int /\ j \in Int
      BY <1>2
    <3> QED
      BY <3>1, <3>2
  <2>2. \A v, u \in Workers : on'[v] = on'[u] /\ on'[v] # NULL => v = u
    BY <1>1, <1>3 DEF ServerInv, Single
  <2>3. \A i \in DOMAIN jobs', v \in Workers : jobs'[i] # on'[v]
    BY <1>1, <1>2, <1>3 DEF ServerInv, Single
  <2>4. epc' = "job" => (\A i \in DOMAIN jobs' : jobs'[i] # cur') /\ (\A v \in Workers : on'[v] # cur')
    BY <1>1, <1>2, <1>3 DEF ServerInv, Single
  <2> QED
    BY <2>1, <2>2, <2>3, <2>4 DEF Single
<1>10. Busy'
  BY <1>1, <1>3 DEF ServerInv, Busy
<1>11. Looping'
  BY DEF ServerInv, Looping, Holding
<1>12. Notices'
  BY DEF ServerInv, Notices, Told
<1> QED
  BY <1>4, <1>5, <1>6, <1>8, <1>9, <1>10, <1>11, <1>12 DEF ServerInv

(* What the connection of a worker that is not idle is like.               *)
LEMMA Working ==
  ASSUME Orderly, ServerInv, NEW w \in Workers, wpc[w] # "idle"
  PROVE  /\ on[w] \in Conns /\ Has(on[w]) /\ Processing[on[w]]
         /\ mem[on[w]] = "live" /\ Connected[on[w]] /\ sock[on[w]]
         /\ ~(epc \in {"read", "disconnect", "reap"} /\ cur = on[w])
         /\ \A v \in Workers : on[v] = on[w] => v = w
         /\ \A i \in DOMAIN jobs : jobs[i] # on[w]
         /\ ~(epc = "job" /\ cur = on[w])
<1>1. on[w] \in Conns
  BY DEF ServerInv, Types, Busy
<1>2. Has(on[w])
  BY <1>1 DEF Has
<1>3. Processing[on[w]] /\ mem[on[w]] = "live"
  BY <1>1, <1>2 DEF ServerInv, Marked
<1>4. Connected[on[w]] /\ sock[on[w]]
  BY <1>1, <1>3 DEF ServerInv, Alive
<1>5. ~(epc \in {"read", "disconnect", "reap"} /\ cur = on[w])
  BY <1>3 DEF ServerInv, Looping
<1>6. /\ \A v \in Workers : on[v] = on[w] => v = w
      /\ \A i \in DOMAIN jobs : jobs[i] # on[w]
      /\ ~(epc = "job" /\ cur = on[w])
  BY <1>1, OrderlyFacts DEF ServerInv, Single
<1> QED
  BY <1>1, <1>2, <1>3, <1>4, <1>5, <1>6

(* A sequence that is not empty has a first element.                       *)
LEMMA NotEmpty ==
  ASSUME NEW S, NEW s \in Seq(S), s # <<>>
  PROVE  1 \in DOMAIN s /\ s[1] \in S
  OBVIOUS

(* What a worker reads is a request for a page or a file.                  *)
LEMMA Reading ==
  ASSUME Orderly, ServerInv, NEW c \in Conns
  PROVE  /\ RevcData[c] \in Seq(Pieces)
         /\ ~Rejected(RevcData[c], asked[c])
         /\ Finished(RevcData[c]) => /\ RevcData[c] # <<>>
                                     /\ First(RevcData[c], asked[c]) \in Asks
                                     /\ First(RevcData[c], asked[c]) \in {"page", "file"}
                                     /\ RevcData[c][1].req \in DOMAIN asked[c]
                                     /\ First(RevcData[c], asked[c]) = asked[c][RevcData[c][1].req]
<1> DEFINE buf == RevcData[c]
<1>1. buf \in Seq(Pieces)
  BY DEF ServerInv, Texts
<1>2. CASE buf = <<>>
  BY <1>1, <1>2 DEF Rejected, Finished
<1>3. CASE buf # <<>>
  <2>1. 1 \in DOMAIN buf /\ buf[1] \in Pieces
    BY <1>1, <1>3, NotEmpty
  <2>2. buf[1].req \in DOMAIN asked[c]
    BY <2>1 DEF ServerInv, Texts, Sent
  <2>3. asked[c][buf[1].req] \in Asks /\ asked[c][buf[1].req] \in {"page", "file"}
    BY <2>2, OrderlyFacts DEF ServerInv, Types
  <2>4. ~Rejected(buf, asked[c])
    BY <2>3 DEF Rejected
  <2>5. ASSUME Finished(buf)
        PROVE  First(buf, asked[c]) = asked[c][buf[1].req]
    <3>1. Legible(buf)
      BY DEF ServerInv, Texts
    <3>2. CASE buf[1].part = "whole"
      BY <3>2 DEF First
    <3>3. CASE buf[1].part = "head"
      <4>1. PICK i \in DOMAIN buf : buf[i].part \in {"whole", "tail"}
        BY <2>5 DEF Finished
      <4>2. i # 1
        BY <3>3, <4>1
      <4>3. Len(buf) > 1
        BY <1>1, <4>1, <4>2
      <4>4. buf[2] = [buf[1] EXCEPT !.part = "tail"]
        BY <1>3, <3>1, <3>3, <4>3 DEF Legible
      <4> QED
        BY <3>3, <4>3, <4>4 DEF First
    <3> QED
      BY <1>3, <3>1, <3>2, <3>3 DEF Legible
  <2> QED
    BY <1>1, <1>3, <2>2, <2>3, <2>4, <2>5
<1> QED
  BY <1>2, <1>3

(* A worker that parses a request keeps the invariant.                     *)
LEMMA ParseStep ==
  ASSUME Orderly, ServerInv, NEW w \in Workers, Parse(w), UNCHANGED <<epollVars, half>>
  PROVE  ServerInv'
<1> DEFINE c    == on[w]
           buf  == RevcData[c]
           site == SiteOf[First(buf, asked[c])]
<1>1. wpc[w] = "parse" /\ wpc[w] # "idle" /\ c \in Conns /\ Finished(buf)
  BY Working DEF Parse, At, ServerInv, Texts
<1>2. /\ First(buf, asked[c]) \in Asks /\ First(buf, asked[c]) \in {"page", "file"}
      /\ ConnectedTo[c] \in {NULL, site} /\ site \in Sites \cup {NULL}
  BY <1>1, Reading, OrderlyFacts DEF ServerInv, Alive
<1>3. ConnectedTo' = [ConnectedTo EXCEPT ![c] = site]
  BY <1>1, <1>2 DEF Parse
<1>4. next'[w] = "end" /\ next' \in [Workers -> {"end"}]
  BY <1>1, <1>2 DEF Parse, ServerInv, Types
<1>5. /\ ConnectedTo' \in [Conns -> Sites \cup {NULL}] /\ ConnectedTo'[c] = site
      /\ \A d \in Conns : d # c => ConnectedTo'[d] = ConnectedTo[d]
  BY <1>1, <1>2, <1>3 DEF ServerInv, Types
<1>6. wpc' = [wpc EXCEPT ![w] = "send"]
      /\ UNCHANGED <<mem, Connected, Processing, RevcData, SendQueue, sock, poll, inbox, peer,
                     asked, notified, half, jobs, open, on, epc, events, cur>>
  BY DEF Parse, Goto, epollVars, kernelVars
<1>7. Types'
  BY <1>4, <1>5, <1>6 DEF ServerInv, Types
<1>8. Texts'
  BY <1>6 DEF ServerInv, Types, Texts, Sent
<1>9. Alive'
  <2>1. \A a \in Asks : site = SiteOf[a]
    BY <1>2 DEF Orderly
  <2> QED
    BY <2>1, <1>5, <1>6 DEF ServerInv, Alive
<1>10. Marked'
  BY <1>6 DEF ServerInv, Marked, Has
<1>11. Single'
  BY <1>6 DEF ServerInv, Single
<1>12. Busy'
  BY <1>1, <1>6 DEF ServerInv, Types, Busy
<1>13. Looping'
  BY <1>6 DEF ServerInv, Looping, Holding
<1>14. Notices'
  <2>1. mem[c] = "live" /\ ~(epc = "reap" /\ cur = c)
    BY <1>1, Working
  <2> QED
    BY <2>1, <1>5, <1>6 DEF ServerInv, Notices, Told
<1> QED
  BY <1>7, <1>8, <1>9, <1>10, <1>11, <1>12, <1>13, <1>14 DEF ServerInv

(* What the worker does that has parsed a request: it answers that one.    *)
LEMMA ParseResult ==
  ASSUME Orderly, ServerInv, NEW w \in Workers, Parse(w)
  PROVE  LET c == on[w]
             r == RevcData[c][1].req
         IN  /\ wpc[w] = "parse" /\ c \in Conns /\ RevcData[c] # <<>> /\ Finished(RevcData[c])
             /\ r \in DOMAIN asked[c] /\ asked[c][r] \in Asks /\ asked[c][r] \in {"page", "file"}
             /\ outbox' = [outbox EXCEPT ![w] = Answer(r, asked[c][r])]
             /\ wpc' = [wpc EXCEPT ![w] = "send"]
             /\ UNCHANGED <<wire, asked, inbox, RevcData, on>>
<1> DEFINE c   == on[w]
           buf == RevcData[c]
           r   == buf[1].req
<1>1. wpc[w] = "parse" /\ c \in Conns /\ Finished(buf)
  BY Working DEF Parse, At, ServerInv, Texts
<1>2. /\ buf # <<>> /\ First(buf, asked[c]) = asked[c][r] /\ r \in DOMAIN asked[c]
      /\ asked[c][r] \in Asks /\ asked[c][r] \in {"page", "file"}
      /\ ConnectedTo[c] \in {NULL, SiteOf[asked[c][r]]}
  BY <1>1, Reading, OrderlyFacts DEF ServerInv, Alive
<1>3. outbox' = [outbox EXCEPT ![w] = Answer(r, asked[c][r])]
  BY <1>1, <1>2 DEF Parse
<1>4. UNCHANGED <<wire, asked, inbox, RevcData, on>> /\ wpc' = [wpc EXCEPT ![w] = "send"]
  BY DEF Parse, Goto, kernelVars
<1> QED
  BY <1>1, <1>2, <1>3, <1>4

(* A worker's send succeeds: the whole packet goes out.                    *)
Pair(r, lo) == [k \in 1 .. 2 |-> <<r, lo + k - 1>>]

(* A worker that sends puts the two units on the wire and drops them from its outbox. *)
LEMMA DirectSends ==
  ASSUME Orderly, ServerInv, NEW w \in Workers, SendDirect(w), NEW r, NEW lo \in Nat,
         Head(outbox[w]) = [req |-> r, lo |-> lo, hi |-> lo + 1]
  PROVE  /\ wire' = [wire EXCEPT ![on[w]] = @ \o Pair(r, lo)]
         /\ outbox' = [outbox EXCEPT ![w] = Tail(@)]
         /\ wpc' = [wpc EXCEPT ![w] = "send"] /\ UNCHANGED <<asked, inbox, RevcData, on>>
<1> DEFINE c == on[w]
           p == Head(outbox[w])
<1>1. wpc[w] = "direct" /\ c \in Conns /\ sock[c] /\ peer[c] # "rst"
  BY Working DEF SendDirect, At, ServerInv, Types
<1>2. sendall(c, p) = "ok"
  BY <1>1, OrderlyFacts DEF sendall
<1>3. Taken(c, p) = 2 /\ p.req = r /\ p.lo = lo
  BY <1>2 DEF Taken, Size
<1>4. Deliver(c, p) /\ outbox' = [outbox EXCEPT ![w] = Tail(@)] /\ Goto(w, "send")
  BY <1>2 DEF SendDirect
<1> HIDE DEF p
<1> QED
  BY <1>3, <1>4 DEF Deliver, Goto, SendDirect, Pair

(* A worker that drops the fragments of an answered request keeps the invariant. *)
LEMMA ResetStep ==
  ASSUME Orderly, ServerInv, NEW w \in Workers, WaitForRequest(w), UNCHANGED <<epollVars, half>>
  PROVE  ServerInv'
<1> DEFINE c == on[w]
<1>1. wpc[w] = "reset" /\ c \in Conns /\ \A v \in Workers : on[v] = c => v = w
  BY Working DEF WaitForRequest, At
<1>2. /\ RevcData' \in [Conns -> Seq(Pieces)] /\ RevcData'[c] = <<>>
      /\ \A d \in Conns : d # c => RevcData'[d] = RevcData[d]
  BY <1>1 DEF WaitForRequest, ServerInv, Texts
<1>3. /\ wpc' \in [Workers -> {"idle", "build", "partial", "parse", "send", "direct", "end", "reset", "park"}]
      /\ wpc'[w] = "park" /\ \A v \in Workers : v # w => wpc'[v] = wpc[v]
      /\ UNCHANGED <<mem, Connected, Processing, ConnectedTo, SendQueue, sock, poll, inbox, peer,
                     asked, notified, half, jobs, open, on, next, epc, events, cur>>
  BY DEF WaitForRequest, Goto, epollVars, kernelVars, recordVars, ServerInv, Types
<1>4. Types'
  BY <1>3 DEF ServerInv, Types
<1>5. Texts'
  <2>1. \A d \in Conns : \A i \in DOMAIN RevcData'[d] : Sent(asked[d], RevcData'[d][i])
    <3> SUFFICES ASSUME NEW d \in Conns, NEW i \in DOMAIN RevcData'[d]
                 PROVE  Sent(asked[d], RevcData'[d][i])
      OBVIOUS
    <3>1. d # c
      BY <1>2
    <3> QED
      BY <3>1, <1>2 DEF ServerInv, Texts
  <2>2. \A v \in Workers : wpc'[v] = "parse" => Finished(RevcData'[on[v]])
    <3> SUFFICES ASSUME NEW v \in Workers, wpc'[v] = "parse"
                 PROVE  Finished(RevcData'[on[v]])
      OBVIOUS
    <3>1. v # w /\ wpc[v] = "parse" /\ on[v] \in Conns /\ on[v] # c
      BY <1>1, <1>3 DEF ServerInv, Types, Busy
    <3> QED
      BY <3>1, <1>2 DEF ServerInv, Texts
  <2>3. \A d \in Conns : Legible(RevcData'[d])
    BY <1>2 DEF ServerInv, Texts, Legible
  <2> QED
    BY <2>1, <2>2, <2>3, <1>2, <1>3 DEF ServerInv, Texts, Sent
<1>6. Alive'
  BY <1>3 DEF ServerInv, Alive
<1>7. Marked'
  BY <1>3 DEF ServerInv, Marked, Has
<1>8. Single'
  BY <1>3 DEF ServerInv, Single
<1>9. Busy'
  BY <1>1, <1>3 DEF ServerInv, Busy
<1>10. Looping'
  BY <1>3 DEF ServerInv, Looping, Holding
<1>11. Notices'
  BY <1>3 DEF ServerInv, Notices, Told
<1> QED
  BY <1>4, <1>5, <1>6, <1>7, <1>8, <1>9, <1>10, <1>11 DEF ServerInv

(* A worker that gives its connection back keeps the invariant.            *)
LEMMA ParkStep ==
  ASSUME Orderly, ServerInv, NEW w \in Workers, Park(w), UNCHANGED <<epollVars, half>>
  PROVE  ServerInv'
<1> DEFINE c == on[w]
<1>1. wpc[w] = "park" /\ c \in Conns
  BY Working DEF Park, At
<1>2. SendQueue[c] = <<>>
  BY <1>1 DEF ServerInv, Types
<1>3. /\ Processing' \in [Conns -> BOOLEAN] /\ Processing'[c] = FALSE
      /\ \A d \in Conns : d # c => Processing'[d] = Processing[d]
  BY <1>1, <1>2 DEF Park, WaitForPacket, ServerInv, Types
<1>4. /\ wpc' \in [Workers -> {"idle", "build", "partial", "parse", "send", "direct", "end", "reset", "park"}]
      /\ wpc'[w] = "idle" /\ \A v \in Workers : v # w => wpc'[v] = wpc[v]
      /\ on' \in [Workers -> Conns \cup {NULL}]
      /\ on'[w] = NULL /\ \A v \in Workers : v # w => on'[v] = on[v]
      /\ UNCHANGED <<mem, Connected, RevcData, ConnectedTo, SendQueue, sock, poll, inbox, peer,
                     asked, notified, half, jobs, open, next, epc, events, cur>>
  BY DEF Park, Return, Goto, epollVars, kernelVars, recordVars, ServerInv, Types
<1>5. Types'
  BY <1>3, <1>4 DEF ServerInv, Types
<1>6. Texts'
  BY <1>4 DEF ServerInv, Texts, Sent
<1>7. Alive'
  BY <1>4 DEF ServerInv, Alive
<1>8. ASSUME NEW d \in Conns
      PROVE  Has(d)' <=> Has(d) /\ d # c
  <2>1. CASE d = c
    BY <2>1, <1>1, <1>4, Working, OrderlyFacts DEF Has
  <2>2. CASE d # c
    BY <2>2, <1>4, OrderlyFacts DEF Has
  <2> QED
    BY <2>1, <2>2
<1>9. Marked'
  BY <1>3, <1>4, <1>8 DEF ServerInv, Marked
<1>10. Single'
  <2>1. NULL \notin Conns /\ jobs \in Seq(Conns)
    BY OrderlyFacts DEF ServerInv, Types
  <2>2. \A v, u \in Workers : on'[v] = on'[u] /\ on'[v] # NULL => v = u
    BY <1>4 DEF ServerInv, Single
  <2>3. \A i \in DOMAIN jobs, v \in Workers : jobs[i] # on'[v]
    BY <1>4, <2>1 DEF ServerInv, Single
  <2>4. epc = "job" => cur \in Conns
    BY DEF ServerInv, Looping, Holding
  <2>5. epc = "job" => \A v \in Workers : on'[v] # cur
    BY <1>4, <2>1, <2>4 DEF ServerInv, Single
  <2> QED
    BY <1>4, <2>2, <2>3, <2>5 DEF ServerInv, Single
<1>11. Busy'
  BY <1>4 DEF ServerInv, Busy
<1>12. Looping'
  BY <1>3, <1>4 DEF ServerInv, Looping, Holding
<1>13. Notices'
  BY <1>4 DEF ServerInv, Notices, Told
<1> QED
  BY <1>5, <1>6, <1>7, <1>9, <1>10, <1>11, <1>12, <1>13 DEF ServerInv

(* A step of a worker keeps the invariant.                                 *)
LEMMA WorkerStep ==
  ASSUME Orderly, ServerInv, NEW w \in Workers, Worker(w)
  PROVE  ServerInv'
<1> USE DEF epollVars, connVars, partVars, loopVars
<1>1. UNCHANGED <<epollVars, half>>
  BY DEF Worker
<1>2. wpc[w] \notin {"clear", "notify", "reap", "delete", "push", "poll"} /\ next[w] = "end"
  BY DEF ServerInv, Types
<1>3. CASE TakeJob(w)
  BY <1>1, <1>3, TakeJobStep
<1>4. CASE Build(w)
  <2>1. wpc[w] = "build" /\ wpc[w] # "idle" /\ on[w] \in Conns
    BY <1>4, Working DEF Build, At
  <2>2. CASE Finished(RevcData[on[w]])
    <3>1. Goto(w, "parse")
      BY <1>4, <2>1, <2>2, Reading DEF Build
    <3> QED
      BY <1>1, <1>4, <2>1, <2>2, <3>1, Moves DEF Build
  <2>3. CASE ~Finished(RevcData[on[w]])
    <3>1. Goto(w, "partial")
      BY <1>4, <2>1, <2>3, Reading DEF Build
    <3> QED
      BY <1>1, <1>4, <2>1, <3>1, Moves DEF Build
  <2> QED
    BY <2>2, <2>3
<1>5. CASE Partial(w)
  <2>1. wpc[w] # "idle"
    BY <1>5 DEF Partial, At
  <2>2. Goto(w, "park")
    BY <1>5, <2>1, Working DEF Partial
  <2> QED
    BY <1>1, <1>5, <2>1, <2>2, Moves DEF Partial
<1>6. CASE Parse(w)
  BY <1>1, <1>6, ParseStep
<1>7. CASE Send(w)
  <2>1. wpc[w] # "idle"
    BY <1>7 DEF Send, At
  <2>2. Connected[on[w]] /\ SendQueue[on[w]] = <<>>
    BY <2>1, Working DEF ServerInv, Types
  <2>3. Goto(w, "direct")
    BY <1>7, <2>2 DEF Send
  <2> QED
    BY <1>1, <1>7, <2>1, <2>3, Moves DEF Send
<1>8. CASE SendDirect(w)
  <2>1. wpc[w] # "idle"
    BY <1>8 DEF SendDirect, At
  <2>2. sock[on[w]] /\ peer[on[w]] # "rst"
    BY <2>1, Working DEF ServerInv, Types
  <2>3. sendall(on[w], Head(outbox[w])) = "ok"
    BY <2>2, OrderlyFacts DEF sendall
  <2>4. Goto(w, "send") /\ UNCHANGED <<Connected, sock, poll>>
    BY <1>8, <2>3 DEF SendDirect
  <2> QED
    BY <1>1, <1>8, <2>1, <2>4, Moves DEF SendDirect
<1>9. CASE PushPacket(w)
  BY <1>2, <1>9 DEF PushPacket, At
<1>10. CASE WatchOutput(w)
  BY <1>2, <1>10 DEF WatchOutput, At
<1>11. CASE Handled(w)
  <2>1. wpc[w] # "idle"
    BY <1>11 DEF Handled, At
  <2>2. Goto(w, "end") /\ UNCHANGED <<Connected, sock, poll>>
    BY <1>2, <1>11 DEF Handled
  <2> QED
    BY <1>1, <1>11, <2>1, <2>2, Moves DEF Handled, recordVars
<1>12. CASE End(w)
  <2>1. wpc[w] # "idle"
    BY <1>12 DEF End, At
  <2>2. Goto(w, "reset")
    BY <1>12, <2>1, Working DEF End
  <2> QED
    BY <1>1, <1>12, <2>1, <2>2, Moves DEF End
<1>13. CASE WaitForRequest(w)
  BY <1>1, <1>13, ResetStep
<1>14. CASE Park(w)
  BY <1>1, <1>14, ParkStep
<1>15. CASE DeleteClient(w) \/ ClearProcessing(w) \/ NotifySite(w) \/ ReapClient(w)
  BY <1>2, <1>15 DEF DeleteClient, ClearProcessing, NotifySite, ReapClient, At
<1> QED
  BY <1>3, <1>4, <1>5, <1>6, <1>7, <1>8, <1>9, <1>10, <1>11, <1>12, <1>13, <1>14, <1>15
  DEF Worker, OnConnect

-----------------------------------------------------------------------------
(* A fragment is added to what has arrived.                                *)
Added(c, f) ==
  /\ inbox' \in [Conns -> Seq(Pieces)]
  /\ \A d \in Conns : \A i \in DOMAIN inbox'[d] : Sent(asked'[d], inbox'[d][i])

(* A piece sent by a client comes to the end of what is still to be read.  *)
LEMMA Adding ==
  ASSUME ServerInv, NEW c \in Conns, NEW f \in Pieces, Sent(asked'[c], f),
         inbox' = [inbox EXCEPT ![c] = Append(@, f)],
         \A d \in Conns : DOMAIN asked[d] \subseteq DOMAIN asked'[d]
  PROVE  Added(c, f)
<1>1. /\ inbox[c] \in Seq(Pieces) /\ Len(inbox[c]) \in Nat
      /\ Append(inbox[c], f) \in Seq(Pieces)
      /\ \A i \in DOMAIN Append(inbox[c], f) :
           \/ i \in DOMAIN inbox[c] /\ Append(inbox[c], f)[i] = inbox[c][i]
           \/ Append(inbox[c], f)[i] = f
  BY DEF ServerInv, Texts
<1>2. /\ inbox' \in [Conns -> Seq(Pieces)] /\ inbox'[c] = Append(inbox[c], f)
      /\ \A d \in Conns : d # c => inbox'[d] = inbox[d]
  BY <1>1 DEF ServerInv, Texts
<1>3. \A d \in Conns : \A i \in DOMAIN inbox[d] : Sent(asked'[d], inbox[d][i])
  BY DEF ServerInv, Texts, Sent
<1> QED
  BY <1>1, <1>2, <1>3 DEF Added

(* A step of a client, or of the operator: the epoll thread's and the      *)
(* workers' state is as before.                                            *)
LEMMA ClientStep ==
  ASSUME Orderly, ServerInv, NEW c \in Conns, Client(c)
  PROVE  ServerInv'
<1>1. UNCHANGED <<mem, Connected, Processing, RevcData, SendQueue, ConnectedTo, sock, poll,
                  notified, jobs, open, wpc, on, next, epc, events, cur>>
  BY DEF Client, objectVars, workVars, epollVars
<1>2. /\ half' \in [Conns -> BOOLEAN]
      /\ \A d \in Conns : half'[d] => asked'[d] # <<>> /\ "split" \in Habits
      /\ peer' \in [Conns -> {"none", "open", "fin"}]
      /\ asked' \in [Conns -> Seq(Asks)]
      /\ inbox' \in [Conns -> Seq(Pieces)]
      /\ \A d \in Conns : DOMAIN asked[d] \subseteq DOMAIN asked'[d]
      /\ \A d \in Conns : \A i \in DOMAIN inbox'[d] : Sent(asked'[d], inbox'[d][i])
  <2>1. CASE Connect(c)
    BY <2>1 DEF Connect, ServerInv, Types, Texts, Sent
  <2>2. CASE RequestRest(c)
    <3> DEFINE r   == Len(asked[c])
               new == [req |-> r, part |-> "tail"]
    <3>1. /\ half[c] /\ half' = [half EXCEPT ![c] = FALSE] /\ UNCHANGED <<peer, asked>>
          /\ inbox' = [inbox EXCEPT ![c] = Append(@, new)]
      BY <2>2 DEF RequestRest
    <3>2. asked[c] \in Seq(Asks) /\ asked[c] # <<>> /\ "split" \in Habits
      BY <3>1 DEF ServerInv, Types
    <3>3. r \in Nat /\ r \in DOMAIN asked[c]
      BY <3>2
    <3>4. new \in Pieces /\ Sent(asked[c], new)
      BY <3>2, <3>3 DEF Pieces, Sent
    <3>5. Added(c, new)
      BY <3>1, <3>4, Adding
    <3> QED
      BY <3>1, <3>5 DEF Added, ServerInv, Types, Texts, Sent
  <2>3. CASE HalfClose(c)
    BY <2>3 DEF HalfClose, ServerInv, Types, Texts, Sent
  <2>4. CASE Reset(c)
    BY <2>4 DEF Reset, Orderly
  <2>5. ASSUME NEW a \in Asks, Request(c, a)
        PROVE  /\ half' \in [Conns -> BOOLEAN] /\ peer' = peer
               /\ \A d \in Conns : half'[d] => asked'[d] # <<>> /\ "split" \in Habits
               /\ asked' \in [Conns -> Seq(Asks)]
               /\ inbox' \in [Conns -> Seq(Pieces)]
               /\ \A d \in Conns : DOMAIN asked[d] \subseteq DOMAIN asked'[d]
               /\ \A d \in Conns : \A i \in DOMAIN inbox'[d] : Sent(asked'[d], inbox'[d][i])
    <3>1. PICK part \in IF "split" \in Habits THEN {"whole", "head"} ELSE {"whole"} :
            /\ inbox' = [inbox EXCEPT ![c] = Append(@, [req |-> Len(asked[c]) + 1, part |-> part])]
            /\ half' = [half EXCEPT ![c] = part = "head"]
      BY <2>5 DEF Request
    <3>2. asked' = [asked EXCEPT ![c] = Append(@, a)] /\ peer' = peer
      BY <2>5 DEF Request
    <3> DEFINE r   == Len(asked[c]) + 1
               new == [req |-> r, part |-> part]
    <3>3. asked[c] \in Seq(Asks) /\ r \in Nat /\ DOMAIN asked[c] = 1 .. r - 1
      BY DEF ServerInv, Types
    <3>4. /\ Append(asked[c], a) \in Seq(Asks) /\ DOMAIN Append(asked[c], a) = 1 .. r
          /\ Append(asked[c], a) # <<>>
      BY <3>3
    <3>5. /\ asked' \in [Conns -> Seq(Asks)] /\ asked'[c] = Append(asked[c], a)
          /\ \A d \in Conns : d # c => asked'[d] = asked[d]
      BY <3>2, <3>4 DEF ServerInv, Types
    <3>6. \A d \in Conns : DOMAIN asked[d] \subseteq DOMAIN asked'[d]
      <4>1. 1 .. r - 1 \subseteq 1 .. r
        BY <3>3
      <4> QED
        BY <3>3, <3>4, <3>5, <4>1
    <3>7. new \in Pieces /\ Sent(asked'[c], new)
      <4>1. r \in DOMAIN asked'[c]
        BY <3>3, <3>4, <3>5
      <4> QED
        BY <3>1, <3>3, <4>1 DEF Pieces, Sent
    <3>8. Added(c, new)
      BY <3>1, <3>6, <3>7, Adding
    <3>9. /\ half' \in [Conns -> BOOLEAN]
          /\ \A d \in Conns : half'[d] => asked'[d] # <<>> /\ "split" \in Habits
      BY <3>1, <3>4, <3>5 DEF ServerInv, Types
    <3> QED
      BY <3>2, <3>5, <3>6, <3>8, <3>9 DEF Added
  <2>6. CASE ClientRead(c)
    BY <2>6, OrderlyFacts DEF ClientRead
  <2> QED
    BY <2>1, <2>2, <2>3, <2>4, <2>5, <2>6 DEF Client, ServerInv, Types
<1>3. Types'
  BY <1>1, <1>2 DEF ServerInv, Types
<1>4. Texts'
  <2>1. ASSUME NEW d \in Conns, NEW i \in DOMAIN RevcData[d]
        PROVE  Sent(asked'[d], RevcData[d][i])
    BY <1>1, <1>2 DEF ServerInv, Texts, Sent
  <2> QED
    BY <1>1, <1>2, <2>1 DEF ServerInv, Texts
<1>5. Alive'
  BY <1>1 DEF ServerInv, Alive
<1>6. Marked'
  BY <1>1 DEF ServerInv, Marked, Has
<1>7. Single' /\ Busy'
  BY <1>1 DEF ServerInv, Single, Busy
<1>8. Looping'
  BY <1>1 DEF ServerInv, Looping, Holding
<1>9. Notices'
  BY <1>1 DEF ServerInv, Notices, Told
<1> QED
  BY <1>3, <1>4, <1>5, <1>6, <1>7, <1>8, <1>9 DEF ServerInv

-----------------------------------------------------------------------------
(* A step of the epoll thread that only goes on to its next one.           *)
LEMMA LoopMoves ==
  ASSUME ServerInv, UNCHANGED <<partVars, wpc>>,
         epc \in {"boot", "wait", "next", "test"},
         epc' \in {"wait", "next", "accept", "test", "read", "disconnect"},
         cur' \in Conns \cup {NULL}, Looping'
  PROVE  ServerInv'
<1> USE DEF partVars
<1>1. Types'
  BY DEF ServerInv, Types, EpollPCs
<1>2. Texts'
  BY DEF ServerInv, Texts, Sent
<1>3. Alive'
  BY DEF ServerInv, Alive
<1>4. Marked'
  BY DEF ServerInv, Marked, Has
<1>5. Single'
  BY DEF ServerInv, Single
<1>6. Busy'
  BY DEF ServerInv, Busy
<1>7. Notices'
  BY DEF ServerInv, Notices, Told
<1> QED
  BY <1>1, <1>2, <1>3, <1>4, <1>5, <1>6, <1>7 DEF ServerInv

(* The start of the loop keeps the invariant.                              *)
LEMMA BootStep ==
  ASSUME ServerInv, Boot, UNCHANGED half
  PROVE  ServerInv'
<1>1. UNCHANGED <<partVars, wpc>> /\ epc = "boot" /\ epc' = "wait" /\ UNCHANGED <<events, cur>>
  BY DEF Boot, connVars, workVars, partVars
<1>2. Looping'
  BY <1>1 DEF ServerInv, Looping, Holding, partVars
<1> QED
  BY <1>1, <1>2, LoopMoves DEF ServerInv, Types

(* Waiting for events keeps the invariant.                                 *)
LEMMA WaitStep ==
  ASSUME ServerInv, epoll_wait, UNCHANGED half
  PROVE  ServerInv'
<1>1. UNCHANGED <<partVars, wpc>> /\ epc = "wait" /\ epc' = "next" /\ UNCHANGED cur
  BY DEF epoll_wait, connVars, workVars, partVars
<1>2. ASSUME NEW c \in Conns, Ready(c) # "none"
      PROVE  Ready(c) = "IN" /\ mem[c] = "live"
  <2>1. poll[c] \in {"none", "IN"}
    BY DEF ServerInv, Types
  <2>2. Ready(c) = "IN" /\ poll[c] = "IN"
    BY <1>2, <2>1 DEF Ready
  <2> QED
    BY <2>2 DEF ServerInv, Alive
<1>3. ASSUME NEW e \in events'
      PROVE  e = Listener \/ \E c \in Conns : e = Event(c, "IN") /\ mem[c] = "live"
  BY <1>2, <1>3 DEF epoll_wait
<1>4. Looping'
  BY <1>1, <1>3 DEF ServerInv, Looping, Holding, partVars
<1> QED
  BY <1>1, <1>4, LoopMoves DEF ServerInv, Types

(* Taking up the next event keeps the invariant.                           *)
LEMMA NextEventStep ==
  ASSUME Orderly, ServerInv, NextEvent, UNCHANGED half
  PROVE  ServerInv'
<1>1. UNCHANGED <<partVars, wpc>> /\ epc = "next"
  BY DEF NextEvent, connVars, workVars, partVars
<1>2. PICK e \in events : /\ events' = events \ {e} /\ cur' = e.con
                          /\ epc' = IF e = Listener THEN "accept"
                                    ELSE CASE e.ev = "IN" -> "test" [] e.ev = "OUT" -> "out"
                                           [] e.ev = "HUP" -> "disconnect"
  BY DEF NextEvent
<1>3. open /\ \A f \in events' : f = Listener \/ \E c \in Conns : f = Event(c, "IN") /\ mem[c] = "live"
  BY <1>1, <1>2 DEF ServerInv, Looping
<1>4. CASE e = Listener
  <2>1. cur' = NULL /\ epc' = "accept"
    BY <1>2, <1>4 DEF Listener, Event
  <2>2. Looping'
    BY <1>1, <1>3, <2>1 DEF Looping, Holding, partVars
  <2> QED
    BY <1>1, <2>1, <2>2, LoopMoves
<1>5. CASE e # Listener
  <2>1. PICK c \in Conns : e = Event(c, "IN") /\ mem[c] = "live"
    BY <1>5 DEF ServerInv, Looping
  <2>2. cur' = c /\ epc' = "test" /\ Event(c, "IN") \notin events'
    BY <1>2, <1>5, <2>1 DEF Event
  <2>3. Looping'
    BY <1>1, <1>3, <2>1, <2>2 DEF Looping, Holding, partVars
  <2> QED
    BY <1>1, <2>2, <2>3, LoopMoves
<1> QED
  BY <1>4, <1>5

(* The end of a round of events keeps the invariant.                       *)
LEMMA LastEventStep ==
  ASSUME ServerInv, LastEvent, UNCHANGED half
  PROVE  ServerInv'
<1>1. /\ UNCHANGED <<partVars, wpc, events>> /\ epc = "next" /\ epc' = "wait" /\ cur' = NULL
      /\ events = {}
  BY DEF LastEvent, connVars, workVars, partVars
<1>2. Looping'
  BY <1>1 DEF ServerInv, Looping, Holding, partVars
<1> QED
  BY <1>1, <1>2, LoopMoves

(* The test of Processing keeps the invariant.                             *)
LEMMA TestStep ==
  ASSUME ServerInv, TestProcessing, UNCHANGED half
  PROVE  ServerInv'
<1>1. /\ UNCHANGED <<partVars, wpc, events, cur>> /\ epc = "test"
      /\ epc' = IF Processing[cur] THEN "next" ELSE "read"
  BY DEF TestProcessing, Here, connVars, workVars, partVars
<1>2. Looping'
  BY <1>1 DEF ServerInv, Looping, Holding, partVars
<1> QED
  BY <1>1, <1>2, LoopMoves DEF ServerInv, Types

-----------------------------------------------------------------------------
(* The epoll thread's steps that change a connection or the queue.         *)
LEMMA AcceptStep ==
  ASSUME Orderly, ServerInv, Accept, UNCHANGED half
  PROVE  ServerInv'
<1>1. PICK c \in Backlog : /\ mem' = [mem EXCEPT ![c] = "live"]
                           /\ sock' = [sock EXCEPT ![c] = TRUE]
                           /\ Connected' = [Connected EXCEPT ![c] = TRUE]
                           /\ poll' = [poll EXCEPT ![c] = "IN"]
  BY DEF Accept
<1>2. /\ epc = "accept" /\ epc' = "next"
      /\ UNCHANGED <<Processing, RevcData, SendQueue, ConnectedTo, inbox, peer, asked, notified,
                     half, events, cur, jobs, open, wpc, on, next>>
  BY DEF Accept, recordVars, workVars
<1>3. c \in Conns /\ mem[c] = "none"
  BY DEF Backlog
<1>4. Types'
  BY <1>1, <1>2, <1>3 DEF ServerInv, Types, EpollPCs
<1>5. Texts'
  BY <1>2 DEF ServerInv, Texts, Sent
<1>6. Alive'
  BY <1>1, <1>2, <1>3 DEF ServerInv, Types, Alive
<1>7. Marked'
  BY <1>1, <1>2, <1>3 DEF ServerInv, Types, Marked, Has
<1>8. Single' /\ Busy'
  BY <1>2 DEF ServerInv, Single, Busy
<1>9. Looping'
  BY <1>1, <1>2, <1>3 DEF ServerInv, Types, Looping, Holding
<1>10. Notices'
  BY <1>1, <1>2, <1>3 DEF ServerInv, Types, Notices, Told
<1> QED
  BY <1>4, <1>5, <1>6, <1>7, <1>8, <1>9, <1>10 DEF ServerInv

(* An element of two sequences joined is one of either.                    *)
LEMMA Joined ==
  ASSUME NEW S, NEW a \in Seq(S), NEW b \in Seq(S)
  PROVE  \A i \in DOMAIN (a \o b) : \/ i \in DOMAIN a /\ (a \o b)[i] = a[i]
                                   \/ \E k \in DOMAIN b : (a \o b)[i] = b[k]
<1> SUFFICES ASSUME NEW i \in DOMAIN (a \o b)
             PROVE  \/ i \in DOMAIN a /\ (a \o b)[i] = a[i]
                    \/ \E k \in DOMAIN b : (a \o b)[i] = b[k]
  OBVIOUS
<1>1. i \in 1 .. Len(a) + Len(b) /\ Len(a) \in Nat /\ Len(b) \in Nat
  OBVIOUS
<1>2. CASE i <= Len(a)
  BY <1>1, <1>2
<1>3. CASE i > Len(a)
  <2>1. i - Len(a) \in 1 .. Len(b)
    BY <1>1, <1>3
  <2>2. (a \o b)[i] = b[i - Len(a)]
    BY <1>1, <1>3
  <2> QED
    BY <2>1, <2>2
<1> QED
  BY <1>1, <1>2, <1>3

(* The first elements of a sequence are elements of it.                    *)
LEMMA Cut ==
  ASSUME NEW S, NEW s \in Seq(S), NEW n \in Nat, n <= Len(s)
  PROVE  /\ SubSeq(s, 1, n) \in Seq(S)
         /\ \A i \in DOMAIN SubSeq(s, 1, n) : i \in DOMAIN s /\ SubSeq(s, 1, n)[i] = s[i]
<1>1. Len(SubSeq(s, 1, n)) = n /\ SubSeq(s, 1, n) \in Seq(S)
  OBVIOUS
<1>2. DOMAIN SubSeq(s, 1, n) = 1 .. n
  BY <1>1
<1> QED
  BY <1>1, <1>2

(* Of what is legible a beginning is.                                      *)
LEMMA LegiblePrefix ==
  ASSUME NEW s \in Seq(Pieces), NEW t \in Seq(Pieces), Legible(s), Len(t) <= Len(s),
         \A i \in DOMAIN t : i \in DOMAIN s /\ t[i] = s[i]
  PROVE  Legible(t)
<1> SUFFICES ASSUME t # <<>>
             PROVE  \/ t[1].part = "whole"
                    \/ t[1].part = "head" /\ (Len(t) > 1 => t[2] = [t[1] EXCEPT !.part = "tail"])
  BY DEF Legible
<1>1. Len(t) \in Nat /\ Len(s) \in Nat /\ Len(t) > 0
  OBVIOUS
<1>2. 1 \in DOMAIN t /\ t[1] = s[1] /\ s # <<>>
  BY <1>1
<1>3. Len(t) > 1 => Len(s) > 1 /\ t[2] = s[2]
  BY <1>1
<1> QED
  BY <1>2, <1>3 DEF Legible

(* What the epoll thread is about to read fits what it has read before.    *)
Arriving == epc = "read" => Legible(RevcData[cur] \o inbox[cur])

(* A read keeps the invariant.                                             *)
LEMMA ReadStep ==
  ASSUME Orderly, ServerInv, Arriving, Read, UNCHANGED half
  PROVE  ServerInv'
<1> DEFINE parts == RevcData[cur] \o inbox[cur]
           many  == Len(parts) > MaxParts + 1
<1>1. epc = "read" /\ cur \in Conns /\ ~Processing[cur] /\ mem[cur] = "live" /\ MaxParts \in Nat
  BY ConnectionAssumption DEF ConnectionAssumption, Read, Here, ServerInv, Looping, Holding
<1>2. /\ UNCHANGED <<mem, Connected, SendQueue, ConnectedTo, sock, poll, peer, asked, notified,
                     half, events, cur, jobs, open, wpc, on, next>>
      /\ inbox' = [inbox EXCEPT ![cur] = <<>>]
      /\ RevcData' = [RevcData EXCEPT ![cur] =
                        IF many THEN SubSeq(parts, 1, MaxParts + 1) ELSE parts]
      /\ \/ epc' = "disconnect" /\ Processing' = Processing
         \/ epc' = "job" /\ Processing' = [Processing EXCEPT ![cur] = TRUE]
  BY <1>1 DEF Read, recordVars, workVars
<1>3. RevcData[cur] \in Seq(Pieces) /\ inbox[cur] \in Seq(Pieces)
  BY <1>1 DEF ServerInv, Texts
<1>4. /\ parts \in Seq(Pieces) /\ Legible(parts)
      /\ \A i \in DOMAIN parts : Sent(asked[cur], parts[i])
  <2>1. parts \in Seq(Pieces)
    BY <1>3
  <2>2. \A i \in DOMAIN parts : \/ i \in DOMAIN RevcData[cur] /\ parts[i] = RevcData[cur][i]
                                \/ \E k \in DOMAIN inbox[cur] : parts[i] = inbox[cur][k]
    <3>1. \A a, b \in Seq(Pieces) : \A i \in DOMAIN (a \o b) :
            \/ i \in DOMAIN a /\ (a \o b)[i] = a[i]
            \/ \E k \in DOMAIN b : (a \o b)[i] = b[k]
      BY Joined
    <3> QED
      BY <1>3, <3>1, Zenon
  <2>3. Legible(parts)
    BY <1>1 DEF Arriving
  <2> HIDE DEF parts
  <2>4. \A i \in DOMAIN parts : Sent(asked[cur], parts[i])
    BY <1>1, <2>2 DEF ServerInv, Texts
  <2> QED
    BY <2>1, <2>3, <2>4
<1>5. /\ RevcData'[cur] \in Seq(Pieces) /\ Legible(RevcData'[cur])
      /\ \A i \in DOMAIN RevcData'[cur] : Sent(asked[cur], RevcData'[cur][i])
  <2> DEFINE kept == SubSeq(parts, 1, MaxParts + 1)
  <2> HIDE DEF parts
  <2>1. CASE many
    <3>1. RevcData'[cur] = kept
      BY <1>1, <1>2, <2>1 DEF ServerInv, Texts
    <3>2. /\ kept \in Seq(Pieces) /\ Len(kept) <= Len(parts)
          /\ \A i \in DOMAIN kept : i \in DOMAIN parts /\ kept[i] = parts[i]
      <4>1. MaxParts + 1 \in Nat /\ Len(parts) \in Nat /\ MaxParts + 1 <= Len(parts)
        BY <1>1, <1>4, <2>1
      <4> HIDE DEF kept
      <4> QED
        BY <1>4, <4>1, Cut DEF kept
    <3> HIDE DEF kept
    <3>3. Legible(kept)
      BY <1>4, <3>2, LegiblePrefix
    <3> QED
      BY <1>4, <3>1, <3>2, <3>3
  <2>2. CASE ~many
    <3>1. RevcData'[cur] = parts
      BY <1>1, <1>2, <2>2 DEF ServerInv, Texts
    <3> QED
      BY <1>4, <3>1
  <2> QED
    BY <2>1, <2>2
<1>6. /\ RevcData' \in [Conns -> Seq(Pieces)] /\ inbox' \in [Conns -> Seq(Pieces)] /\ inbox'[cur] = <<>>
      /\ \A d \in Conns : d # cur => RevcData'[d] = RevcData[d] /\ inbox'[d] = inbox[d]
  BY <1>1, <1>2, <1>5 DEF ServerInv, Texts
<1>7. ~Has(cur)
  BY <1>1 DEF ServerInv, Marked
<1>8. Types'
  BY <1>1, <1>2 DEF ServerInv, Types, EpollPCs
<1>9. Texts'
  <2>1. \A d \in Conns : /\ \A i \in DOMAIN RevcData'[d] : Sent(asked[d], RevcData'[d][i])
                         /\ Legible(RevcData'[d])
    BY <1>2, <1>5, <1>6 DEF ServerInv, Texts
  <2>2. ASSUME NEW d \in Conns, NEW i \in DOMAIN inbox'[d]
        PROVE  Sent(asked[d], inbox'[d][i])
    <3>1. d # cur
      BY <1>6
    <3> QED
      BY <3>1, <1>6 DEF ServerInv, Texts
  <2>3. ASSUME NEW w \in Workers, wpc[w] = "parse"
        PROVE  Finished(RevcData'[on[w]])
    <3>1. on[w] \in Conns /\ on[w] # cur
      BY <2>3, <1>1, Working
    <3> QED
      BY <2>3, <3>1, <1>6 DEF ServerInv, Texts
  <2> QED
    BY <2>1, <2>2, <2>3, <1>2, <1>6 DEF Texts, Sent
<1>10. Alive'
  BY <1>2 DEF ServerInv, Alive
<1>11. CASE epc' = "disconnect" /\ Processing' = Processing
  <2>1. Marked'
    BY <1>1, <1>2, <1>11 DEF ServerInv, Marked, Has
  <2>2. Single' /\ Busy'
    BY <1>2, <1>11 DEF ServerInv, Single, Busy
  <2>3. Looping'
    BY <1>1, <1>2, <1>11 DEF ServerInv, Looping, Holding
  <2>4. Notices'
    BY <1>1, <1>2, <1>11 DEF ServerInv, Notices, Told
  <2> QED
    BY <1>8, <1>9, <1>10, <2>1, <2>2, <2>3, <2>4 DEF ServerInv
<1>12. CASE epc' = "job" /\ Processing' = [Processing EXCEPT ![cur] = TRUE]
  <2>1. /\ Processing'[cur]
        /\ \A d \in Conns : d # cur => Processing'[d] = Processing[d]
    BY <1>1, <1>12 DEF ServerInv, Types
  <2>2. \A d \in Conns : Has(d)' <=> Has(d) \/ d = cur
    BY <1>1, <1>2, <1>12 DEF Has
  <2>3. Marked'
    BY <1>1, <1>2, <1>12, <2>1, <2>2 DEF ServerInv, Marked
  <2>4. Single' /\ Busy'
    BY <1>2, <1>7, <1>12 DEF ServerInv, Single, Busy, Has
  <2>5. Looping'
    BY <1>1, <1>2, <1>12 DEF ServerInv, Looping, Holding
  <2>6. Notices'
    BY <1>1, <1>2, <1>12 DEF ServerInv, Notices, Told
  <2> QED
    BY <1>8, <1>9, <1>10, <2>3, <2>4, <2>5, <2>6 DEF ServerInv
<1> QED
  BY <1>2, <1>11, <1>12

(* A job submitted keeps the invariant.                                    *)
LEMMA SubmitStep ==
  ASSUME Orderly, ServerInv, Submit, UNCHANGED half
  PROVE  ServerInv'
<1>1. /\ UNCHANGED <<mem, Connected, Processing, RevcData, SendQueue, ConnectedTo, sock, poll,
                     inbox, peer, asked, notified, half, open, wpc, on, next, events, cur>>
      /\ epc = "job" /\ epc' = "next" /\ jobs' = Append(jobs, cur)
  BY DEF Submit, connVars
<1>2. cur \in Conns /\ jobs \in Seq(Conns) /\ Len(jobs) \in Nat
  BY <1>1 DEF ServerInv, Types, Looping, Holding
<1>3. /\ jobs' \in Seq(Conns) /\ DOMAIN jobs' = DOMAIN jobs \cup {Len(jobs) + 1}
      /\ jobs'[Len(jobs) + 1] = cur /\ Len(jobs) + 1 \notin DOMAIN jobs
      /\ \A i \in DOMAIN jobs : jobs'[i] = jobs[i]
  BY <1>1, <1>2
<1>4. Types'
  BY <1>1, <1>3 DEF ServerInv, Types, EpollPCs
<1>5. Texts' /\ Alive' /\ Busy'
  BY <1>1 DEF ServerInv, Texts, Sent, Alive, Busy
<1>6. \A d \in Conns : Has(d)' <=> Has(d)
  BY <1>1, <1>3 DEF Has
<1>7. Marked'
  BY <1>1, <1>6 DEF ServerInv, Marked
<1>8. Single'
  <2>1. (\A i \in DOMAIN jobs : jobs[i] # cur) /\ (\A w \in Workers : on[w] # cur)
    BY <1>1 DEF ServerInv, Single
  <2>2. \A i, j \in DOMAIN jobs' : jobs'[i] = jobs'[j] => i = j
    BY <2>1, <1>3 DEF ServerInv, Single
  <2>3. \A i \in DOMAIN jobs', w \in Workers : jobs'[i] # on[w]
    BY <2>1, <1>3 DEF ServerInv, Single
  <2> QED
    BY <1>1, <2>2, <2>3 DEF ServerInv, Single
<1>9. Looping'
  BY <1>1 DEF ServerInv, Looping, Holding
<1>10. Notices'
  BY <1>1 DEF ServerInv, Notices, Told
<1> QED
  BY <1>4, <1>5, <1>7, <1>8, <1>9, <1>10 DEF ServerInv

(* A disconnect keeps the invariant.                                       *)
LEMMA DisconnectStep ==
  ASSUME ServerInv, Disconnect, UNCHANGED half
  PROVE  ServerInv'
<1>1. /\ UNCHANGED <<mem, Connected, Processing, RevcData, SendQueue, ConnectedTo, sock, poll,
                     inbox, peer, asked, half, jobs, open, wpc, on, next, events, cur>>
      /\ epc = "disconnect" /\ epc' = "reap" /\ mem[cur] = "live"
      /\ notified' = IF ConnectedTo[cur] = NULL THEN notified
                     ELSE [notified EXCEPT ![cur] = @ + 1]
  BY DEF Disconnect, Here, Notify, objectVars, kernelVars, workVars
<1>2. cur \in Conns /\ notified[cur] = 0
  BY <1>1 DEF ServerInv, Looping, Holding, Notices
<1>3. /\ notified' \in [Conns -> Nat] /\ notified'[cur] = Told(cur)
      /\ \A d \in Conns : d # cur => notified'[d] = notified[d]
  BY <1>1, <1>2 DEF ServerInv, Types, Told
<1>4. Types'
  BY <1>1, <1>3 DEF ServerInv, Types, EpollPCs
<1>5. Texts' /\ Alive' /\ Busy'
  BY <1>1 DEF ServerInv, Texts, Sent, Alive, Busy
<1>6. Marked' /\ Single'
  BY <1>1 DEF ServerInv, Marked, Single, Has
<1>7. Looping'
  BY <1>1 DEF ServerInv, Looping, Holding
<1>8. Notices'
  BY <1>1, <1>3 DEF ServerInv, Notices, Told
<1> QED
  BY <1>4, <1>5, <1>6, <1>7, <1>8 DEF ServerInv

(* A connection reaped keeps the invariant.                                *)
LEMMA ReapStep ==
  ASSUME Orderly, ServerInv, ReapConnection, UNCHANGED half
  PROVE  ServerInv'
<1>1. epc = "reap" /\ cur \in Conns /\ mem[cur] = "live" /\ ~Processing[cur]
  BY DEF ReapConnection, Here, ServerInv, Looping, Holding
<1>2. /\ UNCHANGED <<Connected, Processing, ConnectedTo, inbox, peer, asked, notified, half,
                     jobs, open, wpc, on, next, events, cur>>
      /\ epc' = "next"
      /\ mem' = [mem EXCEPT ![cur] = "freed"]
      /\ RevcData' = [RevcData EXCEPT ![cur] = <<>>]
      /\ SendQueue' = [SendQueue EXCEPT ![cur] = <<>>]
      /\ sock' = [sock EXCEPT ![cur] = FALSE]
      /\ poll' = [poll EXCEPT ![cur] = "none"]
  BY <1>1 DEF ReapConnection, Reap, Delete, CloseSocket, recordVars, workVars
<1>3. /\ mem'[cur] = "freed" /\ \A d \in Conns : d # cur => mem'[d] = mem[d]
      /\ poll'[cur] = "none" /\ \A d \in Conns : d # cur => poll'[d] = poll[d]
      /\ \A d \in Conns : d # cur => sock'[d] = sock[d]
  BY <1>1, <1>2 DEF ServerInv, Types
<1>4. /\ RevcData' \in [Conns -> Seq(Pieces)] /\ RevcData'[cur] = <<>>
      /\ \A d \in Conns : d # cur => RevcData'[d] = RevcData[d]
  BY <1>1, <1>2 DEF ServerInv, Texts
<1>5. Types'
  BY <1>1, <1>2 DEF ServerInv, Types, EpollPCs
<1>6. Texts'
  <2>1. ASSUME NEW d \in Conns, NEW i \in DOMAIN RevcData'[d]
        PROVE  Sent(asked[d], RevcData'[d][i])
    <3>1. d # cur
      BY <1>4
    <3> QED
      BY <3>1, <1>4 DEF ServerInv, Texts
  <2>2. ASSUME NEW w \in Workers, wpc[w] = "parse"
        PROVE  Finished(RevcData'[on[w]])
    <3>1. on[w] \in Conns /\ on[w] # cur
      BY <2>2, <1>1, Working
    <3> QED
      BY <2>2, <3>1, <1>4 DEF ServerInv, Texts
  <2>3. \A d \in Conns : Legible(RevcData'[d])
    BY <1>4 DEF ServerInv, Texts, Legible
  <2> QED
    BY <2>1, <2>2, <2>3, <1>2, <1>4 DEF ServerInv, Texts, Sent
<1>7. Alive'
  BY <1>2, <1>3 DEF ServerInv, Alive
<1>8. Marked'
  BY <1>1, <1>2, <1>3 DEF ServerInv, Marked, Has
<1>9. Single' /\ Busy'
  BY <1>1, <1>2 DEF ServerInv, Single, Busy
<1>10. Looping'
  <2>1. Event(cur, "IN") \notin events
    BY <1>1 DEF ServerInv, Looping, Holding
  <2>2. \A e \in events : e = Listener \/ \E c \in Conns : e = Event(c, "IN") /\ mem'[c] = "live"
    BY <2>1, <1>3 DEF ServerInv, Looping
  <2> QED
    BY <2>2, <1>1, <1>2 DEF ServerInv, Looping, Holding
<1>11. Notices'
  BY <1>1, <1>2, <1>3 DEF ServerInv, Notices, Told
<1> QED
  BY <1>5, <1>6, <1>7, <1>8, <1>9, <1>10, <1>11 DEF ServerInv

(* Leaving the loop keeps the invariant.                                   *)
LEMMA CloseStep ==
  ASSUME ServerInv, LeaveLoop, UNCHANGED half
  PROVE  ServerInv'
<1>1. /\ UNCHANGED <<mem, Connected, Processing, RevcData, SendQueue, ConnectedTo, sock, poll,
                     inbox, peer, asked, notified, half, jobs, wpc, on, next, events, cur>>
      /\ epc = "wait" /\ epc' = "stop" /\ open' = FALSE
  BY DEF LeaveLoop, connVars
<1>2. Types' /\ Busy'
  BY <1>1 DEF ServerInv, Types, EpollPCs, Busy
<1>3. Texts' /\ Alive'
  BY <1>1 DEF ServerInv, Texts, Sent, Alive
<1>4. Marked' /\ Single'
  BY <1>1 DEF ServerInv, Marked, Single, Has
<1>5. Looping' /\ Notices'
  BY <1>1 DEF ServerInv, Looping, Holding, Notices, Told
<1> QED
  BY <1>2, <1>3, <1>4, <1>5 DEF ServerInv

(* Destroying the pool keeps the invariant.                                *)
LEMMA DestroyStep ==
  ASSUME Orderly, ServerInv, thpool_destroy, UNCHANGED half
  PROVE  ServerInv'
<1>1. /\ UNCHANGED <<mem, Connected, Processing, RevcData, SendQueue, ConnectedTo, sock, poll,
                     inbox, peer, asked, notified, half, open, wpc, on, next, events, cur>>
      /\ epc = "stop" /\ epc' = "down" /\ jobs' = <<>> /\ \A w \in Workers : on[w] = NULL
  BY DEF thpool_destroy, connVars
<1>2. Types' /\ Busy'
  BY <1>1 DEF ServerInv, Types, EpollPCs, Busy
<1>3. Texts' /\ Alive'
  BY <1>1 DEF ServerInv, Texts, Sent, Alive
<1>4. \A d \in Conns : ~Has(d)'
  BY <1>1, OrderlyFacts DEF Has
<1>5. Marked'
  BY <1>1, <1>4 DEF ServerInv, Marked
<1>6. Single'
  BY <1>1 DEF ServerInv, Single
<1>7. Looping' /\ Notices'
  BY <1>1 DEF ServerInv, Looping, Holding, Notices, Told
<1> QED
  BY <1>2, <1>3, <1>5, <1>6, <1>7 DEF ServerInv

(* A step of the epoll thread keeps the invariant.                         *)
LEMMA EpollStep ==
  ASSUME Orderly, ServerInv, Arriving, Epoll
  PROVE  ServerInv'
<1>1. epc \notin {"out", "outmod"}
  BY DEF ServerInv, Types
<1>2. CASE SendQueued \/ Drained \/ WatchInput
  BY <1>1, <1>2 DEF SendQueued, Drained, WatchInput, Here
<1> QED
  BY <1>2, BootStep, WaitStep, NextEventStep, LastEventStep, TestStep, AcceptStep, ReadStep,
     SubmitStep, DisconnectStep, ReapStep, CloseStep, DestroyStep DEF Epoll, EpollThread

-----------------------------------------------------------------------------
(* The server starts in its invariant.                                     *)
LEMMA InitInv ==
  ASSUME Orderly, Init
  PROVE  ServerInv
<1> USE DEF Init, ConnInit, WorkInit, EpollInit
<1>1. Types
  BY DEF Types, EpollPCs
<1>2. Texts
  BY DEF Texts, Legible
<1>3. Alive /\ Busy
  BY DEF Alive, Busy
<1>4. Marked
  BY OrderlyFacts DEF Marked, Has
<1>5. Single
  BY DEF Single
<1>6. Looping /\ Notices
  BY DEF Looping, Holding, Notices, Told
<1> QED
  BY <1>1, <1>2, <1>3, <1>4, <1>5, <1>6 DEF ServerInv

(* Every step keeps the invariant.                                         *)
LEMMA NextInv ==
  ASSUME Orderly, ServerInv, Arriving, [Next]_vars
  PROVE  ServerInv'
<1>1. CASE Stop
  <2>1. UNCHANGED <<partVars, loopVars, wpc>>
    BY <1>1 DEF Stop, connVars, workVars, partVars, loopVars
  <2> QED
    BY <2>1 DEF partVars, loopVars, ServerInv, Types, Texts, Sent, Alive, Marked, Single, Busy,
                Looping, Notices, Has, Holding, Told
<1>2. CASE UNCHANGED vars
  BY <1>2 DEF vars, ServerInv, Types, Texts, Sent, Alive, Marked, Single, Busy,
              Looping, Notices, Has, Holding, Told
<1> QED
  BY <1>1, <1>2, EpollStep, WorkerStep, ClientStep DEF Next

-----------------------------------------------------------------------------
(* Clients that wait for an answer before the next request.  What such a   *)
(* client receives are the answers in order, however its requests are cut: *)
(* a request is in one of a few stages, and none begins before the last is *)
(* settled.                                                                *)
Waiting == Orderly /\ "pipeline" \notin Habits

Pairs == Nat \X Nat

Reply(r, k)   == [i \in 1 .. k |-> <<r, i>>]
Replies(asks) == FlattenSeq([i \in DOMAIN asks |-> Reply(i, Units(asks[i]))])

(* The first units of a reply are pairs of a request and a number.         *)
LEMMA ReplyType ==
  ASSUME NEW r \in Nat, NEW k \in Nat
  PROVE  Reply(r, k) \in Seq(Pairs) /\ Len(Reply(r, k)) = k
BY DEF Reply, Pairs

(* Two units more of a reply.                                              *)
LEMMA ReplyMore ==
  ASSUME NEW r \in Nat, NEW k \in Nat
  PROVE  /\ Pair(r, k + 1) \in Seq(Pairs)
         /\ Reply(r, k + 2) = Reply(r, k) \o Pair(r, k + 1)
<1> DEFINE u == Pair(r, k + 1)
           a == Reply(r, k)
           b == Reply(r, k + 2)
<1>1. /\ u \in Seq(Pairs) /\ Len(u) = 2
      /\ u[1] = <<r, k + 1>> /\ u[2] = <<r, k + 2>>
  BY DEF Pairs, Pair
<1>2. /\ a \in Seq(Pairs) /\ Len(a) = k /\ \A i \in 1 .. k : a[i] = <<r, i>>
      /\ b \in Seq(Pairs) /\ Len(b) = k + 2 /\ \A i \in 1 .. k + 2 : b[i] = <<r, i>>
  BY ReplyType DEF Reply
<1> HIDE DEF u, a, b
<1>3. /\ a \o u \in Seq(Pairs) /\ Len(a \o u) = k + 2
      /\ \A i \in 1 .. k : (a \o u)[i] = a[i]
      /\ (a \o u)[k + 1] = u[1] /\ (a \o u)[k + 2] = u[2]
  <2>1. /\ a \o u \in Seq(Pairs) /\ Len(a \o u) = Len(a) + Len(u)
        /\ \A i \in 1 .. Len(a) + Len(u) : (a \o u)[i] = IF i <= Len(a) THEN a[i] ELSE u[i - Len(a)]
    BY <1>1, <1>2, ConcatProperties
  <2>2. k + 1 \in 1 .. k + 2 /\ k + 2 \in 1 .. k + 2 /\ (k + 1) - k = 1 /\ (k + 2) - k = 2
    OBVIOUS
  <2> QED
    BY <2>1, <2>2, <1>1, <1>2
<1>4. \A i \in 1 .. k + 2 : b[i] = (a \o u)[i]
  <2>1. \A i \in 1 .. k + 2 : i \in 1 .. k \/ i = k + 1 \/ i = k + 2
    OBVIOUS
  <2>2. k + 1 \in 1 .. k + 2 /\ k + 2 \in 1 .. k + 2 /\ \A i \in 1 .. k : i \in 1 .. k + 2
    OBVIOUS
  <2> QED
    BY <1>1, <1>2, <1>3, <2>1, <2>2
<1>5. b = a \o u
  BY <1>2, <1>3, <1>4, SeqEqual
<1> QED
  BY <1>1, <1>5 DEF u, a, b

(* No units of a reply.                                                    *)
LEMMA ReplyNone == ASSUME NEW r PROVE Reply(r, 0) = <<>>
BY DEF Reply

(* A file is four units, any other answer two.                             *)
LEMMA UnitsAsked == ASSUME Orderly, NEW a \in Asks PROVE Units(a) = IF a = "file" THEN 4 ELSE 2
BY OrderlyFacts DEF Units

(* The next request adds its answer to what is expected.                   *)
LEMMA RepliesAppend ==
  ASSUME Orderly, NEW s \in Seq(Asks), NEW a \in Asks
  PROVE  /\ Replies(s) \in Seq(Pairs)
         /\ Replies(Append(s, a)) = Replies(s) \o Reply(Len(s) + 1, Units(a))
<1>0. Len(s) \in Nat /\ DOMAIN s = 1 .. Len(s)
  BY LenProperties
<1>n. PICK n \in Nat : n = Len(s)
  BY <1>0, Zenon
<1>1. /\ Append(s, a) \in Seq(Asks) /\ Len(Append(s, a)) = n + 1
      /\ DOMAIN Append(s, a) = 1 .. n + 1 /\ Append(s, a)[n + 1] = a
      /\ \A i \in 1 .. n : Append(s, a)[i] = s[i]
  BY <1>n, AppendProperties, LenProperties
<1> DEFINE f == [i \in 1 .. n |-> Reply(i, Units(s[i]))]
           g == [i \in 1 .. n + 1 |-> Reply(i, Units(Append(s, a)[i]))]
           x == Reply(n + 1, Units(a))
<1>2. \A b \in Asks : Units(b) \in Nat
  BY UnitsAsked
<1>3. f \in Seq(Seq(Pairs)) /\ Len(f) = n /\ \A i \in 1 .. n : f[i] = Reply(i, Units(s[i]))
  <2>1. \A i \in 1 .. n : s[i] \in Asks
    BY <1>0, <1>n, ElementOfSeq
  <2>2. \A i \in 1 .. n : Reply(i, Units(s[i])) \in Seq(Pairs)
    <3> SUFFICES ASSUME NEW i \in 1 .. n
                 PROVE  Reply(i, Units(s[i])) \in Seq(Pairs)
      OBVIOUS
    <3>1. i \in Nat /\ Units(s[i]) \in Nat
      BY <1>2, <2>1
    <3> QED
      BY <3>1, ReplyType
  <2> QED
    BY <1>n, <2>2, IsASeq, LenProperties
<1>4. x \in Seq(Pairs)
  BY <1>2, ReplyType
<1>5. g \in Seq(Seq(Pairs)) /\ Len(g) = n + 1 /\ g[n + 1] = x /\ \A i \in 1 .. n : g[i] = Reply(i, Units(s[i]))
  <2>1. \A i \in 1 .. n + 1 : i \in 1 .. n \/ i = n + 1
    OBVIOUS
  <2>2. \A i \in 1 .. n : Append(s, a)[i] = s[i] /\ i \in 1 .. n + 1
    BY <1>1
  <2>3. n + 1 \in 1 .. n + 1
    OBVIOUS
  <2>4. g[n + 1] = x /\ \A i \in 1 .. n : g[i] = f[i]
    BY <1>1, <2>2, <2>3
  <2>5. \A i \in 1 .. n + 1 : g[i] \in Seq(Pairs)
    <3> HIDE DEF f, g, x
    <3>1. \A i \in 1 .. n : f[i] \in Seq(Pairs)
      BY <1>3, ElementOfSeq
    <3> QED
      BY <1>4, <2>1, <2>4, <3>1
  <2>6. \A i \in 1 .. n + 1 : Reply(i, Units(Append(s, a)[i])) \in Seq(Pairs)
    BY <2>5
  <2>7. g \in Seq(Seq(Pairs)) /\ Len(g) = n + 1
    BY <1>n, <2>6, IsASeq, LenProperties
  <2> QED
    BY <1>3, <2>4, <2>7
<1>6. Replies(s) = FlattenSeq(f) /\ Replies(Append(s, a)) = FlattenSeq(g)
  BY <1>0, <1>1, <1>n DEF Replies
<1> HIDE DEF f, g, x
<1>7. g = Append(f, x)
  <2>1. /\ Append(f, x) \in Seq(Seq(Pairs)) /\ Len(Append(f, x)) = n + 1
        /\ Append(f, x)[n + 1] = x /\ \A i \in 1 .. n : Append(f, x)[i] = f[i]
    BY <1>3, <1>4, AppendProperties
  <2>2. \A i \in 1 .. n + 1 : i \in 1 .. n \/ i = n + 1
    OBVIOUS
  <2>3. \A i \in 1 .. n + 1 : g[i] = Append(f, x)[i]
    BY <1>3, <1>5, <2>1, <2>2
  <2> QED
    BY <1>5, <2>1, <2>3, SeqEqual
<1>8. FlattenSeq(f) \in Seq(Pairs) /\ FlattenSeq(Append(f, x)) = FlattenSeq(f) \o x
  BY <1>3, <1>4, FlattenType, FlattenAppend
<1> QED
  BY <1>n, <1>6, <1>7, <1>8 DEF x

(* What is expected is the answers before the last, and the last.          *)
LEMMA RepliesLast ==
  ASSUME Orderly, NEW s \in Seq(Asks), s # <<>>
  PROVE  /\ Len(s) \in Nat /\ Len(s) \in DOMAIN s /\ s[Len(s)] \in Asks
         /\ Units(s[Len(s)]) \in {2, 4} /\ (Units(s[Len(s)]) = 4 <=> s[Len(s)] = "file")
         /\ Replies(Front(s)) \in Seq(Pairs)
         /\ Replies(s) = Replies(Front(s)) \o Reply(Len(s), Units(s[Len(s)]))
<1>1. Len(s) \in Nat /\ Len(s) > 0 /\ DOMAIN s = 1 .. Len(s) /\ \A i \in 1 .. Len(s) : s[i] \in Asks
  BY LenProperties, ElementOfSeq, EmptySeq
<1>n. PICK n \in Nat : n = Len(s)
  BY <1>1, Zenon
<1>2. /\ Front(s) \in Seq(Asks) /\ Len(Front(s)) = n - 1
      /\ \A i \in 1 .. n - 1 : Front(s)[i] = s[i]
  <2>1. \A i \in 1 .. n - 1 : s[i] \in Asks
    BY <1>1, <1>n
  <2>2. /\ SubSeq(s, 1, n - 1) \in Seq(Asks)
        /\ Len(SubSeq(s, 1, n - 1)) = IF 1 <= n - 1 THEN (n - 1) - 1 + 1 ELSE 0
        /\ \A i \in 1 .. (n - 1) - 1 + 1 : SubSeq(s, 1, n - 1)[i] = s[1 + i - 1]
    BY <2>1, SubSeqProperties
  <2>3. Front(s) = SubSeq(s, 1, n - 1)
    BY <1>n DEF Front
  <2> HIDE DEF Front
  <2> QED
    BY <1>1, <1>n, <2>2, <2>3
<1>3. PICK a \in Asks : a = s[n]
  BY <1>1, <1>n
<1>4. s = Append(Front(s), a)
  <2>0. (n - 1) + 1 = n
    OBVIOUS
  <2>1. /\ Append(Front(s), a) \in Seq(Asks) /\ Len(Append(Front(s), a)) = n
        /\ Append(Front(s), a)[n] = a
        /\ \A i \in 1 .. n - 1 : Append(Front(s), a)[i] = Front(s)[i]
    <3>1. /\ Append(Front(s), a) \in Seq(Asks) /\ Len(Append(Front(s), a)) = Len(Front(s)) + 1
          /\ Append(Front(s), a)[Len(Front(s)) + 1] = a
          /\ \A i \in 1 .. Len(Front(s)) : Append(Front(s), a)[i] = Front(s)[i]
      BY <1>2, AppendProperties
    <3> QED
      BY <1>2, <2>0, <3>1
  <2>2. \A i \in 1 .. n : i \in 1 .. n - 1 \/ i = n
    OBVIOUS
  <2>3. \A i \in 1 .. n : s[i] = Append(Front(s), a)[i]
    BY <1>2, <1>3, <2>1, <2>2
  <2> QED
    BY <1>n, <2>1, <2>3, SeqEqual
<1>5. /\ Replies(Front(s)) \in Seq(Pairs)
      /\ Replies(Append(Front(s), a)) = Replies(Front(s)) \o Reply(n, Units(a))
  <2>1. Len(Front(s)) + 1 = n
    BY <1>2
  <2>2. Front(s) \in Seq(Asks)
    BY <1>2
  <2> QED
    BY <2>1, <2>2, RepliesAppend
<1>6. Units(a) \in {2, 4} /\ (Units(a) = 4 <=> a = "file")
  BY UnitsAsked
<1>7. Replies(s) = Replies(Front(s)) \o Reply(n, Units(a))
  BY <1>4, <1>5
<1> QED
  BY <1>1, <1>n, <1>3, <1>5, <1>6, <1>7

(* The sequence before the element added last.                             *)
LEMMA FrontOfAppend ==
  ASSUME NEW S, NEW s \in Seq(S), NEW a \in S
  PROVE  Front(Append(s, a)) = s
<1>1. PICK n \in Nat : n = Len(s)
  BY LenProperties
<1>2. /\ Append(s, a) \in Seq(S) /\ Len(Append(s, a)) = n + 1
      /\ \A i \in 1 .. n : Append(s, a)[i] = s[i] /\ s[i] \in S
  BY <1>1, AppendProperties, ElementOfSeq
<1>3. /\ SubSeq(Append(s, a), 1, n) \in Seq(S)
      /\ Len(SubSeq(Append(s, a), 1, n)) = IF 1 <= n THEN n - 1 + 1 ELSE 0
      /\ \A i \in 1 .. n - 1 + 1 : SubSeq(Append(s, a), 1, n)[i] = Append(s, a)[1 + i - 1]
  BY <1>2, SubSeqProperties
<1>4. Front(Append(s, a)) = SubSeq(Append(s, a), 1, n)
  BY <1>2 DEF Front
<1>5. Len(SubSeq(Append(s, a), 1, n)) = n /\ \A i \in 1 .. n : SubSeq(Append(s, a), 1, n)[i] = s[i]
  BY <1>2, <1>3
<1> QED
  BY <1>1, <1>3, <1>4, <1>5, SeqEqual

(* A prefix stays one when the sequence grows.                             *)
LEMMA PrefixOfConcat ==
  ASSUME NEW S, NEW s \in Seq(S), NEW t \in Seq(S), NEW u \in Seq(S), IsPrefix(s, t)
  PROVE  IsPrefix(s, t \o u)
<1>1. PICK n \in Nat, m \in Nat : n = Len(s) /\ m = Len(t)
  BY LenProperties
<1>2. n <= m /\ SubSeq(s, 1, n) = SubSeq(t, 1, n)
  BY <1>1 DEF IsPrefix
<1>3. Len(t \o u) >= m
  BY <1>1, ConcatProperties, LenProperties
<1>4. SubSeq(t \o u, 1, n) = SubSeq(t, 1, n)
  <2>1. CASE n = 0
    BY <2>1, SubSeqEmpty
  <2>2. CASE n # 0
    <3>1. 1 \in 1 .. Len(t) /\ n \in 1 .. Len(t)
      BY <1>1, <1>2, <2>2
    <3> QED
      BY <3>1, SubSeqOfConcat1
  <2> QED
    BY <2>1, <2>2
<1>5. Len(t \o u) \in Nat
  BY ConcatProperties, LenProperties
<1> QED
  BY <1>1, <1>2, <1>3, <1>4, <1>5 DEF IsPrefix

(* A sequence is a prefix of itself.                                       *)
LEMMA PrefixSelf == ASSUME NEW S, NEW s \in Seq(S) PROVE IsPrefix(s, s)
BY LenProperties DEF IsPrefix

(* No requests, no replies.                                                *)
LEMMA RepliesNone == Replies(<<>>) = <<>>
<1> DEFINE f == [i \in DOMAIN <<>> |-> Reply(i, Units(<<>>[i]))]
<1>1. f = <<>>
  OBVIOUS
<1> HIDE DEF f
<1>2. Replies(<<>>) = FlattenSeq(f)
  BY Zenon DEF Replies, f
<1> QED
  BY <1>1, <1>2, FlattenEmpty

(* Of a request in one piece or two what has been read, and what has not.  *)
LEMMA OnePiece ==
  ASSUME NEW f \in Pieces, NEW a \in Seq(Pieces), NEW b \in Seq(Pieces), a # <<>>, a \o b = <<f>>
  PROVE  a = <<f>> /\ b = <<>>
<1>1. PICK m \in Nat, k \in Nat : m = Len(a) /\ k = Len(b) /\ m # 0
  OBVIOUS
<1>2. m + k = 1 /\ (a \o b)[1] = f
  <2>1. Len(<<f>>) = 1 /\ <<f>>[1] = f
    OBVIOUS
  <2>2. Len(a \o b) = m + k
    BY <1>1, ConcatProperties
  <2> QED
    BY <2>1, <2>2
<1>3. m = 1 /\ k = 0
  BY <1>1, <1>2
<1>4. b = <<>>
  BY <1>1, <1>3, EmptySeq
<1>5. a \o <<>> = a
  BY ConcatEmptySeq
<1> QED
  BY <1>4, <1>5

(* Two pieces are cut after the first or not at all.                       *)
LEMMA TwoPieces ==
  ASSUME NEW f \in Pieces, NEW g \in Pieces, NEW a \in Seq(Pieces), NEW b \in Seq(Pieces),
         a # <<>>, a \o b = <<f, g>>
  PROVE  a[1] = f /\ (a = <<f>> \/ b = <<>>)
<1>1. PICK m \in Nat, k \in Nat : m = Len(a) /\ k = Len(b) /\ m # 0
  OBVIOUS
<1>2. m + k = 2 /\ (a \o b)[1] = f /\ (a \o b)[1] = a[1]
  <2>1. Len(<<f, g>>) = 2 /\ <<f, g>>[1] = f
    OBVIOUS
  <2>2. /\ Len(a \o b) = m + k
        /\ \A i \in 1 .. m + k : (a \o b)[i] = IF i <= m THEN a[i] ELSE b[i - m]
    BY <1>1, ConcatProperties
  <2> QED
    BY <2>1, <2>2, <1>1
<1>3. CASE m = 1
  <2>1. <<f>> \in Seq(Pieces) /\ Len(<<f>>) = 1 /\ <<f>>[1] = f
    OBVIOUS
  <2>2. Len(a) = 1 /\ \A i \in 1 .. 1 : a[i] = <<f>>[i]
    BY <2>1, <1>1, <1>2, <1>3
  <2>3. a = <<f>>
    BY <2>1, <2>2, SeqEqual
  <2> QED
    BY <2>3, <1>2
<1>4. CASE m # 1
  <2>1. k = 0
    BY <1>2, <1>1, <1>4
  <2>2. b = <<>>
    BY <1>1, <2>1, EmptySeq
  <2> QED
    BY <1>2, <2>2
<1> QED
  BY <1>3, <1>4

(* What the client has sent of its last request, in one piece or two.      *)
Fragment(n, part) == [req |-> n, part |-> part]

Sendings(c) ==
  LET n == Len(asked[c])
  IN  IF half[c] THEN {<<Fragment(n, "head")>>}
      ELSE {<<Fragment(n, "whole")>>, <<Fragment(n, "head"), Fragment(n, "tail")>>}

(* The answers that are due before it.                                     *)
Before(c) == Replies(Front(asked[c]))

(* The epoll thread is about to end the connection, or has.                *)
Left(c) == mem[c] = "freed" \/ (epc \in {"disconnect", "reap"} /\ cur = c)

(* A worker that has the connection is through with the requests before,   *)
(* and what it has not thrown away of them it will.                        *)
After(c) ==
  /\ \A w \in Workers : on[w] = c =>
       /\ wpc[w] \notin {"parse", "direct"}
       /\ wpc[w] = "send" => outbox[w] = <<>>
  /\ RevcData[c] # <<>> => \E w \in Workers : on[w] = c /\ wpc[w] \in {"send", "end", "reset"}

(* A file goes out as a header and a body.                                *)
Body(r) == << [req |-> r, lo |-> 3, hi |-> 4] >>

(* Every request is answered; or the last is on its way and not read; or   *)
(* it is read, to the end or not, and not acted on; ...                    *)
Settled(c)  == wire[c] = Replies(asked[c]) /\ inbox[c] = <<>> /\ ~half[c]
Unread(c)   == asked[c] # <<>> /\ wire[c] = Before(c) /\ inbox[c] \in Sendings(c)
Unparsed(c) ==
  /\ asked[c] # <<>> /\ wire[c] = Before(c)
  /\ RevcData[c] # <<>> /\ RevcData[c] \o inbox[c] \in Sendings(c)
  /\ \A w \in Workers : on[w] = c => wpc[w] \in {"build", "partial", "parse", "park"}

(* ... or k units of its answer are out, and a worker has the rest; ...    *)
Progress(w, c, k) ==
  LET n    == Len(asked[c])
      last == Last(asked[c])
  IN  /\ wire[c] = Before(c) \o Reply(n, k)
      /\ \/ k = 0 /\ outbox[w] = Answer(n, last)
         \/ k = 2 /\ last = "file" /\ outbox[w] = Body(n)
         \/ k = Units(last) /\ outbox[w] = <<>>

Answering(c) ==
  /\ asked[c] # <<>> /\ inbox[c] = <<>> /\ ~half[c]
  /\ \E w \in Workers : /\ on[w] = c /\ wpc[w] \in {"send", "direct"}
                        /\ wpc[w] = "direct" => outbox[w] # <<>>
                        /\ \E k \in {0, 2, 4} : Progress(w, c, k)

(* ... or the connection has ended, wherever the answers were then.        *)
Gone(c) == Left(c) /\ IsPrefix(wire[c], Replies(asked[c]))

Stage(c) ==
  \/ (Settled(c) \/ Unread(c)) /\ After(c)
  \/ Unparsed(c)
  \/ Answering(c)
  \/ Gone(c)

Stages ==
  /\ wire \in [Conns -> Seq(Pairs)] /\ DOMAIN outbox = Workers
  /\ \A c \in Conns : Stage(c)

(* What is expected of a client that has asked.                            *)
LEMMA Wanted ==
  ASSUME Orderly, ServerInv, NEW c \in Conns, asked[c] # <<>>
  PROVE  \E n \in Nat, last \in Asks :
           /\ n = Len(asked[c]) /\ last = Last(asked[c])
           /\ n \in DOMAIN asked[c] /\ asked[c][n] = last /\ last \in {"page", "file"}
           /\ Units(last) = IF last = "file" THEN 4 ELSE 2
           /\ Before(c) \in Seq(Pairs)
           /\ Replies(asked[c]) = Before(c) \o Reply(n, Units(last))
<1>1. asked[c] \in Seq(Asks)
  BY DEF ServerInv, Types
<1>2. /\ Len(asked[c]) \in Nat /\ Len(asked[c]) \in DOMAIN asked[c]
      /\ asked[c][Len(asked[c])] \in Asks
      /\ Before(c) \in Seq(Pairs)
      /\ Replies(asked[c]) = Before(c) \o Reply(Len(asked[c]), Units(asked[c][Len(asked[c])]))
  BY <1>1, RepliesLast DEF Before
<1>3. Last(asked[c]) = asked[c][Len(asked[c])]
  BY DEF Last
<1> QED
  BY <1>2, <1>3, UnitsAsked, OrderlyFacts

(* What a client has received tells how far the answer in hand is.         *)
LEMMA Answered ==
  ASSUME Orderly, ServerInv, NEW c \in Conns, asked[c] # <<>>, NEW w, NEW k \in {0, 2, 4},
         Progress(w, c, k)
  PROVE  /\ wire[c] = Before(c) \o Reply(Len(asked[c]), k)
         /\ \/ k = 0 \/ k = Units(Last(asked[c])) \/ (k = 2 /\ Units(Last(asked[c])) = 4)
         /\ outbox[w] = <<>> <=> k = Units(Last(asked[c]))
<1>1. Units(Last(asked[c])) = IF Last(asked[c]) = "file" THEN 4 ELSE 2
  BY Wanted
<1> DEFINE n == Len(asked[c])
           a == Last(asked[c])
<1>2. Answer(n, a) # <<>> /\ Body(n) # <<>>
  BY DEF Answer, Body
<1>3. /\ wire[c] = Before(c) \o Reply(n, k)
      /\ \/ k = 0 /\ outbox[w] = Answer(n, a)
         \/ k = 2 /\ a = "file" /\ outbox[w] = Body(n)
         \/ k = Units(a) /\ outbox[w] = <<>>
  BY DEF Progress
<1> HIDE DEF n, a
<1>4. Units(a) = IF a = "file" THEN 4 ELSE 2
  BY <1>1 DEF a
<1>5. \/ k = 0 /\ outbox[w] # <<>> /\ k # Units(a)
      \/ k = 2 /\ Units(a) = 4 /\ outbox[w] # <<>> /\ k # Units(a)
      \/ k = Units(a) /\ outbox[w] = <<>>
  BY <1>2, <1>3, <1>4
<1> QED
  BY <1>3, <1>5 DEF n, a

(* What a client has received is a beginning of what it expects.           *)
LEMMA StagePrefix ==
  ASSUME Orderly, ServerInv, Stages, NEW c \in Conns
  PROVE  /\ Replies(asked[c]) \in Seq(Pairs)
         /\ IsPrefix(wire[c], Replies(asked[c]))
<1>1. Replies(asked[c]) \in Seq(Pairs) /\ wire[c] \in Seq(Pairs)
  <2>1. asked[c] \in Seq(Asks)
    BY DEF ServerInv, Types
  <2>2. Replies(asked[c]) \in Seq(Pairs)
    <3>1. CASE asked[c] = <<>>
      BY <3>1, RepliesNone, EmptySeq
    <3>2. CASE asked[c] # <<>>
      <4>1. PICK n \in Nat, last \in Asks :
              /\ Before(c) \in Seq(Pairs) /\ Units(last) \in {2, 4}
              /\ Replies(asked[c]) = Before(c) \o Reply(n, Units(last))
        BY <3>2, Wanted
      <4>2. Reply(n, Units(last)) \in Seq(Pairs)
        BY <4>1, ReplyType
      <4> QED
        BY <4>1, <4>2, ConcatProperties
    <3> QED
      BY <3>1, <3>2
  <2> QED
    BY <2>2 DEF Stages
<1> SUFFICES IsPrefix(wire[c], Replies(asked[c]))
  BY <1>1
<1>2. CASE Settled(c)
  BY <1>1, <1>2, PrefixSelf DEF Settled
<1>3. CASE Gone(c)
  BY <1>3 DEF Gone
<1>4. ASSUME asked[c] # <<>>, NEW k \in {0, 2, 4}, wire[c] = Before(c) \o Reply(Len(asked[c]), k),
             k = 0 \/ k = Units(Last(asked[c])) \/ (k = 2 /\ Units(Last(asked[c])) = 4)
      PROVE  IsPrefix(wire[c], Replies(asked[c]))
  <2>1. PICK n \in Nat, last \in Asks :
          /\ n = Len(asked[c]) /\ last = Last(asked[c]) /\ Units(last) \in {2, 4}
          /\ Before(c) \in Seq(Pairs)
          /\ Replies(asked[c]) = Before(c) \o Reply(n, Units(last))
    BY <1>4, Wanted
  <2>2. CASE k = 0
    <3>1. wire[c] = Before(c)
      BY <2>1, <2>2, <1>4, ReplyNone, ConcatEmptySeq
    <3>2. Reply(n, Units(last)) \in Seq(Pairs)
      BY <2>1, ReplyType
    <3> QED
      BY <2>1, <3>1, <3>2, PrefixSelf, PrefixOfConcat
  <2>3. CASE k = Units(last)
    BY <2>1, <2>3, <1>1, <1>4, PrefixSelf
  <2>4. CASE k = 2 /\ Units(last) = 4
    <3>1. PICK u \in Seq(Pairs) : Reply(n, 4) = Reply(n, 2) \o u
      <4>1. 2 \in Nat /\ 2 + 2 = 4
        OBVIOUS
      <4> QED
        BY <4>1, <2>1, ReplyMore
    <3>2. Reply(n, 2) \in Seq(Pairs)
      BY <2>1, ReplyType
    <3>3. Replies(asked[c]) = wire[c] \o u
      <4>1. (Before(c) \o Reply(n, 2)) \o u = Before(c) \o (Reply(n, 2) \o u)
        BY <2>1, <3>1, <3>2, ConcatAssociative
      <4> QED
        BY <2>1, <2>4, <1>4, <3>1, <4>1
    <3> QED
      BY <3>1, <3>3, <1>1, PrefixSelf, PrefixOfConcat
  <2> QED
    BY <2>1, <2>2, <2>3, <2>4, <1>4
<1>5. CASE Unread(c) \/ Unparsed(c)
  <2>1. asked[c] # <<>> /\ wire[c] = Before(c)
    BY <1>5 DEF Unread, Unparsed
  <2>2. wire[c] = Before(c) \o Reply(Len(asked[c]), 0)
    BY <2>1, <1>1, ReplyNone, ConcatEmptySeq
  <2> QED
    BY <2>1, <2>2, <1>4
<1>6. CASE Answering(c)
  <2>1. PICK w \in Workers, k \in {0, 2, 4} : Progress(w, c, k)
    BY <1>6 DEF Answering
  <2>2. asked[c] # <<>>
    BY <1>6 DEF Answering
  <2> QED
    BY <2>1, <2>2, <1>4, Answered
<1> QED
  BY <1>2, <1>3, <1>5, <1>6 DEF Stages, Stage

(* A step that leaves a connection alone keeps its stage.                  *)
Kept(c) ==
  /\ wire'[c] = wire[c] /\ inbox'[c] = inbox[c] /\ asked'[c] = asked[c]
  /\ half'[c] = half[c] /\ RevcData'[c] = RevcData[c]
  /\ Left(c) => Left(c)'
  /\ \A w \in Workers : on[w] = c \/ on'[w] = c =>
       on'[w] = on[w] /\ wpc'[w] = wpc[w] /\ outbox'[w] = outbox[w]

(* A step that leaves a connection alone leaves its stage.                 *)
LEMMA StageKept ==
  ASSUME NEW c \in Conns, Stage(c), Kept(c)
  PROVE  Stage(c)'
<1>1. Before(c)' = Before(c) /\ Sendings(c)' = Sendings(c)
  BY DEF Kept, Before, Sendings
<1>2. (Settled(c) => Settled(c)') /\ (Unread(c) => Unread(c)')
  BY <1>1 DEF Kept, Settled, Unread
<1>3. After(c) => After(c)'
  BY DEF Kept, After
<1>4. Unparsed(c) => Unparsed(c)'
  BY <1>1 DEF Kept, Unparsed
<1>5. Answering(c) => Answering(c)'
  BY <1>1 DEF Kept, Answering, Progress
<1>6. Gone(c) => Gone(c)'
  BY DEF Kept, Gone
<1> QED
  BY <1>2, <1>3, <1>4, <1>5, <1>6 DEF Stage

(* A connection that a worker has is not about to end, nor another's.      *)
LEMMA NotLeft ==
  ASSUME ServerInv, NEW c \in Conns, Processing[c]
  PROVE  ~Left(c) /\ ~Gone(c)
<1>1. mem[c] = "live"
  BY DEF ServerInv, Marked
<1>2. ~(epc \in {"disconnect", "reap"} /\ cur = c)
  BY DEF ServerInv, Looping
<1> QED
  BY <1>1, <1>2 DEF Left, Gone

(* A connection nobody has has nothing left over, and no answer under way. *)
LEMMA Free ==
  ASSUME ServerInv, NEW c \in Conns, ~Processing[c], mem[c] = "live",
         ~(epc \in {"disconnect", "reap"} /\ cur = c), Stage(c)
  PROVE  /\ \A w \in Workers : on[w] # c
         /\ \/ (Settled(c) \/ Unread(c)) /\ After(c) /\ RevcData[c] = <<>>
            \/ Unparsed(c)
<1>1. \A w \in Workers : on[w] # c
  BY DEF ServerInv, Marked, Has
<1>2. ~Answering(c)
  BY <1>1 DEF Answering
<1>3. ~Gone(c)
  BY DEF Gone, Left
<1>4. After(c) => RevcData[c] = <<>>
  BY <1>1 DEF After
<1> QED
  BY <1>1, <1>2, <1>3, <1>4 DEF Stage

(* What is left to send of a request is pieces that can be read.           *)
LEMMA SendingsTypes ==
  ASSUME Orderly, ServerInv, NEW c \in Conns, asked[c] # <<>>, NEW x \in Sendings(c)
  PROVE  x \in Seq(Pieces) /\ x # <<>> /\ Legible(x)
<1>1. PICK n \in Nat : n = Len(asked[c])
  BY Wanted
<1> DEFINE h == Fragment(n, "head")
           t == Fragment(n, "tail")
           f == Fragment(n, "whole")
<1>2. /\ h \in Pieces /\ t \in Pieces /\ f \in Pieces
      /\ f.part = "whole" /\ h.part = "head" /\ t = [h EXCEPT !.part = "tail"]
  BY <1>1 DEF Fragment, Pieces
<1>3. x = <<f>> \/ x = <<h>> \/ x = <<h, t>>
  BY <1>1 DEF Sendings
<1> HIDE DEF f, h, t
<1>4. /\ <<f>> \in Seq(Pieces) /\ <<h>> \in Seq(Pieces) /\ <<h, t>> \in Seq(Pieces)
      /\ <<f>> # <<>> /\ <<h>> # <<>> /\ <<h, t>> # <<>>
  BY <1>2
<1>5. Legible(<<f>>) /\ Legible(<<h>>) /\ Legible(<<h, t>>)
  BY <1>2 DEF Legible
<1> QED
  BY <1>3, <1>4, <1>5

(* So what the epoll thread is about to read fits.                         *)
LEMMA StagesArrive ==
  ASSUME Orderly, ServerInv, Stages
  PROVE  Arriving
<1> SUFFICES ASSUME epc = "read"
             PROVE  Legible(RevcData[cur] \o inbox[cur])
  BY DEF Arriving
<1>1. cur \in Conns /\ mem[cur] = "live" /\ ~Processing[cur]
  BY DEF ServerInv, Looping, Holding
<1>2. Stage(cur)
  BY <1>1 DEF Stages
<1>3. RevcData[cur] \in Seq(Pieces) /\ inbox[cur] \in Seq(Pieces)
  BY <1>1 DEF ServerInv, Texts
<1>4. CASE (Settled(cur) \/ Unread(cur)) /\ RevcData[cur] = <<>>
  <2>1. RevcData[cur] \o inbox[cur] = inbox[cur]
    BY <1>3, <1>4, ConcatEmptySeq
  <2>2. Legible(inbox[cur])
    <3>1. CASE Settled(cur)
      BY <3>1 DEF Settled, Legible
    <3>2. CASE Unread(cur)
      BY <3>2, <1>1, SendingsTypes DEF Unread
    <3> QED
      BY <1>4, <3>1, <3>2
  <2> QED
    BY <2>1, <2>2
<1>5. CASE Unparsed(cur)
  BY <1>1, <1>5, SendingsTypes DEF Unparsed
<1> QED
  BY <1>1, <1>2, <1>4, <1>5, Free

(* The epoll thread reads: what has arrived becomes what is to be parsed.  *)
LEMMA ReadStages ==
  ASSUME Orderly, ServerInv, Stages, Read, UNCHANGED half
  PROVE  Stages'
<1> DEFINE parts == RevcData[cur] \o inbox[cur]
           many  == Len(parts) > MaxParts + 1
           fail  == peer[cur] \in {"fin", "rst"} \/ many
<1>1. epc = "read" /\ cur \in Conns /\ ~Processing[cur] /\ mem[cur] = "live"
  BY DEF Read, Here, ServerInv, Looping, Holding
<1>2. /\ UNCHANGED <<mem, wire, asked, half, cur, wpc, on, outbox>>
      /\ inbox' = [inbox EXCEPT ![cur] = <<>>]
      /\ RevcData' = [RevcData EXCEPT ![cur] =
                        IF many THEN SubSeq(parts, 1, MaxParts + 1) ELSE parts]
      /\ \/ epc' = "disconnect"
         \/ epc' = "job" /\ ~many
  BY <1>1 DEF Read, recordVars, workVars
<1>3. RevcData[cur] \in Seq(Pieces) /\ inbox[cur] \in Seq(Pieces)
      /\ inbox \in [Conns -> Seq(Pieces)] /\ RevcData \in [Conns -> Seq(Pieces)]
  BY <1>1 DEF ServerInv, Texts
<1>4. /\ inbox'[cur] = <<>> /\ (~many => RevcData'[cur] = parts)
      /\ \A d \in Conns : d # cur => inbox'[d] = inbox[d] /\ RevcData'[d] = RevcData[d]
  BY <1>1, <1>2, <1>3
<1>5. ASSUME NEW d \in Conns, d # cur
      PROVE  Stage(d)'
  <2>1. Left(d) => Left(d)'
    BY <1>1, <1>2 DEF Left
  <2>2. Kept(d)
    BY <2>1, <1>2, <1>4, <1>5 DEF Kept
  <2> QED
    BY <2>2, StageKept DEF Stages
<1>6. CASE epc' = "disconnect"
  <2>1. IsPrefix(wire[cur], Replies(asked[cur]))
    BY <1>1, StagePrefix
  <2>2. Gone(cur)'
    BY <2>1, <1>2, <1>6 DEF Gone, Left
  <2>3. Stage(cur)'
    BY <2>2 DEF Stage
  <2> QED
    BY <2>3, <1>2, <1>5 DEF Stages
<1>7. CASE epc' = "job" /\ ~many
  <2>1. RevcData'[cur] = parts
    BY <1>4, <1>7
  <2> HIDE DEF many
  <2>2. /\ \A w \in Workers : on[w] # cur
        /\ \/ (Settled(cur) \/ Unread(cur)) /\ After(cur) /\ RevcData[cur] = <<>>
           \/ Unparsed(cur)
    BY <1>1, Free DEF Stages
  <2>3. Before(cur)' = Before(cur) /\ Sendings(cur)' = Sendings(cur)
    BY <1>2 DEF Before, Sendings
  <2>4. parts \in Seq(Pieces)
    BY <1>3, ConcatProperties
  <2>5. CASE Settled(cur) /\ RevcData[cur] = <<>>
    <3>1. parts = <<>>
      BY <2>5, ConcatEmptySeq, EmptySeq DEF Settled
    <3>2. Settled(cur)'
      BY <2>5, <1>2, <1>4 DEF Settled
    <3>3. After(cur)'
      BY <2>1, <2>2, <3>1, <1>2 DEF After
    <3> QED
      BY <3>2, <3>3, <1>2, <1>5 DEF Stages, Stage
  <2>6. CASE Unread(cur) /\ RevcData[cur] = <<>>
    <3>1. parts = inbox[cur]
      BY <2>6, <1>3, ConcatEmptySeq
    <3>2. parts \in Sendings(cur) /\ parts # <<>>
      BY <2>6, <3>1, <1>1, SendingsTypes DEF Unread
    <3>3. RevcData'[cur] \o inbox'[cur] \in Sendings(cur)
      BY <2>1, <2>4, <3>2, <1>4, ConcatEmptySeq
    <3> HIDE DEF parts
    <3>4. Unparsed(cur)'
      BY <2>1, <2>2, <2>3, <2>6, <3>2, <3>3, <1>2 DEF Unparsed, Unread
    <3> QED
      BY <3>4, <1>2, <1>5 DEF Stages, Stage
  <2>7. CASE Unparsed(cur)
    <3>1. parts \in Sendings(cur) /\ parts # <<>>
      BY <2>7, <1>1, SendingsTypes DEF Unparsed
    <3>3. RevcData'[cur] \o inbox'[cur] \in Sendings(cur)
      BY <2>1, <2>4, <3>1, <1>4, ConcatEmptySeq
    <3> HIDE DEF parts
    <3>4. Unparsed(cur)'
      BY <2>1, <2>2, <2>3, <2>7, <3>1, <3>3, <1>2 DEF Unparsed
    <3> QED
      BY <3>4, <1>2, <1>5 DEF Stages, Stage
  <2> QED
    BY <2>2, <2>5, <2>6, <2>7
<1> QED
  BY <1>2, <1>6, <1>7

(* It deletes a connection: wherever the answers are, they stop.           *)
LEMMA ReapStages ==
  ASSUME Orderly, ServerInv, Stages, ReapConnection, UNCHANGED half
  PROVE  Stages'
<1>1. epc = "reap" /\ cur \in Conns /\ ~Processing[cur]
  BY DEF ReapConnection, Here, ServerInv, Looping, Holding
<1>2. /\ UNCHANGED <<wire, asked, inbox, half, cur, wpc, on, outbox>>
      /\ mem' = [mem EXCEPT ![cur] = "freed"]
      /\ RevcData' = [RevcData EXCEPT ![cur] = <<>>]
  BY <1>1 DEF ReapConnection, Reap, Delete, recordVars, workVars
<1>3. /\ mem'[cur] = "freed"
      /\ \A d \in Conns : d # cur => mem'[d] = mem[d] /\ RevcData'[d] = RevcData[d]
  BY <1>1, <1>2 DEF ServerInv, Types, Texts
<1>4. ASSUME NEW d \in Conns, d # cur
      PROVE  Stage(d)'
  <2>1. Left(d) => Left(d)'
    BY <1>3, <1>4 DEF Left
  <2>2. Kept(d)
    BY <2>1, <1>2, <1>3, <1>4 DEF Kept
  <2> QED
    BY <2>2, StageKept DEF Stages
<1>5. Stage(cur)'
  <2>1. IsPrefix(wire[cur], Replies(asked[cur]))
    BY <1>1, StagePrefix
  <2>2. Gone(cur)'
    BY <2>1, <1>2, <1>3 DEF Gone, Left
  <2> QED
    BY <2>2 DEF Stage
<1> QED
  BY <1>2, <1>4, <1>5 DEF Stages

(* A step of the epoll thread keeps the stages.                            *)
LEMMA EpollStages ==
  ASSUME Orderly, ServerInv, Stages, Epoll
  PROVE  Stages'
<1>1. epc \notin {"out", "outmod"}
  BY DEF ServerInv, Types
<1>2. ASSUME UNCHANGED <<wire, asked, inbox, half, RevcData, wpc, on, outbox>>,
             \A c \in Conns : Left(c) => Left(c)'
      PROVE  Stages'
  <2>1. ASSUME NEW c \in Conns
        PROVE  Stage(c)'
    <3>1. Kept(c)
      BY <1>2 DEF Kept
    <3> QED
      BY <3>1, StageKept DEF Stages
  <2> QED
    BY <2>1, <1>2 DEF Stages
<1>3. CASE Accept /\ UNCHANGED half
  <2>1. UNCHANGED <<wire, asked, inbox, half, RevcData, wpc, on, outbox, cur>> /\ epc = "accept"
    BY <1>3 DEF Accept, recordVars, workVars
  <2>2. PICK c \in Conns : mem' = [mem EXCEPT ![c] = "live"] /\ mem[c] = "none"
    BY <1>3 DEF Accept, Backlog
  <2>3. \A d \in Conns : Left(d) => Left(d)'
    BY <2>1, <2>2 DEF Left, ServerInv, Types
  <2> QED
    BY <1>2, <2>1, <2>3
<1>4. CASE Disconnect /\ UNCHANGED half
  <2>1. UNCHANGED <<wire, asked, inbox, half, RevcData, wpc, on, outbox, mem, cur>> /\ epc' = "reap"
    BY <1>4 DEF Disconnect, objectVars, kernelVars, workVars
  <2>2. \A d \in Conns : Left(d) => Left(d)'
    BY <2>1 DEF Left
  <2> QED
    BY <1>2, <2>1, <2>2
<1>5. CASE /\ UNCHANGED half
           /\ \/ Boot \/ epoll_wait \/ NextEvent \/ LastEvent \/ TestProcessing \/ Submit
              \/ LeaveLoop \/ thpool_destroy
  <2>1. /\ UNCHANGED <<wire, asked, inbox, half, RevcData, wpc, on, outbox, mem>>
        /\ epc \notin {"disconnect", "reap"}
    BY <1>5 DEF Boot, epoll_wait, NextEvent, LastEvent, TestProcessing, Submit, LeaveLoop,
                thpool_destroy, Here, connVars, workVars
  <2>2. \A d \in Conns : Left(d) => Left(d)'
    BY <2>1 DEF Left
  <2> QED
    BY <1>2, <2>1, <2>2
<1>6. CASE SendQueued \/ Drained \/ WatchInput
  BY <1>1, <1>6 DEF SendQueued, Drained, WatchInput, Here
<1> QED
  BY <1>3, <1>4, <1>5, <1>6, ReadStages, ReapStages DEF Epoll, EpollThread

(* A worker's step changes the stage of its own connection only.           *)
LEMMA WorkerStages ==
  ASSUME ServerInv, Stages, NEW w \in Workers, NEW c \in Conns,
         wire' \in [Conns -> Seq(Pairs)], DOMAIN outbox' = Workers,
         UNCHANGED <<asked, half, inbox, mem, epc, cur>>,
         \A v \in Workers : v # w => on'[v] = on[v] /\ wpc'[v] = wpc[v] /\ outbox'[v] = outbox[v],
         on[w] \in {c, NULL}, on'[w] \in {c, NULL},
         \A d \in Conns : d # c => wire'[d] = wire[d] /\ RevcData'[d] = RevcData[d],
         Stage(c)'
  PROVE  Stages'
<1>1. ASSUME NEW d \in Conns, d # c
      PROVE  Stage(d)'
  <2>1. NULL # d
    BY ConnectionAssumption, WorkersAssumption DEF WorkersAssumption
  <2>2. \A v \in Workers : on[v] = d \/ on'[v] = d => v # w
    BY <1>1, <2>1
  <2>3. Left(d) => Left(d)'
    BY DEF Left
  <2>4. Kept(d)
    BY <1>1, <2>2, <2>3 DEF Kept
  <2> QED
    BY <2>4, StageKept DEF Stages
<1> QED
  BY <1>1 DEF Stages

(* The stages a worker's connection may be in.                             *)
LEMMA StageOf ==
  ASSUME Orderly, ServerInv, Stages, NEW w \in Workers, wpc[w] # "idle"
  PROVE  /\ on[w] \in Conns /\ \A v \in Workers : on[v] = on[w] => v = w
         /\ \/ /\ Settled(on[w]) \/ Unread(on[w])
               /\ After(on[w])
               /\ RevcData[on[w]] # <<>> => wpc[w] \in {"send", "end", "reset"}
               /\ wpc[w] \notin {"parse", "direct"} /\ (wpc[w] = "send" => outbox[w] = <<>>)
            \/ Unparsed(on[w]) /\ wpc[w] \in {"build", "partial", "parse", "park"}
            \/ /\ Answering(on[w]) /\ wpc[w] \in {"send", "direct"}
               /\ wpc[w] = "direct" => outbox[w] # <<>>
               /\ \E k \in {0, 2, 4} : Progress(w, on[w], k)
<1> DEFINE c == on[w]
<1>1. /\ c \in Conns /\ Processing[c] /\ \A v \in Workers : on[v] = c => v = w
  BY Working
<1>2. ~Gone(c)
  BY <1>1, NotLeft
<1>3. ((Settled(c) \/ Unread(c)) /\ After(c)) \/ Unparsed(c) \/ Answering(c)
  BY <1>1, <1>2 DEF Stages, Stage
<1>4. After(c) => /\ RevcData[c] # <<>> => wpc[w] \in {"send", "end", "reset"}
                  /\ wpc[w] \notin {"parse", "direct"} /\ (wpc[w] = "send" => outbox[w] = <<>>)
  BY <1>1 DEF After
<1>5. Unparsed(c) => wpc[w] \in {"build", "partial", "parse", "park"}
  BY DEF Unparsed
<1>6. Answering(c) => /\ wpc[w] \in {"send", "direct"} /\ (wpc[w] = "direct" => outbox[w] # <<>>)
                      /\ \E k \in {0, 2, 4} : Progress(w, c, k)
  BY <1>1 DEF Answering
<1> QED
  BY <1>1, <1>3, <1>4, <1>5, <1>6

(* A connection whose requests are answered, or wait, stays so.            *)
LEMMA StillAfter ==
  ASSUME NEW c \in Conns, Settled(c) \/ Unread(c),
         wire'[c] = wire[c], UNCHANGED <<asked, half, inbox>>,
         NEW w \in Workers, \A v \in Workers : v # w => on'[v] # c,
         RevcData'[c] # <<>> => on'[w] = c /\ wpc'[w] \in {"send", "end", "reset"},
         on'[w] = c => wpc'[w] \notin {"parse", "direct", "send"}
  PROVE  Stage(c)'
<1>1. Before(c)' = Before(c) /\ Sendings(c)' = Sendings(c)
  BY DEF Before, Sendings
<1>2. Settled(c)' \/ Unread(c)'
  BY <1>1 DEF Settled, Unread
<1>3. After(c)'
  BY DEF After
<1> QED
  BY <1>2, <1>3 DEF Stage

(* A request not yet parsed stays so while no worker gets past it.         *)
LEMMA StillUnparsed ==
  ASSUME NEW c \in Conns, Unparsed(c), wire'[c] = wire[c], RevcData'[c] = RevcData[c],
         UNCHANGED <<asked, half, inbox>>,
         NEW w \in Workers, \A v \in Workers : v # w => on'[v] # c,
         on'[w] = c => wpc'[w] \in {"build", "partial", "parse", "park"}
  PROVE  Stage(c)'
<1>1. Before(c)' = Before(c) /\ Sendings(c)' = Sendings(c)
  BY DEF Before, Sendings
<1>2. Unparsed(c)'
  BY <1>1 DEF Unparsed
<1> QED
  BY <1>2 DEF Stage

(* A worker that takes a job keeps the stages.                             *)
LEMMA TakeJobStages ==
  ASSUME Orderly, ServerInv, Stages, NEW w \in Workers, TakeJob(w), UNCHANGED <<epollVars, half>>
  PROVE  Stages'
<1>c. PICK c \in Conns : c = Head(jobs)
  BY DEF TakeJob, ServerInv, Types
<1>1. /\ c \in Conns /\ c = jobs[1] /\ 1 \in DOMAIN jobs /\ wpc[w] = "idle" /\ on[w] = NULL
  BY <1>c DEF TakeJob, ServerInv, Types, Busy
<1>2. Processing[c] /\ \A v \in Workers : on[v] # c
  <2>1. Has(c)
    BY <1>1 DEF Has
  <2> QED
    BY <1>1, <2>1 DEF ServerInv, Marked, Single
<1>3. /\ on'[w] = c /\ wpc'[w] = "build"
      /\ \A v \in Workers : v # w => on'[v] = on[v] /\ wpc'[v] = wpc[v]
      /\ UNCHANGED <<wire, RevcData, asked, half, inbox, outbox, mem, epc, cur>>
  BY <1>1, <1>c DEF TakeJob, Goto, connVars, epollVars, ServerInv, Types
<1>4. ((Settled(c) \/ Unread(c)) /\ RevcData[c] = <<>>) \/ Unparsed(c)
  <2>1. ~Gone(c)
    BY <1>1, <1>2, NotLeft
  <2>2. ~Answering(c) /\ (After(c) => RevcData[c] = <<>>)
    BY <1>2 DEF Answering, After
  <2> QED
    BY <1>1, <2>1, <2>2 DEF Stages, Stage
<1>5. \A v \in Workers : v # w => on'[v] # c
  BY <1>2, <1>3
<1>6. Stage(c)'
  <2>1. CASE (Settled(c) \/ Unread(c)) /\ RevcData[c] = <<>>
    BY <2>1, <1>1, <1>3, <1>5, StillAfter
  <2>2. CASE Unparsed(c)
    BY <2>2, <1>1, <1>3, <1>5, StillUnparsed
  <2> QED
    BY <1>4, <2>1, <2>2
<1> QED
  BY <1>1, <1>3, <1>6, WorkerStages DEF Stages

(* The steps between reading a request and acting on it, and after that.   *)
LEMMA MoveStages ==
  ASSUME Orderly, ServerInv, Stages, NEW w \in Workers, UNCHANGED <<epollVars, half>>,
         Build(w) \/ Partial(w) \/ End(w) \/ WaitForRequest(w) \/ Park(w)
  PROVE  Stages'
<1>c. PICK c \in Conns : c = on[w]
  BY Working DEF Build, Partial, End, WaitForRequest, Park, At
<1>1. /\ wpc[w] # "idle" /\ c \in Conns /\ mem[c] = "live" /\ Connected[c]
      /\ \A v \in Workers : on[v] = c => v = w
  <2>1. wpc[w] # "idle"
    BY DEF Build, Partial, End, WaitForRequest, Park, At
  <2> QED
    BY <2>1, <1>c, Working
<1>2. \/ /\ wpc[w] = "build" /\ wpc'[w] \in {"parse", "partial"} /\ on'[w] = c
         /\ wpc'[w] = "parse" => RevcData[c] # <<>>
         /\ UNCHANGED RevcData
      \/ wpc[w] = "partial" /\ wpc'[w] = "park" /\ on'[w] = c /\ UNCHANGED RevcData
      \/ wpc[w] = "end" /\ wpc'[w] = "reset" /\ on'[w] = c /\ UNCHANGED RevcData
      \/ /\ wpc[w] = "reset" /\ wpc'[w] = "park" /\ on'[w] = c
         /\ RevcData' = [RevcData EXCEPT ![c] = <<>>]
      \/ wpc[w] = "park" /\ on'[w] = NULL /\ UNCHANGED RevcData
  <2>1. CASE Build(w)
    <3>1. ~Rejected(RevcData[c], asked[c]) /\ (Finished(RevcData[c]) => RevcData[c] # <<>>)
      BY <1>1, Reading
    <3>2. /\ wpc[w] = "build" /\ UNCHANGED <<on, RevcData>>
          /\ wpc' = [wpc EXCEPT ![w] = IF Finished(RevcData[c]) THEN "parse" ELSE "partial"]
      BY <2>1, <3>1, <1>c DEF Build, At, Goto, connVars
    <3>3. wpc'[w] = IF Finished(RevcData[c]) THEN "parse" ELSE "partial"
      BY <3>2 DEF ServerInv, Types
    <3> QED
      BY <3>1, <3>2, <3>3, <1>c
  <2>2. CASE Partial(w) \/ End(w)
    BY <1>1, <1>c, <2>2 DEF Partial, End, At, Goto, connVars, ServerInv, Types
  <2>3. CASE WaitForRequest(w)
    BY <2>3, <1>c DEF WaitForRequest, At, Goto, ServerInv, Types
  <2>4. CASE Park(w)
    BY <2>4, <1>c DEF Park, At, Return, ServerInv, Types
  <2> QED
    BY <2>1, <2>2, <2>3, <2>4
<1>3. /\ UNCHANGED <<wire, asked, half, inbox, outbox, mem, epc, cur>>
      /\ \A v \in Workers : v # w => on'[v] = on[v] /\ wpc'[v] = wpc[v]
  BY DEF Build, Partial, End, WaitForRequest, Park, Return, Goto, connVars, kernelVars, recordVars,
         epollVars, ServerInv, Types
<1>4. /\ \A v \in Workers : v # w => on'[v] # c
      /\ \A d \in Conns : d # c => RevcData'[d] = RevcData[d]
      /\ wpc[w] = "reset" => RevcData'[c] = <<>>
  BY <1>1, <1>2, <1>3 DEF ServerInv, Texts
<1>5. \/ /\ Settled(c) \/ Unread(c)
         /\ RevcData[c] # <<>> => wpc[w] \in {"end", "reset"}
      \/ Unparsed(c) /\ wpc[w] \notin {"end", "reset"}
  BY <1>1, <1>2, <1>c, StageOf
<1>n. NULL # c
  BY <1>1, OrderlyFacts
<1>6. Stage(c)'
  <2>1. CASE (Settled(c) \/ Unread(c)) /\ (RevcData[c] # <<>> => wpc[w] \in {"end", "reset"})
    <3>1. RevcData'[c] # <<>> => on'[w] = c /\ wpc'[w] \in {"send", "end", "reset"}
      BY <2>1, <1>2, <1>4
    <3>2. on'[w] = c => wpc'[w] \notin {"parse", "direct", "send"}
      BY <2>1, <1>2, <1>n
    <3> QED
      BY <2>1, <3>1, <3>2, <1>1, <1>3, <1>4, StillAfter
  <2>2. CASE Unparsed(c) /\ wpc[w] \notin {"end", "reset"}
    <3>1. UNCHANGED RevcData /\ (on'[w] = c => wpc'[w] \in {"build", "partial", "parse", "park"})
      BY <2>2, <1>2, <1>n
    <3> QED
      BY <2>2, <3>1, <1>1, <1>3, <1>4, StillUnparsed
  <2> QED
    BY <1>5, <2>1, <2>2
<1>7. on[w] \in {c, NULL} /\ on'[w] \in {c, NULL}
  BY <1>2, <1>c
<1> QED
  BY <1>1, <1>3, <1>4, <1>6, <1>7, WorkerStages DEF Stages

(* A worker is at the answer to the last request.                          *)
LEMMA NowAnswering ==
  ASSUME NEW w \in Workers, NEW c \in Conns, asked'[c] # <<>>, inbox'[c] = <<>>, ~half'[c],
         on'[w] = c, wpc'[w] \in {"send", "direct"}, wpc'[w] = "direct" => outbox'[w] # <<>>,
         NEW k \in {0, 2, 4}, Progress(w, c, k)'
  PROVE  Stage(c)'
BY DEF Answering, Stage

(* The request that is parsed is the last one, and all of it has arrived.  *)
LEMMA ParseStages ==
  ASSUME Orderly, ServerInv, Stages, NEW w \in Workers, Parse(w), UNCHANGED <<epollVars, half>>
  PROVE  Stages'
<1>1. /\ wpc[w] = "parse" /\ on[w] \in Conns /\ RevcData[on[w]] # <<>> /\ Finished(RevcData[on[w]])
      /\ wpc' = [wpc EXCEPT ![w] = "send"]
      /\ UNCHANGED <<wire, asked, inbox, RevcData, on>>
  BY ParseResult
<1>c. PICK c \in Conns : c = on[w]
  BY <1>1
<1>r. PICK r \in DOMAIN asked[c] : r = RevcData[c][1].req
  BY <1>c, ParseResult
<1>2. outbox' = [outbox EXCEPT ![w] = Answer(r, asked[c][r])]
  BY <1>c, <1>r, ParseResult
<1>3. Unparsed(c) /\ \A v \in Workers : on[v] = c => v = w
  <2>1. wpc[w] # "idle"
    BY <1>1
  <2> QED
    BY <1>1, <1>c, <2>1, StageOf
<1>4. PICK n \in Nat, last \in Asks :
        /\ n = Len(asked[c]) /\ last = Last(asked[c]) /\ asked[c][n] = last
        /\ Before(c) \in Seq(Pairs)
  BY <1>3, Wanted DEF Unparsed
<1>5. inbox[c] = <<>> /\ ~half[c] /\ r = n
  <2> DEFINE h == Fragment(n, "head")
             t == Fragment(n, "tail")
             f == Fragment(n, "whole")
             a == RevcData[c]
             b == inbox[c]
  <2>1. h \in Pieces /\ t \in Pieces /\ f \in Pieces /\ h.part = "head" /\ h.req = n /\ f.req = n
    BY DEF Fragment, Pieces
  <2>2. a \in Seq(Pieces) /\ b \in Seq(Pieces) /\ a # <<>> /\ Finished(a) /\ r = a[1].req
    BY <1>1, <1>c, <1>r DEF ServerInv, Texts
  <2>3. IF half[c] THEN a \o b = <<h>> ELSE a \o b = <<f>> \/ a \o b = <<h, t>>
    BY <1>3, <1>4 DEF Unparsed, Sendings
  <2> HIDE DEF h, t, f, a, b
  <2>4. ~Finished(<<h>>)
    BY <2>1 DEF Finished
  <2>5. CASE a \o b = <<h>>
    BY <2>1, <2>2, <2>4, <2>5, OnePiece
  <2>6. CASE a \o b = <<f>> /\ ~half[c]
    <3>1. a = <<f>> /\ b = <<>>
      BY <2>1, <2>2, <2>6, OnePiece
    <3>2. a[1] = f
      BY <3>1
    <3> QED
      BY <2>1, <2>2, <2>6, <3>1, <3>2 DEF b
  <2>7. CASE a \o b = <<h, t>> /\ ~half[c]
    <3>1. a[1] = h /\ b = <<>>
      BY <2>1, <2>2, <2>4, <2>7, TwoPieces
    <3> QED
      BY <2>1, <2>2, <2>7, <3>1 DEF b
  <2> QED
    BY <2>3, <2>5, <2>6, <2>7
<1>6. /\ outbox'[w] = Answer(n, last) /\ wpc'[w] = "send" /\ on'[w] = c
      /\ DOMAIN outbox' = Workers
      /\ \A v \in Workers : v # w => outbox'[v] = outbox[v] /\ wpc'[v] = wpc[v] /\ on'[v] = on[v]
  BY <1>1, <1>2, <1>4, <1>5, <1>c DEF Stages, ServerInv, Types
<1>7. Progress(w, c, 0)'
  <2>1. wire[c] = Before(c) \o Reply(n, 0)
    BY <1>3, <1>4, ReplyNone, ConcatEmptySeq DEF Unparsed
  <2> QED
    BY <2>1, <1>1, <1>4, <1>6 DEF Progress, Before
<1>8. Stage(c)'
  <2>1. asked[c] # <<>>
    BY <1>3 DEF Unparsed
  <2> QED
    BY <2>1, <1>1, <1>5, <1>6, <1>7, NowAnswering
<1>9. /\ UNCHANGED <<mem, epc, cur>> /\ on[w] \in {c, NULL} /\ on'[w] \in {c, NULL}
      /\ wire' \in [Conns -> Seq(Pairs)]
  BY <1>1, <1>c DEF Parse, epollVars, Stages
<1> QED
  BY <1>1, <1>6, <1>8, <1>9, WorkerStages

(* A packet goes out: two more units of the answer.                        *)
LEMMA DirectStages ==
  ASSUME Orderly, ServerInv, Stages, NEW w \in Workers, SendDirect(w), UNCHANGED <<epollVars, half>>
  PROVE  Stages'
<1>1. wpc[w] = "direct" /\ wpc[w] # "idle" /\ on[w] \in Conns
  BY Working DEF SendDirect, At
<1>c. PICK c \in Conns : c = on[w]
  BY <1>1
<1>2. /\ Answering(c) /\ outbox[w] # <<>> /\ \A v \in Workers : on[v] = c => v = w
      /\ \E k \in {0, 2, 4} : Progress(w, c, k)
  BY <1>1, <1>c, StageOf
<1>3. asked[c] # <<>> /\ inbox[c] = <<>> /\ ~half[c]
  BY <1>2 DEF Answering
<1>4. PICK n \in Nat, last \in Asks :
        /\ n = Len(asked[c]) /\ last = Last(asked[c]) /\ last \in {"page", "file"}
        /\ Units(last) = IF last = "file" THEN 4 ELSE 2
        /\ Before(c) \in Seq(Pairs)
  BY <1>3, Wanted
<1>5. PICK k \in {0, 2} :
        /\ wire[c] = Before(c) \o Reply(n, k)
        /\ Head(outbox[w]) = [req |-> n, lo |-> k + 1, hi |-> (k + 1) + 1]
        /\ \/ k + 2 = Units(last) /\ Tail(outbox[w]) = <<>>
           \/ k + 2 = 2 /\ last = "file" /\ Tail(outbox[w]) = Body(n)
  <2>1. PICK k \in {0, 2, 4} : Progress(w, c, k)
    BY <1>2
  <2>2. CASE k = 0 /\ outbox[w] = Answer(n, last)
    <3>1. Head(outbox[w]) = [req |-> n, lo |-> 0 + 1, hi |-> (0 + 1) + 1]
      BY <2>2, <1>4 DEF Answer
    <3>2. \/ last = "page" /\ Tail(outbox[w]) = <<>>
          \/ last = "file" /\ Tail(outbox[w]) = Body(n)
      BY <2>2, <1>4 DEF Answer, Body
    <3>3. wire[c] = Before(c) \o Reply(n, 0)
      BY <2>1, <2>2, <1>4 DEF Progress
    <3> QED
      BY <3>1, <3>2, <3>3, <1>4
  <2>3. CASE k = 2 /\ last = "file" /\ outbox[w] = Body(n)
    <3>1. Head(outbox[w]) = [req |-> n, lo |-> 2 + 1, hi |-> (2 + 1) + 1] /\ Tail(outbox[w]) = <<>>
      BY <2>3 DEF Body
    <3>2. wire[c] = Before(c) \o Reply(n, 2)
      BY <2>1, <2>3, <1>4 DEF Progress
    <3> QED
      BY <2>3, <3>1, <3>2, <1>4
  <2> QED
    BY <2>1, <2>2, <2>3, <1>2, <1>4 DEF Progress
<1>l. PICK lo \in Nat : lo = k + 1
  OBVIOUS
<1>6. /\ wire' = [wire EXCEPT ![on[w]] = @ \o Pair(n, lo)]
      /\ outbox' = [outbox EXCEPT ![w] = Tail(@)]
      /\ wpc' = [wpc EXCEPT ![w] = "send"] /\ UNCHANGED <<asked, inbox, RevcData, on>>
  <2>1. Head(outbox[w]) = [req |-> n, lo |-> lo, hi |-> lo + 1]
    BY <1>5, <1>l
  <2>2. wire' = [wire EXCEPT ![on[w]] = @ \o Pair(n, lo)]
    BY <2>1, DirectSends
  <2>3. outbox' = [outbox EXCEPT ![w] = Tail(@)]
    BY <2>1, DirectSends
  <2>4. wpc' = [wpc EXCEPT ![w] = "send"]
    BY <2>1, DirectSends
  <2>5. UNCHANGED <<asked, inbox, RevcData, on>>
    BY <2>1, DirectSends
  <2> QED
    BY <2>2, <2>3, <2>4, <2>5
<1>7. /\ wire'[c] = wire[c] \o Pair(n, lo) /\ \A d \in Conns : d # c => wire'[d] = wire[d]
      /\ outbox'[w] = Tail(outbox[w]) /\ wpc'[w] = "send" /\ on'[w] = c
      /\ DOMAIN outbox' = Workers
      /\ \A v \in Workers : v # w => outbox'[v] = outbox[v] /\ wpc'[v] = wpc[v] /\ on'[v] = on[v]
  BY <1>6, <1>c DEF Stages, ServerInv, Types
<1>8. wire'[c] = Before(c) \o Reply(n, k + 2) /\ wire'[c] \in Seq(Pairs)
  <2>1. /\ Pair(n, lo) \in Seq(Pairs) /\ Reply(n, k + 2) = Reply(n, k) \o Pair(n, lo)
        /\ Reply(n, k) \in Seq(Pairs) /\ Reply(n, k + 2) \in Seq(Pairs)
    <3>1. k \in Nat /\ k + 2 \in Nat
      OBVIOUS
    <3> QED
      BY <3>1, <1>l, ReplyMore, ReplyType
  <2>2. PICK b \in Seq(Pairs), x \in Seq(Pairs), u \in Seq(Pairs) :
          b = Before(c) /\ x = Reply(n, k) /\ u = Pair(n, lo)
    BY <2>1, <1>4
  <2>3. (b \o x) \o u = b \o (x \o u) /\ b \o Reply(n, k + 2) \in Seq(Pairs)
    <3>1. (b \o x) \o u = b \o (x \o u)
      BY ConcatAssociative
    <3>2. PICK y \in Seq(Pairs) : y = Reply(n, k + 2)
      BY <2>1
    <3>3. b \o y \in Seq(Pairs)
      BY ConcatProperties
    <3> QED
      BY <3>1, <3>2, <3>3
  <2>4. wire[c] = b \o x /\ wire'[c] = wire[c] \o u /\ Reply(n, k + 2) = x \o u
    BY <2>1, <2>2, <1>5, <1>7
  <2> QED
    BY <2>2, <2>3, <2>4
<1>9. Progress(w, c, k + 2)' /\ k + 2 \in {0, 2, 4}
  BY <1>4, <1>5, <1>6, <1>7, <1>8 DEF Progress, Before
<1>10. Stage(c)'
  BY <1>3, <1>6, <1>7, <1>9, NowAnswering
<1>11. /\ UNCHANGED <<mem, epc, cur>> /\ on[w] \in {c, NULL} /\ on'[w] \in {c, NULL}
       /\ wire' \in [Conns -> Seq(Pairs)]
  BY <1>6, <1>7, <1>8, <1>c DEF SendDirect, epollVars, Stages
<1> QED
  BY <1>6, <1>7, <1>10, <1>11, WorkerStages

(* A worker that sends keeps the stages.                                   *)
LEMMA SendStages ==
  ASSUME Orderly, ServerInv, Stages, NEW w \in Workers, Send(w), UNCHANGED <<epollVars, half>>
  PROVE  Stages'
<1>1. wpc[w] = "send" /\ wpc[w] # "idle" /\ on[w] \in Conns /\ outbox[w] # <<>>
  BY Working DEF Send, At
<1>c. PICK c \in Conns : c = on[w]
  BY <1>1
<1>2. Connected[c] /\ SendQueue[c] = <<>>
  BY <1>1, <1>c, Working DEF ServerInv, Types
<1>3. /\ wpc' = [wpc EXCEPT ![w] = "direct"]
      /\ UNCHANGED <<wire, RevcData, asked, inbox, outbox, on, mem, epc, cur>>
  BY <1>2, <1>c DEF Send, Goto, connVars, epollVars
<1>4. wpc'[w] = "direct" /\ \A v \in Workers : v # w => wpc'[v] = wpc[v]
  BY <1>3 DEF ServerInv, Types
<1>5. Answering(c) /\ \E k \in {0, 2, 4} : Progress(w, c, k)
  BY <1>1, <1>c, StageOf
<1>6. PICK k \in {0, 2, 4} : Progress(w, c, k)
  BY <1>5
<1>7. Progress(w, c, k)'
  BY <1>3, <1>6 DEF Progress, Before
<1>8. Stage(c)'
  <2>1. asked[c] # <<>> /\ inbox[c] = <<>> /\ ~half[c]
    BY <1>5 DEF Answering
  <2> QED
    BY <2>1, <1>1, <1>3, <1>4, <1>7, <1>c, NowAnswering
<1> QED
  BY <1>3, <1>4, <1>8, <1>c, WorkerStages DEF Stages

(* The handler is done: the last request is answered.                      *)
LEMMA HandledStages ==
  ASSUME Orderly, ServerInv, Stages, NEW w \in Workers, Handled(w), UNCHANGED <<epollVars, half>>
  PROVE  Stages'
<1>1. wpc[w] = "send" /\ wpc[w] # "idle" /\ on[w] \in Conns /\ outbox[w] = <<>>
  BY Working DEF Handled, At
<1>c. PICK c \in Conns : c = on[w]
  BY <1>1
<1>2. /\ wpc' = [wpc EXCEPT ![w] = "end"]
      /\ UNCHANGED <<wire, RevcData, asked, inbox, outbox, on, mem, epc, cur>>
  BY DEF Handled, Goto, recordVars, epollVars, ServerInv, Types
<1>3. wpc'[w] = "end" /\ \A v \in Workers : v # w => wpc'[v] = wpc[v]
  BY <1>2 DEF ServerInv, Types
<1>4. Settled(c) \/ Unread(c)
  <2>1. CASE Answering(c) /\ \E k \in {0, 2, 4} : Progress(w, c, k)
    <3>1. asked[c] # <<>> /\ inbox[c] = <<>> /\ ~half[c]
      BY <2>1 DEF Answering
    <3>2. PICK k \in {0, 2, 4} : Progress(w, c, k)
      BY <2>1
    <3>3. wire[c] = Before(c) \o Reply(Len(asked[c]), Units(Last(asked[c])))
      BY <3>1, <3>2, <1>1, Answered
    <3>4. wire[c] = Replies(asked[c])
      BY <3>1, <3>3, Wanted
    <3> QED
      BY <3>1, <3>4 DEF Settled
  <2> QED
    BY <2>1, <1>1, <1>c, StageOf
<1>5. \A v \in Workers : v # w => on'[v] # c
  BY <1>1, <1>2, <1>c, StageOf
<1>6. Stage(c)'
  BY <1>2, <1>3, <1>4, <1>5, <1>c, StillAfter
<1> QED
  BY <1>2, <1>3, <1>6, <1>c, WorkerStages DEF Stages

(* A step of a worker keeps the stages.                                    *)
LEMMA WorkersStages ==
  ASSUME Orderly, ServerInv, Stages, NEW w \in Workers, Worker(w)
  PROVE  Stages'
<1>1. wpc[w] \notin {"clear", "notify", "reap", "delete", "push", "poll"}
  BY DEF ServerInv, Types
<1>2. CASE \/ PushPacket(w) \/ WatchOutput(w) \/ DeleteClient(w) \/ ClearProcessing(w)
           \/ NotifySite(w) \/ ReapClient(w)
  BY <1>1, <1>2 DEF PushPacket, WatchOutput, DeleteClient, ClearProcessing, NotifySite,
                    ReapClient, At
<1> QED
  BY <1>2, TakeJobStages, MoveStages, ParseStages, SendStages, DirectStages, HandledStages
  DEF Worker, OnConnect

-----------------------------------------------------------------------------
(* A client that has had its answers asks again.                           *)
LEMMA RequestStages ==
  ASSUME Orderly, "pipeline" \notin Habits, ServerInv, Stages, NEW c \in Conns, NEW a \in Asks,
         Request(c, a), UNCHANGED <<wire, RevcData, mem, epc, cur, wpc, on, outbox>>
  PROVE  Stages'
<1>1. PICK n \in Nat : n = Len(asked[c])
  BY DEF ServerInv, Types
<1>2. PICK part \in {"whole", "head"} :
        /\ inbox' = [inbox EXCEPT ![c] = Append(@, [req |-> n + 1, part |-> part])]
        /\ half' = [half EXCEPT ![c] = part = "head"]
  BY <1>1 DEF Request
<1>3. asked' = [asked EXCEPT ![c] = Append(@, a)] /\ asked[c] \in Seq(Asks)
  BY DEF Request, ServerInv, Types
<1>4. ~half[c] /\ Len(wire[c]) = Len(Replies(asked[c]))
  BY Zenon DEF Request, May, Quiet, Expected, Replies, Reply
<1>5. /\ inbox'[c] = Append(inbox[c], Fragment(n + 1, part)) /\ asked'[c] = Append(asked[c], a)
      /\ half'[c] = (part = "head")
      /\ \A d \in Conns : d # c => inbox'[d] = inbox[d] /\ asked'[d] = asked[d] /\ half'[d] = half[d]
  BY <1>2, <1>3 DEF Fragment, ServerInv, Types, Texts
<1>6. /\ asked'[c] # <<>> /\ Len(asked'[c]) = n + 1 /\ Before(c)' = Replies(asked[c])
  <2>1. Append(asked[c], a) # <<>> /\ Len(Append(asked[c], a)) = n + 1
    BY <1>1, <1>3, AppendProperties
  <2>2. Front(Append(asked[c], a)) = asked[c]
    BY <1>3, FrontOfAppend
  <2> QED
    BY <2>1, <2>2, <1>5 DEF Before
<1>7. ASSUME wire[c] = Replies(asked[c]), inbox[c] = <<>>, After(c)
      PROVE  Stage(c)'
  <2>1. inbox'[c] = <<Fragment(n + 1, part)>>
    BY <1>5, <1>7
  <2>2. inbox'[c] \in Sendings(c)'
    BY <2>1, <1>5, <1>6 DEF Sendings
  <2>3. Unread(c)'
    BY <2>2, <1>6, <1>7 DEF Unread
  <2>4. After(c)'
    BY <1>7 DEF After
  <2> QED
    BY <2>3, <2>4 DEF Stage
<1>8. Replies(asked[c]) \in Seq(Pairs) /\ IsPrefix(wire[c], Replies(asked[c])) /\ wire[c] \in Seq(Pairs)
  BY StagePrefix DEF Stages
<1>9. ASSUME asked[c] # <<>>, NEW k \in {0, 2, 4},
             wire[c] = Before(c) \o Reply(Len(asked[c]), k)
      PROVE  k = Units(Last(asked[c])) /\ wire[c] = Replies(asked[c])
  <2>1. PICK m \in Nat, last \in Asks :
          /\ m = Len(asked[c]) /\ last = Last(asked[c]) /\ Units(last) \in {2, 4}
          /\ Before(c) \in Seq(Pairs)
          /\ Replies(asked[c]) = Before(c) \o Reply(m, Units(last))
    BY <1>9, Wanted
  <2>2. /\ Reply(m, k) \in Seq(Pairs) /\ Len(Reply(m, k)) = k
        /\ Reply(m, Units(last)) \in Seq(Pairs) /\ Len(Reply(m, Units(last))) = Units(last)
    <3>1. PICK u \in Nat : u = Units(last)
      BY <2>1
    <3>2. k \in Nat
      OBVIOUS
    <3>3. Reply(m, k) \in Seq(Pairs) /\ Len(Reply(m, k)) = k
      BY <2>1, <3>2, ReplyType
    <3>4. Reply(m, u) \in Seq(Pairs) /\ Len(Reply(m, u)) = u
      BY <2>1, <3>1, ReplyType
    <3> QED
      BY <3>1, <3>3, <3>4
  <2>3. /\ Len(wire[c]) = Len(Before(c)) + k
        /\ Len(Replies(asked[c])) = Len(Before(c)) + Units(last)
    BY <2>1, <2>2, <1>9, ConcatProperties
  <2>4. Len(Before(c)) \in Nat
    BY <2>1, LenProperties
  <2>5. k = Units(last)
    BY <2>1, <2>3, <2>4, <1>4
  <2> QED
    BY <2>1, <2>5, <1>9
<1>10. Stage(c)'
  <2>1. CASE Settled(c) /\ After(c)
    BY <2>1, <1>7 DEF Settled
  <2>2. CASE Unread(c) \/ Unparsed(c)
    <3>1. asked[c] # <<>> /\ wire[c] = Before(c)
      BY <2>2 DEF Unread, Unparsed
    <3>2. wire[c] = Before(c) \o Reply(Len(asked[c]), 0)
      BY <3>1, <1>8, ReplyNone, ConcatEmptySeq
    <3>3. 0 = Units(Last(asked[c]))
      BY <3>1, <3>2, <1>9
    <3> QED
      BY <3>1, <3>3, Wanted
  <2>3. CASE Answering(c)
    <3>1. PICK w \in Workers, k \in {0, 2, 4} :
            /\ on[w] = c /\ wpc[w] \in {"send", "direct"} /\ (wpc[w] = "direct" => outbox[w] # <<>>)
            /\ Progress(w, c, k)
      BY <2>3 DEF Answering
    <3>2. asked[c] # <<>> /\ inbox[c] = <<>>
      BY <2>3 DEF Answering
    <3>3. wire[c] = Before(c) \o Reply(Len(asked[c]), k) /\ (outbox[w] = <<>> <=> k = Units(Last(asked[c])))
      BY <3>1, <3>2, Answered
    <3>4. outbox[w] = <<>> /\ wire[c] = Replies(asked[c])
      BY <3>2, <3>3, <1>9
    <3>5. wpc[w] = "send" /\ \A v \in Workers : on[v] = c => v = w
      <4>1. wpc[w] = "send" /\ wpc[w] # "idle"
        BY <3>1, <3>4
      <4> QED
        BY <4>1, <3>1, StageOf
    <3>6. After(c)
      BY <3>1, <3>4, <3>5 DEF After
    <3> QED
      BY <3>2, <3>4, <3>6, <1>7
  <2>4. CASE Gone(c)
    <3>1. Replies(asked'[c]) = Replies(asked[c]) \o Reply(n + 1, Units(a))
      BY <1>1, <1>3, <1>5, RepliesAppend
    <3>2. Reply(n + 1, Units(a)) \in Seq(Pairs)
      <4>1. Units(a) \in Nat
        BY UnitsAsked
      <4> QED
        BY <4>1, ReplyType
    <3>3. IsPrefix(wire[c], Replies(asked'[c]))
      BY <3>1, <3>2, <1>8, PrefixOfConcat
    <3>4. Gone(c)'
      BY <2>4, <3>3 DEF Gone, Left
    <3> QED
      BY <3>4 DEF Stage
  <2> QED
    BY <2>1, <2>2, <2>3, <2>4 DEF Stages, Stage
<1>11. ASSUME NEW d \in Conns, d # c
       PROVE  Stage(d)'
  <2>1. Kept(d)
    BY <1>5, <1>11 DEF Kept, Left
  <2> QED
    BY <2>1, StageKept DEF Stages
<1> QED
  BY <1>10, <1>11 DEF Stages

(* Sequences of two.                                                       *)
LEMMA TwoOfThem ==
  ASSUME NEW S, NEW x \in S, NEW y \in S
  PROVE  Append(<<x>>, y) = <<x, y>> /\ <<x>> \o <<y>> = <<x, y>>
<1>1. /\ <<x>> \in Seq(S) /\ Len(<<x>>) = 1 /\ <<x>>[1] = x
      /\ <<y>> \in Seq(S) /\ Len(<<y>>) = 1 /\ <<y>>[1] = y
  OBVIOUS
<1>z. <<x, y>> \in Seq(S) /\ Len(<<x, y>>) = 2 /\ <<x, y>>[1] = x /\ <<x, y>>[2] = y
  OBVIOUS
<1>2. PICK p \in Seq(S), q \in Seq(S), z \in Seq(S) :
        /\ p = <<x>> /\ q = <<y>> /\ z = <<x, y>>
        /\ Len(p) = 1 /\ p[1] = x /\ Len(q) = 1 /\ q[1] = y
        /\ Len(z) = 2 /\ z[1] = x /\ z[2] = y
  BY <1>1, <1>z, Zenon
<1>3. Append(p, y) \in Seq(S) /\ p \o q \in Seq(S)
  OBVIOUS
<1>4. Len(Append(p, y)) = 2 /\ \A i \in 1 .. 2 : Append(p, y)[i] = z[i]
  <2>1. Len(Append(p, y)) = 2 /\ Append(p, y)[1] = x /\ Append(p, y)[2] = y
    BY <1>2, AppendProperties
  <2> QED
    BY <1>2, <2>1
<1>5. Len(p \o q) = 2 /\ \A i \in 1 .. 2 : (p \o q)[i] = z[i]
  BY <1>2
<1>6. Append(p, y) = z /\ p \o q = z
  BY <1>2, <1>3, <1>4, <1>5, SeqEqual
<1> QED
  BY <1>2, <1>6

(* The rest of a request follows.                                          *)
LEMMA RestStages ==
  ASSUME Orderly, ServerInv, Stages, NEW c \in Conns,
         RequestRest(c), UNCHANGED <<wire, RevcData, mem, epc, cur, wpc, on, outbox>>
  PROVE  Stages'
<1>1. PICK n \in Nat : n = Len(asked[c])
  BY DEF ServerInv, Types
<1> DEFINE h == Fragment(n, "head")
           t == Fragment(n, "tail")
<1>2. h \in Pieces /\ t \in Pieces
  BY DEF Fragment, Pieces
<1>3. /\ half[c] /\ asked' = asked
      /\ inbox'[c] = Append(inbox[c], t) /\ ~half'[c]
      /\ \A d \in Conns : d # c => inbox'[d] = inbox[d] /\ half'[d] = half[d]
  BY <1>1 DEF RequestRest, Fragment, ServerInv, Types, Texts
<1>4. Sendings(c) = {<<h>>} /\ <<h, t>> \in Sendings(c)' /\ Before(c)' = Before(c)
  BY <1>1, <1>3 DEF Sendings, Before
<1> HIDE DEF h, t
<1>5. RevcData[c] \in Seq(Pieces) /\ inbox[c] \in Seq(Pieces)
  BY DEF ServerInv, Texts
<1>6. Stage(c)'
  <2>1. CASE Unread(c) /\ After(c)
    <3>0. inbox[c] = <<h>>
      BY <2>1, <1>4 DEF Unread
    <3>1. inbox'[c] = <<h, t>>
      <4>1. Append(<<h>>, t) = <<h, t>>
        BY <1>2, TwoOfThem
      <4> QED
        BY <3>0, <4>1, <1>3
    <3>2. Unread(c)'
      BY <2>1, <3>1, <1>3, <1>4 DEF Unread
    <3>3. After(c)'
      BY <2>1 DEF After
    <3> QED
      BY <3>2, <3>3 DEF Stage
  <2>2. CASE Unparsed(c)
    <3>1. RevcData[c] # <<>> /\ RevcData[c] \o inbox[c] = <<h>>
      BY <2>2, <1>4 DEF Unparsed
    <3>2. RevcData[c] = <<h>> /\ inbox[c] = <<>>
      BY <3>1, <1>2, <1>5, OnePiece
    <3>3. inbox'[c] = <<t>>
      BY <3>2, <1>3
    <3>4. RevcData'[c] \o inbox'[c] = <<h, t>>
      <4>1. <<h>> \o <<t>> = <<h, t>>
        BY <1>2, TwoOfThem
      <4>2. RevcData'[c] = <<h>>
        BY <3>2
      <4> QED
        BY <3>3, <4>1, <4>2
    <3>5. Unparsed(c)'
      BY <2>2, <3>4, <1>3, <1>4 DEF Unparsed
    <3> QED
      BY <3>5 DEF Stage
  <2>3. CASE Gone(c)
    BY <2>3, <1>3 DEF Gone, Left, Stage
  <2> QED
    BY <2>1, <2>2, <2>3, <1>3 DEF Stages, Stage, Settled, Answering
<1>7. ASSUME NEW d \in Conns, d # c
      PROVE  Stage(d)'
  <2>1. Kept(d)
    BY <1>3, <1>7 DEF Kept, Left
  <2> QED
    BY <2>1, StageKept DEF Stages
<1> QED
  BY <1>6, <1>7 DEF Stages

(* A step that no connection's stage depends on.                           *)
LEMMA OtherStages ==
  ASSUME Stages, UNCHANGED <<wire, inbox, asked, half, RevcData, mem, epc, cur, wpc, on, outbox>>
  PROVE  Stages'
<1>1. ASSUME NEW c \in Conns
      PROVE  Stage(c)'
  <2>1. Kept(c)
    BY DEF Kept, Left
  <2> QED
    BY <2>1, StageKept DEF Stages
<1> QED
  BY <1>1 DEF Stages

(* With clients that wait for their answers, every step keeps the stages.  *)
LEMMA StagesInv ==
  ASSUME Waiting, ServerInv, Stages, [Next]_vars
  PROVE  Stages'
<1>1. Orderly /\ "pipeline" \notin Habits
  BY DEF Waiting
<1>2. ASSUME NEW c \in Conns, Client(c)
      PROVE  Stages'
  <2>1. UNCHANGED <<wire, RevcData, mem, epc, cur, wpc, on, outbox>>
    BY <1>2 DEF Client, objectVars, workVars, epollVars
  <2>2. CASE Connect(c) \/ HalfClose(c) \/ Reset(c) \/ ClientRead(c)
    <3>1. ~Reset(c)
      BY <1>1 DEF Reset, Orderly
    <3>2. UNCHANGED <<inbox, asked, half>>
      BY <2>2, <3>1 DEF Connect, HalfClose, ClientRead
    <3> QED
      BY <2>1, <3>2, OtherStages
  <2> QED
    BY <1>1, <1>2, <2>1, <2>2, RequestStages, RestStages DEF Client
<1>3. CASE Stop
  BY <1>3, OtherStages DEF Stop, connVars, workVars
<1>4. CASE UNCHANGED vars
  BY <1>4, OtherStages DEF vars
<1> QED
  BY <1>1, <1>2, <1>3, <1>4, EpollStages, WorkersStages DEF Next

(* The server starts in its stages.                                        *)
LEMMA InitStages ==
  ASSUME Init
  PROVE  Stages
<1>1. ASSUME NEW c \in Conns
      PROVE  Stage(c)
  <2>1. Settled(c) /\ After(c)
    BY RepliesNone DEF Init, ConnInit, WorkInit, Settled, After
  <2> QED
    BY <2>1 DEF Stage
<1> QED
  BY <1>1, EmptySeq DEF Init, ConnInit, WorkInit, Stages

(* A client that sends whole requests only has nothing else arrive.        *)
LEMMA WholesArrive ==
  ASSUME ServerInv, "split" \notin Habits
  PROVE  Arriving
<1> SUFFICES ASSUME epc = "read"
             PROVE  Legible(RevcData[cur] \o inbox[cur])
  BY DEF Arriving
<1>1. cur \in Conns
  BY DEF ServerInv, Looping, Holding
<1>2. PICK a \in Seq(Pieces), b \in Seq(Pieces) : a = RevcData[cur] /\ b = inbox[cur]
  BY <1>1 DEF ServerInv, Texts
<1>3. /\ \A i \in DOMAIN a : a[i].part = "whole"
      /\ \A i \in DOMAIN b : b[i].part = "whole"
  BY <1>1, <1>2 DEF ServerInv, Texts, Sent
<1>4. \A i \in DOMAIN (a \o b) : (a \o b)[i].part = "whole"
  BY <1>3, Joined
<1>5. a \o b # <<>> => 1 \in DOMAIN (a \o b)
  <2>1. a \o b \in Seq(Pieces)
    BY ConcatProperties
  <2> QED
    BY <2>1
<1> QED
  BY <1>2, <1>4, <1>5 DEF Legible

(* Where no request is split, the invariant holds always.                  *)
LEMMA WholesInvariant ==
  ASSUME Orderly, "split" \notin Habits
  PROVE  Spec => []ServerInv
<1>1. Init => ServerInv
  BY InitInv
<1>2. ServerInv /\ [Next]_vars => ServerInv'
  BY WholesArrive, NextInv
<1> QED
  BY <1>1, <1>2, PTL DEF Spec

(* Where clients wait for their answers, the invariant and the stages hold always. *)
LEMMA WaitingInvariant ==
  ASSUME Waiting
  PROVE  Spec => [](ServerInv /\ Stages)
<1>0. Orderly
  BY DEF Waiting
<1>1. Init => ServerInv /\ Stages
  BY <1>0, InitInv, InitStages
<1>2. ServerInv /\ Stages /\ [Next]_vars => (ServerInv /\ Stages)'
  BY <1>0, StagesArrive, NextInv, StagesInv
<1> QED
  BY <1>1, <1>2, PTL DEF Spec

(* In every state the connections, the jobs and the epoll thread agree on  *)
(* who has a connection, and what has arrived on one begins with a request *)
(* or the beginning of one, and goes on with the rest of it.               *)
THEOREM ServerInvariant ==
  ASSUME Orderly
  PROVE  Spec => []ServerInv
<1>1. CASE "split" \notin Habits
  BY <1>1, WholesInvariant
<1>2. CASE "split" \in Habits
  <2>1. Waiting
    BY <1>2 DEF Waiting, Orderly
  <2>2. Spec => [](ServerInv /\ Stages)
    BY <2>1, WaitingInvariant
  <2> QED
    BY <2>2, PTL
<1> QED
  BY <1>1, <1>2

(* A client that waits for each answer before its next request receives,   *)
(* unit by unit, the beginning of the answers it expects, in order and     *)
(* none twice, whether its requests come whole or cut in two, and whether  *)
(* the worker writes an answer in one piece or a file in two.              *)
THEOREM ServerWireInOrder ==
  ASSUME Waiting
  PROVE  Spec => []WireInOrder
<1>1. ServerInv /\ Stages => WireInOrder
  <2> SUFFICES ASSUME ServerInv, Stages, NEW c \in Conns
               PROVE  IsPrefix(wire[c], Expected(c))
    BY DEF WireInOrder
  <2>1. Expected(c) = Replies(asked[c])
    BY Zenon DEF Expected, Replies, Reply
  <2>2. Orderly
    BY DEF Waiting
  <2> QED
    BY <2>1, <2>2, StagePrefix
<1> QED
  BY <1>1, WaitingInvariant, PTL

-----------------------------------------------------------------------------
(* No event, worker or queued job refers to a connection that is deleted.  *)
THEOREM ServerNoStaleTouch ==
  ASSUME Orderly
  PROVE  Spec => []NoStaleTouch
<1>1. ServerInv => NoStaleTouch
  <2> SUFFICES ASSUME ServerInv
               PROVE  NoStaleTouch
    OBVIOUS
  <2>1. \A e \in events : e # Listener => mem[e.con] = "live"
    BY DEF ServerInv, Looping, Event
  <2>2. epc \in {"test", "read", "job", "out", "outmod", "disconnect", "reap"} => mem[cur] = "live"
    BY DEF ServerInv, Types, Looping, Holding
  <2>3. \A w \in Workers : on[w] # NULL => mem[on[w]] = "live"
    BY Working DEF ServerInv, Busy
  <2>4. ASSUME NEW i \in DOMAIN jobs
        PROVE  mem[jobs[i]] = "live"
    <3>1. jobs[i] \in Conns
      BY DEF ServerInv, Types
    <3>2. Has(jobs[i])
      BY DEF Has
    <3> QED
      BY <3>1, <3>2 DEF ServerInv, Marked
  <2> QED
    BY <2>1, <2>2, <2>3, <2>4 DEF NoStaleTouch
<1> QED
  BY <1>1, ServerInvariant, PTL

(* A set of at most one element has at most one.                           *)
LEMMA AtMostOne ==
  ASSUME NEW S, \A x, y \in S : x = y
  PROVE  Cardinality(S) = IF S = {} THEN 0 ELSE 1
<1>1. CASE S = {}
  BY <1>1, FS_EmptySet
<1>2. CASE S # {}
  <2>1. PICK x \in S : TRUE
    BY <1>2
  <2>2. S = {x}
    BY <2>1
  <2> QED
    BY <2>2, FS_Singleton
<1> QED
  BY <1>1, <1>2

(* The jobs of a connection are one or none, as somebody has it or not.    *)
LEMMA Counted ==
  ASSUME Orderly, ServerInv, NEW c \in Conns
  PROVE  JobsOf(c) = IF Has(c) THEN 1 ELSE 0
<1> DEFINE queued  == { i \in DOMAIN jobs : jobs[i] = c }
           running == { w \in Workers : on[w] = c }
<1>1. Cardinality(queued) = IF queued = {} THEN 0 ELSE 1
  <2>1. \A i, j \in queued : i = j
    BY DEF ServerInv, Single
  <2> HIDE DEF queued
  <2> QED
    BY <2>1, AtMostOne
<1>2. Cardinality(running) = IF running = {} THEN 0 ELSE 1
  <2>1. \A w, v \in running : w = v
    BY OrderlyFacts DEF ServerInv, Single
  <2> HIDE DEF running
  <2> QED
    BY <2>1, AtMostOne
<1>3. /\ queued = {} \/ running = {}
      /\ epc = "job" /\ cur = c => queued = {} /\ running = {}
  BY DEF ServerInv, Single
<1>4. Has(c) <=> queued # {} \/ running # {} \/ (epc = "job" /\ cur = c)
  BY DEF Has
<1>5. JobsOf(c) = Cardinality(queued) + Cardinality(running)
                    + (IF epc = "job" /\ cur = c THEN 1 ELSE 0)
  BY DEF JobsOf
<1> HIDE DEF queued, running
<1> QED
  BY <1>1, <1>2, <1>3, <1>4, <1>5

(* Never two jobs for a connection, and none while epoll reads or ends it. *)
THEOREM ServerOneOwner ==
  ASSUME Orderly
  PROVE  Spec => []OneOwner
<1>1. ServerInv => OneOwner
  <2> SUFFICES ASSUME ServerInv, NEW c \in Conns
               PROVE  /\ JobsOf(c) <= 1
                      /\ epc \in {"read", "disconnect", "reap"} /\ cur = c => JobsOf(c) = 0
    BY DEF OneOwner
  <2>1. JobsOf(c) = IF Has(c) THEN 1 ELSE 0
    BY Counted
  <2>2. epc \in {"read", "disconnect", "reap"} /\ cur = c => ~Has(c)
    BY DEF ServerInv, Looping, Marked
  <2> QED
    BY <2>1, <2>2
<1> QED
  BY <1>1, ServerInvariant, PTL

(* A connection marked Processing has its job until the server is down.    *)
THEOREM ServerNotForgotten ==
  ASSUME Orderly
  PROVE  Spec => []NotForgotten
<1>1. ServerInv => NotForgotten
  <2> SUFFICES ASSUME ServerInv, NEW c \in Conns, Processing[c], JobsOf(c) = 0
               PROVE  epc = "down"
    BY DEF NotForgotten
  <2>1. ~Has(c)
    BY Counted
  <2> QED
    BY <2>1 DEF ServerInv, Marked
<1> QED
  BY <1>1, ServerInvariant, PTL

(* A site hears of the end of each connection bound to it, exactly once.   *)
THEOREM ServerSiteNotified ==
  ASSUME Orderly
  PROVE  Spec => []SiteNotified
<1>1. ServerInv => SiteNotified
  BY DEF ServerInv, Types, Notices, Told, SiteNotified
<1> QED
  BY <1>1, ServerInvariant, PTL

-----------------------------------------------------------------------------
(* The steps of the server as the pool sees them.                          *)
LEMMA PoolStep ==
  ASSUME Orderly, ServerInv, [Next]_vars
  PROVE  [Pool!Next]_(Pool!wvars)
<1> USE DEF Pool!wvars
<1>1. ASSUME UNCHANGED <<jobs, open, on>>
      PROVE  [Pool!Next]_(Pool!wvars)
  BY <1>1
<1>2. CASE Epoll
  <2>1. CASE Submit
    <3>1. epc = "job" /\ cur \in Conns /\ open
      BY <2>1 DEF Submit, ServerInv, Looping, Holding
    <3>2. cur \notin Pool!InUse
      BY <3>1 DEF Pool!InUse, ServerInv, Single
    <3>3. Pool!Submit(cur)
      BY <2>1, <3>1, <3>2 DEF Submit, Pool!Submit
    <3> QED
      BY <3>1, <3>3 DEF Pool!Next
  <2>2. CASE LeaveLoop
    <3>1. open
      BY <2>2 DEF LeaveLoop, ServerInv, Looping
    <3> QED
      BY <2>2, <3>1 DEF LeaveLoop, Pool!Close, Pool!Next
  <2>3. CASE thpool_destroy
    <3>1. ~open
      BY <2>3 DEF thpool_destroy, ServerInv, Looping
    <3> QED
      BY <2>3, <3>1 DEF thpool_destroy, Pool!Discard, Pool!Next
  <2>4. CASE \/ Boot \/ epoll_wait \/ NextEvent \/ LastEvent \/ Accept \/ TestProcessing \/ Read
             \/ SendQueued \/ Drained \/ WatchInput \/ Disconnect \/ ReapConnection
    BY <1>1, <2>4 DEF Boot, epoll_wait, NextEvent, LastEvent, Accept, TestProcessing, Read,
                      SendQueued, Drained, WatchInput, Disconnect, ReapConnection, workVars
  <2> QED
    BY <1>2, <2>1, <2>2, <2>3, <2>4 DEF Epoll, EpollThread
<1>3. ASSUME NEW w \in Workers, Worker(w)
      PROVE  [Pool!Next]_(Pool!wvars)
  <2>1. CASE TakeJob(w)
    <3>1. on[w] = NULL
      BY <2>1 DEF TakeJob, ServerInv, Busy
    <3>2. Pool!Take(w)
      BY <2>1, <3>1 DEF TakeJob, Pool!Take
    <3> QED
      BY <3>2 DEF Pool!Next
  <2>2. CASE Park(w)
    <3>1. on[w] # NULL
      BY <2>2 DEF Park, At, ServerInv, Busy
    <3>2. Pool!Finish(w)
      BY <2>2, <3>1 DEF Park, Return, Pool!Finish
    <3> QED
      BY <3>2 DEF Pool!Next
  <2>3. CASE DeleteClient(w) \/ ReapClient(w)
    BY <2>3 DEF DeleteClient, ReapClient, At, ServerInv, Types
  <2>4. CASE \/ Build(w) \/ Partial(w) \/ Parse(w) \/ Send(w) \/ SendDirect(w) \/ PushPacket(w)
             \/ WatchOutput(w) \/ Handled(w) \/ End(w) \/ WaitForRequest(w)
             \/ ClearProcessing(w) \/ NotifySite(w)
    BY <1>1, <2>4 DEF Build, Partial, Parse, Send, SendDirect, PushPacket, WatchOutput, Handled,
                      End, WaitForRequest, ClearProcessing, NotifySite
  <2> QED
    BY <1>3, <2>1, <2>2, <2>3, <2>4 DEF Worker, OnConnect
<1>4. ASSUME NEW c \in Conns, Client(c)
      PROVE  [Pool!Next]_(Pool!wvars)
  BY <1>1, <1>4 DEF Client, workVars
<1>5. CASE Stop
  BY <1>1, <1>5 DEF Stop, workVars
<1>6. CASE UNCHANGED vars
  BY <1>1, <1>6 DEF vars
<1> QED
  BY <1>2, <1>3, <1>4, <1>5, <1>6 DEF Next

(* The server uses the pool as WorkQueue allows: it submits only while the *)
(* pool is open, and never a connection that is queued or being worked on. *)
THEOREM ServerUsesPool ==
  ASSUME Orderly
  PROVE  Spec => UsesPool
<1>1. Init => Pool!Init
  BY DEF Init, WorkInit, Pool!Init
<1>2. ServerInv /\ [Next]_vars => [Pool!Next]_(Pool!wvars)
  BY PoolStep
<1> QED
  BY <1>1, <1>2, ServerInvariant, PTL DEF Spec, UsesPool, Pool!Spec

-----------------------------------------------------------------------------
(* Whole answers.  The last unit that went out is the last of its answer,  *)
(* unless a worker is about to send the body of the file whose header went *)
(* out last.                                                               *)
Done(c) ==
  wire[c] # <<>> => LET last == wire[c][Len(wire[c])] IN last[2] = Units(asked[c][last[1]])

Sending(w) == wpc[w] \in {"send", "direct"}

ToSend(w) ==
  LET c == on[w]
  IN  \/ outbox[w] = <<>> /\ Done(c)
      \/ \E r \in DOMAIN asked[c] : outbox[w] = Answer(r, asked[c][r]) /\ Done(c)
      \/ \E r \in DOMAIN asked[c] :
           /\ asked[c][r] = "file" /\ outbox[w] = Body(r)
           /\ wire[c] # <<>> /\ wire[c][Len(wire[c])] = <<r, 2>>

Answers ==
  /\ wire \in [Conns -> Seq(Nat \X Nat)] /\ DOMAIN outbox = Workers
  /\ AnswersWhole
  /\ \A c \in Conns : \A i \in DOMAIN wire[c] : wire[c][i][1] \in DOMAIN asked[c]
  /\ \A c \in Conns : (\A w \in Workers : Sending(w) => on[w] # c) => Done(c)
  /\ \A w \in Workers : Sending(w) => ToSend(w)
  /\ \A w \in Workers : wpc[w] = "direct" => outbox[w] # <<>>

(* A step that sends nothing keeps Answers if no worker begins or ends     *)
(* sending and the requests there are stay.                                *)
LEMMA AnswersKept ==
  ASSUME ServerInv, Answers, UNCHANGED <<wire, outbox>>,
         \A c \in Conns : /\ DOMAIN asked[c] \subseteq DOMAIN asked'[c]
                          /\ \A r \in DOMAIN asked[c] : asked'[c][r] = asked[c][r],
         \A w \in Workers : /\ Sending(w)' <=> Sending(w)
                            /\ Sending(w) => on'[w] = on[w]
                            /\ wpc'[w] = "direct" => outbox[w] # <<>>
  PROVE  Answers'
<1>1. ASSUME NEW c \in Conns, NEW i \in DOMAIN wire[c]
      PROVE  /\ wire[c][i][1] \in DOMAIN asked[c] /\ wire[c][i][1] \in DOMAIN asked'[c]
             /\ asked'[c][wire[c][i][1]] = asked[c][wire[c][i][1]]
  BY DEF Answers
<1>2. ASSUME NEW c \in Conns
      PROVE  Done(c)' <=> Done(c)
  <2>1. wire[c] \in Seq(Nat \X Nat)
    BY DEF Answers
  <2>2. wire[c] # <<>> => Len(wire[c]) \in DOMAIN wire[c]
    BY <2>1
  <2> QED
    BY <1>1, <2>2 DEF Done
<1>3. AnswersWhole'
  <2> SUFFICES ASSUME NEW c \in Conns, NEW i \in 1 .. Len(wire[c])
               PROVE  LET r == wire[c][i][1]
                          k == wire[c][i][2]
                      IN  IF i = 1 THEN k = 1
                          ELSE \/ wire[c][i - 1] = <<r, k - 1>>
                               \/ /\ k = 1
                                  /\ wire[c][i - 1][2] = Units(asked'[c][wire[c][i - 1][1]])
    BY DEF AnswersWhole
  <2>1. wire[c] \in Seq(Nat \X Nat)
    BY DEF Answers
  <2>2. i # 1 => i - 1 \in DOMAIN wire[c]
    BY <2>1
  <2>3. i # 1 => asked'[c][wire[c][i - 1][1]] = asked[c][wire[c][i - 1][1]]
    BY <1>1, <2>2
  <2> QED
    BY <2>3 DEF Answers, AnswersWhole
<1>4. ASSUME NEW w \in Workers, Sending(w)'
      PROVE  ToSend(w)'
  <2>1. Sending(w) /\ on'[w] = on[w]
    BY <1>4 DEF Sending
  <2>2. on[w] \in Conns
    BY <2>1 DEF Sending, ServerInv, Types, Busy
  <2>3. ToSend(w)
    BY <2>1 DEF Answers
  <2>4. Done(on[w])' <=> Done(on[w])
    BY <2>1, <2>2, <1>2 DEF Done
  <2>5. \A r \in DOMAIN asked[on[w]] : /\ r \in DOMAIN asked'[on[w]]
                                     /\ asked'[on[w]][r] = asked[on[w]][r]
    BY <2>2
  <2> QED
    BY <2>1, <2>2, <2>3, <2>4, <2>5, <1>2 DEF ToSend
<1>5. ASSUME NEW c \in Conns, \A w \in Workers : Sending(w)' => on'[w] # c
      PROVE  Done(c)'
  <2>1. \A w \in Workers : Sending(w) => on[w] # c
    BY <1>5 DEF Sending
  <2>2. Done(c)
    BY <2>1 DEF Answers
  <2> QED
    BY <1>2, <2>2
<1>6. \A w \in Workers : wpc'[w] = "direct" => outbox'[w] # <<>>
  BY DEF Sending
<1>7. \A c \in Conns : \A i \in DOMAIN wire'[c] : wire'[c][i][1] \in DOMAIN asked'[c]
  BY <1>1
<1>8. wire' \in [Conns -> Seq(Nat \X Nat)]
  BY DEF Answers
<1> QED
  BY <1>3, <1>4, <1>5, <1>6, <1>7, <1>8 DEF Answers

(* Two units are appended to what has gone out.                            *)
LEMMA Appended ==
  ASSUME NEW S, NEW s \in Seq(S), NEW u \in Seq(S), Len(u) = 2
  PROVE  /\ s \o u \in Seq(S) /\ Len(s \o u) = Len(s) + 2 /\ s \o u # <<>>
         /\ (s \o u)[Len(s) + 1] = u[1] /\ (s \o u)[Len(s) + 2] = u[2]
         /\ \A i \in 1 .. Len(s) : (s \o u)[i] = s[i]
<1>1. PICK n \in Nat : n = Len(s)
  OBVIOUS
<1>2. /\ s \o u \in Seq(S) /\ Len(s \o u) = n + 2
      /\ \A i \in 1 .. n + 2 : (s \o u)[i] = IF i <= n THEN s[i] ELSE u[i - n]
  <2>1. /\ s \o u \in Seq(S) /\ Len(s \o u) = Len(s) + Len(u)
        /\ \A i \in 1 .. Len(s) + Len(u) :
             (s \o u)[i] = IF i <= Len(s) THEN s[i] ELSE u[i - Len(s)]
    BY ConcatProperties, Zenon
  <2> QED
    BY <1>1, <2>1
<1>3. /\ n + 1 \in 1 .. n + 2 /\ ~(n + 1 <= n) /\ n + 1 - n = 1
      /\ n + 2 \in 1 .. n + 2 /\ ~(n + 2 <= n) /\ n + 2 - n = 2
  OBVIOUS
<1>4. \A i \in 1 .. n : i \in 1 .. n + 2 /\ i <= n
  OBVIOUS
<1>5. s \o u # <<>>
  BY <1>2
<1> QED
  BY <1>1, <1>2, <1>3, <1>4, <1>5

(* What AnswersWhole says of one connection.                               *)
Chained(s, asks) ==
  \A i \in 1 .. Len(s) :
    LET r == s[i][1]
        k == s[i][2]
    IN  IF i = 1 THEN k = 1
        ELSE \/ s[i - 1] = <<r, k - 1>>
             \/ k = 1 /\ s[i - 1][2] = Units(asks[s[i - 1][1]])

(* t is s and the next two units of an answer, or the first two of another *)
(* one if s ends with a whole answer.                                      *)
Longer(s, t, n, r, lo, asks) ==
  /\ Len(s) = n /\ Len(t) = n + 2 /\ \A i \in 1 .. n : t[i] = s[i]
  /\ t[n + 1] = <<r, lo>> /\ t[n + 2] = <<r, lo + 1>>
  /\ lo = 1 => (n # 0 => s[n][2] = Units(asks[s[n][1]]))
  /\ lo = 3 => n # 0 /\ s[n] = <<r, 2>>

(* Two units sent in their order keep the units on the wire in order.      *)
LEMMA Extended ==
  ASSUME NEW asks, NEW s \in Seq(Nat \X Nat), NEW t \in Seq(Nat \X Nat), NEW n \in Nat,
         NEW r \in DOMAIN asks, NEW lo \in {1, 3}, Longer(s, t, n, r, lo, asks),
         Chained(s, asks), \A i \in DOMAIN s : s[i][1] \in DOMAIN asks
  PROVE  Chained(t, asks) /\ \A i \in DOMAIN t : t[i][1] \in DOMAIN asks
<1>l. /\ Len(s) = n /\ Len(t) = n + 2 /\ \A i \in 1 .. n : t[i] = s[i]
      /\ t[n + 1] = <<r, lo>> /\ t[n + 2] = <<r, lo + 1>>
      /\ lo = 1 => (n # 0 => s[n][2] = Units(asks[s[n][1]]))
      /\ lo = 3 => n # 0 /\ s[n] = <<r, 2>>
  BY DEF Longer
<1>1. DOMAIN t = 1 .. n + 2 /\ DOMAIN s = 1 .. n
  BY <1>l
<1>2. ASSUME NEW i \in 1 .. n + 2
      PROVE  i \in 1 .. n \/ i = n + 1 \/ i = n + 2
  OBVIOUS
<1>3. ASSUME NEW i \in DOMAIN t
      PROVE  t[i][1] \in DOMAIN asks
  <2>1. CASE i \in 1 .. n
    BY <2>1, <1>1, <1>l
  <2>2. CASE i = n + 1 \/ i = n + 2
    BY <2>2, <1>l
  <2> QED
    BY <1>1, <1>2, <2>1, <2>2
<1>4. Chained(t, asks)
  <2> SUFFICES ASSUME NEW i \in 1 .. n + 2
               PROVE  IF i = 1 THEN t[i][2] = 1
                      ELSE \/ t[i - 1] = <<t[i][1], t[i][2] - 1>>
                           \/ t[i][2] = 1 /\ t[i - 1][2] = Units(asks[t[i - 1][1]])
    BY <1>l DEF Chained
  <2>1. CASE i \in 1 .. n
    <3>1. i # 1 => i - 1 \in 1 .. n
      BY <2>1
    <3>2. t[i] = s[i] /\ (i # 1 => t[i - 1] = s[i - 1])
      BY <2>1, <3>1, <1>l
    <3> QED
      BY <2>1, <3>1, <3>2, <1>l DEF Chained
  <2>2. CASE i = n + 1 /\ n = 0
    BY <2>2, <1>l
  <2>3. CASE i = n + 1 /\ n # 0
    <3>1. n \in 1 .. n /\ i # 1 /\ i - 1 = n /\ t[n] = s[n] /\ t[i] = <<r, lo>>
      BY <2>3, <1>l
    <3>2. CASE lo = 1
      BY <2>3, <3>1, <3>2, <1>l
    <3>3. CASE lo = 3
      BY <3>1, <3>3, <1>l
    <3> QED
      BY <3>2, <3>3
  <2>4. CASE i = n + 2
    <3>1. i # 1 /\ i - 1 = n + 1 /\ lo + 1 - 1 = lo
      BY <2>4
    <3>2. t[i] = <<r, lo + 1>> /\ t[i - 1] = <<r, lo>>
      BY <2>4, <3>1, <1>l
    <3> QED
      BY <3>1, <3>2
  <2> QED
    BY <2>1, <2>2, <2>3, <2>4, <1>2
<1> QED
  BY <1>3, <1>4

(* A packet goes out: the header of a file, its body, or a page.           *)
LEMMA DirectAnswers ==
  ASSUME Orderly, ServerInv, Answers, NEW w \in Workers, SendDirect(w)
  PROVE  Answers'
<1> DEFINE c == on[w]
           p == Head(outbox[w])
<1>1. /\ wpc[w] = "direct" /\ wpc[w] # "idle" /\ Sending(w) /\ ToSend(w) /\ outbox[w] # <<>>
      /\ c \in Conns /\ asked[c] \in Seq(Asks) /\ wire[c] \in Seq(Nat \X Nat)
      /\ \A v \in Workers : on[v] = c => v = w
  <2>1. wpc[w] = "direct" /\ wpc[w] # "idle" /\ Sending(w)
    BY DEF SendDirect, At, Sending
  <2>2. c \in Conns /\ \A v \in Workers : on[v] = c => v = w
    BY <2>1, Working
  <2> QED
    BY <2>1, <2>2 DEF Answers, ServerInv, Types
<1>m. Len(wire[c]) \in Nat
  BY <1>1, LenProperties
<1>n. PICK n \in Nat : n = Len(wire[c])
  BY <1>m, Zenon
<1>2. PICK r \in DOMAIN asked[c] :
        \/ outbox[w] = Answer(r, asked[c][r]) /\ Done(c)
        \/ /\ asked[c][r] = "file" /\ outbox[w] = Body(r)
           /\ wire[c] # <<>> /\ wire[c][n] = <<r, 2>>
  BY <1>1, <1>n DEF ToSend
<1>3. r \in Nat /\ asked[c][r] \in {"page", "file"}
  BY <1>1, <1>2, OrderlyFacts
<1>4. PICK lo \in {1, 3} :
        /\ p = [req |-> r, lo |-> lo, hi |-> lo + 1]
        /\ \/ lo = 1 /\ asked[c][r] = "file" /\ Done(c) /\ Tail(outbox[w]) = Body(r)
           \/ lo = 1 /\ asked[c][r] = "page" /\ Done(c) /\ Tail(outbox[w]) = <<>>
           \/ /\ lo = 3 /\ asked[c][r] = "file" /\ Tail(outbox[w]) = <<>>
              /\ wire[c] # <<>> /\ wire[c][n] = <<r, 2>>
  <2>1. CASE outbox[w] = Answer(r, asked[c][r]) /\ Done(c)
    <3>1. p = [req |-> r, lo |-> 1, hi |-> 2]
      BY <2>1, <1>3 DEF Answer
    <3>2. asked[c][r] = "file" => Tail(outbox[w]) = Body(r)
      BY <2>1 DEF Answer, Body
    <3>3. asked[c][r] = "page" => Tail(outbox[w]) = <<>>
      BY <2>1 DEF Answer
    <3> QED
      BY <2>1, <3>1, <3>2, <3>3, <1>3
  <2>2. CASE /\ asked[c][r] = "file" /\ outbox[w] = Body(r)
             /\ wire[c] # <<>> /\ wire[c][n] = <<r, 2>>
    <3>1. p = [req |-> r, lo |-> 3, hi |-> 4] /\ Tail(outbox[w]) = <<>>
      BY <2>2 DEF Body
    <3> QED
      BY <2>2, <3>1
  <2> QED
    BY <1>2, <2>1, <2>2
<1>5. /\ wire' = [wire EXCEPT ![c] = @ \o [k \in 1 .. 2 |-> <<r, lo + k - 1>>]]
      /\ outbox' = [outbox EXCEPT ![w] = Tail(@)]
      /\ wpc' = [wpc EXCEPT ![w] = "send"] /\ UNCHANGED <<asked, on>>
  <2>1. lo \in Nat /\ Head(outbox[w]) = [req |-> r, lo |-> lo, hi |-> lo + 1]
    BY <1>4
  <2> HIDE DEF p, c
  <2>2. /\ wire' = [wire EXCEPT ![on[w]] = @ \o Pair(r, lo)]
        /\ outbox' = [outbox EXCEPT ![w] = Tail(@)]
        /\ wpc' = [wpc EXCEPT ![w] = "send"] /\ UNCHANGED <<asked, on>>
    <3>1. wpc' = [wpc EXCEPT ![w] = "send"]
      BY <2>1, DirectSends
    <3>2. UNCHANGED <<asked, on>>
      BY <2>1, DirectSends
    <3>3. outbox' = [outbox EXCEPT ![w] = Tail(@)]
      BY <2>1, DirectSends
    <3>4. wire' = [wire EXCEPT ![on[w]] = @ \o Pair(r, lo)]
      BY <2>1, DirectSends
    <3> QED
      BY <3>1, <3>2, <3>3, <3>4
  <2> QED
    BY <2>2 DEF c, Pair
<1>6. /\ wire'[c] \in Seq(Nat \X Nat) /\ wire'[c] # <<>>
      /\ wire'[c][Len(wire'[c])] = <<r, lo + 1>>
      /\ Chained(wire'[c], asked[c])
      /\ \A i \in DOMAIN wire'[c] : wire'[c][i][1] \in DOMAIN asked[c]
  <2>1. wire'[c] = wire[c] \o [k \in 1 .. 2 |-> <<r, lo + k - 1>>]
    BY <1>1, <1>5 DEF Answers
  <2> HIDE DEF p
  <2>2. /\ wire'[c] \in Seq(Nat \X Nat) /\ Len(wire'[c]) = n + 2 /\ wire'[c] # <<>>
        /\ wire'[c][n + 1] = <<r, lo>> /\ wire'[c][n + 2] = <<r, lo + 1>>
        /\ \A i \in 1 .. n : wire'[c][i] = wire[c][i]
    <3> DEFINE u == [k \in 1 .. 2 |-> <<r, lo + k - 1>>]
    <3>1. u \in Seq(Nat \X Nat) /\ Len(u) = 2 /\ u[1] = <<r, lo>> /\ u[2] = <<r, lo + 1>>
      BY <1>3, <1>4
    <3>2. wire'[c] = wire[c] \o u
      BY <2>1
    <3> HIDE DEF u
    <3> QED
      BY <1>1, <1>n, <3>1, <3>2, Appended
  <2>3. n \in Nat /\ DOMAIN wire[c] = 1 .. n /\ (wire[c] # <<>> <=> n # 0)
    BY <1>1, <1>n
  <2>4. Chained(wire[c], asked[c]) /\ \A i \in DOMAIN wire[c] : wire[c][i][1] \in DOMAIN asked[c]
    BY <1>1, <2>3 DEF Answers, AnswersWhole, Chained
  <2>5. lo = 1 => (n # 0 => wire[c][n][2] = Units(asked[c][wire[c][n][1]]))
    BY <1>4, <1>n, <2>3 DEF Done
  <2>6. lo = 3 => n # 0 /\ wire[c][n] = <<r, 2>>
    BY <1>4, <2>3
  <2>8. Longer(wire[c], wire'[c], n, r, lo, asked[c])
    BY <1>n, <2>2, <2>5, <2>6 DEF Longer
  <2>7. Chained(wire'[c], asked[c]) /\ \A i \in DOMAIN wire'[c] : wire'[c][i][1] \in DOMAIN asked[c]
    <3>1. /\ r \in DOMAIN asked[c] /\ lo \in {1, 3} /\ n \in Nat
          /\ wire[c] \in Seq(Nat \X Nat) /\ wire'[c] \in Seq(Nat \X Nat)
      BY <1>1, <1>2, <1>4, <1>n, <2>2
    <3>2. \A asks : \A s, t \in Seq(Nat \X Nat) :
            /\ r \in DOMAIN asks /\ Longer(s, t, n, r, lo, asks)
            /\ Chained(s, asks) /\ \A i \in DOMAIN s : s[i][1] \in DOMAIN asks
            => Chained(t, asks) /\ \A i \in DOMAIN t : t[i][1] \in DOMAIN asks
      BY <3>1, Extended
    <3> QED
      BY <3>1, <3>2, <2>4, <2>8, Zenon
  <2> QED
    BY <1>n, <2>2, <2>7
<1> HIDE DEF p
<1>7. \A d \in Conns : d # c => wire'[d] = wire[d]
  BY <1>5 DEF Answers
<1>8. wire' \in [Conns -> Seq(Nat \X Nat)]
  BY <1>5, <1>6, <1>7 DEF Answers
<1>9. /\ outbox'[w] = Tail(outbox[w]) /\ DOMAIN outbox' = Workers
      /\ \A v \in Workers : v # w => outbox'[v] = outbox[v]
      /\ wpc'[w] = "send" /\ \A v \in Workers : v # w => wpc'[v] = wpc[v]
  BY <1>5 DEF Answers, ServerInv, Types
<1>10. \A d \in Conns : \A i \in DOMAIN wire'[d] : wire'[d][i][1] \in DOMAIN asked'[d]
  BY <1>5, <1>6, <1>7 DEF Answers
<1>11. AnswersWhole'
  <2>1. ASSUME NEW d \in Conns
        PROVE  Chained(wire'[d], asked'[d])
    <3>1. Chained(wire[d], asked[d])
      BY DEF Answers, AnswersWhole, Chained
    <3> QED
      BY <3>1, <1>5, <1>6, <1>7
  <2> QED
    BY <2>1 DEF AnswersWhole, Chained
<1>12. ASSUME NEW d \in Conns, d # c
       PROVE  Done(d)' <=> Done(d)
  BY <1>5, <1>7, <1>12 DEF Done
<1>13. \A v \in Workers : Sending(v)' <=> Sending(v)
  BY <1>1, <1>9 DEF Sending
<1>14. Tail(outbox[w]) = <<>> => Done(c)'
  <2>1. Tail(outbox[w]) = <<>> => lo + 1 = Units(asked[c][r])
    <3>1. Body(r) # <<>>
      BY DEF Body
    <3>2. Units("file") = 4 /\ Units("page") = 2
      BY DEF Units
    <3>3. CASE asked[c][r] = "file" /\ lo = 3
      BY <3>2, <3>3
    <3>4. CASE asked[c][r] = "page" /\ lo = 1
      BY <3>2, <3>4
    <3>5. CASE Tail(outbox[w]) = Body(r)
      BY <3>1, <3>5
    <3> QED
      BY <3>3, <3>4, <3>5, <1>4
  <2> QED
    BY <2>1, <1>5, <1>6 DEF Done
<1>15. ASSUME NEW v \in Workers, Sending(v)'
       PROVE  ToSend(v)'
  <2>1. CASE v = w
    <3>1. CASE Tail(outbox[w]) = <<>>
      BY <2>1, <3>1, <1>5, <1>9, <1>14 DEF ToSend
    <3>2. CASE Tail(outbox[w]) # <<>>
      <4>1. lo = 1 /\ asked[c][r] = "file" /\ Tail(outbox[w]) = Body(r)
        BY <3>2, <1>4
      <4>2. wire'[c][Len(wire'[c])] = <<r, 2>>
        BY <4>1, <1>6
      <4> QED
        BY <2>1, <4>1, <4>2, <1>5, <1>6, <1>9 DEF ToSend
    <3> QED
      BY <3>1, <3>2
  <2>2. CASE v # w
    <3>1. Sending(v) /\ ToSend(v)
      BY <1>15, <1>13 DEF Answers, Sending
    <3>2. on[v] \in Conns /\ on[v] # c
      BY <2>2, <3>1, <1>1 DEF Sending, ServerInv, Types, Busy
    <3>3. Done(on[v])' <=> Done(on[v])
      BY <3>2, <1>5, <1>7 DEF Done
    <3>4. wire'[on[v]] = wire[on[v]] /\ outbox'[v] = outbox[v] /\ UNCHANGED <<asked, on>>
      BY <2>2, <3>2, <1>5, <1>7, <1>9
    <3> QED
      BY <3>1, <3>3, <3>4 DEF ToSend
  <2> QED
    BY <2>1, <2>2
<1>16. ASSUME NEW d \in Conns, \A v \in Workers : Sending(v)' => on'[v] # d
       PROVE  Done(d)'
  <2>1. d # c
    BY <1>16, <1>1, <1>5, <1>9 DEF Sending
  <2>2. \A v \in Workers : Sending(v) => on[v] # d
    BY <1>16, <1>5, <1>1, <1>9 DEF Sending
  <2>3. Done(d)
    BY <2>2 DEF Answers
  <2> QED
    BY <2>1, <2>3, <1>5, <1>7 DEF Done
<1>17. \A v \in Workers : wpc'[v] = "direct" => outbox'[v] # <<>>
  BY <1>9 DEF Answers
<1> QED
  BY <1>8, <1>9, <1>10, <1>11, <1>15, <1>16, <1>17 DEF Answers

(* An answer is begun when the connection's last one is complete.          *)
LEMMA ParseAnswers ==
  ASSUME Orderly, ServerInv, Answers, NEW w \in Workers, Parse(w)
  PROVE  Answers'
<1> DEFINE c   == on[w]
           buf == RevcData[c]
           r   == buf[1].req
<1>1. wpc[w] = "parse" /\ c \in Conns /\ \A v \in Workers : on[v] = c => v = w
  BY Working DEF Parse, At
<1>2. r \in DOMAIN asked[c] /\ outbox' = [outbox EXCEPT ![w] = Answer(r, asked[c][r])]
  BY ParseResult
<1>4. UNCHANGED <<wire, asked, on>> /\ wpc' = [wpc EXCEPT ![w] = "send"]
  BY ParseResult
<1>5. Done(c)
  <2>1. \A v \in Workers : Sending(v) => on[v] # c
    BY <1>1 DEF Sending
  <2> QED
    BY <1>1, <2>1 DEF Answers
<1>6. /\ outbox'[w] = Answer(r, asked[c][r]) /\ DOMAIN outbox' = Workers
      /\ \A v \in Workers : v # w => outbox'[v] = outbox[v]
      /\ wpc'[w] = "send" /\ \A v \in Workers : v # w => wpc'[v] = wpc[v]
  BY <1>2, <1>4 DEF Answers, ServerInv, Types
<1>7. AnswersWhole'
  BY <1>4 DEF Answers, AnswersWhole
<1>8. ASSUME NEW v \in Workers, Sending(v)'
      PROVE  ToSend(v)'
  <2>1. CASE v = w
    BY <2>1, <1>2, <1>4, <1>5, <1>6 DEF ToSend, Done
  <2>2. CASE v # w
    <3>1. ToSend(v)
      BY <2>2, <1>6, <1>8 DEF Answers, Sending
    <3> QED
      BY <2>2, <3>1, <1>4, <1>6 DEF ToSend, Done
  <2> QED
    BY <2>1, <2>2
<1>9. ASSUME NEW d \in Conns, \A v \in Workers : Sending(v)' => on'[v] # d
      PROVE  Done(d)'
  <2>1. \A v \in Workers : Sending(v) => on[v] # d
    BY <1>1, <1>4, <1>6, <1>9 DEF Sending
  <2>2. Done(d)
    BY <2>1 DEF Answers
  <2> QED
    BY <2>2, <1>4 DEF Done
<1> QED
  BY <1>4, <1>6, <1>7, <1>8, <1>9 DEF Answers

(* The handler returns when everything is sent.                            *)
LEMMA HandledAnswers ==
  ASSUME Orderly, ServerInv, Answers, NEW w \in Workers, Handled(w)
  PROVE  Answers'
<1>1. /\ wpc[w] = "send" /\ outbox[w] = <<>> /\ Sending(w)
      /\ UNCHANGED <<wire, asked, on, outbox>> /\ wpc' = [wpc EXCEPT ![w] = "end"]
  BY DEF Handled, At, Goto, Sending, recordVars, ServerInv, Types
<1>2. Done(on[w])
  <2>1. ToSend(w)
    BY <1>1 DEF Answers
  <2>2. \A r : outbox[w] # Body(r) /\ \A a : outbox[w] # Answer(r, a)
    BY <1>1 DEF Body, Answer
  <2> QED
    BY <2>1, <2>2 DEF ToSend
<1>3. wpc'[w] = "end" /\ \A v \in Workers : v # w => wpc'[v] = wpc[v]
  BY <1>1 DEF ServerInv, Types
<1>4. AnswersWhole'
  BY <1>1 DEF Answers, AnswersWhole
<1>5. ASSUME NEW v \in Workers, Sending(v)'
      PROVE  ToSend(v)'
  <2>1. Sending(v)
    BY <1>3, <1>5 DEF Sending
  <2>2. ToSend(v)
    BY <2>1 DEF Answers
  <2> QED
    BY <2>2, <1>1 DEF ToSend, Done
<1>6. ASSUME NEW d \in Conns, \A v \in Workers : Sending(v)' => on'[v] # d
      PROVE  Done(d)'
  <2>1. CASE d = on[w]
    BY <2>1, <1>1, <1>2 DEF Done
  <2>2. CASE d # on[w]
    <3>1. \A v \in Workers : Sending(v) => on[v] # d
      BY <2>2, <1>1, <1>3, <1>6 DEF Sending
    <3>2. Done(d)
      BY <3>1 DEF Answers
    <3> QED
      BY <3>2, <1>1 DEF Done
  <2> QED
    BY <2>1, <2>2
<1>7. \A v \in Workers : wpc'[v] = "direct" => outbox'[v] # <<>>
  BY <1>1, <1>3 DEF Answers
<1> QED
  BY <1>1, <1>4, <1>5, <1>6, <1>7 DEF Answers

(* A step of a worker keeps the answers in order.                          *)
LEMMA WorkerAnswers ==
  ASSUME Orderly, ServerInv, Answers, NEW w \in Workers, Worker(w)
  PROVE  Answers'
<1> USE DEF connVars, kernelVars, recordVars, objectVars
<1>1. wpc[w] \notin {"clear", "notify", "reap", "delete", "push", "poll"}
  BY DEF ServerInv, Types
<1>2. ASSUME UNCHANGED <<wire, asked, outbox>>, ~Sending(w),
             NEW pc \in {"idle", "build", "partial", "parse", "end", "reset", "park"},
             Goto(w, pc), \A v \in Workers : v # w => on'[v] = on[v]
      PROVE  Answers'
  <2>1. wpc'[w] = pc /\ \A v \in Workers : v # w => wpc'[v] = wpc[v]
    BY <1>2 DEF Goto, ServerInv, Types
  <2>2. \A v \in Workers : /\ Sending(v)' <=> Sending(v)
                           /\ Sending(v) => on'[v] = on[v]
                           /\ wpc'[v] = "direct" => outbox[v] # <<>>
    BY <1>2, <2>1 DEF Sending, Answers
  <2> QED
    BY <1>2, <2>2, AnswersKept
<1>3. CASE TakeJob(w)
  <2>1. \A v \in Workers : v # w => on'[v] = on[v]
    BY <1>3 DEF TakeJob, ServerInv, Types
  <2> QED
    BY <1>2, <1>3, <2>1 DEF TakeJob, Sending
<1>4. CASE Build(w)
  <2>1. on[w] \in Conns
    BY <1>4, Working DEF Build, At
  <2>2. Goto(w, "parse") \/ Goto(w, "partial")
    BY <1>4, <2>1, Reading DEF Build
  <2> QED
    BY <1>2, <1>4, <2>2 DEF Build, At, Sending
<1>5. CASE Partial(w)
  <2>1. Goto(w, "park")
    BY <1>5, Working DEF Partial, At
  <2> QED
    BY <1>2, <1>5, <2>1 DEF Partial, At, Sending
<1>6. CASE Send(w)
  <2>1. wpc[w] = "send" /\ outbox[w] # <<>>
    BY <1>6 DEF Send, At
  <2>2. Connected[on[w]] /\ SendQueue[on[w]] = <<>>
    BY <2>1, Working DEF ServerInv, Types
  <2>3. wpc' = [wpc EXCEPT ![w] = "direct"] /\ UNCHANGED <<wire, asked, outbox, on>>
    BY <1>6, <2>2 DEF Send, Goto
  <2>4. wpc'[w] = "direct" /\ \A v \in Workers : v # w => wpc'[v] = wpc[v]
    BY <2>3 DEF ServerInv, Types
  <2>5. \A v \in Workers : /\ Sending(v)' <=> Sending(v)
                           /\ Sending(v) => on'[v] = on[v]
                           /\ wpc'[v] = "direct" => outbox[v] # <<>>
    BY <2>1, <2>3, <2>4 DEF Sending, Answers
  <2> QED
    BY <2>3, <2>5, AnswersKept
<1>7. CASE End(w)
  <2>1. Goto(w, "reset")
    BY <1>7, Working DEF End, At
  <2> QED
    BY <1>2, <1>7, <2>1 DEF End, At, Sending
<1>8. CASE WaitForRequest(w)
  BY <1>2, <1>8 DEF WaitForRequest, At, Sending
<1>9. CASE Park(w)
  <2>1. \A v \in Workers : v # w => on'[v] = on[v]
    BY <1>9 DEF Park, Return, ServerInv, Types
  <2> QED
    BY <1>2, <1>9, <2>1 DEF Park, Return, At, Sending
<1>10. CASE \/ PushPacket(w) \/ WatchOutput(w) \/ DeleteClient(w) \/ ClearProcessing(w)
            \/ NotifySite(w) \/ ReapClient(w)
  BY <1>1, <1>10 DEF PushPacket, WatchOutput, DeleteClient, ClearProcessing, NotifySite,
                     ReapClient, At
<1> QED
  BY <1>3, <1>4, <1>5, <1>6, <1>7, <1>8, <1>9, <1>10, ParseAnswers, DirectAnswers, HandledAnswers
  DEF Worker, OnConnect

(* A step that sends nothing keeps the answers in order.                   *)
LEMMA OtherAnswers ==
  ASSUME Orderly, ServerInv, Answers, UNCHANGED <<wire, outbox, wpc, on>>,
         \A c \in Conns : /\ DOMAIN asked[c] \subseteq DOMAIN asked'[c]
                          /\ \A r \in DOMAIN asked[c] : asked'[c][r] = asked[c][r]
  PROVE  Answers'
<1>1. \A w \in Workers : /\ Sending(w)' <=> Sending(w)
                         /\ Sending(w) => on'[w] = on[w]
                         /\ wpc'[w] = "direct" => outbox[w] # <<>>
  BY DEF Sending, Answers
<1> QED
  BY <1>1, AnswersKept

(* A step of a client keeps the answers in order.                          *)
LEMMA ClientAnswers ==
  ASSUME Orderly, ServerInv, Answers, NEW c \in Conns, Client(c)
  PROVE  Answers'
<1>1. UNCHANGED <<wire, outbox, wpc, on>>
  BY DEF Client, workVars
<1>2. \A d \in Conns : /\ DOMAIN asked[d] \subseteq DOMAIN asked'[d]
                       /\ \A r \in DOMAIN asked[d] : asked'[d][r] = asked[d][r]
  <2>1. CASE Connect(c) \/ RequestRest(c) \/ HalfClose(c) \/ Reset(c) \/ ClientRead(c)
    BY <2>1 DEF Connect, RequestRest, HalfClose, Reset, ClientRead
  <2>2. ASSUME NEW a \in Asks, Request(c, a), NEW d \in Conns
        PROVE  /\ DOMAIN asked[d] \subseteq DOMAIN asked'[d]
               /\ \A r \in DOMAIN asked[d] : asked'[d][r] = asked[d][r]
    <3>1. asked' = [asked EXCEPT ![c] = Append(@, a)] /\ asked[c] \in Seq(Asks)
      BY <2>2 DEF Request, ServerInv, Types
    <3>2. CASE d = c
      <4>1. /\ DOMAIN asked[c] \subseteq DOMAIN Append(asked[c], a)
            /\ \A r \in DOMAIN asked[c] : Append(asked[c], a)[r] = asked[c][r]
        BY <3>1
      <4>2. asked'[c] = Append(asked[c], a)
        BY <3>1 DEF ServerInv, Types
      <4> QED
        BY <3>2, <4>1, <4>2
    <3>3. CASE d # c
      BY <3>1, <3>3 DEF ServerInv, Types
    <3> QED
      BY <3>2, <3>3
  <2> QED
    BY <2>1, <2>2 DEF Client
<1> QED
  BY <1>1, <1>2, OtherAnswers

(* Every step keeps the answers in order.                                  *)
LEMMA AnswersInv ==
  ASSUME Orderly, ServerInv, Answers, [Next]_vars
  PROVE  Answers'
<1>1. ASSUME UNCHANGED <<wire, asked, outbox, wpc, on>>
      PROVE  Answers'
  BY <1>1, OtherAnswers
<1>2. CASE Epoll
  <2>1. epc \notin {"out", "outmod"}
    BY DEF ServerInv, Types
  <2>2. UNCHANGED <<wire, asked, outbox, wpc, on>>
    BY <1>2, <2>1
    DEF Epoll, EpollThread, Boot, epoll_wait, NextEvent, LastEvent, Accept, TestProcessing, Read,
        Submit, SendQueued, Drained, WatchInput, Disconnect, ReapConnection, LeaveLoop,
        thpool_destroy, Here, connVars, workVars, recordVars
  <2> QED
    BY <1>1, <2>2
<1>3. CASE Stop
  BY <1>1, <1>3 DEF Stop, connVars, workVars
<1>4. CASE UNCHANGED vars
  BY <1>1, <1>4 DEF vars
<1> QED
  BY <1>2, <1>3, <1>4, WorkerAnswers, ClientAnswers DEF Next

(* An answer once begun is written to its end before another begins, and   *)
(* no unit of it is skipped or repeated.                                   *)
THEOREM ServerAnswersWhole ==
  ASSUME Orderly
  PROVE  Spec => []AnswersWhole
<1>1. Init => Answers
  BY DEF Init, ConnInit, WorkInit, Answers, AnswersWhole, Done, Sending
<1>2. ServerInv /\ Answers /\ [Next]_vars => Answers'
  BY AnswersInv
<1>3. Answers => AnswersWhole
  BY DEF Answers
<1> QED
  BY <1>1, <1>2, <1>3, ServerInvariant, PTL DEF Spec
===============================================================================
