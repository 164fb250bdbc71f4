------------------------------ MODULE HttpFraming ------------------------------
(***************************************************************************)
(* How PacketProcessor::OnConnect decides that a request is complete, each *)
(* time more of it has arrived: it puts all fragments together, looks for  *)
(* the Content-Length and for the end of the header, remembers both in the *)
(* connection, and counts the bytes after the header.  PacketProcessor     *)
(* abstracts this to requests that come as a head and a tail.              *)
(*                                                                         *)
(* What clients send is in ClientText; ContentLen and the rest are members *)
(* of Connection.                                                          *)
(*                                                                         *)
(* A definition named Op_Fault is not the code: it is Op with one mistake, *)
(* named after it, that a property must notice.                            *)
(***************************************************************************)
EXTENDS ClientText

CONSTANTS
  Requests,          \* what clients send, as ClientText describes it
  Following,         \* what they send after another request
  MaxFragments(_),   \* bound: into how many fragments a request is cut
  MAX_CONTENT_LEN,
  IntSize,           \* how many values an int has: 2^32, less for TLC
  MaxRequests        \* bound: requests one after the other

ASSUME FramingAssumption ==
  /\ MAX_CONTENT_LEN \in Nat /\ MaxRequests \in Nat
  /\ IntSize \in Nat /\ MAX_CONTENT_LEN < IntSize \div 2
  /\ \A r \in Requests \cup Following : Proper(r)

VARIABLES
  req,           \* the request the client is sending
  sent,          \* bytes of it that have arrived
  size,          \* bytes of it that OnConnect has seen
  fragments,     \* how many fragments they came in
  ContentLen, HeadEnd, GotLen,
  verdict,       \* what OnConnect made of it: "wait", "request", "big", "much"
  served         \* requests acted on before

vars == <<req, sent, size, fragments, ContentLen, HeadEnd, GotLen, verdict, served>>

-----------------------------------------------------------------------------
(* The texts of the requests, and the parts of them.                       *)
All       == Requests \cup Following
Text      == [r \in All |-> Bytes(r)]
HeaderLen == [r \in All |-> Len(Header(r))]

BodyLen(r) == Len(Text[r]) - HeaderLen[r]

-----------------------------------------------------------------------------
(* What OnConnect computes from the bytes it has.                          *)

(* What atoi makes of digits: an int.                                      *)
atoi(digits) == LET n == Number(digits) % IntSize
                IN  IF n >= IntSize \div 2 THEN n - IntSize ELSE n

isdigit(c) == isxdigit(c) /\ Digit(c) < 10

LengthPos(raw) == SelectInSeq(raw, LAMBDA b : b = Length)

(* The digits behind "Content-Length: ", up to the first byte that is none *)
(* or the end of what has arrived -- none at all if that is a single byte. *)
LengthDigits_Hasty(raw) ==
  LET pos == LengthPos(raw)
      end == SelectInSubSeq(raw, pos + 1, Len(raw), LAMBDA b : ~isdigit(b))
  IN  IF pos = 0 THEN <<>> ELSE SubSeq(raw, pos + 1, IF end = 0 THEN Len(raw) ELSE end - 1)

LengthDigits(raw) ==
  LET pos == LengthPos(raw)
      end == SelectInSubSeq(raw, pos + 1, Len(raw), LAMBDA b : ~isdigit(b))
  IN  IF pos = 0 \/ pos + 2 > Len(raw) THEN <<>>
      ELSE SubSeq(raw, pos + 1, IF end = 0 THEN Len(raw) ELSE end - 1)

ReadLength(raw) ==
  LET n == atoi(LengthDigits(raw))
  IN  IF ContentLen # 0 THEN ContentLen ELSE IF n > 0 THEN n ELSE 0

(* While no length is remembered, the byte behind the digits is set to 0   *)
(* for atoi and to ";" behind it: what it was, the CR of its line, is gone *)
(* from raw when the end of the header is searched there.                  *)
Marked(raw) ==
  LET digits == LengthDigits(raw)
      end    == LengthPos(raw) + Len(digits) + 1
  IN  IF ContentLen = 0 /\ digits # <<>> /\ end <= Len(raw) THEN [raw EXCEPT ![end] = ";"]
      ELSE raw

(* The bytes up to and including the first CR LF CR LF, or 0: the bound is *)
(* matched byte by byte, and a mismatch starts it again at the next byte.  *)
Bound == <<CR, LF, CR, LF>>

FindHeadEnd(raw) ==
  LET match(m, i) == IF m.oks = 4 THEN m
                     ELSE IF raw[i] = Bound[m.oks + 1] THEN [oks |-> m.oks + 1, end |-> i]
                     ELSE [oks |-> 0, end |-> 0]
      found == FoldLeftDomain(match, [oks |-> 0, end |-> 0], raw)
  IN  IF found.oks = 4 THEN found.end ELSE 0

(* The end is searched for until it is found, in what is left of raw.  If  *)
(* the Content-Length is the last line, the call that reads it does not    *)
(* see the end, and may take an empty line of the body for it; a length of *)
(* 0 counts as none and hides the end from every call.                     *)
ReadHeadEnd(raw) == IF HeadEnd # 0 THEN HeadEnd ELSE FindHeadEnd(Marked(raw))

(* fign counts the 0 that BuildData puts behind the bytes.                 *)
Got(raw, head) == LET fign == Len(raw) + 1 IN fign - head - 1

Judge(len, head, got) ==
  IF head = 0 THEN "wait"
  ELSE IF len = 0 \/ got = len THEN "request"
  ELSE IF got > len THEN "much" ELSE "wait"

-----------------------------------------------------------------------------
Init ==
  /\ req \in Requests /\ sent = 0 /\ size = 0 /\ fragments = 0
  /\ ContentLen = 0 /\ HeadEnd = 0 /\ GotLen = 0
  /\ verdict = "wait" /\ served = 0

(* A fragment of any size arrives; the last one allowed is all the rest.   *)
Arrive ==
  /\ verdict = "wait" /\ sent = size
  /\ \E n \in sent + 1 .. Len(Text[req]) :
       /\ fragments + 1 = MaxFragments(req) => n = Len(Text[req])
       /\ sent' = n
  /\ fragments' = fragments + 1
  /\ UNCHANGED <<req, size, ContentLen, HeadEnd, GotLen, verdict, served>>

(* What the connection remembers of a request is forgotten behind it.      *)
WaitForRequest_Keeps == UNCHANGED <<ContentLen, HeadEnd, GotLen>>

WaitForRequest == ContentLen' = 0 /\ HeadEnd' = 0 /\ GotLen' = 0

(* The epoll thread reads what has arrived and a worker runs OnConnect: it *)
(* gives up on a length that is too big before it looks any further, and   *)
(* it ends with WaitForRequest when the request is complete.               *)
OnConnect ==
  /\ verdict = "wait"
  /\ sent > size
  /\ size' = sent
  /\ LET raw  == SubSeq(Text[req], 1, sent)
         len  == ReadLength(raw)
         head == ReadHeadEnd(raw)
         sees == IF len > MAX_CONTENT_LEN THEN "big" ELSE Judge(len, head, Got(raw, head))
     IN  /\ verdict' = sees
         /\ IF sees = "request" THEN WaitForRequest
            ELSE /\ ContentLen' = len
                 /\ HeadEnd' = IF sees = "big" THEN HeadEnd ELSE head
                 /\ GotLen' = IF len # 0 /\ head # 0 /\ sees # "big" THEN Got(raw, head) ELSE GotLen
  /\ UNCHANGED <<req, sent, fragments, served>>

(* The client has its answer and sends another request.                    *)
NextRequest ==
  /\ verdict = "request" /\ sent = Len(Text[req]) /\ served < MaxRequests
  /\ req' \in Following /\ sent' = 0 /\ size' = 0 /\ fragments' = 0
  /\ verdict' = "wait" /\ served' = served + 1
  /\ UNCHANGED <<ContentLen, HeadEnd, GotLen>>

Next == Arrive \/ OnConnect \/ NextRequest

Spec == Init /\ [][Next]_vars

-----------------------------------------------------------------------------
(* What the header declares, without an end to integers.                   *)
Declared(r) == Number(r.digits)

(* Lengths that an int can hold, and that no cut can shorten: LengthDigits *)
(* takes the first two of three digits for the number if a fragment ends   *)
(* behind them.                                                            *)
LengthsFit ==
  \A r \in All : /\ Declared(r) < IntSize \div 2
                 /\ Len(r.digits) <= 2 \/ MaxFragments(r) = 1

(* The verdicts a request deserves.  More than was declared is an error if *)
(* it is there before the request is acted on.                             *)
Deserved(r) ==
  IF Declared(r) > MAX_CONTENT_LEN THEN {"big"}
  ELSE IF Declared(r) > 0 /\ BodyLen(r) > Declared(r) THEN {"request", "much"}
  ELSE IF BodyLen(r) < Declared(r) THEN {"wait"} ELSE {"request"}

(* Requests whose header ends with the Content-Length.                     *)
LengthLast(r) == r.digits # <<>> /\ ~r.close

(* However a request is cut into fragments, and whatever came before it on *)
(* the connection, a verdict other than to wait is the one its header and  *)
(* its length deserve; and when its last byte is there it has that verdict *)
(* -- unless its Content-Length was the last line and hid the end of the   *)
(* header: such a request may be waited for although it is all there.      *)
CutsDoNotMatter ==
  verdict # "wait" \/ (size = Len(Text[req]) /\ (LengthLast(req) => HeadEnd = HeaderLen[req]))
    => verdict \in Deserved(req)

(* A request is acted on when its body is there, not before: what          *)
(* ParseHeader hands to the page is all the client declared.               *)
BodyComplete == verdict = "request" => size - HeaderLen[req] >= Declared(req)

(* PacketProcessor.cpp:83, "Bad client! More data than excepted": a client *)
(* is called bad only if it sent more than it declared.                    *)
BadClient == verdict = "much" => BodyLen(req) > Declared(req)
===============================================================================
