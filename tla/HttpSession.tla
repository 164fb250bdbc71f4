------------------------------ MODULE HttpSession ------------------------------
(***************************************************************************)
(* One connection and everything OnConnect does on it, with the text that  *)
(* the client sends: requests are cut out of the bytes (HttpFraming), read *)
(* (RequestText) and answered by a page, a file or the server (Routing); a *)
(* request can turn the connection into a WebSocket, on which the client   *)
(* then sends frames (WebSocketFrame).  The threads are left to Server.    *)
(***************************************************************************)
EXTENDS HttpFraming, RequestText, Routing, VoxCrypt, WebSocketFrame

CONSTANTS
  Names,        \* the names of the parameters that pages read
  SHA1(_),      \* the 20 bytes of OpenSSL's SHA1 of a text
  Frames,       \* what the client sends on a WebSocket: records [data, key]
  ReplySizes,   \* sizes of what pages send on a WebSocket
  MaxFrames     \* bound: frames on one connection

ASSUME WebSocketAssumption ==
  /\ MAX_WS_PACKET \in Nat
  /\ \A f \in Frames : f.data \in Seq(Byte) /\ f.key \in Seq(Byte) /\ Len(f.key) = 4
  /\ \A sz \in ReplySizes : Long(sz)

VARIABLES
  Protocol, Connected, ConnectedTo,
  Additional,   \* nothing (0), or the page of the WebSocket
  answers,      \* what was sent for the request acted on last
  seen,         \* what the page that answered it, if any, read in it
  frames,       \* the frames sent, one after the other
  arrived,      \* bytes of them that have arrived
  read,         \* bytes of them that OnConnect has seen
  dropped,      \* bytes of them that were thrown away by WaitForRequest
  messages,     \* the data pages were given
  replies       \* the beginnings of frames sent by pages, with their sizes

pageVars  == <<answers, seen>>
wsVars    == <<frames, arrived, read, dropped, messages, replies>>
connVars  == <<Protocol, Connected, ConnectedTo, Additional>>
allVars   == <<vars, connVars, pageVars, wsVars>>

GUID == "258EAFA5-E914-47DA-95CA-C5AB0DC85B11"

ASSUME HashAssumption == \A r \in All : SHA1(<<r.key, GUID>>) \in Seq(Byte)

SessionInit ==
  /\ Init
  /\ Protocol = "HTTP" /\ Connected = TRUE /\ ConnectedTo = 0 /\ Additional = 0
  /\ answers = <<>> /\ seen = <<>>
  /\ frames = <<>> /\ arrived = 0 /\ read = 0 /\ dropped = 0
  /\ messages = <<>> /\ replies = {}

-----------------------------------------------------------------------------
(* A complete request h.  OnRequest stands for a page that reads what it   *)
(* knows the names of and answers once.                                    *)
Read(h) ==
  [get  |-> [n \in Names |-> GetValue(h, <<n>>)],  post   |-> [n \in Names |-> PostValue(h, <<n>>)],
   file |-> [n \in Names |-> File(h, <<n>>)],      cookie |-> [n \in Names |-> Cookie(h, <<n>>)]]

Respond(sent_, connected) ==
  answers' = sent_ /\ Connected' = connected /\ UNCHANGED <<Additional, seen>>

OnRequest(h) ==
  /\ answers' = SendResult(TRUE, "200", "page") /\ seen' = <<Read(h)>>
  /\ UNCHANGED <<Connected, Additional>>

(* A site without a page for the URL: a file, or neither.  After a bad     *)
(* path the connection is dropped, and the 404 that follows is not sent.   *)
Otherwise(h, site) ==
  LET file == ProcessFile(site, h.URL)
  IN  IF Dots(h.URL)
      THEN Respond(SendBadRequest(site) \o SendResult(FALSE, "404", "server"), FALSE)
      ELSE Respond(IF file # <<>> THEN file ELSE SendResult(TRUE, "404", "server"), TRUE)

(* The accept key goes out and the page is remembered for the frames.  The *)
(* GUID is put behind the key in place (PacketProcessor.cpp:149), over the *)
(* rest of the request and, if that is short, past the end of its memory.  *)
(* Nobody reads the rest any more, and the overrun is taken for harmless.  *)
SwitchToWebSocket(h, page) ==
  /\ answers' = <<[status |-> "101",
                   accept |-> Base64Encode(SHA1(CStr(h.buf, h.Key) \o <<GUID>>))]>>
  /\ Additional' = page
  /\ UNCHANGED <<Connected, seen>>

Process(h) ==
  LET site == FindSite(h.Host)
      page == FindPage(site, h.URL)
  IN  /\ Protocol' = IF h.Upgrade THEN "WEBSOCKET" ELSE Protocol
      /\ IF ~h.ok \/ Len(h.URL) >= MAX_URL
         THEN Respond(SendBadRequest(ConnectedTo), FALSE) /\ UNCHANGED ConnectedTo
         ELSE IF ConnectedTo # 0 /\ ConnectedTo # site
         THEN Respond(SendResult(TRUE, "403", "server"), FALSE) /\ UNCHANGED ConnectedTo
         ELSE /\ ConnectedTo' = site
              /\ IF site = 0 THEN Respond(SendResult(TRUE, "404", "server"), TRUE)
                 ELSE IF ~h.Upgrade
                 THEN IF page # 0 THEN OnRequest(h) ELSE Otherwise(h, site)
                 ELSE IF "WEBSOCKET" \in Sites[site].Protocols /\ h.Key # 0 /\ page # 0
                 THEN SwitchToWebSocket(h, page)
                 ELSE Respond(SendBadRequest(site), FALSE)

(* OnConnect on an HTTP connection.                                        *)
Request ==
  /\ Protocol = "HTTP" /\ Connected
  /\ OnConnect
  /\ IF verdict' = "request" THEN Process(ParseHeader(SubSeq(Text[req], 1, sent)))
     ELSE Respond(<<>>, verdict' = "wait") /\ UNCHANGED <<Protocol, ConnectedTo>>
  /\ UNCHANGED wsVars

(* The client sends and gets its answer.                                   *)
Client ==
  /\ Protocol = "HTTP" /\ Connected
  /\ \/ Arrive /\ UNCHANGED pageVars
     \/ NextRequest /\ answers' = <<>> /\ seen' = <<>>
  /\ UNCHANGED <<connVars, wsVars>>

-----------------------------------------------------------------------------
(* The WebSocket.                                                          *)
Stream == FlattenSeq([i \in DOMAIN frames |-> Frame(frames[i].data, frames[i].key)])

(* The client sends a frame when the server has read the ones before.  The *)
(* header and the key, its first six bytes, arrive together.               *)
SendFrame ==
  /\ Additional # 0 /\ read = Len(Stream) /\ Len(frames) < MaxFrames
  /\ \E f \in Frames : frames' = Append(frames, f)
  /\ arrived' = arrived + 6
  /\ UNCHANGED <<vars, connVars, pageVars, read, dropped, messages, replies>>

ArriveFrame ==
  /\ arrived < Len(Stream)
  /\ arrived' = arrived + 1
  /\ UNCHANGED <<vars, connVars, pageVars, frames, read, dropped, messages, replies>>

(* OnConnect on a WebSocket: data goes to the page, which may send some;   *)
(* behind it, and behind what is no frame, WaitForRequest throws away all  *)
(* that has arrived; the rest of a frame is waited for.                    *)
OnWebSocket(data) ==
  /\ messages' = Append(messages, data)
  /\ \/ UNCHANGED replies
     \/ \E sz \in ReplySizes : replies' = replies \cup {<<SendStatic(sz), sz>>}

FrameArrived ==
  LET frame == Decode(SubSeq(Stream, dropped + 1, arrived))
  IN  /\ Protocol = "WEBSOCKET" /\ arrived > read
      /\ read' = arrived
      /\ dropped' = IF frame.type = "WS_NOTFULL_PACKET" THEN dropped ELSE arrived
      /\ IF frame.type = "WS_DATA_PACKET" THEN OnWebSocket(frame.data)
         ELSE UNCHANGED <<messages, replies>>
      /\ UNCHANGED <<vars, connVars, pageVars, frames, arrived>>

SessionNext == Client \/ Request \/ SendFrame \/ ArriveFrame \/ FrameArrived

SessionSpec == SessionInit /\ [][SessionNext]_allVars

-----------------------------------------------------------------------------
(* What the client meant.                                                  *)
Meant(pairs, name) ==
  LET i == SelectInSeq(pairs, LAMBDA p : p[1] = name /\ p[2] # <<>>)
  IN  IF i = 0 THEN <<>> ELSE pairs[i][2]

PartNamed(name, file) ==
  SelectInSeq(req.parts, LAMBDA p : p.name = name /\ (p.file # "") = file)

(* A page reads exactly the values the client put in its form, its URL and *)
(* its cookies, whatever characters they are made of, although the parser  *)
(* cuts the text in place, one delimiter after the other, and visits the   *)
(* first cookie twice.                                                     *)
FormAsSent ==
  \A i \in DOMAIN seen, n \in Names :
    /\ seen[i].get[n] = Meant(req.get, n) /\ seen[i].cookie[n] = Meant(req.cookies, n)
    /\ req.parts = <<>> => seen[i].post[n] = Meant(req.form, n)

(* The same for a body in parts, fields and files: the data ends where the *)
(* client's ends, also when it looks like the beginning of the boundary;   *)
(* the size of a file does not cut it short.                               *)
PartsAsSent ==
  req.parts # <<>> => \A i \in DOMAIN seen, n \in Names :
    LET field == PartNamed(n, FALSE)
        file  == PartNamed(n, TRUE)
        got   == seen[i].file[n]
    IN  /\ seen[i].post[n] = IF field = 0 THEN <<>> ELSE req.parts[field].data
        /\ IF file = 0 THEN got.Name = <<>>
           ELSE /\ got.Name = <<req.parts[file].file>> /\ got.Data = req.parts[file].data
                /\ got.Size >= Len(got.Data)

(* The host of a request without its port, and who may answer it.          *)
HostOf(r) == LET i == SelectInSeq(r.host, LAMBDA c : c = ":")
             IN  IF i = 0 THEN r.host ELSE SubSeq(r.host, 1, i - 1)
Serving(r) == { s \in DOMAIN Sites : /\ HostOf(r) \in Sites[s].Domains
                                     /\ \A t \in 1 .. s - 1 : HostOf(r) \notin Sites[t].Domains }
Covered(r) == \E s \in Serving(r) : \E p \in { Sites[s].Pages[i] : i \in DOMAIN Sites[s].Pages } :
                p.URL = r.url \/ (p.Dynamic /\ IsPrefix(p.URL, r.url))
Stored(r)  == \E s \in Serving(r) : \E f \in Sites[s].Files : f.path = r.url /\ f.size > 0
Malformed(r) == HostOf(r) = <<>> \/ Len(r.url) >= MAX_URL

Due(a) ==
  CASE a.status = "403" -> ConnectedTo # 0 /\ ConnectedTo \notin Serving(req)
    [] a.status = "400" -> Malformed(req) \/ req.key # "" \/ (~Covered(req) /\ Dots(req.url))
    [] a.status = "404" -> ~Covered(req) /\ ~Stored(req)
    [] a.status = "101" -> req.key # "" /\ Covered(req)
    [] a.status = "200" /\ a.from = "file" ->
         /\ Stored(req) /\ ~Covered(req)
         /\ a.cached <=> \E s \in Serving(req) : Directory(req.url) \in Sites[s].Cached
    [] OTHER -> Covered(req) /\ ~Malformed(req)

(* A request that is acted on gets exactly one answer, and from whom it    *)
(* should: the first matching page of the site its Host names, else the    *)
(* file, else an error -- never two, although an error path that has       *)
(* answered and dropped the connection goes on to the next.                *)
OneAnswer == verdict = "request" => Len(answers) = 1 /\ Due(answers[1])

(* A browser finds in the answer to its upgrade the hash of the key it     *)
(* sent; Base64 loses nothing whatever the length.                         *)
HandshakeRead ==
  \A i \in DOMAIN answers : answers[i].status = "101" =>
    LET hash == SHA1(<<req.key, GUID>>)
    IN  /\ Base64Decode(answers[i].accept) = hash
        /\ \A n \in 0 .. Len(hash) :
             Base64Decode(Base64Encode(SubSeq(hash, 1, n))) = SubSeq(hash, 1, n)

(* Frames whose length is in the second byte and not too big.  Longer ones *)
(* have their lengths read the wrong way round.                            *)
ShortFrames == \A f \in Frames : Len(f.data) <= 125 /\ Len(f.data) <= MAX_WS_PACKET

(* What clients keep to beyond Proper, so that a header says what they     *)
(* mean: no NUL, a path that begins with "/" and has no "?" in it, blanks  *)
(* in values alone; an upgrade is a GET; and a body in parts is all there  *)
(* when the request is acted on, or the last boundary may not be found.    *)
Ink == STRING \ {NUL}

Decent(r) ==
  /\ r.url # <<>> /\ r.url[1] = "/" /\ r.url \in Seq(Ink \ {" ", "?"})
  /\ r.host \in Seq(Ink \ {" "})
  /\ r.key \in Ink \ {" "} /\ (r.key # "" => ~r.post)
  /\ r.get \in Seq((Ink \ {" "}) \X Seq(Ink)) /\ r.cookies \in Seq(Ink \X Seq(Ink))
  /\ r.parts \in Seq([name : STRING, file : STRING, data : Seq(STRING)])
  /\ r.parts # <<>> => MaxFragments(r) = 1 \/ Declared(r) >= BodyLen(r)

(* What a page is given is the data of a frame the client sent, unmasked,  *)
(* but for the last byte, which is made from the 0 that BuildData adds;    *)
(* and the browser reads the lengths of the page's frames right.           *)
WebSocketData ==
  /\ \A i \in DOMAIN messages : \E j \in DOMAIN frames :
       /\ Len(messages[i]) = Len(frames[j].data)
       /\ Front(messages[i]) = Front(frames[j].data)
  /\ \A r \in replies : FrameLength(r[1]) = r[2]
===============================================================================
