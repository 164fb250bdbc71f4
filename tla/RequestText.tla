----------------------------- MODULE RequestText -----------------------------
(***************************************************************************)
(* PacketProcessor::ParseHeader: a complete request, as text, is turned    *)
(* into an HttpRequest whose parameters are pointers into the text, which  *)
(* the parser cuts up in place as it goes.  And the getters of HttpRequest *)
(* that a page reads the parameters with.                                  *)
(***************************************************************************)
EXTENDS VoxString, FiniteSets

(* The state of the parser: the memory, where the current line begins,     *)
(* whether the header is over, whether nothing has failed; and the         *)
(* HttpRequest.  Upgrade and Key are set in the connection.                *)
Start(raw) ==
  [buf |-> Append(raw, NUL), cur |-> 1, content |-> FALSE, ok |-> TRUE,
   POST |-> FALSE, URL |-> <<>>, Host |-> <<>>, ContentType |-> <<>>,
   GetPrm |-> <<>>, PostPrm |-> <<>>, CookiePrm |-> <<>>, FilePrm |-> <<>>,
   Upgrade |-> FALSE, Key |-> 0]

PrmItm(name, value) == [Name |-> name, Value |-> value]

(* The items between the delimiters d, each cut at "=": those that come in *)
(* two pieces.                                                             *)
Item(acc, two) ==
  [buf |-> two.buf,
   prm |-> IF Len(two.at) = 2 THEN Append(acc.prm, PrmItm(two.at[1], two.at[2])) ELSE acc.prm]

Items(cut) == FoldLeft(LAMBDA acc, at : Item(acc, Split(acc.buf, at, <<"=">>)),
                       [buf |-> cut.buf, prm |-> <<>>], cut.at)

Params(buf, p, d) == Items(Split(buf, p, d))

NonEmpty(params) == SelectSeq(params.prm, LAMBDA it : params.buf[it.Value] # NUL)

-----------------------------------------------------------------------------
(* The request line, which has three words or the request is bad.  The URL *)
(* is what is left of the second word when it is cut at "?".               *)
Query(st, get) == [st EXCEPT !.buf = get.buf, !.GetPrm = NonEmpty(get)]

Target(st, url) ==
  LET st1 == [st EXCEPT !.buf = url.buf, !.URL = CStr(url.buf, url.at[1])]
  IN  IF Len(url.at) < 2 THEN st1 ELSE Query(st1, Params(url.buf, url.at[2], <<"&">>))

RequestWords(st, w) ==
  IF Len(w.at) <= 2 THEN [st EXCEPT !.ok = FALSE]
  ELSE Target([st EXCEPT !.POST = CStr(w.buf, w.at[1]) = <<"POST">>], Split(w.buf, w.at[2], <<"?">>))

RequestLine(st) == RequestWords(st, Split(st.buf, st.cur, <<" ">>))

(* The words of a Cookie line, the first of them being the text behind     *)
(* "Cookie: ", which is also the second: it is cut twice.                  *)
Cookies_Once(st, words) ==
  FoldLeft(LAMBDA s, at : [s EXCEPT !.buf = Params(s.buf, at, <<";">>).buf,
                                    !.CookiePrm = Params(s.buf, at, <<";">>).prm],
           st, <<words[1] + 2>> \o Tail(words))

Cookies(st, words) ==
  FoldLeft(LAMBDA s, at : [s EXCEPT !.buf = Params(s.buf, at, <<";">>).buf,
                                    !.CookiePrm = @ \o Params(s.buf, at, <<";">>).prm],
           st, <<words[1] + 2>> \o Tail(words))

(* Another line of the header, cut into words at the positions at.         *)
HeaderWords(st, at) ==
  LET word(i)  == CStr(st.buf, at[i])
      is(name) == Len(at) > 1 /\ icompare(word(1), <<name>>)
  IN  CASE is("Host:")    -> [st EXCEPT !.Host = Strings(word(2), <<":">>)[1]]
        [] is("Upgrade:") -> [st EXCEPT !.Upgrade = @ \/ icompare(word(2), <<"websocket">>)]
        [] is("Sec-WebSocket-Key:") -> [st EXCEPT !.Key = at[2]]
        [] is("Content-Type:") ->
             [st EXCEPT !.ContentType = @ \o FlattenSeq([i \in 1 .. Len(at) - 1 |-> word(i + 1)])]
        [] is("Cookie:")  -> Cookies(st, at)
        [] OTHER -> st

CutLine(st, w) == HeaderWords([st EXCEPT !.buf = w.buf], w.at)

HeaderLine(st) == CutLine(st, Split(st.buf, st.cur, <<" ">>))

(* CR LF at i ends a line, and an empty one the header; a bad request line *)
(* ends everything.                                                        *)
Line(st, after) ==
  IF st.buf[st.cur] = NUL THEN [st EXCEPT !.content = TRUE, !.cur = after]
  ELSE [(IF st.cur = 1 THEN RequestLine(st) ELSE HeaderLine(st)) EXCEPT !.cur = after]

LineEnd(st, i) == Line([st EXCEPT !.buf = Zeroed(@, i - 1, i)], i + 1)

LineEnds(buf, p) == { i \in p + 1 .. Len(buf) : buf[i - 1] = "CR" /\ buf[i] = "LF" }

NextLine(st) ==
  IF ~st.ok \/ st.content \/ LineEnds(st.buf, st.cur) = {} THEN st
  ELSE LineEnd(st, Min(LineEnds(st.buf, st.cur)))

ReadHeader(raw) ==
  FoldLeft(LAMBDA st, i : NextLine(st), Start(raw), [i \in 1 .. Cardinality(LineEnds(raw, 1)) |-> i])

-----------------------------------------------------------------------------
(* A body in parts.  The end of the first match of text from p on, or 0.   *)
FirstEnd(p, ends) == IF ends = <<>> THEN 0 ELSE p + ends[1] - 1

Find(buf, p, text) == FirstEnd(p, Ends(SubSeq(buf, p, Len(buf)), text))

(* The name and the file name in the header of a part, each up to a quote. *)
QUOTE == "QUOTE"

DispositionWord(acc, at) ==
  LET quoted == [acc EXCEPT !.buf = Split(acc.buf, at + 1, <<QUOTE>>).buf]
  IN  CASE acc.buf[at] = "name=QUOTE"     -> [quoted EXCEPT !.name = at + 1]
        [] acc.buf[at] = "filename=QUOTE" -> [quoted EXCEPT !.file = at + 1]
        [] OTHER -> acc

DispositionWords(acc, at) ==
  IF Len(at) > 1 /\ CStr(acc.buf, at[1]) = <<"Content-Disposition:">>
  THEN FoldLeft(DispositionWord, acc, Tail(at)) ELSE acc

DispositionLine(acc, w) == DispositionWords([acc EXCEPT !.buf = w.buf], w.at)

DispositionLines(lines) ==
  FoldLeft(LAMBDA acc, at : DispositionLine(acc, Split(acc.buf, at, <<" ">>)),
           [buf |-> lines.buf, name |-> 0, file |-> 0], lines.at)

Disposition(buf, p) == DispositionLines(Split(buf, p, <<"CR", "LF">>))

(* The data of a part begins at from and ends before the next "--" and all *)
(* but the last character of the boundary, less CR LF.                     *)
BeginOf(buf, short, end) == IF end = 0 THEN Len(buf) ELSE end - Len(short) + 1

DataEnd(buf, from, short) == BeginOf(buf, short, Find(buf, from, short))

Terminated_Late(buf, end) == IF end = Len(buf) THEN buf ELSE Zeroed(buf, end - 1, end - 1)

Terminated(buf, end) == IF end = Len(buf) THEN buf ELSE Zeroed(buf, end - 2, end - 1)

(* A part with a name is a parameter, or a file if it has a file name too; *)
(* the size of a file counts the CR LF that was behind it.                 *)
PushPart(st, from, end, part) ==
  LET st1 == [st EXCEPT !.buf = Terminated(part.buf, end)]
  IN  IF part.name = 0 THEN [st EXCEPT !.buf = part.buf]
      ELSE IF part.file = 0 THEN [st1 EXCEPT !.PostPrm = Append(@, PrmItm(part.name, from))]
      ELSE [st1 EXCEPT !.FilePrm = Append(@, PrmItm(part.name,
              [Name |-> part.file, Data |-> from, Size |-> end - from]))]

(* Behind the boundary, which ends at b: the header of a part up to an     *)
(* empty line, and its data; the next part is looked for from x on.        *)
HeaderEnds(buf, b) ==
  { i \in b + 4 .. Len(buf) : SubSeq(buf, i - 3, i) = <<"CR", "LF", "CR", "LF">> }

Onward(st, x) == [st |-> st, x |-> x]
Over(st)      == Onward(st, 0)

ReadData(st, from, end, part) ==
  Onward(PushPart(st, from, end, part), IF part.name = 0 THEN from ELSE end)

ReadPart(st, from, part, bound) ==
  ReadData(st, from, DataEnd(part.buf, from, Front(bound)), part)

ReadPartHeader(st, b, last, bound) ==
  ReadPart(st, last + 1, Disposition(Zeroed(st.buf, last - 3, last), b + 1), bound)

ReadBoundary(st, b, bound) ==
  IF b = 0 THEN Over(st)
  ELSE IF b + 1 >= Len(st.buf) - 2 THEN Over([st EXCEPT !.ok = FALSE])
  ELSE IF HeaderEnds(st.buf, b) = {} THEN Over(st)
  ELSE ReadPartHeader(st, b, Min(HeaderEnds(st.buf, b)), bound)

(* The parts from x on, until it is over: each of them has a header.       *)
ReadParts(st, x, bound) ==
  LET next(at, i) ==
        IF at.x = 0 THEN at ELSE ReadBoundary(at.st, Find(at.st.buf, at.x, bound), bound)
  IN  FoldLeft(next, Onward(st, x), [i \in 1 .. Cardinality(HeaderEnds(st.buf, 0)) + 1 |-> i]).st

(* The body of a POST.                                                     *)
Form(st, post) == [st EXCEPT !.buf = post.buf, !.PostPrm = @ \o NonEmpty(post)]

Content(st) ==
  LET boundary == Strings(st.ContentType, <<"boundary=">>)
  IN  IF Len(boundary) < 2 THEN Form(st, Params(st.buf, st.cur, <<"&">>))
      ELSE ReadParts(st, st.cur, <<"-", "-">> \o boundary[2])

Complete(st) == [st EXCEPT !.ok = @ /\ st.URL # <<>> /\ st.Host # <<>>]

(* The header is over when there was an empty line.                        *)
ReadBody(st) == IF st.content /\ st.POST THEN Content(st) ELSE st

ParseHeader(raw) == Complete(ReadBody(ReadHeader(raw)))

-----------------------------------------------------------------------------
(* What a page is given for a name: the first item with it, decoded; a     *)
(* file as it is, but read as a string.                                    *)
Named(req, prm, name) == SelectInSeq(prm, LAMBDA it : CStr(req.buf, it.Name) = name)

Value(req, prm, name) ==
  LET i == Named(req, prm, name)
  IN  IF i = 0 THEN <<>> ELSE decode_web(CStr(req.buf, prm[i].Value))

GetValue(req, name)  == Value(req, req.GetPrm, name)
PostValue(req, name) == Value(req, req.PostPrm, name)
Cookie(req, name)    == Value(req, req.CookiePrm, name)

File(req, name) ==
  LET i  == Named(req, req.FilePrm, name)
      fl == req.FilePrm[i].Value
  IN  IF i = 0 THEN [Name |-> <<>>, Data |-> <<>>, Size |-> 0]
      ELSE [Name |-> CStr(req.buf, fl.Name), Data |-> CStr(req.buf, fl.Data), Size |-> fl.Size]
===============================================================================
