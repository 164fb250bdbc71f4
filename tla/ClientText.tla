------------------------------ MODULE ClientText ------------------------------
(***************************************************************************)
(* What browsers send: the text of a request, character by character where *)
(* the server looks at characters (see VoxString).  None of this is the    *)
(* server's code.                                                          *)
(*                                                                         *)
(* A request is a record:                                                  *)
(*   post            POST or GET                                           *)
(*   url, get        the path, and the pairs <<name, value>> behind the ?  *)
(*   host, cookies   the Host, and pairs                                   *)
(*   key             the Sec-WebSocket-Key of an upgrade, or ""            *)
(*   form, parts     the body: pairs, or parts [name, file, data] (file is *)
(*                   "" for a plain field), or                             *)
(*   raw             neither: so many bytes                                *)
(*   digits          the digits of the Content-Length, none without one    *)
(*   close           whether a line "connection: close" follows: without   *)
(*                   it the Content-Length is the last line of the header  *)
(***************************************************************************)
EXTENDS VoxString, FiniteSets

CR == "CR"   LF == "LF"   CRLF == <<CR, LF>>
Other == "x"
Length == "Content-Length: "    \* 16 bytes that mean nothing before the last
Quote  == "QUOTE"
Boundary == <<"B", "C">>

Decimal == SubSeq(Hex, 1, 10)

(* The text of a value in a form, and of pairs.                            *)
Escaped(c) ==
  CASE c = " " -> <<"+">>
    [] c \in DOMAIN Code \ {" "} -> <<"%", Hex[Code[c] \div 16 + 1], Hex[(Code[c] % 16) + 1]>>
    [] OTHER -> <<c>>
Encoded(v) == FlattenSeq([i \in DOMAIN v |-> Escaped(v[i])])

Pairs(prm, between) ==
  FlattenSeq([i \in DOMAIN prm |->
    (IF i = 1 THEN <<>> ELSE between) \o <<prm[i][1], "=">> \o Encoded(prm[i][2])])

(* The parts of a multipart body; the Content-Type of a file, which the    *)
(* server does not keep, is left out.                                      *)
Part(p) ==
  <<"-", "-">> \o Boundary \o CRLF
    \o <<"Content-Disposition:", " ", "form-data;", " ", "name=QUOTE", p.name, Quote>>
    \o (IF p.file = "" THEN <<>>
        ELSE <<";", " ", "filename=QUOTE", p.file, Quote>>)
    \o CRLF \o CRLF \o p.data \o CRLF
Parts(ps) == FlattenSeq([i \in DOMAIN ps |-> Part(ps[i])])
               \o <<"-", "-">> \o Boundary \o <<"-", "-">> \o CRLF

Body(r) ==
  IF r.parts # <<>> THEN Parts(r.parts)
  ELSE IF r.form # <<>> THEN Pairs(r.form, <<"&">>)
  ELSE [i \in 1 .. r.raw |-> Other]

(* The whole request.                                                      *)
Field(name, value) == IF value = <<>> THEN <<>> ELSE name \o value \o CRLF

Header(r) ==
  <<IF r.post THEN "POST" ELSE "GET", " ">> \o r.url
    \o (IF r.get = <<>> THEN <<>> ELSE <<"?">> \o Pairs(r.get, <<"&">>)) \o <<" ", "HTTP/1.1">> \o CRLF
    \o Field(<<"host:", " ">>, r.host)
    \o Field(<<"cookie:", " ">>, Pairs(r.cookies, <<";", " ">>))
    \o (IF r.key = "" THEN <<>> ELSE <<"upgrade:", " ", "websocket">> \o CRLF
                                     \o <<"sec-websocket-key:", " ", r.key>> \o CRLF)
    \o (IF r.parts = <<>> THEN <<>>
        ELSE <<"content-type:", " ", "multipart/form-data;", " ", "boundary=">> \o Boundary \o CRLF)
    \o Field(<<Length>>, r.digits)
    \o (IF r.close THEN <<"connection:", " ", "close">> \o CRLF ELSE <<>>)
    \o CRLF

Bytes(r) == Header(r) \o Body(r)

(* What a client keeps to: an end of line and a Content-Length are only    *)
(* where it writes them, and the Content-Length is a number.               *)
Plain == STRING \ {CR, LF, Length}

Proper(r) ==
  /\ r.post \in BOOLEAN /\ r.close \in BOOLEAN /\ r.key \in Plain
  /\ r.url \in Seq(Plain) /\ r.host \in Seq(Plain)
  /\ r.get \in Seq(Plain \X Seq(Plain)) /\ r.cookies \in Seq(Plain \X Seq(Plain))
  /\ r.digits \in Seq({ Decimal[i] : i \in DOMAIN Decimal })
  /\ Body(r) \in Seq(STRING \ {Length})

(* The number digits stand for.                                            *)
Number(digits) == FoldLeft(LAMBDA n, d : 10 * n + Digit(d), 0, digits)
===============================================================================
