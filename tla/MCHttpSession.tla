---------------------------- MODULE MCHttpSession ----------------------------
(* Small instances of a connection with its text for TLC.                  *)
EXTENDS HttpSession, FiniteSetsExt, SequencesExt

(* The requests below are such that the theorems of TextProofs and         *)
(* RequestProofs are about this instance, too.                             *)
ASSUME SessionAssumption == LengthsFit /\ ShortFrames /\ \A r \in All : Decent(r)

(* Two sites, the first with an exact and a dynamic page, files, and a     *)
(* WebSocket; the second with a page for bad requests.                     *)
MCSites ==
  << [Domains |-> {<<"h">>, <<"w">>}, Protocols |-> {"HTTP", "WEBSOCKET"}, Get400 |-> FALSE,
      Pages   |-> << [URL |-> <<"/", "p">>, Dynamic |-> FALSE], [URL |-> <<"/", "d">>, Dynamic |-> TRUE] >>,
      Files   |-> { [path |-> <<"/", "p", ".", "h", "t", "m", "l">>, size |-> 2],
                    [path |-> <<"/", "c", "/", "f", ".", "j", "p", "g">>, size |-> 1],
                    [path |-> <<"/", "e">>, size |-> 0] },
      Cached  |-> {<<"/", "c">>}],
     [Domains |-> {<<"g">>}, Protocols |-> {"HTTP"}, Get400 |-> TRUE,
      Pages   |-> << [URL |-> <<"/">>, Dynamic |-> FALSE] >>, Files |-> {}, Cached |-> {}] >>

Decimals(n) == [i \in 1 .. IF n < 10 THEN 1 ELSE IF n < 100 THEN 2 ELSE 3 |->
                  LET k == IF n < 10 THEN 1 ELSE IF n < 100 THEN 2 ELSE 3
                  IN  Decimal[((n \div 10^(k - i)) % 10) + 1]]

Get == [post |-> FALSE, url |-> <<"/", "p">>, get |-> <<>>, host |-> <<"h", ":", "80">>,
        cookies |-> <<>>, key |-> "", form |-> <<>>, parts |-> <<>>, raw |-> 0, digits |-> <<>>,
        close |-> FALSE]

Exact(r) == [r EXCEPT !.post = TRUE, !.digits = Decimals(Len(Body(r))), !.close = TRUE]

(* Lengths of up to two digits: none, 0, 3, 12, and one that is too big;   *)
(* bodies that are short, exact and long; and the length is the last line  *)
(* of the header, or it is not.                                            *)
Lengths == { [Get EXCEPT !.digits = d, !.raw = b, !.close = c] : c \in BOOLEAN,
               d \in {<<>>, <<"0">>, <<"3">>, <<"1", "2">>, <<"9", "9">>}, b \in {0, 1, 3, 4, 12, 13} }

(* URLs and hosts.                                                         *)
Urls == { <<"/">>, <<"/", "p">>, <<"/", "p", "p">>, <<"/", "d">>, <<"/", "d", "/", ".", ".">>,
          <<"/", "p", ".", "h", "t", "m", "l">>, <<"/", "c", "/", "f", ".", "j", "p", "g">>,
          <<"/", "e">>, <<"/", ".", ".">>, <<"/", "d", "1", "2", "3", "4", "5", "6">> }
Places == { [Get EXCEPT !.url = u, !.host = h] : u \in Urls, h \in {<<"h">>, <<"g", ":", "80">>, <<"n">>, <<>>} }

(* Values: every text of two characters that mean something to the server. *)
Special == {"x", "2", "&", "=", "%", "+", " ", ";"}
Values == {<<>>} \cup { <<c>> : c \in Special } \cup (Special \X Special)

Forms == UNION { { [Get EXCEPT !.get = << <<"a", v>>, <<"b", <<"x">>>> >>],
                   [Get EXCEPT !.cookies = << <<"a", v>>, <<"b", <<"x">>>> >>],
                   Exact([Get EXCEPT !.form = << <<"a", v>>, <<"b", <<"x">>>> >>]) } : v \in Values }

Data == {"x", "-", "B", "CR"}
Texts == UNION { [1 .. n -> Data] : n \in 0 .. 3 } \ { <<"-", "-", "B">> }
(* Bodies in parts; two parts are sent without a Content-Length, and one   *)
(* body is sent with its length as the last line: it has an empty line of  *)
(* its own.                                                                *)
FieldOf(t) == [name |-> "a", file |-> "", data |-> t]
FileOf(t)  == [name |-> "b", file |-> "f", data |-> t]

Upload == [Get EXCEPT !.post = TRUE, !.host = <<"h">>]

Multiparts ==
  { Exact([Upload EXCEPT !.parts = <<p>>]) : p \in { FieldOf(t) : t \in Texts } \cup { FileOf(t) : t \in Texts } }
  \cup { [Upload EXCEPT !.parts = ps] :
           ps \in { <<FieldOf(<<"x">>), FieldOf(<<"-">>)>>, <<FieldOf(<<"-">>), FileOf(<<>>)>>,
                    <<FileOf(<<>>), FieldOf(<<"CR">>)>> } }
  \cup { [Exact([Upload EXCEPT !.parts = <<FieldOf(<<"x">>)>>]) EXCEPT !.close = FALSE] }

Upgrades == { [Get EXCEPT !.url = u, !.host = h, !.key = "k"] :
                u \in {<<"/", "p">>, <<"/", "e">>}, h \in {<<"w">>, <<"g">>} }

MCRequests == Lengths \cup Places \cup Forms \cup Multiparts \cup Upgrades

MCFollowing == Lengths \cup { [Get EXCEPT !.host = h] : h \in {<<"g">>, <<"n">>} }

MCFragments(r) == IF r.parts # <<>> /\ (r.digits = <<>> \/ Len(r.parts[1].data) > 2) THEN 1
                  ELSE IF r.parts # <<>> \/ r.get \o r.cookies \o r.form # <<>> THEN 2 ELSE 3

MCSHA1(text) == [i \in 1 .. 20 |-> (37 * i * i + 11 * Len(text)) % 256]

(* Data of one byte, and of more than a header has, which looks like one.  *)
MCFrames == { [data |-> <<65, 66, 67, 68, 69>>, key |-> <<129, 130, 4, 200>>],
              [data |-> <<97>>, key |-> <<255, 9, 9, 9>>],
              [data |-> <<129, 129, 1, 2, 3, 4, 5, 255>>, key |-> <<0, 0, 0, 0>>] }
Sizes == {0, 125, 126, 258, 65535, 65536}
===============================================================================
