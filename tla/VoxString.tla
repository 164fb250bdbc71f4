------------------------------- MODULE VoxString -------------------------------
(***************************************************************************)
(* Ext/voxstring.h, as far as requests are read with it.  Memory is a      *)
(* sequence of characters that ends with NUL, a pointer a position in it.  *)
(* The split of a pointer works in place: it returns the positions of the  *)
(* pieces and overwrites the delimiters, so the order of splits matters.   *)
(* A word no split can cut, such as a header's name, is one character.     *)
(***************************************************************************)
EXTENDS Integers, Sequences, TLC, SequencesExt

CONSTANT Leftover   \* what is on the stack behind the two digits that
                    \* decode_web hands to strtol without a terminating 0

NUL == "NUL"

(* The string at position p.                                               *)
StrEnd(buf, p) == SelectInSubSeq(buf, p, Len(buf), LAMBDA c : c = NUL)
CStr(buf, p)   == SubSeq(buf, p, StrEnd(buf, p) - 1)

Zeroed(buf, from, to) == [i \in DOMAIN buf |-> IF i \in from .. to THEN NUL ELSE buf[i]]

(* Where the delimiter d ends in text.  A mismatch starts the comparison   *)
(* afresh at the next character, not at the one that did not match.        *)
Ends(text, d) ==
  LET step(m, i) ==
        IF text[i] # d[m.ok + 1] THEN [m EXCEPT !.ok = 0]
        ELSE IF m.ok + 1 < Len(d) THEN [m EXCEPT !.ok = @ + 1]
        ELSE [ok |-> 0, ends |-> Append(m.ends, i)]
  IN  FoldLeftDomain(step, [ok |-> 0, ends |-> <<>>], text).ends

(* split, of a pointer: the positions of the pieces, and the memory left,  *)
(* ends being where the delimiters of length n end.                        *)
Cut(buf, p, n, ends) ==
  [at  |-> <<p>> \o [i \in DOMAIN ends |-> p + ends[i]],
   buf |-> [i \in DOMAIN buf |->
              IF \E j \in DOMAIN ends : i \in p + ends[j] - n .. p + ends[j] - 1 THEN NUL ELSE buf[i]]]

Split(buf, p, d) == Cut(buf, p, Len(d), Ends(CStr(buf, p), d))

(* split, of a string: the pieces of a copy, none if it is empty.          *)
Pieces(cut) == [i \in DOMAIN cut.at |-> CStr(cut.buf, cut.at[i])]

Strings(text, d) == IF text = <<>> THEN <<>> ELSE Pieces(Split(Append(text, NUL), 1, d))

(* icompare, for the words it is used on.                                  *)
Lower == [c \in {"Host:", "Upgrade:", "Cookie:", "Content-Type:", "Sec-WebSocket-Key:"} |->
            CASE c = "Host:" -> "host:" [] c = "Upgrade:" -> "upgrade:" [] c = "Cookie:" -> "cookie:"
              [] c = "Content-Type:" -> "content-type:" [] OTHER -> "sec-websocket-key:"]
tolower(c) == IF c \in DOMAIN Lower THEN Lower[c] ELSE c

icompare(s, t) == Len(s) = Len(t) /\ \A i \in DOMAIN s : tolower(s[i]) = tolower(t[i])

-----------------------------------------------------------------------------
(* decode_web: + is a blank, %xy the character with that code; of a % with *)
(* fewer digits nothing is left.                                           *)
Hex == <<"0", "1", "2", "3", "4", "5", "6", "7", "8", "9", "A", "B", "C", "D", "E", "F">>
isxdigit(c) == Contains(Hex, c)
Digit(c)    == SelectInSeq(Hex, LAMBDA h : h = c) - 1

Code == [c \in {" ", "%", "&", "+", ";", "="} |->
           CASE c = " " -> 32 [] c = "%" -> 37 [] c = "&" -> 38
             [] c = "+" -> 43 [] c = ";" -> 59 [] OTHER -> 61]
Char(n) == IF \E c \in DOMAIN Code : Code[c] = n
           THEN CHOOSE c \in DOMAIN Code : Code[c] = n ELSE "?"

strtol(x, y) ==
  LET n == 16 * Digit(x) + Digit(y)
  IN  IF isxdigit(Leftover) THEN (16 * n + Digit(Leftover)) % 256 ELSE n

decode_web(str) ==
  LET step(d, i) ==
        IF str[i] = "%" THEN [d EXCEPT !.tbt = 2]
        ELSE IF d.tbt = 0 THEN [d EXCEPT !.res = Append(@, IF str[i] = "+" THEN " " ELSE str[i])]
        ELSE IF ~isxdigit(str[i]) THEN [d EXCEPT !.tbt = 0]
        ELSE IF d.tbt = 2 THEN [d EXCEPT !.tbt = 1]
        ELSE [tbt |-> 0, res |-> Append(d.res, Char(strtol(str[i - 1], str[i])))]
  IN  FoldLeftDomain(step, [tbt |-> 0, res |-> <<>>], str).res
===============================================================================
