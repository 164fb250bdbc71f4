------------------------------ MODULE TextProofs ------------------------------
(***************************************************************************)
(* Machine-checked proofs about the text of requests.  A request is cut    *)
(* out of what arrives in the right place, however it comes in fragments,  *)
(* because both scans of OnConnect see in a prefix what they see in the    *)
(* whole text, or nothing, the marker behind a length included, unless it  *)
(* lies on the end of the header; what the server encodes in Base64 is     *)
(* decoded to the same; and a page on a WebSocket gets the data a client   *)
(* masked.                                                                 *)
(***************************************************************************)
EXTENDS HttpSession, Induction

(* What texts consist of: any strings, those that clients write themselves *)
(* among them.  Letters mean nothing to the two scans.                     *)
Words == {"POST", "GET", "HTTP/1.1", "host:", "cookie:", "upgrade:", "websocket", "sec-websocket-key:",
          "content-type:", "multipart/form-data;", "boundary=", "connection:", "close", "B", "C", " ", "?", "=", "&", ";", "%", "+"}
Digits == {"0", "1", "2", "3", "4", "5", "6", "7", "8", "9"}

Letter == (STRING \cup Words \cup Digits \cup {"A", "D", "E", "F"}) \ {CR, LF, Length}
Sign   == Letter \cup {CR, LF, Length}

Found == [oks : 0 .. 4, end : Nat]

(* The scan of raw for the end of the header, byte by byte.                *)
Scans(h, raw) ==
  /\ h \in [0 .. Len(raw) -> Found]
  /\ h[0] = [oks |-> 0, end |-> 0]
  /\ \A i \in 1 .. Len(raw) :
       h[i] = IF h[i - 1].oks = 4 THEN h[i - 1]
              ELSE IF raw[i] = Bound[h[i - 1].oks + 1] THEN [oks |-> h[i - 1].oks + 1, end |-> i]
              ELSE [oks |-> 0, end |-> 0]

(* The fold of FindHeadEnd goes through the signs one after the other.     *)
LEMMA HeadFold ==
  ASSUME NEW raw \in Seq(Sign)
  PROVE  \E h : /\ Scans(h, raw)
                /\ FindHeadEnd(raw) = IF h[Len(raw)].oks = 4 THEN h[Len(raw)].end ELSE 0
<1> DEFINE match(m, i) == IF m.oks = 4 THEN m
                          ELSE IF raw[i] = Bound[m.oks + 1] THEN [oks |-> m.oks + 1, end |-> i]
                          ELSE [oks |-> 0, end |-> 0]
           idx  == [i \in DOMAIN raw |-> i]
           base == [oks |-> 0, end |-> 0]
           step == [p \in Found \X (1 .. Len(raw)) |-> match(p[1], p[2])]
           Is(g) == g = [s \in SUBSET DOMAIN idx |->
                           IF s = {} THEN base ELSE match(g[s \ {Max(s)}], idx[Max(s)])]
           it == CHOOSE g : Is(g)
<1>1. FindHeadEnd(raw) = IF it[DOMAIN idx].oks = 4 THEN it[DOMAIN idx].end ELSE 0
  BY DEF FindHeadEnd, FoldLeftDomain, FoldLeft, MapThenFoldSet
<1>2. Len(raw) \in Nat /\ DOMAIN raw = 1 .. Len(raw) /\ DOMAIN idx = 1 .. Len(raw)
  BY LenProperties
<1>3. \A m \in Found, i \in 1 .. Len(raw) : match(m, i) \in Found
  BY DEF Found
<1>4. step \in Steps(Len(raw), Found) /\ base \in Found
  <2>1. base \in Found
    BY DEF Found
  <2>2. ASSUME NEW p \in Found \X (1 .. Len(raw)) PROVE match(p[1], p[2]) \in Found
    <3>1. p[1] \in Found /\ p[2] \in 1 .. Len(raw)
      OBVIOUS
    <3> HIDE DEF match
    <3> QED
      BY <1>3, <3>1
  <2> HIDE DEF match
  <2> QED
    BY <2>1, <2>2 DEF Steps
<1>5. PICK g : FoldsBy(g, Len(raw), Found, base, step)
  <2> HIDE DEF base, step
  <2> QED
    BY <1>2, <1>4, SubsetRecursion
<1>6. PICK h : Iterates(h, Len(raw), Found, base, step)
  <2> HIDE DEF base, step
  <2> QED
    BY <1>2, <1>4, Recursion
<1>7. Is(it)
  <2>1. Is(g)
    <3>1. g \in [SUBSET DOMAIN idx -> Found]
      BY <1>2, <1>5 DEF FoldsBy
    <3>2. ASSUME NEW s \in SUBSET DOMAIN idx
          PROVE  g[s] = IF s = {} THEN base ELSE match(g[s \ {Max(s)}], idx[Max(s)])
      <4>1. CASE s = {}
        BY <1>2, <1>5, <4>1 DEF FoldsBy
      <4>2. CASE s # {}
        <5>1. Max(s) \in 1 .. Len(raw)
          BY <1>2, <4>2, MaxIn
        <5>2. g[s] = step[<<g[s \ {Max(s)}], Max(s)>>]
          BY <1>2, <1>5, <4>2, Zenon DEF FoldsBy
        <5>3. g[s \ {Max(s)}] \in Found
          BY <1>2, <1>5 DEF FoldsBy
        <5>4. step[<<g[s \ {Max(s)}], Max(s)>>] = match(g[s \ {Max(s)}], Max(s))
          <6> HIDE DEF match
          <6> QED
            BY <5>1, <5>3
        <5>5. idx[Max(s)] = Max(s)
          BY <1>2, <5>1
        <5> HIDE DEF match, step, idx
        <5> QED
          BY <4>2, <5>2, <5>4, <5>5
      <4> QED
        BY <4>1, <4>2
    <3> HIDE DEF match, idx, base
    <3> QED
      BY <3>1, <3>2
  <2> HIDE DEF Is
  <2> QED
    BY <2>1
<1>8. ASSUME NEW i \in 1 .. Len(raw), it[1 .. i - 1] \in Found
      PROVE  it[1 .. i] = step[<<it[1 .. i - 1], i>>]
  <2>1. /\ 1 .. i # {} /\ 1 .. i \in SUBSET (1 .. Len(raw))
        /\ Max(1 .. i) = i /\ (1 .. i) \ {Max(1 .. i)} = 1 .. i - 1
    BY <1>2, FirstPositions
  <2>2. it[1 .. i] = match(it[1 .. i - 1], idx[i])
    <3>1. \A s \in SUBSET (1 .. Len(raw)) :
            it[s] = IF s = {} THEN base ELSE match(it[s \ {Max(s)}], idx[Max(s)])
      <4> HIDE DEF match, idx, base, it
      <4> QED
        BY <1>2, <1>7, Zenon
    <3> HIDE DEF match, idx, base, it
    <3> QED
      BY <2>1, <3>1
  <2>3. idx[i] = i
    BY <1>2
  <2>4. step[<<it[1 .. i - 1], i>>] = match(it[1 .. i - 1], i)
    <3> HIDE DEF match, it
    <3> QED
      BY <1>8
  <2> HIDE DEF match, it, step, idx
  <2> QED
    BY <2>2, <2>3, <2>4
<1>9. it[{}] = base
  <2> HIDE DEF match, it, idx, base
  <2> QED
    BY <1>7
<1>10. \A i \in 0 .. Len(raw) : h[i] = it[1 .. i]
  <2>1. Follows(it, Len(raw), Found, base, step)
    <3> HIDE DEF match, it, step, base
    <3> QED
      BY <1>8, <1>9 DEF Follows
  <2> HIDE DEF match, it, step, base
  <2> QED
    BY <1>2, <1>6, <2>1, FoldSteps
<1>11. Scans(h, raw)
  <2>1. ASSUME NEW i \in 1 .. Len(raw) PROVE h[i] = match(h[i - 1], i)
    <3>1. h[i] = step[<<h[i - 1], i>>] /\ h[i - 1] \in Found
      <4> HIDE DEF step, base
      <4> QED
        BY <1>2, <1>6 DEF Iterates
    <3> HIDE DEF match
    <3> QED
      BY <3>1
  <2> QED
    BY <1>6, <2>1 DEF Iterates, Scans
<1>12. FindHeadEnd(raw) = IF h[Len(raw)].oks = 4 THEN h[Len(raw)].end ELSE 0
  <2> HIDE DEF it, idx
  <2> QED
    BY <1>1, <1>2, <1>10
<1> QED
  BY <1>11, <1>12

-----------------------------------------------------------------------------
(* Lines of text, each with its end.                                       *)
Lines(s) ==
  /\ s \in Seq(Sign)
  /\ \A i \in 1 .. Len(s) :
       /\ s[i] = CR => i < Len(s) /\ s[i + 1] = LF
       /\ s[i] = LF => i > 1 /\ s[i - 1] = CR /\ (i < Len(s) => s[i + 1] # CR)
  /\ s # <<>> => s[1] # CR /\ s[Len(s)] = LF

(* Text of which the first n bytes are lines and an empty line; the CR of  *)
(* a line before the last may be missing.                                  *)
EmptyLineAt(t, n) ==
  /\ n \in Nat /\ n > 3
  /\ t[n - 3] = CR /\ t[n - 2] = LF /\ t[n - 1] = CR /\ t[n] = LF
  /\ \A i \in 1 .. n - 2 :
       /\ t[i] = CR => i < n - 2 /\ t[i + 1] = LF
       /\ t[i] = LF => (i < n - 2 => t[i + 1] # CR)

(* The same without the CR of the last line.                               *)
Hides(t, n) ==
  /\ n \in Nat /\ n > 3
  /\ t[n - 3] \notin {CR, LF} /\ t[n - 2] = LF /\ t[n - 1] = CR /\ t[n] = LF
  /\ \A i \in 1 .. n - 3 : t[i] = LF => t[i + 1] # CR

(* Lines behind lines are lines.                                           *)
LEMMA LineConcat == ASSUME NEW s, NEW t, Lines(s), Lines(t) PROVE Lines(s \o t)
<1> USE DEF Lines, CR, LF
<1>1. Len(s) \in Nat /\ Len(t) \in Nat
  BY LenProperties
<1>2. /\ s \o t \in Seq(Sign) /\ Len(s \o t) = Len(s) + Len(t)
      /\ \A i \in 1 .. Len(s) + Len(t) : (s \o t)[i] = IF i <= Len(s) THEN s[i] ELSE t[i - Len(s)]
  BY ConcatProperties
<1>3. CASE s = <<>> \/ t = <<>>
  BY <1>3, ConcatEmptySeq
<1>4. CASE s # <<>> /\ t # <<>>
  <2>1. Len(s) > 0 /\ Len(t) > 0
    BY <1>4, <1>1, EmptySeq
  <2>2. ASSUME NEW i \in 1 .. Len(s \o t)
        PROVE  /\ (s \o t)[i] = CR => i < Len(s \o t) /\ (s \o t)[i + 1] = LF
               /\ (s \o t)[i] = LF => i > 1 /\ (s \o t)[i - 1] = CR
                                   /\ (i < Len(s \o t) => (s \o t)[i + 1] # CR)
    <3>1. CASE i < Len(s)
      BY <1>1, <1>2, <3>1
    <3>2. CASE i = Len(s)
      BY <1>1, <1>2, <1>4, <2>1, <3>2
    <3>3. CASE i > Len(s)
      <4>1. i - Len(s) \in 1 .. Len(t) /\ (s \o t)[i] = t[i - Len(s)]
        BY <1>1, <1>2, <3>3
      <4>2. i < Len(s \o t) => (s \o t)[i + 1] = t[i - Len(s) + 1] /\ i - Len(s) < Len(t)
        BY <1>1, <1>2, <3>3
      <4>3. i - Len(s) > 1 => (s \o t)[i - 1] = t[i - Len(s) - 1] /\ i > 1
        BY <1>1, <1>2, <3>3
      <4> QED
        BY <1>1, <1>2, <4>1, <4>2, <4>3
    <3> QED
      BY <1>1, <1>2, <3>1, <3>2, <3>3
  <2>3. (s \o t)[1] # CR /\ (s \o t)[Len(s \o t)] = LF
    BY <1>1, <1>2, <1>4, <2>1
  <2> QED
    BY <1>2, <2>2, <2>3
<1> QED
  BY <1>3, <1>4

(* The end of a line, sign by sign.                                        *)
LEMMA CrlfType == CRLF \in Seq(Sign \ {Length}) /\ Len(CRLF) = 2 /\ CRLF[1] = CR /\ CRLF[2] = LF
<1>1. CR \in Sign \ {Length} /\ LF \in Sign \ {Length}
  BY DEF CR, LF, Length, Sign
<1> QED
  BY <1>1 DEF CRLF

(* A text of fewer signs is a text.                                        *)
LEMMA Wider ==
  ASSUME NEW S \in SUBSET Sign, NEW s \in Seq(S) PROVE s \in Seq(Sign)
BY SeqMonotonic

(* A text without line ends, closed by one, is a line.                     *)
LEMMA OneLine ==
  ASSUME NEW p \in Seq(Sign \ {CR, LF}), p # <<>> PROVE Lines(p \o CRLF)
<1>1. p \in Seq(Sign) /\ CRLF \in Seq(Sign) /\ Len(CRLF) = 2 /\ CRLF[1] = CR /\ CRLF[2] = LF
  <2>1. Sign \ {CR, LF} \in SUBSET Sign /\ Sign \ {Length} \in SUBSET Sign
    OBVIOUS
  <2> QED
    BY <2>1, CrlfType, Wider
<1>2. Len(p) \in Nat /\ Len(p) > 0
  BY LenProperties, EmptySeq
<1>3. /\ p \o CRLF \in Seq(Sign) /\ Len(p \o CRLF) = Len(p) + 2
      /\ \A i \in 1 .. Len(p) + 2 : (p \o CRLF)[i] = IF i <= Len(p) THEN p[i] ELSE CRLF[i - Len(p)]
  <2>1. /\ p \o CRLF \in Seq(Sign) /\ Len(p \o CRLF) = Len(p) + Len(CRLF)
        /\ \A i \in 1 .. Len(p) + Len(CRLF) :
             (p \o CRLF)[i] = IF i <= Len(p) THEN p[i] ELSE CRLF[i - Len(p)]
    BY <1>1, ConcatProperties
  <2> QED
    BY <1>1, <2>1
<1>4. \A i \in 1 .. Len(p) : p[i] # CR /\ p[i] # LF
  BY ElementOfSeq
<1>5. /\ \A i \in 1 .. Len(p) : (p \o CRLF)[i] # CR /\ (p \o CRLF)[i] # LF
      /\ (p \o CRLF)[Len(p) + 1] = CR /\ (p \o CRLF)[Len(p) + 2] = LF
  BY <1>1, <1>2, <1>3, <1>4
<1> QED
  BY <1>2, <1>3, <1>5 DEF Lines, CR, LF

(* The scan of what has arrived finds the end of the header there, or      *)
(* nothing if it has not arrived.                                          *)
LEMMA HeadEndFound ==
  ASSUME NEW t, NEW n, EmptyLineAt(t, n), NEW raw \in Seq(Sign),
         \A i \in 1 .. Len(raw) : raw[i] = t[i]
  PROVE  FindHeadEnd(raw) = IF Len(raw) >= n THEN n ELSE 0
<1> DEFINE k == Len(raw)
<1>1. k \in Nat /\ n \in Nat /\ n > 3
  BY LenProperties DEF EmptyLineAt
<1>2. PICK h : /\ Scans(h, raw)
               /\ FindHeadEnd(raw) = IF h[k].oks = 4 THEN h[k].end ELSE 0
  BY HeadFold
<1> HIDE DEF k
<1> DEFINE EndHere(i) == i > 1 /\ t[i] = LF /\ t[i - 1] = CR
           Oks(i) == IF i = n - 1 THEN 3 ELSE IF i = 0 THEN 0 ELSE IF t[i] = CR THEN 1
                     ELSE IF EndHere(i) THEN 2 ELSE 0
           E == { i \in Nat : IF i >= n THEN h[i] = [oks |-> 4, end |-> n] ELSE h[i].oks = Oks(i) }
<1>3. /\ h[0] = [oks |-> 0, end |-> 0]
      /\ \A i \in 1 .. k :
           h[i] = IF h[i - 1].oks = 4 THEN h[i - 1]
                  ELSE IF t[i] = Bound[h[i - 1].oks + 1] THEN [oks |-> h[i - 1].oks + 1, end |-> i]
                  ELSE [oks |-> 0, end |-> 0]
  BY <1>2 DEF Scans, k
<1>4. Bound[1] = CR /\ Bound[2] = LF /\ Bound[3] = CR /\ Bound[4] = LF /\ CR # LF
  BY DEF Bound, CR, LF
<1>5. 0 \in E
  BY <1>1, <1>3
<1>6. ASSUME NEW i \in 0 .. k - 1, i \in E PROVE i + 1 \in E
  <2>1. h[i + 1] = IF h[i].oks = 4 THEN h[i]
                   ELSE IF t[i + 1] = Bound[h[i].oks + 1] THEN [oks |-> h[i].oks + 1, end |-> i + 1]
                   ELSE [oks |-> 0, end |-> 0]
    <3>1. i + 1 \in 1 .. k /\ (i + 1) - 1 = i
      BY <1>1
    <3> QED
      BY <1>3, <3>1
  <2>2. CASE i >= n
    BY <1>1, <1>6, <2>1, <2>2
  <2>3. CASE i = n - 1
    <3>1. h[i].oks = 3 /\ t[i + 1] = LF
      BY <1>1, <1>6, <2>3 DEF EmptyLineAt
    <3> QED
      BY <1>1, <1>4, <2>1, <2>3, <3>1
  <2>4. CASE i = n - 2
    <3>1. h[i].oks = 2 /\ t[i + 1] = CR
      BY <1>1, <1>4, <1>6, <2>4 DEF EmptyLineAt
    <3> QED
      BY <1>1, <1>4, <2>1, <2>4, <3>1
  <2>5. CASE i < n - 2
    <3>1. /\ t[i + 1] = CR => i + 1 < n - 2
          /\ i > 0 /\ t[i] = CR => t[i + 1] = LF
          /\ i > 0 /\ t[i] = LF => t[i + 1] # CR
      BY <1>1, <2>5 DEF EmptyLineAt
    <3>2. h[i].oks = IF i = 0 THEN 0 ELSE IF t[i] = CR THEN 1 ELSE IF EndHere(i) THEN 2 ELSE 0
      BY <1>1, <1>6, <2>5
    <3>3. EndHere(i) => t[i] = LF /\ i > 0
      OBVIOUS
    <3>4. EndHere(i + 1) <=> i > 0 /\ t[i + 1] = LF /\ t[i] = CR
      BY <1>1
    <3>5. h[i + 1].oks = IF t[i + 1] = CR THEN 1 ELSE IF EndHere(i + 1) THEN 2 ELSE 0
      <4> HIDE DEF EndHere
      <4>1. CASE i = 0
        BY <1>4, <2>1, <3>1, <3>2, <3>4, <4>1
      <4>2. CASE i # 0 /\ t[i] = CR
        BY <1>1, <1>4, <2>1, <3>1, <3>2, <3>4, <4>2
      <4>3. CASE i # 0 /\ t[i] # CR
        BY <1>1, <1>4, <2>1, <3>1, <3>2, <3>3, <3>4, <4>3
      <4> QED
        BY <4>1, <4>2, <4>3
    <3> QED
      BY <1>1, <2>5, <3>5
  <2> QED
    BY <1>1, <2>2, <2>3, <2>4, <2>5
<1> HIDE DEF E
<1>7. k \in E
  <2>1. 0 .. k \subseteq E
    BY <1>1, <1>5, <1>6, UpTo
  <2> QED
    BY <1>1, <2>1
<1> QED
  BY <1>1, <1>2, <1>7 DEF E, k

(* Without the CR of its last line, the scan does not find the end of the  *)
(* header, and what it may find instead is further behind.                 *)
LEMMA HeadHidden ==
  ASSUME NEW t, NEW n, Hides(t, n), NEW raw \in Seq(Sign),
         \A i \in 1 .. Len(raw) : raw[i] = t[i]
  PROVE  FindHeadEnd(raw) = 0 \/ FindHeadEnd(raw) \in n .. Len(raw)
<1> DEFINE k == Len(raw)
<1>1. k \in Nat /\ n \in Nat /\ n > 3
  BY LenProperties DEF Hides
<1>2. PICK h : /\ Scans(h, raw)
               /\ FindHeadEnd(raw) = IF h[k].oks = 4 THEN h[k].end ELSE 0
  BY HeadFold
<1> HIDE DEF k
<1>3. /\ h \in [0 .. k -> Found]
      /\ h[0] = [oks |-> 0, end |-> 0]
      /\ \A i \in 1 .. k :
           h[i] = IF h[i - 1].oks = 4 THEN h[i - 1]
                  ELSE IF t[i] = Bound[h[i - 1].oks + 1] THEN [oks |-> h[i - 1].oks + 1, end |-> i]
                  ELSE [oks |-> 0, end |-> 0]
  BY <1>2 DEF Scans, k
<1>4. Bound[1] = CR /\ Bound[2] = LF /\ Bound[3] = CR /\ Bound[4] = LF /\ CR # LF
  BY DEF Bound, CR, LF
<1> DEFINE Quiet(i) == h[i].oks \in 0 .. 2 /\ (h[i].oks = 2 => i > 0 /\ t[i] = LF)
           Behind_(i) == h[i].oks = 4 => h[i].end \in n .. i
           E == { i \in Nat : /\ i < n - 3 => Quiet(i)
                              /\ i \in {n - 3, n - 2} => h[i].oks = 0
                              /\ i = n - 1 => h[i].oks = 1
                              /\ i = n => h[i].oks = 2
                              /\ i >= n => Behind_(i) }
<1>5. 0 \in E
  BY <1>1, <1>3
<1>6. ASSUME NEW i \in 0 .. k - 1, i \in E PROVE i + 1 \in E
  <2>1. h[i + 1] = IF h[i].oks = 4 THEN h[i]
                   ELSE IF t[i + 1] = Bound[h[i].oks + 1] THEN [oks |-> h[i].oks + 1, end |-> i + 1]
                   ELSE [oks |-> 0, end |-> 0]
    <3>1. i + 1 \in 1 .. k /\ (i + 1) - 1 = i
      BY <1>1
    <3> QED
      BY <1>3, <3>1
  <2>2. CASE i < n - 3
    <3>1. Quiet(i)
      BY <1>6, <2>2
    <3>2. h[i].oks = 2 => t[i + 1] # CR
      BY <1>1, <2>2, <3>1 DEF Hides
    <3>3. h[i].oks = 0 \/ h[i].oks = 1 \/ h[i].oks = 2
      BY <3>1
    <3>4. /\ h[i + 1].oks \in 0 .. 2
          /\ h[i + 1].oks = 2 => t[i + 1] = LF
          /\ t[i + 1] \notin {CR, LF} => h[i + 1].oks = 0
      BY <1>4, <2>1, <3>2, <3>3
    <3>5. i + 1 = n - 3 => h[i + 1].oks = 0
      BY <3>4 DEF Hides
    <3> QED
      BY <1>1, <2>2, <3>4, <3>5
  <2>3. CASE i = n - 3
    <3>1. h[i].oks = 0 /\ t[i + 1] = LF
      BY <1>1, <1>6, <2>3 DEF Hides
    <3> QED
      BY <1>1, <1>4, <2>1, <2>3, <3>1
  <2>4. CASE i = n - 2
    <3>1. h[i].oks = 0 /\ t[i + 1] = CR
      BY <1>1, <1>6, <2>4 DEF Hides
    <3> QED
      BY <1>1, <1>4, <2>1, <2>4, <3>1
  <2>5. CASE i = n - 1
    <3>1. h[i].oks = 1 /\ t[i + 1] = LF
      BY <1>1, <1>6, <2>5 DEF Hides
    <3> QED
      BY <1>1, <1>4, <2>1, <2>5, <3>1
  <2>6. CASE i >= n
    <3>1. Behind_(i)
      BY <1>6, <2>6
    <3>2. Behind_(i + 1)
      BY <1>1, <2>1, <2>6, <3>1
    <3> HIDE DEF Behind_
    <3> QED
      BY <1>1, <2>6, <3>2
  <2> QED
    BY <1>1, <2>2, <2>3, <2>4, <2>5, <2>6
<1> HIDE DEF E
<1>7. k \in E
  <2>1. 0 .. k \subseteq E
    BY <1>1, <1>5, <1>6, UpTo
  <2> QED
    BY <1>1, <2>1
<1>8. h[k].oks = 4 => h[k].end \in n .. k
  BY <1>1, <1>7 DEF E
<1> QED
  BY <1>2, <1>8 DEF k

(* What the byte in place of a CR makes of the end of the header.          *)
Semicolon == ";"

LEMMA SemicolonIs == Semicolon \in Letter /\ Semicolon \in Sign /\ Semicolon # CR /\ Semicolon # LF
<1>1. Semicolon \in Letter
  BY Zenon DEF Semicolon, Letter, Words, CR, LF, Length
<1> QED
  BY <1>1 DEF Letter, Sign

(* In place of the CR of an earlier line it changes nothing, in place of   *)
(* the last it hides the end.                                              *)
LEMMA MarkedEnd ==
  ASSUME NEW t \in Seq(Sign), NEW n, EmptyLineAt(t, n), n <= Len(t), NEW e \in 1 .. n - 3, t[e] = CR,
         NEW u, u = [t EXCEPT ![e] = Semicolon]
  PROVE  (e < n - 3 => EmptyLineAt(u, n)) /\ (e = n - 3 => Hides(u, n))
<1>1. n \in Nat /\ n > 3 /\ Len(t) \in Nat /\ DOMAIN t = 1 .. Len(t)
  BY LenProperties DEF EmptyLineAt
<1>2. PICK c : c = Semicolon
  OBVIOUS
<1>3. c # CR /\ c # LF /\ CR # LF
  BY <1>2, SemicolonIs DEF CR, LF
<1>4. \A i \in 1 .. n : u[i] = IF i = e THEN c ELSE t[i]
  BY <1>1, <1>2
<1>5. /\ t[n - 3] = CR /\ t[n - 2] = LF /\ t[n - 1] = CR /\ t[n] = LF
      /\ \A i \in 1 .. n - 2 : /\ t[i] = CR => i < n - 2 /\ t[i + 1] = LF
                               /\ t[i] = LF => (i < n - 2 => t[i + 1] # CR)
  BY DEF EmptyLineAt
<1>6. /\ u[n - 2] = LF /\ u[n - 1] = CR /\ u[n] = LF
      /\ (e < n - 3 => u[n - 3] = CR) /\ (e = n - 3 => u[n - 3] \notin {CR, LF})
  BY <1>1, <1>3, <1>4, <1>5
<1>7. ASSUME NEW i \in 1 .. n - 2
      PROVE  /\ u[i] = CR => i < n - 2 /\ u[i + 1] = LF
             /\ u[i] = LF => (i < n - 2 => u[i + 1] # CR)
  <2>1. u[i] = (IF i = e THEN c ELSE t[i]) /\ u[i + 1] = (IF i + 1 = e THEN c ELSE t[i + 1])
    BY <1>1, <1>4
  <2>2. /\ t[i] = CR => i < n - 2 /\ t[i + 1] = LF
        /\ t[i] = LF => (i < n - 2 => t[i + 1] # CR)
    BY <1>5
  <2> QED
    BY <1>3, <2>1, <2>2
<1>8. e < n - 3 => EmptyLineAt(u, n)
  BY <1>1, <1>6, <1>7 DEF EmptyLineAt
<1>9. \A i \in 1 .. n - 3 : u[i] = LF => u[i + 1] # CR
  BY <1>1, <1>7
<1> QED
  BY <1>1, <1>6, <1>8, <1>9 DEF Hides

-----------------------------------------------------------------------------
(* What clients write between the ends of lines.                           *)
LEMMA EscapedLetters == ASSUME NEW c \in Letter PROVE Escaped(c) \in Seq(Letter)
<1>1. /\ DOMAIN Code = {" ", "%", "&", "+", ";", "="}
      /\ Code[" "] = 32 /\ Code["%"] = 37 /\ Code["&"] = 38
      /\ Code["+"] = 43 /\ Code[";"] = 59 /\ Code["="] = 61
  BY DEF Code
<1>2. /\ Hex[3] = "2" /\ Hex[4] = "3" /\ Hex[6] = "5" /\ Hex[7] = "6"
      /\ Hex[12] = "B" /\ Hex[14] = "D"
  BY DEF Hex
<1>3. /\ "%" \in Letter /\ "+" \in Letter /\ "2" \in Letter /\ "3" \in Letter /\ "5" \in Letter
      /\ "6" \in Letter /\ "B" \in Letter /\ "D" \in Letter
  BY DEF Letter, Words, Digits, CR, LF, Length
<1>4. CASE c = " "
  <2>1. Escaped(c) = <<"+">>
    BY <1>4, Zenon DEF Escaped
  <2> QED
    BY <1>3, <2>1
<1>5. CASE c \in DOMAIN Code \ {" "}
  <2>1. Escaped(c) = <<"%", Hex[Code[c] \div 16 + 1], Hex[(Code[c] % 16) + 1]>>
    BY <1>5, Zenon DEF Escaped
  <2>2. Code[c] \in {37, 38, 43, 59, 61}
    BY <1>1, <1>5
  <2>3. \A n \in {37, 38, 43, 59, 61} : (n \div 16) + 1 \in {3, 4} /\ (n % 16) + 1 \in {6, 7, 12, 14}
    OBVIOUS
  <2>4. Hex[Code[c] \div 16 + 1] \in Letter /\ Hex[(Code[c] % 16) + 1] \in Letter
    <3> DEFINE x == Code[c] \div 16 + 1
               y == (Code[c] % 16) + 1
    <3>1. x \in {3, 4} /\ y \in {6, 7, 12, 14}
      BY <2>2, <2>3
    <3> HIDE DEF x, y
    <3>2. Hex[x] \in Letter /\ Hex[y] \in Letter
      BY <1>2, <1>3, <3>1
    <3> QED
      BY <3>2 DEF x, y
  <2> QED
    BY <1>3, <2>1, <2>4
<1>6. CASE c # " " /\ c \notin DOMAIN Code
  <2>1. Escaped(c) = <<c>>
    BY <1>6, Zenon DEF Escaped
  <2> QED
    BY <2>1
<1> QED
  BY <1>4, <1>5, <1>6

(* A function of the first n numbers is a sequence of length n.            *)
LEMMA FunctionIsSeq ==
  ASSUME NEW n \in Nat, NEW S, NEW f \in [1 .. n -> S] PROVE f \in Seq(S) /\ Len(f) = n
OBVIOUS

(* An encoded value is written in letters alone.                           *)
LEMMA EncodedLetters == ASSUME NEW v \in Seq(Letter) PROVE Encoded(v) \in Seq(Letter)
<1> DEFINE f == [i \in DOMAIN v |-> Escaped(v[i])]
<1>1. Len(v) \in Nat /\ DOMAIN v = 1 .. Len(v) /\ \A i \in 1 .. Len(v) : v[i] \in Letter
  BY LenProperties, ElementOfSeq
<1>2. f \in [1 .. Len(v) -> Seq(Letter)]
  BY <1>1, EscapedLetters
<1>3. f \in Seq(Seq(Letter))
  BY <1>1, <1>2
<1> HIDE DEF f
<1>4. FlattenSeq(f) \in Seq(Letter)
  BY <1>3, FlattenType
<1> QED
  BY <1>4 DEF Encoded, f

(* A list of parameters is written in letters alone.                       *)
LEMMA PairsLetters ==
  ASSUME NEW prm \in Seq(Letter \X Seq(Letter)), NEW between \in Seq(Letter)
  PROVE  Pairs(prm, between) \in Seq(Letter)
<1> DEFINE Piece(i) == ((IF i = 1 THEN <<>> ELSE between) \o <<prm[i][1], "=">>) \o Encoded(prm[i][2])
           f == [i \in DOMAIN prm |-> Piece(i)]
<1>1. Len(prm) \in Nat /\ DOMAIN prm = 1 .. Len(prm)
  BY LenProperties
<1>2. ASSUME NEW i \in 1 .. Len(prm) PROVE Piece(i) \in Seq(Letter)
  <2>1. prm[i] \in Letter \X Seq(Letter)
    BY ElementOfSeq
  <2>2. prm[i][1] \in Letter /\ prm[i][2] \in Seq(Letter)
    BY <2>1
  <2>3. "=" \in Letter
    BY DEF Letter, Words, CR, LF, Length
  <2>4. /\ (IF i = 1 THEN <<>> ELSE between) \in Seq(Letter)
        /\ <<prm[i][1], "=">> \in Seq(Letter) /\ Encoded(prm[i][2]) \in Seq(Letter)
    BY <2>2, <2>3, EmptySeq, EncodedLetters
  <2> QED
    BY <2>4, ConcatProperties
<1>3. f \in [1 .. Len(prm) -> Seq(Letter)]
  <2> HIDE DEF Piece
  <2> QED
    BY <1>1, <1>2
<1>4. f \in Seq(Seq(Letter))
  <2> HIDE DEF f, Piece
  <2> QED
    BY <1>1, <1>3, FunctionIsSeq
<1>5. FlattenSeq(f) \in Seq(Letter)
  <2> HIDE DEF f
  <2> QED
    BY <1>4, FlattenType
<1> QED
  BY <1>5, Zenon DEF Pairs

(* The lines of a header before the Content-Length, and behind it.         *)
FirstLine(r) ==
  <<IF r.post THEN "POST" ELSE "GET", " ">> \o r.url
    \o (IF r.get = <<>> THEN <<>> ELSE <<"?">> \o Pairs(r.get, <<"&">>)) \o <<" ", "HTTP/1.1">>

UpgradeLines(r) ==
  IF r.key = "" THEN <<>>
  ELSE <<"upgrade:", " ", "websocket">> \o CRLF \o <<"sec-websocket-key:", " ", r.key>> \o CRLF

TypeLine(r) ==
  IF r.parts = <<>> THEN <<>>
  ELSE <<"content-type:", " ", "multipart/form-data;", " ", "boundary=">> \o Boundary \o CRLF

Before(r) ==
  FirstLine(r) \o CRLF \o Field(<<"host:", " ">>, r.host)
    \o Field(<<"cookie:", " ">>, Pairs(r.cookies, <<";", " ">>)) \o UpgradeLines(r) \o TypeLine(r)

CloseLine(r) == IF r.close THEN <<"connection:", " ", "close">> \o CRLF ELSE <<>>

(* A header is what stands before its length, the length, what stands      *)
(* behind it, and an empty line.                                           *)
LEMMA HeaderShape ==
  ASSUME NEW r PROVE Header(r) = ((Before(r) \o Field(<<Length>>, r.digits)) \o CloseLine(r)) \o CRLF
BY Zenon DEF Header, Before, FirstLine, UpgradeLines, TypeLine, CloseLine

(* Lines that hold no Content-Length.                                      *)
Free(s) == Lines(s) /\ s \in Seq(Sign \ {Length})

(* A line of letters says nothing about a length.                          *)
LEMMA FreeLine == ASSUME NEW p \in Seq(Letter), p # <<>> PROVE Free(p \o CRLF)
<1>1. p \in Seq(Sign \ {CR, LF}) /\ p \in Seq(Sign \ {Length})
  <2>1. Letter \subseteq Sign \ {CR, LF} /\ Letter \subseteq Sign \ {Length}
    BY DEF Letter, Sign
  <2> QED
    BY <2>1, SeqMonotonic
<1> QED
  BY <1>1, OneLine, CrlfType, ConcatProperties DEF Free

(* Texts that say nothing about a length say nothing when joined.          *)
LEMMA FreeConcat ==
  ASSUME NEW s, NEW t, Free(s), Free(t) PROVE Free(s \o t) /\ (s # <<>> => s \o t # <<>>)
<1>1. Free(s \o t)
  BY LineConcat, ConcatProperties DEF Free
<1>2. s # <<>> => s \o t # <<>>
  BY ConcatEqualIffEmpty DEF Free
<1> QED
  BY <1>1, <1>2

(* The empty text says nothing about a length.                             *)
LEMMA FreeEmpty == Free(<<>>)
BY EmptySeq DEF Free, Lines

(* A field of letters says nothing about a length.                         *)
LEMMA FreeField ==
  ASSUME NEW name \in Seq(Letter), NEW value \in Seq(Letter)
  PROVE  Free(Field(name, value))
<1>1. CASE value = <<>>
  BY <1>1, FreeEmpty DEF Field
<1>2. CASE value # <<>>
  <2>1. name \o value \in Seq(Letter) /\ name \o value # <<>>
    BY <1>2, ConcatProperties, ConcatEqualIffEmpty
  <2> QED
    BY <1>2, <2>1, FreeLine DEF Field
<1> QED
  BY <1>1, <1>2

(* Short tuples are sequences that are not empty.                          *)
LEMMA Tuples ==
  ASSUME NEW S
  PROVE  /\ \A a \in S : <<a>> \in Seq(S) /\ <<a>> # <<>>
         /\ \A a \in S, b \in S : <<a, b>> \in Seq(S) /\ <<a, b>> # <<>>
         /\ \A a \in S, b \in S, c \in S : <<a, b, c>> \in Seq(S) /\ <<a, b, c>> # <<>>
         /\ \A a \in S, b \in S, c \in S, d \in S, e \in S :
              <<a, b, c, d, e>> \in Seq(S) /\ <<a, b, c, d, e>> # <<>>
OBVIOUS

(* What stands before the length field, line by line, holds no length.     *)
LEMMA LinesFree ==
  ASSUME NEW r, Proper(r)
  PROVE  /\ Free(FirstLine(r) \o CRLF) /\ FirstLine(r) \o CRLF # <<>>
         /\ Free(Field(<<"host:", " ">>, r.host))
         /\ Free(Field(<<"cookie:", " ">>, Pairs(r.cookies, <<";", " ">>)))
         /\ Free(UpgradeLines(r)) /\ Free(TypeLine(r))
<1>1. /\ r.url \in Seq(Letter) /\ r.host \in Seq(Letter) /\ r.key \in Letter
      /\ r.get \in Seq(Letter \X Seq(Letter)) /\ r.cookies \in Seq(Letter \X Seq(Letter))
  <2>1. Plain \subseteq Letter
    BY DEF Plain, Letter
  <2>2. Seq(Plain) \subseteq Seq(Letter)
    BY <2>1, SeqMonotonic
  <2>3. Plain \X Seq(Plain) \subseteq Letter \X Seq(Letter)
    BY <2>1, <2>2
  <2>4. Seq(Plain \X Seq(Plain)) \subseteq Seq(Letter \X Seq(Letter))
    BY <2>3, SeqMonotonic
  <2> QED
    BY <2>1, <2>2, <2>4 DEF Proper
<1>2. /\ "host:" \in Letter /\ "cookie:" \in Letter /\ " " \in Letter /\ ";" \in Letter /\ "&" \in Letter
      /\ "?" \in Letter /\ "upgrade:" \in Letter /\ "websocket" \in Letter
      /\ "sec-websocket-key:" \in Letter /\ "content-type:" \in Letter /\ "multipart/form-data;" \in Letter
      /\ "boundary=" \in Letter /\ "B" \in Letter /\ "C" \in Letter /\ "POST" \in Letter /\ "GET" \in Letter
      /\ "HTTP/1.1" \in Letter
  BY DEF Letter, Words, CR, LF, Length
<1>3. FirstLine(r) \in Seq(Letter) /\ FirstLine(r) # <<>>
  <2> DEFINE a == <<IF r.post THEN "POST" ELSE "GET", " ">>
             b == IF r.get = <<>> THEN <<>> ELSE <<"?">> \o Pairs(r.get, <<"&">>)
             c == <<" ", "HTTP/1.1">>
  <2>1. a \in Seq(Letter) /\ c \in Seq(Letter) /\ c # <<>>
    <3>1. /\ (IF r.post THEN "POST" ELSE "GET") \in Letter /\ " " \in Letter /\ "HTTP/1.1" \in Letter
      BY <1>2
    <3> QED
      BY <3>1, Tuples
  <2>2. b \in Seq(Letter)
    <3>1. <<"&">> \in Seq(Letter) /\ <<"?">> \in Seq(Letter)
      BY <1>2, Tuples
    <3>2. Pairs(r.get, <<"&">>) \in Seq(Letter)
      BY <1>1, <3>1, PairsLetters
    <3> QED
      BY <3>1, <3>2, ConcatProperties, EmptySeq
  <2> HIDE DEF a, b, c
  <2>3. a \o r.url \in Seq(Letter)
    BY <1>1, <2>1, ConcatProperties
  <2>4. (a \o r.url) \o b \in Seq(Letter)
    BY <2>2, <2>3, ConcatProperties
  <2>5. ((a \o r.url) \o b) \o c \in Seq(Letter) /\ ((a \o r.url) \o b) \o c # <<>>
    BY <2>1, <2>4, ConcatProperties, ConcatEqualIffEmpty
  <2> QED
    BY <2>5 DEF FirstLine, a, b, c
<1>4. Free(FirstLine(r) \o CRLF)
  BY <1>3, FreeLine
<1>5. Free(Field(<<"host:", " ">>, r.host))
  <2>1. <<"host:", " ">> \in Seq(Letter)
    BY <1>2, Tuples
  <2> QED
    BY <1>1, <2>1, FreeField
<1>6. Free(Field(<<"cookie:", " ">>, Pairs(r.cookies, <<";", " ">>)))
  <2>1. <<"cookie:", " ">> \in Seq(Letter) /\ <<";", " ">> \in Seq(Letter)
    BY <1>2, Tuples
  <2> QED
    BY <1>1, <2>1, FreeField, PairsLetters
<1>7. Free(UpgradeLines(r))
  <2>1. CASE r.key = ""
    BY <2>1, FreeEmpty DEF UpgradeLines
  <2>2. CASE r.key # ""
    <3> DEFINE p == <<"upgrade:", " ", "websocket">>
               q == <<"sec-websocket-key:", " ", r.key>>
    <3>1. p \in Seq(Letter) /\ q \in Seq(Letter) /\ p # <<>> /\ q # <<>>
      <4>1. p \in Seq(Letter) /\ p # <<>>
        BY <1>2, Tuples
      <4>2. q \in Seq(Letter) /\ q # <<>>
        BY <1>1, <1>2, Tuples
      <4> QED
        BY <4>1, <4>2
    <3>2. UpgradeLines(r) = ((p \o CRLF) \o q) \o CRLF
      BY <2>2 DEF UpgradeLines
    <3> HIDE DEF p, q
    <3>3. Free((p \o CRLF) \o (q \o CRLF))
      BY <3>1, FreeLine, FreeConcat
    <3>4. p \o CRLF \in Seq(Sign) /\ q \in Seq(Sign) /\ CRLF \in Seq(Sign)
      <4>1. Letter \in SUBSET Sign /\ Sign \ {Length} \in SUBSET Sign
        BY DEF Sign
      <4>2. p \in Seq(Sign) /\ q \in Seq(Sign) /\ CRLF \in Seq(Sign)
        BY <3>1, <4>1, CrlfType, Wider
      <4> QED
        BY <4>2, ConcatProperties
    <3>5. ((p \o CRLF) \o q) \o CRLF = (p \o CRLF) \o (q \o CRLF)
      BY <3>4, ConcatAssociative
    <3> QED
      BY <3>2, <3>3, <3>5
  <2> QED
    BY <2>1, <2>2
<1>8. Free(TypeLine(r))
  <2>1. CASE r.parts = <<>>
    BY <2>1, FreeEmpty DEF TypeLine
  <2>2. CASE r.parts # <<>>
    <3> DEFINE p == <<"content-type:", " ", "multipart/form-data;", " ", "boundary=">>
    <3>1. p \in Seq(Letter) /\ p # <<>> /\ Boundary \in Seq(Letter)
      BY <1>2, Tuples DEF Boundary
    <3>2. TypeLine(r) = (p \o Boundary) \o CRLF
      BY <2>2 DEF TypeLine
    <3> HIDE DEF p
    <3>3. p \o Boundary \in Seq(Letter) /\ p \o Boundary # <<>>
      BY <3>1, ConcatProperties, ConcatEqualIffEmpty
    <3> QED
      BY <3>2, <3>3, FreeLine
  <2> QED
    BY <2>1, <2>2
<1>9. FirstLine(r) \o CRLF # <<>>
  <2>1. FirstLine(r) \in Seq(Sign) /\ CRLF \in Seq(Sign)
    <3>1. Letter \in SUBSET Sign /\ Sign \ {Length} \in SUBSET Sign
      BY DEF Sign
    <3> QED
      BY <1>3, <3>1, CrlfType, Wider
  <2> QED
    BY <1>3, <2>1, ConcatEqualIffEmpty
<1> QED
  BY <1>4, <1>5, <1>6, <1>7, <1>8, <1>9

(* Nor does what stands behind it.                                         *)
LEMMA CloseFree ==
  ASSUME NEW r PROVE Free(CloseLine(r)) /\ (r.close => Len(CloseLine(r)) > 0) /\ (~r.close => CloseLine(r) = <<>>)
<1>1. CASE ~r.close
  BY <1>1, FreeEmpty DEF CloseLine
<1>2. CASE r.close
  <2>1. "connection:" \in Letter /\ " " \in Letter /\ "close" \in Letter
    BY DEF Letter, Words, CR, LF, Length
  <2>2. PICK p : p = <<"connection:", " ", "close">>
    OBVIOUS
  <2>3. p \in Seq(Letter) /\ p # <<>>
    BY <2>1, <2>2, Tuples
  <2>4. CloseLine(r) = p \o CRLF
    BY <1>2, <2>2 DEF CloseLine
  <2>5. Free(p \o CRLF)
    BY <2>3, FreeLine
  <2>6. Len(p \o CRLF) > 0
    <3>1. p \in Seq(Sign) /\ CRLF \in Seq(Sign)
      <4>1. Letter \in SUBSET Sign /\ Sign \ {Length} \in SUBSET Sign
        BY DEF Sign
      <4> QED
        BY <2>3, <4>1, CrlfType, Wider
    <3>2. Len(p \o CRLF) = Len(p) + 2 /\ Len(p) \in Nat
      BY <3>1, CrlfType, ConcatProperties, LenProperties
    <3> QED
      BY <3>2
  <2> QED
    BY <1>2, <2>4, <2>5, <2>6
<1> QED
  BY <1>1, <1>2

(* So it does as a whole.                                                  *)
LEMMA BeforeFree ==
  ASSUME NEW r, Proper(r) PROVE Free(Before(r)) /\ Before(r) # <<>>
<1> DEFINE a == FirstLine(r) \o CRLF
           b == Field(<<"host:", " ">>, r.host)
           c == Field(<<"cookie:", " ">>, Pairs(r.cookies, <<";", " ">>))
           d == UpgradeLines(r)
           e == TypeLine(r)
<1>9. Before(r) = (((a \o b) \o c) \o d) \o e
  BY Zenon DEF Before
<1>10. /\ Free(a) /\ Free(b) /\ Free(c) /\ Free(d) /\ Free(e)
       /\ a # <<>>
  BY LinesFree, Zenon
<1> HIDE DEF a, b, c, d, e
<1>11. Free(a \o b) /\ a \o b # <<>>
  BY <1>10, FreeConcat
<1>12. Free((a \o b) \o c) /\ (a \o b) \o c # <<>>
  BY <1>10, <1>11, FreeConcat
<1>13. Free(((a \o b) \o c) \o d) /\ ((a \o b) \o c) \o d # <<>>
  BY <1>10, <1>12, FreeConcat
<1> QED
  BY <1>9, <1>10, <1>13, FreeConcat

(* An empty line behind the lines is where the header ends.                *)
LEMMA EndOfLines ==
  ASSUME NEW s, Lines(s), s # <<>>, NEW t \in Seq(Sign)
  PROVE  EmptyLineAt((s \o CRLF) \o t, Len(s) + 2)
<1> DEFINE u == (s \o CRLF) \o t
<1>1. s \in Seq(Sign) /\ CRLF \in Seq(Sign) /\ Len(CRLF) = 2 /\ CRLF[1] = CR /\ CRLF[2] = LF
  BY CrlfType, SeqMonotonic DEF Lines
<1>2. Len(s) \in Nat /\ Len(s) > 0
  BY <1>1, LenProperties, EmptySeq
<1>3. /\ s \o CRLF \in Seq(Sign) /\ Len(s \o CRLF) = Len(s) + 2
      /\ \A i \in 1 .. Len(s) + 2 : (s \o CRLF)[i] = IF i <= Len(s) THEN s[i] ELSE CRLF[i - Len(s)]
  <2>1. /\ s \o CRLF \in Seq(Sign) /\ Len(s \o CRLF) = Len(s) + Len(CRLF)
        /\ \A i \in 1 .. Len(s) + Len(CRLF) :
             (s \o CRLF)[i] = IF i <= Len(s) THEN s[i] ELSE CRLF[i - Len(s)]
    BY <1>1, ConcatProperties
  <2> QED
    BY <1>1, <2>1
<1>4. Len(t) \in Nat
  BY LenProperties
<1>5. \A i \in 1 .. Len(s) + 2 : u[i] = (s \o CRLF)[i]
  <2>1. \A i \in 1 .. Len(s \o CRLF) + Len(t) :
           u[i] = IF i <= Len(s \o CRLF) THEN (s \o CRLF)[i] ELSE t[i - Len(s \o CRLF)]
    BY <1>3, ConcatProperties
  <2> HIDE DEF u
  <2> QED
    BY <1>2, <1>3, <1>4, <2>1
<1> HIDE DEF u
<1>6. \A i \in 1 .. Len(s) : u[i] = s[i]
  BY <1>2, <1>3, <1>5
<1>7. u[Len(s) + 1] = CR /\ u[Len(s) + 2] = LF
  <2>1. /\ Len(s) + 1 \in 1 .. Len(s) + 2 /\ ~(Len(s) + 1 <= Len(s)) /\ Len(s) + 1 - Len(s) = 1
        /\ Len(s) + 2 \in 1 .. Len(s) + 2 /\ ~(Len(s) + 2 <= Len(s)) /\ Len(s) + 2 - Len(s) = 2
    BY <1>2
  <2>2. PICK v : v = s \o CRLF
    OBVIOUS
  <2>3. PICK n \in Nat : n = Len(s)
    BY <1>2
  <2>4. \A i \in 1 .. n + 2 : v[i] = IF i <= n THEN s[i] ELSE CRLF[i - n]
    BY <1>3, <2>2, <2>3, Zenon
  <2>5. v[n + 1] = CRLF[1] /\ v[n + 2] = CRLF[2]
    BY <2>4
  <2> QED
    BY <1>1, <1>5, <2>1, <2>2, <2>3, <2>5, Zenon
<1>8. u[Len(s)] = LF /\ Len(s) > 1 /\ u[Len(s) - 1] = CR
  <2>1. Len(s) \in 1 .. Len(s) /\ s[Len(s)] = LF
    BY <1>2 DEF Lines
  <2>2. Len(s) > 1 /\ s[Len(s) - 1] = CR
    BY <2>1 DEF Lines
  <2> QED
    BY <1>2, <1>6, <2>1, <2>2
<1>9. ASSUME NEW i \in 1 .. Len(s)
      PROVE  /\ u[i] = CR => i < Len(s) /\ u[i + 1] = LF
             /\ u[i] = LF => i > 1 /\ u[i - 1] = CR /\ (i < Len(s) => u[i + 1] # CR)
  <2>1. /\ s[i] = CR => i < Len(s) /\ s[i + 1] = LF
        /\ s[i] = LF => i > 1 /\ s[i - 1] = CR /\ (i < Len(s) => s[i + 1] # CR)
    BY DEF Lines
  <2>2. u[i] = s[i] /\ (i < Len(s) => u[i + 1] = s[i + 1]) /\ (i > 1 => u[i - 1] = s[i - 1])
    BY <1>2, <1>6
  <2> QED
    BY <2>1, <2>2
<1>10. /\ (Len(s) + 2) - 3 = Len(s) - 1 /\ (Len(s) + 2) - 2 = Len(s) /\ (Len(s) + 2) - 1 = Len(s) + 1
       /\ Len(s) + 2 \in Nat /\ Len(s) + 2 > 3
  BY <1>2, <1>8
<1>11. EmptyLineAt(u, Len(s) + 2)
  BY <1>7, <1>8, <1>9, <1>10 DEF EmptyLineAt
<1> QED
  BY <1>11 DEF u

-----------------------------------------------------------------------------
(* Decimal digits.                                                         *)
LEMMA HexShape ==
  /\ Hex \in Seq(Letter) /\ Len(Hex) = 16
  /\ Hex[1] = "0" /\ Hex[2] = "1" /\ Hex[3] = "2" /\ Hex[4] = "3" /\ Hex[5] = "4" /\ Hex[6] = "5"
  /\ Hex[7] = "6" /\ Hex[8] = "7" /\ Hex[9] = "8" /\ Hex[10] = "9" /\ Hex[11] = "A" /\ Hex[12] = "B"
  /\ Hex[13] = "C" /\ Hex[14] = "D" /\ Hex[15] = "E" /\ Hex[16] = "F"
<1>1. /\ Len(Hex) = 16
      /\ Hex[1] = "0" /\ Hex[2] = "1" /\ Hex[3] = "2" /\ Hex[4] = "3" /\ Hex[5] = "4" /\ Hex[6] = "5"
      /\ Hex[7] = "6" /\ Hex[8] = "7" /\ Hex[9] = "8" /\ Hex[10] = "9" /\ Hex[11] = "A" /\ Hex[12] = "B"
      /\ Hex[13] = "C" /\ Hex[14] = "D" /\ Hex[15] = "E" /\ Hex[16] = "F"
  BY DEF Hex
<1>2. Hex \in Seq(Letter)
  <2>1. /\ "0" \in Letter /\ "1" \in Letter /\ "2" \in Letter /\ "3" \in Letter /\ "4" \in Letter
        /\ "5" \in Letter /\ "6" \in Letter /\ "7" \in Letter /\ "8" \in Letter /\ "9" \in Letter
        /\ "A" \in Letter /\ "B" \in Letter /\ "C" \in Letter /\ "D" \in Letter /\ "E" \in Letter
        /\ "F" \in Letter
    BY DEF Letter, Words, Digits, CR, LF, Length
  <2> QED
    BY <2>1 DEF Hex
<1> QED
  BY <1>1, <1>2

Decimals == { Decimal[i] : i \in DOMAIN Decimal }

(* The ten digits are the first ten of the hexadecimal ones.               *)
LEMMA DecimalShape ==
  /\ DOMAIN Decimal = 1 .. 10
  /\ \A i \in 1 .. 10 : Decimal[i] = Hex[i]
  /\ Decimals \subseteq Letter
<1>1. \A i \in 1 .. 10 : Hex[i] \in Letter
  <2> TAKE i \in 1 .. 10
  <2>1. Hex \in Seq(Letter) /\ i \in 1 .. Len(Hex)
    BY HexShape
  <2> QED
    BY <2>1, ElementOfSeq
<1>2. /\ Decimal \in Seq(Letter) /\ Len(Decimal) = 10
      /\ \A i \in 1 .. 10 : Decimal[i] = Hex[i]
  BY <1>1, SubSeqProperties DEF Decimal
<1>3. DOMAIN Decimal = 1 .. 10
  BY <1>2, LenProperties
<1> QED
  BY <1>1, <1>2, <1>3 DEF Decimals

(* The value of a digit is below its base.                                 *)
LEMMA DigitValue ==
  ASSUME NEW c, NEW k \in 1 .. 16, Hex[k] = c
  PROVE  isxdigit(c) /\ Digit(c) \in 0 .. k - 1
<1> DEFINE I == { i \in 1 .. Len(Hex) : Hex[i] = c }
<1>1. k \in I /\ I \in SUBSET Nat
  BY HexShape
<1>2. Digit(c) = Min(I) - 1
  <2>1. Digit(c) = (IF I # {} THEN Min(I) ELSE 0) - 1
    BY Zenon DEF Digit, SelectInSeq
  <2> HIDE DEF I
  <2> QED
    BY <1>1, <2>1
<1>3. Min(I) \in I /\ Min(I) <= k
  <2> HIDE DEF I
  <2> QED
    BY <1>1, MinOf
<1>4. isxdigit(c)
  BY HexShape DEF isxdigit, Contains
<1> QED
  BY <1>2, <1>3, <1>4

(* A decimal digit is one to isdigit, and its value is below ten.          *)
LEMMA DecimalDigit == ASSUME NEW c \in Decimals PROVE isdigit(c) /\ Digit(c) \in 0 .. 9
<1>1. PICK k \in 1 .. 10 : c = Hex[k]
  BY DecimalShape DEF Decimals
<1>2. isxdigit(c) /\ Digit(c) \in 0 .. k - 1
  BY <1>1, DigitValue
<1> QED
  BY <1>2 DEF isdigit

(* A line end stops atoi.                                                  *)
LEMMA NoDigit == ~isdigit(CR)
<1>1. \A i \in 1 .. 16 : Hex[i] # CR
  <2>1. \A i \in 1 .. 16 : i = 1 \/ i = 2 \/ i = 3 \/ i = 4 \/ i = 5 \/ i = 6 \/ i = 7 \/ i = 8
                          \/ i = 9 \/ i = 10 \/ i = 11 \/ i = 12 \/ i = 13 \/ i = 14 \/ i = 15 \/ i = 16
    OBVIOUS
  <2> QED
    BY <2>1, HexShape DEF CR
<1> QED
  BY <1>1, HexShape DEF isdigit, isxdigit, Contains

(* Where a text t says how long its body is: the one Content-Length is at  *)
(* p, with the digits d behind it.                                         *)
LengthAt(t, p, d) ==
  /\ p \in Nat \ {0} /\ d \in Seq(Decimals)
  /\ \A i \in 1 .. p - 1 : t[i] # Length
  /\ t[p] = Length
  /\ \A i \in 1 .. Len(d) : t[p + i] = d[i]
  /\ t[p + Len(d) + 1] = CR

(* Of a number that has arrived with the end of its line, or of up to two  *)
(* digits, LengthDigits sees all or nothing, and where it is.              *)
LEMMA DigitsRead ==
  ASSUME NEW t, NEW p, NEW d, LengthAt(t, p, d), d # <<>>, NEW raw \in Seq(Sign),
         \A i \in 1 .. Len(raw) : raw[i] = t[i]
  PROVE  /\ Len(raw) < p + 2 => LengthDigits(raw) = <<>>
         /\ Len(raw) >= p + 2 /\ Len(raw) >= p + Len(d) => LengthDigits(raw) = d
         /\ Len(raw) >= p => LengthPos(raw) = p
<1> DEFINE k == Len(raw)
           m == Len(d)
           I == { i \in 1 .. k : raw[i] = Length }
           pos == IF I # {} THEN Min(I) ELSE 0
           J(n) == { i \in n + 1 .. k : ~isdigit(raw[i]) }
           end(n) == IF J(n) # {} THEN Min(J(n)) ELSE 0
           Until(n) == IF end(n) = 0 THEN k ELSE end(n) - 1
<1>1. k \in Nat /\ m \in Nat /\ m > 0 /\ p \in Nat /\ p > 0
  BY LenProperties, EmptySeq DEF LengthAt
<1>2. LengthDigits(raw) = IF pos = 0 \/ pos + 2 > k THEN <<>>
                          ELSE SubSeq(raw, pos + 1, Until(pos))
  BY Zenon DEF LengthDigits, LengthPos, SelectInSeq, SelectInSubSeq
<1>a. LengthPos(raw) = pos
  BY Zenon DEF LengthPos, SelectInSeq
<1> HIDE DEF k, m
<1>3. \A i \in 1 .. k : raw[i] = t[i]
  BY DEF k
<1>4. /\ \A i \in 1 .. p - 1 : t[i] # Length
      /\ t[p] = Length /\ t[p + m + 1] = CR
      /\ \A i \in 1 .. m : t[p + i] = d[i] /\ isdigit(d[i])
  <2>1. \A i \in 1 .. m : d[i] \in Decimals
    BY <1>1, ElementOfSeq DEF LengthAt, m
  <2> QED
    BY <2>1, DecimalDigit DEF LengthAt, m
<1>5. pos = IF k < p THEN 0 ELSE p
  <2>1. CASE k < p
    <3>1. I = {}
      BY <1>1, <1>3, <1>4, <2>1
    <3> QED
      BY <2>1, <3>1
  <2>2. CASE k >= p
    <3>1. p \in I /\ I \in SUBSET Nat /\ \A i \in I : i >= p
      BY <1>1, <1>3, <1>4, <2>2
    <3> HIDE DEF I
    <3>2. Min(I) \in I /\ Min(I) <= p
      BY <3>1, MinOf
    <3>3. Min(I) = p
      <4>1. \A i \in I : i <= p => i = p
        <5> TAKE i \in I
        <5>1. i \in Nat /\ i >= p
          BY <3>1
        <5> QED
          BY <1>1, <5>1
      <4> QED
        BY <3>2, <4>1
    <3>4. pos = p
      BY <3>1, <3>3
    <3>5. ~(k < p)
      BY <1>1, <2>2
    <3> HIDE DEF pos
    <3> QED
      BY <3>4, <3>5
  <2> QED
    BY <1>1, <2>1, <2>2
<1> HIDE DEF pos, Until
<1>6. k < p + 2 => LengthDigits(raw) = <<>>
  BY <1>1, <1>2, <1>5
<1>7. ASSUME k >= p + 2, k >= p + m PROVE LengthDigits(raw) = d
  <2>1. LengthDigits(raw) = SubSeq(raw, p + 1, Until(p))
    <3>1. pos = p /\ p # 0 /\ ~(p + 2 > k)
      BY <1>1, <1>5, <1>7
    <3> QED
      BY <1>2, <3>1
  <2>2. \A i \in p + 1 .. p + m : isdigit(raw[i]) /\ raw[i] = d[i - p]
    <3> TAKE i \in p + 1 .. p + m
    <3>1. i - p \in 1 .. m /\ i \in 1 .. k /\ p + (i - p) = i
      BY <1>1, <1>7
    <3> QED
      BY <1>3, <1>4, <3>1
  <2>3. Until(p) = p + m
    <3> USE DEF Until
    <3>1. CASE k = p + m
      <4>1. J(p) = {}
        BY <2>2, <3>1
      <4> QED
        BY <3>1, <4>1
    <3>2. CASE k > p + m
      <4>1. p + m + 1 \in J(p)
        <5>1. p + m + 1 \in p + 1 .. k /\ raw[p + m + 1] = CR
          BY <1>1, <1>3, <1>4, <3>2
        <5> QED
          BY <5>1, NoDigit
      <4>2. J(p) \in SUBSET Nat /\ \A i \in J(p) : i > p + m
        BY <1>1, <2>2
      <4> HIDE DEF J
      <4>3. Min(J(p)) \in J(p) /\ Min(J(p)) <= p + m + 1
        BY <4>1, <4>2, MinOf
      <4>4. Min(J(p)) = p + m + 1
        BY <1>1, <4>2, <4>3
      <4> QED
        BY <1>1, <4>1, <4>4
    <3> QED
      BY <1>1, <1>7, <3>1, <3>2
  <2>4. \A i \in p + 1 .. p + m : raw[i] \in Sign
    <3> TAKE i \in p + 1 .. p + m
    <3>1. i \in 1 .. Len(raw)
      BY <1>1, <1>7 DEF k
    <3> QED
      BY <3>1, ElementOfSeq
  <2>5. /\ SubSeq(raw, p + 1, p + m) \in Seq(Sign) /\ Len(SubSeq(raw, p + 1, p + m)) = m
        /\ \A i \in 1 .. m : SubSeq(raw, p + 1, p + m)[i] = raw[p + i]
    <3>1. /\ p + 1 \in Int /\ p + m \in Int
      BY <1>1
    <3>2. /\ SubSeq(raw, p + 1, p + m) \in Seq(Sign)
          /\ Len(SubSeq(raw, p + 1, p + m)) = IF p + 1 <= p + m THEN (p + m) - (p + 1) + 1 ELSE 0
          /\ \A i \in 1 .. (p + m) - (p + 1) + 1 : SubSeq(raw, p + 1, p + m)[i] = raw[(p + 1) + i - 1]
      BY <2>4, <3>1, SubSeqProperties
    <3>3. (p + m) - (p + 1) + 1 = m /\ p + 1 <= p + m /\ \A i \in 1 .. m : (p + 1) + i - 1 = p + i
      BY <1>1
    <3> QED
      BY <3>2, <3>3
  <2>6. \A i \in 1 .. m : SubSeq(raw, p + 1, p + m)[i] = d[i]
    <3> TAKE i \in 1 .. m
    <3>1. p + i \in p + 1 .. p + m /\ (p + i) - p = i
      BY <1>1
    <3> QED
      BY <2>2, <2>5, <3>1
  <2>7. d \in Seq(Sign) /\ Len(d) = m
    <3>1. Decimals \in SUBSET Sign
      BY DecimalShape DEF Sign
    <3> QED
      BY <3>1, Wider DEF LengthAt, m
  <2>8. SubSeq(raw, p + 1, p + m) = d
    BY <2>5, <2>6, <2>7, SeqEqual
  <2> QED
    BY <2>1, <2>3, <2>8
<1>8. k >= p => LengthPos(raw) = p
  BY <1>1, <1>5, <1>a
<1> QED
  BY <1>6, <1>7, <1>8 DEF k, m

(* A text that names no length has no digits of one.                       *)
LEMMA NoDigits ==
  ASSUME NEW raw \in Seq(Sign), \A i \in 1 .. Len(raw) : raw[i] # Length
  PROVE  LengthDigits(raw) = <<>>
<1> DEFINE I == { i \in 1 .. Len(raw) : raw[i] = Length }
           pos == IF I # {} THEN Min(I) ELSE 0
<1>1. pos = 0
  OBVIOUS
<1>2. pos = 0 \/ pos + 2 > Len(raw) => LengthDigits(raw) = <<>>
  BY Zenon DEF LengthDigits, LengthPos, SelectInSeq
<1> QED
  BY <1>1, <1>2

(* Digits stand for a natural number.                                      *)
LEMMA NumberType ==
  ASSUME NEW d \in Seq(Decimals)
  PROVE  Number(d) \in Nat /\ (d = <<>> => Number(d) = 0)
<1> DEFINE n == Len(d)
           D == DOMAIN d
           Is(g) == g = [s \in SUBSET D |-> IF s = {} THEN 0 ELSE 10 * g[s \ {Max(s)}] + Digit(d[Max(s)])]
           it == CHOOSE g : Is(g)
           step == [p \in Nat \X (1 .. n) |-> 10 * p[1] + Digit(d[p[2]])]
<1>1. Number(d) = it[D]
  BY Zenon DEF Number, FoldLeft, MapThenFoldSet
<1>2. n \in Nat /\ D = 1 .. n /\ \A i \in 1 .. n : Digit(d[i]) \in Nat
  <2>1. n \in Nat /\ D = 1 .. n
    BY LenProperties
  <2>2. \A i \in 1 .. n : d[i] \in Decimals
    BY ElementOfSeq
  <2>3. \A i \in 1 .. n : Digit(d[i]) \in 0 .. 9
    BY <2>2, DecimalDigit
  <2> QED
    BY <2>1, <2>3
<1> HIDE DEF n, D
<1>3. step \in Steps(n, Nat) /\ 0 \in Nat
  <2>1. \A p \in Nat \X (1 .. n) : 10 * p[1] + Digit(d[p[2]]) \in Nat
    BY <1>2
  <2> QED
    BY <2>1 DEF Steps
<1>4. PICK g : FoldsBy(g, n, Nat, 0, step)
  <2> HIDE DEF step
  <2> QED
    BY <1>2, <1>3, SubsetRecursion
<1>5. Is(g)
  <2>1. g \in [SUBSET D -> Nat]
    BY <1>2, <1>4 DEF FoldsBy
  <2>2. ASSUME NEW s \in SUBSET D
        PROVE  g[s] = IF s = {} THEN 0 ELSE 10 * g[s \ {Max(s)}] + Digit(d[Max(s)])
    <3>1. CASE s = {}
      BY <1>2, <1>4, <3>1 DEF FoldsBy
    <3>2. CASE s # {}
      <4>1. Max(s) \in 1 .. n
        BY <1>2, <3>2, MaxIn
      <4>2. g[s] = step[<<g[s \ {Max(s)}], Max(s)>>]
        BY <1>2, <1>4, <3>2, Zenon DEF FoldsBy
      <4>3. g[s \ {Max(s)}] \in Nat
        BY <1>2, <1>4 DEF FoldsBy
      <4>4. step[<<g[s \ {Max(s)}], Max(s)>>] = 10 * g[s \ {Max(s)}] + Digit(d[Max(s)])
        BY <4>1, <4>3
      <4> HIDE DEF step
      <4> QED
        BY <3>2, <4>2, <4>4
    <3> QED
      BY <3>1, <3>2
  <2> QED
    BY <2>1, <2>2
<1>6. Is(it)
  <2> HIDE DEF Is
  <2> QED
    BY <1>5
<1>7. \A s \in SUBSET D : it[s] = IF s = {} THEN 0 ELSE 10 * it[s \ {Max(s)}] + Digit(d[Max(s)])
  <2> HIDE DEF it
  <2> QED
    BY <1>6, Zenon
<1> HIDE DEF it, Is
<1>8. it[{}] = 0
  BY <1>7
<1> DEFINE E == { i \in Nat : it[1 .. i] \in Nat }
<1>9. 0 \in E
  <2>1. 1 .. 0 = {}
    OBVIOUS
  <2> QED
    BY <1>8, <2>1
<1>10. ASSUME NEW i \in 0 .. n - 1, i \in E PROVE i + 1 \in E
  <2>1. i + 1 \in 1 .. n /\ (i + 1) - 1 = i /\ i \in Nat
    BY <1>2
  <2>2. /\ 1 .. i + 1 # {} /\ 1 .. i + 1 \in SUBSET (1 .. n)
        /\ Max(1 .. i + 1) = i + 1 /\ (1 .. i + 1) \ {Max(1 .. i + 1)} = 1 .. (i + 1) - 1
    BY <1>2, <2>1, FirstPositions
  <2>3. it[1 .. i + 1] = 10 * it[1 .. i] + Digit(d[i + 1])
    BY <1>2, <1>7, <2>1, <2>2
  <2>4. it[1 .. i] \in Nat
    BY <1>10
  <2>5. it[1 .. i + 1] \in Nat
    BY <1>2, <2>1, <2>3, <2>4
  <2> QED
    BY <2>1, <2>5
<1> HIDE DEF E
<1>11. 0 .. n \subseteq E
  BY <1>2, <1>9, <1>10, UpTo
<1>12. it[D] \in Nat
  BY <1>2, <1>11 DEF E
<1>13. d = <<>> => it[D] = 0
  <2>1. d = <<>> => D = {}
    BY DEF D
  <2> QED
    BY <1>8, <2>1
<1> QED
  BY <1>1, <1>12, <1>13

(* A number an int has room for is what atoi makes of it.                  *)
LEMMA AtoiFits ==
  ASSUME NEW d \in Seq(Decimals), Number(d) < IntSize \div 2 PROVE atoi(d) = Number(d)
<1>1. Number(d) \in Nat /\ IntSize \in Nat
  BY NumberType, FramingAssumption
<1>2. IntSize > 0 /\ IntSize \div 2 <= IntSize
  BY <1>1
<1>3. Number(d) % IntSize = Number(d)
  BY <1>1, <1>2
<1> QED
  BY <1>1, <1>3 DEF atoi

-----------------------------------------------------------------------------
(* The text of a request: where its header ends, and where it says how     *)
(* long the body is.                                                       *)
LEMMA TextShape ==
  ASSUME NEW r \in All
  PROVE  /\ Text[r] \in Seq(Sign) /\ EmptyLineAt(Text[r], HeaderLen[r])
         /\ HeaderLen[r] <= Len(Text[r])
         /\ r.digits \in Seq(Decimals)
         /\ r.digits = <<>> => \A i \in 1 .. Len(Text[r]) : Text[r][i] # Length
         /\ r.digits # <<>> =>
              \E p : /\ LengthAt(Text[r], p, r.digits)
                     /\ p + Len(r.digits) + 1 <= HeaderLen[r] - 3
                     /\ LengthLast(r) <=> p + Len(r.digits) + 1 = HeaderLen[r] - 3
<1> DEFINE d == r.digits
           F == Field(<<Length>>, d)
           B == Before(r)
           L == B \o F
           C == CloseLine(r)
           R == Body(r)
           Y == Sign \ {Length}
<1>1. Proper(r)
  BY FramingAssumption DEF All
<1>2. Text[r] = ((L \o C) \o CRLF) \o R /\ HeaderLen[r] = Len((L \o C) \o CRLF)
  BY HeaderShape, Zenon DEF Text, HeaderLen, Bytes
<1>3. Free(B) /\ B # <<>>
  BY <1>1, BeforeFree
<1>4. d \in Seq(Decimals)
  BY <1>1 DEF Proper, Decimals
<1>5. R \in Seq(Y)
  <2>1. STRING \ {Length} \subseteq Y
    BY DEF Sign, Letter
  <2>2. Body(r) \in Seq(STRING \ {Length})
    BY <1>1 DEF Proper
  <2> QED
    BY <2>1, <2>2, SeqMonotonic
<1>6. Y \in SUBSET Sign /\ CRLF \in Seq(Y) /\ Len(CRLF) = 2 /\ CRLF[1] = CR
  BY CrlfType
<1>7. B \in Seq(Y) /\ Lines(B)
  BY <1>3 DEF Free
<1>8. R \in Seq(Sign) /\ CRLF \in Seq(Sign) /\ B \in Seq(Sign)
  <2> HIDE DEF Y, R, B
  <2> QED
    BY <1>5, <1>6, <1>7, Wider
<1>c. Free(C) /\ C \in Seq(Sign) /\ Lines(C) /\ (r.close => Len(C) > 0) /\ (~r.close => C = <<>>)
  BY CloseFree, Wider DEF Free, Lines
<1>9. CASE d = <<>>
  <2> DEFINE Z == L \o C
  <2>1. L = B
    <3>1. F = <<>>
      BY <1>9 DEF Field
    <3> HIDE DEF B, F
    <3> QED
      BY <1>8, <3>1, ConcatEmptySeq
  <2>a. Free(Z) /\ Z # <<>>
    <3> HIDE DEF B, L, C
    <3> QED
      BY <1>3, <1>c, <2>1, FreeConcat
  <2>b. Z \in Seq(Y) /\ Lines(Z) /\ Z \in Seq(Sign)
    BY <2>a DEF Free, Lines
  <2> HIDE DEF B, C, R, Y, L, Z, d
  <2>2. (Z \o CRLF) \o R \in Seq(Y) /\ Z \o CRLF \in Seq(Y)
    BY <1>5, <1>6, <2>b, ConcatProperties
  <2>3. \A i \in 1 .. Len(Text[r]) : Text[r][i] # Length
    <3> TAKE i \in 1 .. Len(Text[r])
    <3>1. Text[r] \in Seq(Y)
      BY <1>2, <2>2 DEF Z
    <3>2. Text[r][i] \in Y
      BY <3>1, ElementOfSeq
    <3> QED
      BY <3>2 DEF Y
  <2>4. Text[r] \in Seq(Sign)
    BY <1>2, <1>6, <2>2, Wider DEF Z
  <2>5. Len(Z \o CRLF) = Len(Z) + 2 /\ Len(Z) \in Nat /\ Len(R) \in Nat
    <3>1. Len(Z \o CRLF) = Len(Z) + Len(CRLF)
      BY <1>8, <2>b, ConcatProperties
    <3>2. Len(Z) \in Nat /\ Len(R) \in Nat
      BY <1>8, <2>b, LenProperties
    <3> QED
      BY <1>6, <3>1, <3>2
  <2>6. Len(Text[r]) = Len(Z) + 2 + Len(R)
    <3>1. Z \o CRLF \in Seq(Sign)
      BY <1>8, <2>b, ConcatProperties
    <3>2. Len((Z \o CRLF) \o R) = Len(Z \o CRLF) + Len(R)
      BY <1>8, <3>1, ConcatProperties
    <3> QED
      BY <1>2, <2>5, <3>2 DEF Z
  <2>7. EmptyLineAt(Text[r], HeaderLen[r])
    <3>1. Text[r] = (Z \o CRLF) \o R /\ HeaderLen[r] = Len(Z) + 2
      BY <1>2, <2>5 DEF Z
    <3> QED
      BY <1>8, <2>a, <2>b, <3>1, EndOfLines
  <2>8. HeaderLen[r] <= Len(Text[r])
    BY <1>2, <2>5, <2>6 DEF Z
  <2> QED
    BY <1>4, <1>9, <2>3, <2>4, <2>7, <2>8 DEF d
<1>10. CASE d # <<>>
  <2> DEFINE q == <<Length>> \o d
             p == Len(B) + 1
             m == Len(d)
  <2>1. /\ Length \in Sign \ {CR, LF} /\ Decimals \subseteq Sign \ {CR, LF}
        /\ Sign \ {CR, LF} \in SUBSET Sign
    <3>1. Length # CR /\ Length # LF
      BY DEF Length, CR, LF
    <3>2. Letter \subseteq Sign \ {CR, LF}
      BY DEF Letter, Sign
    <3> QED
      BY <3>1, <3>2, DecimalShape DEF Sign
  <2>2. /\ <<Length>> \in Seq(Sign \ {CR, LF}) /\ <<Length>> # <<>> /\ d \in Seq(Sign \ {CR, LF})
        /\ Len(<<Length>>) = 1 /\ <<Length>>[1] = Length /\ m \in Nat
    <3>1. <<Length>> \in Seq(Sign \ {CR, LF}) /\ <<Length>> # <<>>
      BY <2>1, Tuples
    <3>2. Len(<<Length>>) = 1 /\ <<Length>>[1] = Length
      OBVIOUS
    <3>3. d \in Seq(Sign \ {CR, LF}) /\ m \in Nat
      <4> HIDE DEF d
      <4> QED
        BY <1>4, <2>1, SeqMonotonic, LenProperties
    <3> QED
      BY <3>1, <3>2, <3>3
  <2>3. F = q \o CRLF
    BY <1>10 DEF Field
  <2> HIDE DEF B, C, R, F, d, m, Y
  <2>4. /\ q \in Seq(Sign \ {CR, LF}) /\ q # <<>> /\ Len(q) = m + 1 /\ q[1] = Length
        /\ \A i \in 1 .. m : q[i + 1] = d[i]
    <3>1. /\ q \in Seq(Sign \ {CR, LF}) /\ Len(q) = Len(<<Length>>) + m
          /\ \A i \in 1 .. Len(<<Length>>) + m : q[i] = IF i <= Len(<<Length>>) THEN <<Length>>[i] ELSE d[i - Len(<<Length>>)]
      BY <2>2, ConcatProperties DEF m
    <3>2. q # <<>>
      BY <2>2, ConcatEqualIffEmpty
    <3> HIDE DEF q
    <3>3. q[1] = Length
      BY <2>2, <3>1
    <3>4. \A i \in 1 .. m : q[i + 1] = d[i]
      <4> TAKE i \in 1 .. m
      <4>1. i + 1 \in 1 .. 1 + m /\ ~(i + 1 <= 1) /\ (i + 1) - 1 = i
        BY <2>2
      <4> QED
        BY <2>2, <3>1, <4>1
    <3> QED
      BY <2>2, <3>1, <3>2, <3>3, <3>4
  <2> HIDE DEF q
  <2>5. Lines(F) /\ q \in Seq(Sign) /\ F \in Seq(Sign)
    BY <2>1, <2>3, <2>4, OneLine, Wider DEF Lines
  <2>6. /\ Len(F) = m + 3
        /\ \A i \in 1 .. m + 3 : F[i] = IF i <= m + 1 THEN q[i] ELSE CRLF[i - (m + 1)]
    <3>1. /\ Len(F) = Len(q) + Len(CRLF)
          /\ \A i \in 1 .. Len(q) + Len(CRLF) : F[i] = IF i <= Len(q) THEN q[i] ELSE CRLF[i - Len(q)]
      BY <1>8, <2>3, <2>5, ConcatProperties
    <3>2. Len(q) + Len(CRLF) = m + 3 /\ Len(q) = m + 1
      BY <1>6, <2>2, <2>4
    <3> QED
      BY <3>1, <3>2
  <2>7. /\ L \in Seq(Sign) /\ Lines(L) /\ L # <<>> /\ Len(B) \in Nat
        /\ Len(L) = Len(B) + m + 3
        /\ \A i \in 1 .. Len(B) + m + 3 : L[i] = IF i <= Len(B) THEN B[i] ELSE F[i - Len(B)]
    <3>1. Lines(L) /\ L # <<>>
      BY <1>3, <1>7, <1>8, <2>5, LineConcat, ConcatEqualIffEmpty
    <3>2. /\ L \in Seq(Sign) /\ Len(L) = Len(B) + Len(F)
          /\ \A i \in 1 .. Len(B) + Len(F) : L[i] = IF i <= Len(B) THEN B[i] ELSE F[i - Len(B)]
      BY <1>8, <2>5, ConcatProperties
    <3>3. Len(B) \in Nat
      BY <1>8, LenProperties
    <3>4. Len(B) + Len(F) = Len(B) + m + 3
      BY <2>2, <2>6, <3>3
    <3> QED
      BY <3>1, <3>2, <3>3, <3>4
  <2> HIDE DEF L
  <2> DEFINE Z == L \o C
             H == Z \o CRLF
  <2>a. Lines(Z) /\ Z # <<>> /\ Len(C) \in Nat
    BY <1>c, <2>7, LineConcat, ConcatEqualIffEmpty, LenProperties
  <2>b. /\ Z \in Seq(Sign) /\ Len(Z) = Len(B) + m + 3 + Len(C)
        /\ \A i \in 1 .. Len(B) + m + 3 : Z[i] = L[i]
    <3>1. /\ Z \in Seq(Sign) /\ Len(Z) = Len(L) + Len(C)
          /\ \A i \in 1 .. Len(L) + Len(C) : Z[i] = IF i <= Len(L) THEN L[i] ELSE C[i - Len(L)]
      BY <1>c, <2>7, ConcatProperties
    <3> HIDE DEF Z
    <3> QED
      BY <2>2, <2>7, <2>a, <3>1
  <2> HIDE DEF Z
  <2>8. /\ H \in Seq(Sign) /\ Len(H) = Len(B) + m + 5 + Len(C)
        /\ \A i \in 1 .. Len(B) + m + 3 : H[i] = L[i]
    <3>1. /\ H \in Seq(Sign) /\ Len(H) = Len(Z) + Len(CRLF)
          /\ \A i \in 1 .. Len(Z) + Len(CRLF) : H[i] = IF i <= Len(Z) THEN Z[i] ELSE CRLF[i - Len(Z)]
      <4>1. Z \in Seq(Sign) /\ CRLF \in Seq(Sign)
        BY <1>8, <2>b
      <4> QED
        BY <4>1, ConcatProperties
    <3> HIDE DEF H
    <3> QED
      BY <1>6, <2>2, <2>7, <2>a, <2>b, <3>1
  <2>9. Text[r] = H \o R /\ HeaderLen[r] = Len(H)
    BY <1>2 DEF Z
  <2> HIDE DEF H
  <2>10. /\ Text[r] \in Seq(Sign) /\ Len(Text[r]) = Len(H) + Len(R) /\ Len(R) \in Nat
         /\ \A i \in 1 .. Len(H) + Len(R) : Text[r][i] = IF i <= Len(H) THEN H[i] ELSE R[i - Len(H)]
    <3>1. H \in Seq(Sign) /\ R \in Seq(Sign) /\ Text[r] = H \o R
      BY <1>8, <2>8, <2>9
    <3> QED
      BY <3>1, ConcatProperties, LenProperties
  <2>11. \A i \in 1 .. Len(B) + m + 3 : Text[r][i] = IF i <= Len(B) THEN B[i] ELSE F[i - Len(B)]
    <3> TAKE i \in 1 .. Len(B) + m + 3
    <3>1. i \in 1 .. Len(H) + Len(R) /\ i <= Len(H)
      BY <2>2, <2>7, <2>8, <2>10, <2>a
    <3>2. Text[r][i] = L[i]
      BY <2>8, <2>10, <3>1
    <3> QED
      BY <2>7, <3>2
  <2>12. EmptyLineAt(Text[r], HeaderLen[r])
    <3>1. HeaderLen[r] = Len(Z) + 2
      BY <2>2, <2>7, <2>8, <2>9, <2>a, <2>b
    <3>2. Text[r] = (Z \o CRLF) \o R
      BY <2>9 DEF H
    <3> QED
      BY <1>8, <2>a, <3>1, <3>2, EndOfLines
  <2>13. LengthAt(Text[r], p, d)
    <3>1. p \in Nat \ {0} /\ p - 1 = Len(B)
      BY <2>7
    <3>2. \A i \in 1 .. p - 1 : Text[r][i] # Length
      <4> TAKE i \in 1 .. p - 1
      <4>1. i \in 1 .. Len(B) /\ Text[r][i] = B[i]
        BY <2>2, <2>7, <2>11
      <4>2. B[i] \in Y
        BY <1>7, <4>1, ElementOfSeq
      <4> QED
        BY <4>1, <4>2 DEF Y
    <3>3. Text[r][p] = Length
      <4>1. Text[r][p] = F[1] /\ F[1] = q[1]
        BY <2>2, <2>6, <2>7, <2>11
      <4> QED
        BY <2>4, <4>1
    <3>4. \A i \in 1 .. m : Text[r][p + i] = d[i]
      <4> TAKE i \in 1 .. m
      <4>1. /\ p + i \in 1 .. Len(B) + m + 3 /\ ~(p + i <= Len(B)) /\ (p + i) - Len(B) = i + 1
            /\ i + 1 \in 1 .. m + 3 /\ i + 1 <= m + 1
        BY <2>2, <2>7
      <4>2. Text[r][p + i] = F[i + 1] /\ F[i + 1] = q[i + 1]
        BY <2>6, <2>11, <4>1
      <4> QED
        BY <2>4, <4>2
    <3>5. Text[r][p + m + 1] = CR
      <4>1. /\ p + m + 1 \in 1 .. Len(B) + m + 3 /\ ~(p + m + 1 <= Len(B)) /\ (p + m + 1) - Len(B) = m + 2
            /\ m + 2 \in 1 .. m + 3 /\ ~(m + 2 <= m + 1) /\ (m + 2) - (m + 1) = 1
        BY <2>2, <2>7
      <4> QED
        BY <1>6, <2>6, <2>11, <4>1
    <3> QED
      BY <1>4, <3>1, <3>2, <3>3, <3>4, <3>5 DEF LengthAt, m
  <2>14. HeaderLen[r] = p + m + 4 + Len(C) /\ HeaderLen[r] <= Len(Text[r])
    BY <2>2, <2>7, <2>8, <2>9, <2>10, <2>a
  <2>15. p \in Nat /\ (Len(C) = 0 <=> LengthLast(r))
    <3>1. LengthLast(r) <=> ~r.close
      BY <1>10 DEF LengthLast, d
    <3>2. C = <<>> => Len(C) = 0
      OBVIOUS
    <3> QED
      BY <1>c, <2>7, <2>a, <3>1, <3>2
  <2> HIDE DEF p
  <2>16. /\ p + m + 1 <= HeaderLen[r] - 3
         /\ LengthLast(r) <=> p + m + 1 = HeaderLen[r] - 3
    BY <2>2, <2>14, <2>15, <2>a
  <2> QED
    BY <1>4, <1>10, <2>10, <2>12, <2>13, <2>14, <2>16 DEF d, m
<1> QED
  BY <1>9, <1>10

(* What OnConnect computes from the first k bytes of a request: the whole  *)
(* number, and the end of the header or, if the number is its last line,   *)
(* nothing before that end.                                                *)
LEMMA WhatIsRead ==
  ASSUME LengthsFit, NEW r \in All, NEW k \in 1 .. Len(Text[r]),
         MaxFragments(r) = 1 => k = Len(Text[r])
  PROVE  LET raw == SubSeq(Text[r], 1, k)
         IN  /\ Len(raw) = k
             /\ FindHeadEnd(Marked(raw)) = 0 \/ FindHeadEnd(Marked(raw)) \in HeaderLen[r] .. k
             /\ ~LengthLast(r) => FindHeadEnd(Marked(raw)) = IF k >= HeaderLen[r] THEN HeaderLen[r] ELSE 0
             /\ atoi(LengthDigits(raw)) \in {0, Declared(r)}
             /\ k >= HeaderLen[r] => atoi(LengthDigits(raw)) = Declared(r)
<1> DEFINE t == Text[r]
           raw == SubSeq(t, 1, k)
           d == r.digits
           n == HeaderLen[r]
<1>1. /\ t \in Seq(Sign) /\ EmptyLineAt(t, n) /\ n <= Len(t) /\ d \in Seq(Decimals)
      /\ d = <<>> => \A i \in 1 .. Len(t) : t[i] # Length
      /\ d # <<>> => \E p : /\ LengthAt(t, p, d) /\ p + Len(d) + 1 <= n - 3
                            /\ LengthLast(r) <=> p + Len(d) + 1 = n - 3
  BY TextShape
<1>2. Len(t) \in Nat /\ k \in 1 .. Len(t) /\ n \in Nat
  BY <1>1, LenProperties DEF EmptyLineAt
<1>3. Declared(r) = Number(d) /\ Number(d) < IntSize \div 2 /\ (Len(d) <= 2 \/ k = Len(t))
  BY DEF LengthsFit, Declared
<1> HIDE DEF t, d, n
<1>4. /\ raw \in Seq(Sign) /\ Len(raw) = k /\ \A i \in 1 .. k : raw[i] = t[i]
  <2>1. \A i \in 1 .. k : t[i] \in Sign
    BY <1>1, <1>2, ElementOfSeq
  <2>2. /\ raw \in Seq(Sign) /\ Len(raw) = IF 1 <= k THEN k - 1 + 1 ELSE 0
        /\ \A i \in 1 .. k - 1 + 1 : raw[i] = t[1 + i - 1]
    BY <1>2, <2>1, SubSeqProperties
  <2>3. k - 1 + 1 = k /\ 1 <= k /\ \A i \in 1 .. k : 1 + i - 1 = i
    BY <1>2
  <2> HIDE DEF raw
  <2> QED
    BY <2>2, <2>3
<1> HIDE DEF raw
<1>5. FindHeadEnd(raw) = IF k >= n THEN n ELSE 0
  BY <1>1, <1>4, HeadEndFound
<1>6. atoi(d) = Number(d) /\ atoi(<<>>) = 0 /\ (d = <<>> => Number(d) = 0)
  <2>1. <<>> \in Seq(Decimals) /\ Number(<<>>) = 0
    BY EmptySeq, NumberType
  <2>2. Number(d) \in Nat /\ Number(<<>>) < IntSize \div 2
    BY <1>1, <1>3, <2>1, NumberType, FramingAssumption
  <2> QED
    BY <1>1, <1>3, <2>1, <2>2, AtoiFits
<1>7. /\ atoi(LengthDigits(raw)) \in {0, Number(d)}
      /\ k >= n => atoi(LengthDigits(raw)) = Number(d)
  <2>1. CASE d = <<>>
    <3>1. LengthDigits(raw) = <<>>
      BY <1>1, <1>2, <1>4, <2>1, NoDigits
    <3> QED
      BY <1>6, <2>1, <3>1
  <2>2. CASE d # <<>>
    <3>1. PICK p : LengthAt(t, p, d) /\ p + Len(d) + 1 <= n - 3
      BY <1>1, <2>2
    <3>2. p \in Nat /\ Len(d) \in Nat /\ Len(d) > 0
      BY <1>1, <2>2, <3>1, LenProperties, EmptySeq DEF LengthAt
    <3>3. /\ k < p + 2 => LengthDigits(raw) = <<>>
          /\ k >= p + 2 /\ k >= p + Len(d) => LengthDigits(raw) = d
      BY <1>4, <2>2, <3>1, DigitsRead
    <3>4. k < p + 2 \/ (k >= p + 2 /\ k >= p + Len(d))
      BY <1>1, <1>2, <1>3, <3>1, <3>2
    <3>5. k >= n => k >= p + 2 /\ k >= p + Len(d)
      BY <1>2, <3>1, <3>2
    <3> QED
      BY <1>6, <3>3, <3>4, <3>5
  <2> QED
    BY <2>1, <2>2
<1> DEFINE w == Marked(raw)
           Right == (FindHeadEnd(w) = 0 \/ FindHeadEnd(w) \in n .. k)
                    /\ (~LengthLast(r) => FindHeadEnd(w) = IF k >= n THEN n ELSE 0)
<1>8. ASSUME w = raw PROVE Right
  BY <1>2, <1>5, <1>8
<1>9. ASSUME w # raw PROVE Right
  <2>1. /\ LengthDigits(raw) # <<>> /\ LengthPos(raw) + Len(LengthDigits(raw)) + 1 <= Len(raw)
        /\ w = [raw EXCEPT ![LengthPos(raw) + Len(LengthDigits(raw)) + 1] = Semicolon]
    BY <1>9, Zenon DEF Marked, Semicolon
  <2>2. d # <<>>
    BY <1>1, <1>2, <1>4, <2>1, NoDigits
  <2>3. PICK p : /\ LengthAt(t, p, d) /\ p + Len(d) + 1 <= n - 3
                 /\ LengthLast(r) <=> p + Len(d) + 1 = n - 3
    BY <1>1, <2>2
  <2>4. p \in Nat /\ Len(d) \in Nat /\ Len(d) > 0
    BY <1>1, <2>2, <2>3, LenProperties, EmptySeq DEF LengthAt
  <2>5. /\ k < p + 2 => LengthDigits(raw) = <<>>
        /\ k >= p + 2 /\ k >= p + Len(d) => LengthDigits(raw) = d
        /\ k >= p => LengthPos(raw) = p
    BY <1>4, <2>2, <2>3, DigitsRead
  <2>6. k < p + 2 \/ (k >= p + 2 /\ k >= p + Len(d))
    BY <1>1, <1>2, <1>3, <2>3, <2>4
  <2>7. LengthDigits(raw) = d /\ LengthPos(raw) = p
    BY <1>2, <2>1, <2>4, <2>5, <2>6
  <2>8. PICK e : e = p + Len(d) + 1
    OBVIOUS
  <2>9. /\ e \in 1 .. n - 3 /\ e <= k /\ w = [raw EXCEPT ![e] = Semicolon] /\ t[e] = CR
        /\ LengthLast(r) <=> e = n - 3
    BY <1>2, <1>4, <2>1, <2>3, <2>4, <2>7, <2>8 DEF LengthAt
  <2>10. PICK u : u = [t EXCEPT ![e] = Semicolon]
    OBVIOUS
  <2>11. (e < n - 3 => EmptyLineAt(u, n)) /\ (e = n - 3 => Hides(u, n))
    BY <1>1, <2>9, <2>10, MarkedEnd
  <2> HIDE DEF w
  <2>12. w \in Seq(Sign) /\ Len(w) = k /\ \A i \in 1 .. k : w[i] = IF i = e THEN Semicolon ELSE raw[i]
    <3>1. DOMAIN raw = 1 .. k /\ raw \in [1 .. k -> Sign] /\ k \in Nat
      BY <1>2, <1>4, LenProperties
    <3>2. PICK c : c = Semicolon /\ c \in Sign
      BY SemicolonIs
    <3>3. w = [raw EXCEPT ![e] = c]
      BY <2>9, <3>2
    <3>4. w \in [1 .. k -> Sign] /\ \A i \in 1 .. k : w[i] = IF i = e THEN c ELSE raw[i]
      BY <3>1, <3>2, <3>3
    <3>5. w \in Seq(Sign) /\ Len(w) = k
      BY <3>1, <3>4, FunctionIsSeq
    <3> QED
      BY <3>2, <3>4, <3>5
  <2>13. \A i \in 1 .. Len(w) : w[i] = u[i]
    <3>1. PICK c : c = Semicolon
      OBVIOUS
    <3>2. DOMAIN t = 1 .. Len(t)
      BY <1>1, LenProperties
    <3>3. \A i \in 1 .. Len(t) : u[i] = IF i = e THEN c ELSE t[i]
      BY <2>10, <3>1, <3>2
    <3> QED
      BY <1>2, <1>4, <2>12, <3>1, <3>3
  <2>14. CASE e < n - 3
    <3>1. FindHeadEnd(w) = IF k >= n THEN n ELSE 0
      BY <2>11, <2>12, <2>13, <2>14, HeadEndFound
    <3> QED
      BY <1>2, <3>1
  <2>15. CASE e = n - 3
    <3>1. FindHeadEnd(w) = 0 \/ FindHeadEnd(w) \in n .. Len(w)
      BY <2>11, <2>12, <2>13, <2>15, HeadHidden
    <3> QED
      BY <2>9, <2>12, <2>15, <3>1
  <2> QED
    BY <1>2, <2>9, <2>14, <2>15
<1> QED
  BY <1>3, <1>4, <1>7, <1>8, <1>9 DEF t, d, n, raw

-----------------------------------------------------------------------------
(* What OnConnect has remembered and decided is right for the request it   *)
(* sees, at any point: this is what makes the cuts not matter.  What it    *)
(* takes for the end of the header is never before it.                     *)
Remembered ==
  /\ ContentLen \in {0, Declared(req)}
  /\ HeadEnd = 0 \/ HeadEnd \in HeaderLen[req] .. size
  /\ ~LengthLast(req) => HeadEnd \in {0, HeaderLen[req]}
  /\ verdict = "request" => ContentLen = 0 /\ HeadEnd = 0

FInv ==
  /\ req \in All /\ sent \in 0 .. Len(Text[req]) /\ size \in 0 .. sent
  /\ sent = 0 => fragments = 0
  /\ MaxFragments(req) = 1 => sent \in {0, Len(Text[req])}
  /\ verdict \in {"wait", "request", "big", "much"}
  /\ Remembered
  /\ CutsDoNotMatter
  /\ BodyComplete

(* The lengths of a request and its parts are numbers that add up.         *)
LEMMA Sizes ==
  ASSUME NEW r \in All
  PROVE  /\ Len(Text[r]) \in Nat /\ HeaderLen[r] \in Nat /\ HeaderLen[r] <= Len(Text[r]) /\ HeaderLen[r] > 2
         /\ Declared(r) \in Nat /\ BodyLen(r) = Len(Text[r]) - HeaderLen[r]
<1>1. Text[r] \in Seq(Sign) /\ EmptyLineAt(Text[r], HeaderLen[r]) /\ HeaderLen[r] <= Len(Text[r])
      /\ r.digits \in Seq(Decimals)
  BY TextShape
<1> QED
  BY <1>1, LenProperties, NumberType DEF EmptyLineAt, Declared, BodyLen

(* The invariant of the framing holds at first.                            *)
LEMMA FramingInit == Init => FInv
<1> SUFFICES ASSUME Init PROVE FInv
  OBVIOUS
<1>1. req \in All
  BY DEF Init, All
<1>2. /\ Len(Text[req]) \in Nat /\ HeaderLen[req] \in Nat /\ HeaderLen[req] <= Len(Text[req]) /\ HeaderLen[req] > 2
  BY <1>1, Sizes
<1>3. size # Len(Text[req])
  BY <1>2 DEF Init
<1> QED
  BY <1>1, <1>2, <1>3 DEF Init, FInv, Remembered, CutsDoNotMatter, BodyComplete

(* Bytes that arrive keep the invariant of the framing.                    *)
LEMMA FramingArrive == ASSUME FInv, Arrive PROVE FInv'
<1> USE DEF Arrive
<1>1. PICK n \in sent + 1 .. Len(Text[req]) :
        (fragments + 1 = MaxFragments(req) => n = Len(Text[req])) /\ sent' = n
  OBVIOUS
<1>2. req' = req /\ req \in All /\ size' = size /\ verdict' = verdict
  BY DEF FInv
<1>3. Len(Text[req]) \in Nat /\ sent \in Nat /\ size \in 0 .. sent
  BY <1>2, Sizes DEF FInv
<1>4. sent' \in 0 .. Len(Text[req]) /\ size \in 0 .. sent' /\ sent' # 0
  BY <1>1, <1>3
<1>5. MaxFragments(req) = 1 => sent' = Len(Text[req])
  BY <1>1, <1>3 DEF FInv
<1>6. Remembered' /\ CutsDoNotMatter' /\ BodyComplete'
  BY <1>2 DEF FInv, Remembered, CutsDoNotMatter, BodyComplete
<1> QED
  BY <1>2, <1>4, <1>5, <1>6 DEF FInv

(* Waiting for the next request keeps the invariant of the framing.        *)
LEMMA FramingNext == ASSUME FInv, NextRequest PROVE FInv'
<1> USE DEF NextRequest
<1>1. req' \in All /\ sent' = 0 /\ size' = 0 /\ fragments' = 0 /\ verdict' = "wait"
  BY DEF All
<1>2. ContentLen' = 0 /\ HeadEnd' = 0
  BY DEF FInv, Remembered
<1>3. Len(Text[req']) \in Nat /\ HeaderLen[req'] > 2 /\ HeaderLen[req'] <= Len(Text[req']) /\ HeaderLen[req'] \in Nat
  BY <1>1, Sizes
<1>4. size' # Len(Text[req'])
  BY <1>1, <1>3
<1> QED
  BY <1>1, <1>2, <1>3, <1>4 DEF FInv, Remembered, CutsDoNotMatter, BodyComplete

(* A call of OnConnect keeps the invariant of the framing.                 *)
LEMMA FramingConnect == ASSUME LengthsFit, FInv, OnConnect PROVE FInv'
<1> DEFINE raw == SubSeq(Text[req], 1, sent)
           n == HeaderLen[req]
           dec == Declared(req)
           len == ReadLength(raw)
           head == ReadHeadEnd(raw)
           got == Got(raw, head)
           sees == IF len > MAX_CONTENT_LEN THEN "big" ELSE Judge(len, head, got)
<1>1. /\ req \in All /\ req' = req /\ sent' = sent /\ size' = sent /\ fragments' = fragments
      /\ verdict = "wait" /\ sent > size /\ verdict' = sees
      /\ ContentLen' = IF sees = "request" THEN 0 ELSE len
      /\ HeadEnd' = IF sees = "request" THEN 0 ELSE IF sees = "big" THEN HeadEnd ELSE head
  BY DEF OnConnect, FInv, WaitForRequest
<1>2. /\ Len(Text[req]) \in Nat /\ n \in Nat /\ n <= Len(Text[req]) /\ n > 2 /\ dec \in Nat
      /\ BodyLen(req) = Len(Text[req]) - n /\ MAX_CONTENT_LEN \in Nat
  BY <1>1, Sizes, FramingAssumption
<1>3. sent \in 1 .. Len(Text[req]) /\ size \in 0 .. sent /\ (MaxFragments(req) = 1 => sent = Len(Text[req]))
  BY <1>1, <1>2 DEF FInv
<1>4. /\ Len(raw) = sent
      /\ FindHeadEnd(Marked(raw)) = 0 \/ FindHeadEnd(Marked(raw)) \in n .. sent
      /\ ~LengthLast(req) => FindHeadEnd(Marked(raw)) = IF sent >= n THEN n ELSE 0
      /\ atoi(LengthDigits(raw)) \in {0, dec}
      /\ sent >= n => atoi(LengthDigits(raw)) = dec
  BY <1>1, <1>3, WhatIsRead
<1>5. /\ ContentLen \in {0, dec} /\ (HeadEnd = 0 \/ HeadEnd \in n .. size)
      /\ ~LengthLast(req) => HeadEnd \in {0, n}
  BY DEF FInv, Remembered
<1>6. got = Len(raw) - head /\ sees \in {"big", "wait", "request", "much"}
  <2>1. Len(raw) \in Nat /\ head \in Nat
    BY <1>2, <1>3, <1>4, <1>5 DEF ReadHeadEnd
  <2>2. got = Len(raw) - head
    <3> HIDE DEF raw, head
    <3> QED
      BY <2>1 DEF Got
  <2>3. Judge(len, head, got) \in {"wait", "request", "much"}
    BY DEF Judge
  <2> HIDE DEF got, head, len
  <2> QED
    BY <2>2, <2>3
<1> HIDE DEF raw, n, dec
<1>7. len \in {0, dec} /\ (sent >= n => len = dec)
  BY <1>2, <1>4, <1>5 DEF ReadLength
<1>8. /\ head = 0 \/ head \in n .. sent
      /\ ~LengthLast(req) => head = IF sent >= n THEN n ELSE 0
  <2>1. CASE HeadEnd = 0
    BY <1>4, <2>1 DEF ReadHeadEnd
  <2>2. CASE HeadEnd # 0
    <3>1. head = HeadEnd /\ HeadEnd \in n .. size
      BY <1>5, <2>2 DEF ReadHeadEnd
    <3> HIDE DEF head
    <3> QED
      BY <1>2, <1>3, <1>5, <3>1
  <2> QED
    BY <2>1, <2>2
<1> HIDE DEF len, head
<1>9. /\ sees = "big" => dec > MAX_CONTENT_LEN
      /\ dec > MAX_CONTENT_LEN => sees \in {"big", "wait"} /\ (sees = "wait" => sent < n)
      /\ sees = "request" => sent >= n /\ (dec = 0 \/ sent - n >= dec)
      /\ sees = "much" => sent >= n /\ dec > 0 /\ sent - n > dec
      /\ sees = "wait" /\ head = n => sent - n < dec
  <2>1. CASE head # 0
    <3>1. len = dec /\ head \in n .. sent /\ sent >= n /\ got = sent - head
      BY <1>2, <1>3, <1>4, <1>6, <1>7, <1>8, <2>1
    <3>2. sees = IF dec > MAX_CONTENT_LEN THEN "big"
                 ELSE IF dec = 0 \/ sent - head = dec THEN "request" ELSE IF sent - head > dec THEN "much" ELSE "wait"
      BY <2>1, <3>1 DEF Judge
    <3> HIDE DEF sees
    <3>3. dec > MAX_CONTENT_LEN => sees = "big"
      BY <3>2
    <3>4. ~(dec > MAX_CONTENT_LEN) =>
            sees = IF dec = 0 \/ sent - head = dec THEN "request" ELSE IF sent - head > dec THEN "much" ELSE "wait"
      BY <3>2
    <3> QED
      BY <1>2, <1>3, <3>1, <3>3, <3>4
  <2>2. CASE sent >= n /\ head = 0
    <3>1. len = dec /\ sees = IF dec > MAX_CONTENT_LEN THEN "big" ELSE "wait"
      BY <1>7, <2>2 DEF Judge
    <3> HIDE DEF sees
    <3> QED
      BY <1>2, <1>3, <2>2, <3>1
  <2>3. CASE ~(sent >= n)
    <3>1. head = 0 /\ sees = IF len > MAX_CONTENT_LEN THEN "big" ELSE "wait"
      BY <1>2, <1>3, <1>8, <2>3 DEF Judge
    <3>2. len > MAX_CONTENT_LEN => dec > MAX_CONTENT_LEN
      BY <1>2, <1>7
    <3> HIDE DEF sees
    <3> QED
      BY <1>2, <1>3, <2>3, <3>1, <3>2
  <2> QED
    BY <1>2, <1>3, <2>1, <2>2, <2>3
<1> HIDE DEF sees, got
<1>10. Remembered'
  <2>1. ContentLen' \in {0, dec} /\ (~LengthLast(req) => HeadEnd' \in {0, n})
    BY <1>1, <1>5, <1>7, <1>8
  <2>2. HeadEnd' = 0 \/ HeadEnd' \in n .. sent
    BY <1>1, <1>2, <1>3, <1>5, <1>8
  <2> QED
    BY <1>1, <2>1, <2>2 DEF Remembered, n, dec
<1>11. CutsDoNotMatter'
  <2>1. SUFFICES ASSUME sees # "wait" \/ (sent = Len(Text[req]) /\ (LengthLast(req) => HeadEnd' = n))
                 PROVE  sees \in Deserved(req)
    BY <1>1 DEF CutsDoNotMatter, n
  <2>2. /\ dec > MAX_CONTENT_LEN => Deserved(req) = {"big"}
        /\ ~(dec > MAX_CONTENT_LEN) /\ dec > 0 /\ BodyLen(req) > dec => Deserved(req) = {"request", "much"}
        /\ ~(dec > MAX_CONTENT_LEN) /\ ~(dec > 0 /\ BodyLen(req) > dec) /\ BodyLen(req) < dec =>
             Deserved(req) = {"wait"}
        /\ ~(dec > MAX_CONTENT_LEN) /\ ~(dec > 0 /\ BodyLen(req) > dec) /\ ~(BodyLen(req) < dec) =>
             Deserved(req) = {"request"}
    BY DEF Deserved, dec
  <2>3. CASE dec > MAX_CONTENT_LEN
    BY <1>2, <1>9, <2>1, <2>2, <2>3
  <2>4. CASE ~(dec > MAX_CONTENT_LEN)
    <3>1. CASE sees = "request"
      BY <1>2, <1>3, <1>9, <2>2, <2>4, <3>1
    <3>2. CASE sees = "much"
      BY <1>2, <1>3, <1>9, <2>2, <2>4, <3>2
    <3>3. CASE sees = "wait"
      <4>1. sent = Len(Text[req]) /\ head = n
        BY <1>1, <1>2, <1>8, <2>1, <3>3
      <4> QED
        BY <1>2, <1>3, <1>9, <2>2, <2>4, <3>3, <4>1
    <3> QED
      BY <1>6, <1>9, <2>4, <3>1, <3>2, <3>3 DEF sees
  <2> QED
    BY <2>3, <2>4
<1>12. BodyComplete'
  BY <1>1, <1>2, <1>3, <1>9 DEF BodyComplete, n, dec
<1>13. verdict' \in {"wait", "request", "big", "much"}
  BY <1>1, <1>6 DEF sees
<1> QED
  BY <1>1, <1>3, <1>10, <1>11, <1>12, <1>13 DEF FInv

(* Every step keeps the invariant of the framing.                          *)
LEMMA FramingStep == ASSUME LengthsFit, FInv, [Next]_vars PROVE FInv'
<1>1. CASE UNCHANGED vars
  BY <1>1 DEF vars, FInv, Remembered, CutsDoNotMatter, BodyComplete
<1> QED
  BY <1>1, FramingArrive, FramingConnect, FramingNext DEF Next

(* The invariant of the framing holds always.                              *)
LEMMA Framing == ASSUME LengthsFit PROVE Spec => []FInv
<1>1. FInv /\ [Next]_vars => FInv'
  BY FramingStep
<1> QED
  BY <1>1, FramingInit, PTL DEF Spec

(* However a request is cut into fragments and whatever came before it on  *)
(* the connection, OnConnect comes to no other verdict than the request    *)
(* deserves, and to it if the end of its header is not hidden, for all     *)
(* requests that clients write and lengths of up to two digits -- or of    *)
(* any number of digits, if the request comes in one piece.                *)
THEOREM FramingCutsDoNotMatter == ASSUME LengthsFit PROVE Spec => []CutsDoNotMatter
<1>1. FInv => CutsDoNotMatter
  BY DEF FInv
<1> QED
  BY <1>1, Framing, PTL

(* A request is not acted on before the body it declares is there.         *)
THEOREM FramingBodyComplete == ASSUME LengthsFit PROVE Spec => []BodyComplete
<1>1. FInv => BodyComplete
  BY DEF FInv
<1> QED
  BY <1>1, Framing, PTL

(* With such lengths the server calls a client bad only if it sent more    *)
(* than it declared; with longer ones it may be wrong, as a run shows.     *)
THEOREM FramingBadClient == ASSUME LengthsFit PROVE Spec => []BadClient
<1>1. FInv => BadClient
  <2> SUFFICES ASSUME FInv, verdict = "much" PROVE BodyLen(req) > Declared(req)
    BY DEF BadClient
  <2>1. "much" \in Deserved(req)
    BY DEF FInv, CutsDoNotMatter
  <2> QED
    BY <2>1 DEF Deserved
<1> QED
  BY <1>1, Framing, PTL

-----------------------------------------------------------------------------
(* Base64.  Pieces of one length, put together: what is where.             *)
LEMMA FlattenPieces ==
  ASSUME NEW T, NEW m \in {3, 4}, NEW s \in Seq(Seq(T)), \A i \in 1 .. Len(s) : Len(s[i]) = m
  PROVE  /\ FlattenSeq(s) \in Seq(T) /\ Len(FlattenSeq(s)) = m * Len(s)
         /\ \A i \in 1 .. Len(s), k \in 1 .. m : FlattenSeq(s)[m * (i - 1) + k] = s[i][k]
<1>1. PICK f \in [0 .. Len(s) -> Seq(T)] :
        /\ f[0] = <<>>
        /\ \A i \in 1 .. Len(s) : f[i] = f[i - 1] \o s[i]
        /\ FlattenSeq(s) = f[Len(s)]
  BY FlattenSteps
<1>2. Len(s) \in Nat /\ \A i \in 1 .. Len(s) : s[i] \in Seq(T)
  BY LenProperties, ElementOfSeq
<1> DEFINE Right(i) == /\ Len(f[i]) = m * i
                       /\ \A j \in 1 .. i, k \in 1 .. m : f[i][m * (j - 1) + k] = s[j][k]
           E == { i \in Nat : Right(i) }
<1>3. 0 \in E
  BY <1>1
<1>4. ASSUME NEW i \in 0 .. Len(s) - 1, i \in E PROVE i + 1 \in E
  <2>1. i + 1 \in 1 .. Len(s) /\ (i + 1) - 1 = i /\ i \in Nat /\ Right(i) /\ i \in 0 .. Len(s)
    <3>1. Right(i)
      BY <1>4
    <3> HIDE DEF Right, E
    <3>2. i + 1 \in 1 .. Len(s) /\ (i + 1) - 1 = i /\ i \in Nat /\ i \in 0 .. Len(s)
      BY <1>2
    <3> QED
      BY <3>1, <3>2
  <2>a. \A j \in 1 .. i, k \in 1 .. m : f[i][m * (j - 1) + k] = s[j][k]
    BY <2>1
  <2>b. Len(f[i]) = m * i
    BY <2>1
  <2> HIDE DEF Right, E
  <2>2. f[i + 1] = f[i] \o s[i + 1] /\ f[i] \in Seq(T) /\ s[i + 1] \in Seq(T) /\ Len(s[i + 1]) = m
    <3>1. f[i + 1] = f[(i + 1) - 1] \o s[i + 1]
      BY <1>1, <2>1
    <3> QED
      BY <1>1, <1>2, <2>1, <3>1
  <2>4. m * i + m = m * (i + 1) /\ m * i \in Nat /\ m \in Nat
    BY <2>1
  <2>3. /\ Len(f[i + 1]) = m * i + m
        /\ \A x \in 1 .. m * i + m : f[i + 1][x] = IF x <= m * i THEN f[i][x] ELSE s[i + 1][x - m * i]
    <3> DEFINE u == f[i]  v == s[i + 1]  w == f[i + 1]
    <3>1. w = u \o v /\ u \in Seq(T) /\ v \in Seq(T) /\ Len(v) = m /\ Len(u) = m * i
      BY <2>2, <2>b
    <3> HIDE DEF u, v, w
    <3>2. /\ Len(w) = Len(u) + Len(v)
          /\ \A x \in 1 .. Len(u) + Len(v) : w[x] = IF x <= Len(u) THEN u[x] ELSE v[x - Len(u)]
      BY <3>1, ConcatProperties
    <3>3. Len(w) = m * i + m /\ \A x \in 1 .. m * i + m : w[x] = IF x <= m * i THEN u[x] ELSE v[x - m * i]
      BY <3>1, <3>2
    <3> QED
      BY <3>3 DEF u, v, w
  <2>5. Len(f[i + 1]) = m * (i + 1)
    BY <2>3, <2>4
  <2>6. ASSUME NEW j \in 1 .. i + 1, NEW k \in 1 .. m PROVE f[i + 1][m * (j - 1) + k] = s[j][k]
    <3>1. CASE j = i + 1
      <4>1. PICK x \in Nat, y \in Nat : x = m * (j - 1) + k /\ y = m * i
        BY <2>1, <2>4, <3>1
      <4>2. x = y + k /\ x \in 1 .. y + m /\ ~(x <= y) /\ x - y = k
        BY <2>1, <3>1, <4>1
      <4>3. f[i + 1][x] = s[i + 1][x - y]
        BY <2>3, <4>1, <4>2
      <4>4. f[i + 1][x] = s[j][k]
        BY <3>1, <4>2, <4>3
      <4> QED
        BY <4>1, <4>4
    <3>2. CASE j \in 1 .. i
      <4>1. m * (j - 1) + k \in 1 .. m * i + m /\ m * (j - 1) + k <= m * i
        <5>1. CASE m = 3
          <6>1. 3 * (j - 1) + k \in 1 .. 3 * i + 3 /\ 3 * (j - 1) + k <= 3 * i
            BY <2>1, <3>2, <5>1
          <6> QED
            BY <5>1, <6>1
        <5>2. CASE m = 4
          <6>1. 4 * (j - 1) + k \in 1 .. 4 * i + 4 /\ 4 * (j - 1) + k <= 4 * i
            BY <2>1, <3>2, <5>2
          <6> QED
            BY <5>2, <6>1
        <5> QED
          BY <5>1, <5>2
      <4>3. f[i + 1][m * (j - 1) + k] = f[i][m * (j - 1) + k]
        BY <2>3, <4>1
      <4>4. f[i][m * (j - 1) + k] = s[j][k]
        BY <2>a, <3>2
      <4> QED
        BY <4>3, <4>4
    <3> QED
      BY <2>1, <3>1, <3>2
  <2>7. Right(i + 1)
    BY <2>5, <2>6 DEF Right
  <2> QED
    BY <2>1, <2>7 DEF E
<1> HIDE DEF E
<1>5. Len(s) \in E
  <2>1. 0 .. Len(s) \subseteq E
    BY <1>2, <1>3, <1>4, UpTo
  <2> QED
    BY <1>2, <2>1
<1>6. Right(Len(s)) /\ Len(s) \in 0 .. Len(s)
  BY <1>2, <1>5 DEF E
<1> QED
  BY <1>1, <1>6

Sextet == 0 .. 63

(* Three bytes are written as four characters, of six bits each.           *)
LEMMA QuadChars ==
  ASSUME NEW b, b[1] \in Byte, b[2] \in Byte, b[3] \in Byte
  PROVE  /\ Quad(b) \in Seq(Sextet) /\ Len(Quad(b)) = 4
         /\ Quad(b)[1] = b[1] \div 4
         /\ Quad(b)[2] = (b[1] % 4) * 16 + (b[2] \div 16)
         /\ Quad(b)[3] = (b[2] % 16) * 4 + (b[3] \div 64)
         /\ Quad(b)[4] = b[3] % 64
<1>1. \A x, y, z \in Byte : /\ x \div 4 \in Sextet /\ (x % 4) * 16 + (y \div 16) \in Sextet
                            /\ (y % 16) * 4 + (z \div 64) \in Sextet /\ z % 64 \in Sextet
  BY DEF Byte, Sextet
<1>2. /\ b[1] \div 4 \in Sextet /\ (b[1] % 4) * 16 + (b[2] \div 16) \in Sextet
      /\ (b[2] % 16) * 4 + (b[3] \div 64) \in Sextet /\ b[3] % 64 \in Sextet
  BY <1>1
<1> QED
  BY <1>2 DEF Quad

(* Three bytes come back from their four characters.                       *)
LEMMA TripleOfQuad ==
  ASSUME NEW x \in Byte, NEW y \in Byte, NEW z \in Byte, NEW q,
         q[1] = x \div 4, q[2] = (x % 4) * 16 + (y \div 16),
         NEW t, t = Triple(q)
  PROVE  /\ Len(t) = 3 /\ t[1] = x
         /\ q[3] = (y % 16) * 4 + (z \div 64) => t[2] = y /\ (q[4] = z % 64 => t[3] = z)
<1>2. /\ Len(t) = 3 /\ t[1] = (q[1] * 4 + ((q[2] \div 16) % 4)) % 256
      /\ t[2] = ((q[2] % 16) * 16 + ((q[3] \div 4) % 16)) % 256
      /\ t[3] = ((q[3] % 4) * 64 + q[4]) % 256
  BY DEF Triple
<1>3. \A u, v \in Byte : ((u \div 4) * 4 + ((((u % 4) * 16 + (v \div 16)) \div 16) % 4)) % 256 = u
  BY DEF Byte
<1>4. \A u, v, w \in Byte :
        ((((u % 4) * 16 + (v \div 16)) % 16) * 16 + ((((v % 16) * 4 + (w \div 64)) \div 4) % 16)) % 256 = v
  BY DEF Byte
<1>5. \A v, w \in Byte : ((((v % 16) * 4 + (w \div 64)) % 4) * 64 + (w % 64)) % 256 = w
  BY DEF Byte
<1>6. t[1] = x
  BY <1>2, <1>3
<1>7. q[3] = (y % 16) * 4 + (z \div 64) => t[2] = y
  BY <1>2, <1>4
<1>8. q[3] = (y % 16) * 4 + (z \div 64) /\ q[4] = z % 64 => t[3] = z
  BY <1>2, <1>5
<1> QED
  BY <1>2, <1>6, <1>7, <1>8

(* What Groups and Rest cut a sequence of m * g + r elements into.         *)
Grouped(s, S, m, g, r) ==
  /\ Groups(s, m) \in [1 .. g -> Seq(S)] /\ DOMAIN Groups(s, m) = 1 .. g
  /\ \A i \in 1 .. g : /\ Len(Groups(s, m)[i]) = m
                       /\ \A k \in 1 .. m : /\ m * (i - 1) + k \in 1 .. Len(s)
                                            /\ Groups(s, m)[i][k] = s[m * (i - 1) + k]
  /\ Rest(s, m) \in Seq(S) /\ Len(Rest(s, m)) = r
  /\ \A k \in 1 .. r : Rest(s, m)[k] = s[m * g + k]

(* A sequence is cut into full groups and a rest.                          *)
LEMMA GroupsShape ==
  ASSUME NEW S, NEW m \in {3, 4}, NEW g \in Nat, NEW r \in Nat, r < m, NEW s \in Seq(S), Len(s) = m * g + r
  PROVE  Grouped(s, S, m, g, r)
<1>1. Len(s) \div m = g /\ m \in Nat /\ m * g \in Nat /\ \A i \in 1 .. Len(s) : s[i] \in S
  BY ElementOfSeq
<1>2. ASSUME NEW i \in 1 .. g
      PROVE  LET p == SubSeq(s, m * (i - 1) + 1, m * i)
             IN  p \in Seq(S) /\ Len(p) = m
                 /\ \A k \in 1 .. m : m * (i - 1) + k \in 1 .. Len(s) /\ p[k] = s[m * (i - 1) + k]
  <2>1. PICK x, y \in Nat : x = m * (i - 1) + 1 /\ y = m * i
    BY <1>1
  <2>2. 1 <= x /\ y - x + 1 = m /\ y <= Len(s) /\ x <= y
    BY <1>1, <2>1
  <2>3. \A k \in x .. y : s[k] \in S
    BY <1>1, <2>2
  <2>4. /\ SubSeq(s, x, y) \in Seq(S) /\ Len(SubSeq(s, x, y)) = IF x <= y THEN y - x + 1 ELSE 0
        /\ \A k \in 1 .. y - x + 1 : SubSeq(s, x, y)[k] = s[x + k - 1]
    BY <2>3, SubSeqProperties
  <2>5. \A k \in 1 .. m : m * (i - 1) + k = x + k - 1 /\ x + k - 1 \in 1 .. Len(s)
    BY <2>1, <2>2, LenProperties
  <2>6. /\ SubSeq(s, x, y) \in Seq(S) /\ Len(SubSeq(s, x, y)) = m
        /\ \A k \in 1 .. m : m * (i - 1) + k \in 1 .. Len(s) /\ SubSeq(s, x, y)[k] = s[m * (i - 1) + k]
    BY <2>2, <2>4, <2>5
  <2> QED
    BY <2>1, <2>6
<1>3. Groups(s, m) = [i \in 1 .. g |-> SubSeq(s, m * (i - 1) + 1, m * i)]
  BY <1>1 DEF Groups
<1>4. /\ Rest(s, m) \in Seq(S) /\ Len(Rest(s, m)) = r /\ \A k \in 1 .. r : Rest(s, m)[k] = s[m * g + k]
  <2>1. PICK x, y \in Nat : x = m * g + 1 /\ y = Len(s)
    BY <1>1, LenProperties
  <2>2. 1 <= x /\ y - x + 1 = r /\ r \in Nat
    BY <1>1, <2>1
  <2>3. \A k \in x .. y : s[k] \in S
    BY <1>1, <2>1, <2>2
  <2>4. /\ SubSeq(s, x, y) \in Seq(S) /\ Len(SubSeq(s, x, y)) = IF x <= y THEN y - x + 1 ELSE 0
        /\ \A k \in 1 .. y - x + 1 : SubSeq(s, x, y)[k] = s[x + k - 1]
    BY <2>3, SubSeqProperties
  <2>5. Rest(s, m) = SubSeq(s, x, y)
    BY <1>1, <2>1 DEF Rest
  <2>6. \A k \in 1 .. r : m * g + k = x + k - 1 /\ k \in 1 .. y - x + 1
    BY <2>1, <2>2, <1>1
  <2> DEFINE p == SubSeq(s, x, y)
  <2>7. p \in Seq(S) /\ Len(p) = r
    BY <2>2, <2>4
  <2>8. ASSUME NEW k \in 1 .. r PROVE p[k] = s[m * g + k]
    BY <2>4, <2>6
  <2> QED
    BY <2>5, <2>7, <2>8
<1> QED
  BY <1>2, <1>3, <1>4 DEF Grouped

FilledUp(t, S, s, c, n) ==
  /\ t \in Seq(S) /\ Len(t) = n
  /\ \A i \in 1 .. n : t[i] = IF i <= Len(s) THEN s[i] ELSE c

(* A short group is filled up to its size.                                 *)
LEMMA FilledShape ==
  ASSUME NEW S, NEW s \in Seq(S), NEW c \in S, NEW n \in Nat, Len(s) <= n
  PROVE  FilledUp(Filled(s, n, c), S, s, c, n)
<1>1. n - Len(s) \in Nat /\ Len(s) \in Nat
  BY LenProperties
<1>2. PICK d \in Nat : d = n - Len(s)
  BY <1>1
<1>3. PICK t : t = [i \in 1 .. d |-> c]
  OBVIOUS
<1>4. t \in Seq(S) /\ Len(t) = d
  <2>1. t \in [1 .. d -> S]
    BY <1>3
  <2> QED
    BY <2>1, FunctionIsSeq
<1>5. Filled(s, n, c) = s \o t
  BY <1>2, <1>3 DEF Filled
<1>6. /\ s \o t \in Seq(S) /\ Len(s \o t) = Len(s) + d
      /\ \A i \in 1 .. Len(s) + d : (s \o t)[i] = IF i <= Len(s) THEN s[i] ELSE t[i - Len(s)]
  BY <1>4, ConcatProperties
<1>7. \A i \in 1 .. n : ~(i <= Len(s)) => t[i - Len(s)] = c
  BY <1>1, <1>2, <1>3
<1>8. Len(s) + d = n
  BY <1>1, <1>2
<1> QED
  BY <1>5, <1>6, <1>7, <1>8 DEF FilledUp

(* Four characters are read as three bytes.                                *)
LEMMA TripleBytes ==
  ASSUME NEW q, q[1] \in Nat, q[2] \in Nat, q[3] \in Nat, q[4] \in Nat
  PROVE  Triple(q) \in Seq(Byte) /\ Len(Triple(q)) = 3
<1> DEFINE First_(a, b)  == (a * 4 + ((b \div 16) % 4)) % 256
           Second_(b, c) == ((b % 16) * 16 + ((c \div 4) % 16)) % 256
           Third_(c, d)  == ((c % 4) * 64 + d) % 256
<1>1. \A a, b \in Nat : First_(a, b) \in Byte /\ Second_(a, b) \in Byte /\ Third_(a, b) \in Byte
  BY DEF Byte
<1>2. Triple(q) = <<First_(q[1], q[2]), Second_(q[2], q[3]), Third_(q[3], q[4])>>
  BY DEF Triple
<1> HIDE DEF First_, Second_, Third_
<1>3. PICK x, y, z : x = First_(q[1], q[2]) /\ y = Second_(q[2], q[3]) /\ z = Third_(q[3], q[4])
  OBVIOUS
<1>4. x \in Byte /\ y \in Byte /\ z \in Byte
  BY <1>1, <1>3, Zenon
<1>5. Triple(q) = <<x, y, z>>
  BY <1>2, <1>3, Zenon
<1> QED
  BY <1>4, <1>5

(* The characters of b: four for three bytes, and for one or two bytes     *)
(* left over two or three and the rest of four Pads.                       *)
Chars(e, b, g, r) ==
  /\ e \in Seq(0 .. 64)
  /\ Len(e) = 4 * g + (IF r = 0 THEN 0 ELSE 4)
  /\ \A i \in 1 .. g :
       /\ e[4 * (i - 1) + 1] = b[3 * (i - 1) + 1] \div 4
       /\ e[4 * (i - 1) + 2] = (b[3 * (i - 1) + 1] % 4) * 16 + (b[3 * (i - 1) + 2] \div 16)
       /\ e[4 * (i - 1) + 3] = (b[3 * (i - 1) + 2] % 16) * 4 + (b[3 * (i - 1) + 3] \div 64)
       /\ e[4 * (i - 1) + 4] = b[3 * (i - 1) + 3] % 64
  /\ \A i \in 1 .. 4 * g : e[i] \in Sextet
  /\ r = 1 => /\ e[4 * g + 1] = b[3 * g + 1] \div 4
              /\ e[4 * g + 2] = (b[3 * g + 1] % 4) * 16 + (0 \div 16)
              /\ e[4 * g + 3] = Pad /\ e[4 * g + 4] = Pad
  /\ r = 2 => /\ e[4 * g + 1] = b[3 * g + 1] \div 4
              /\ e[4 * g + 2] = (b[3 * g + 1] % 4) * 16 + (b[3 * g + 2] \div 16)
              /\ e[4 * g + 3] = (b[3 * g + 2] % 16) * 4 + (0 \div 64)
              /\ e[4 * g + 4] = Pad

(* The encoder writes the characters of each group, then the padding.      *)
LEMMA EncodedChars ==
  ASSUME NEW b \in Seq(Byte), NEW g \in Nat, NEW r \in 0 .. 2, Len(b) = 3 * g + r
  PROVE  Chars(Base64Encode(b), b, g, r)
<1>a. PICK whole, rest : whole = Groups(b, 3) /\ rest = Rest(b, 3)
  OBVIOUS
<1> DEFINE quads == [i \in DOMAIN whole |-> Quad(whole[i])]
           tail  == IF rest = <<>> THEN <<>>
                    ELSE Filled(SubSeq(Quad(Filled(rest, 3, 0)), 1, Len(rest) + 1), 4, Pad)
<1>1. /\ whole \in [1 .. g -> Seq(Byte)] /\ DOMAIN whole = 1 .. g
      /\ \A i \in 1 .. g : /\ Len(whole[i]) = 3
                           /\ \A k \in 1 .. 3 : 3 * (i - 1) + k \in 1 .. Len(b) /\ whole[i][k] = b[3 * (i - 1) + k]
      /\ rest \in Seq(Byte) /\ Len(rest) = r
      /\ \A k \in 1 .. r : rest[k] = b[3 * g + k]
  <2>1. PICK m \in {3, 4} : m = 3
    OBVIOUS
  <2>2. r \in Nat /\ r < m /\ Len(b) = m * g + r
    BY <2>1
  <2> HIDE DEF quads, tail
  <2>3. Grouped(b, Byte, m, g, r)
    BY <2>2, GroupsShape
  <2> QED
    BY <1>a, <2>1, <2>3 DEF Grouped
<1>2. PICK f : f = FlattenSeq(quads)
  OBVIOUS
<1>3. Base64Encode(b) = f \o tail
  BY <1>a, <1>2 DEF Base64Encode
<1>4. ASSUME NEW i \in 1 .. g
      PROVE  /\ quads[i] \in Seq(Sextet) /\ Len(quads[i]) = 4
             /\ quads[i][1] = b[3 * (i - 1) + 1] \div 4
             /\ quads[i][2] = (b[3 * (i - 1) + 1] % 4) * 16 + (b[3 * (i - 1) + 2] \div 16)
             /\ quads[i][3] = (b[3 * (i - 1) + 2] % 16) * 4 + (b[3 * (i - 1) + 3] \div 64)
             /\ quads[i][4] = b[3 * (i - 1) + 3] % 64
  <2>1. PICK w : w = whole[i]
    OBVIOUS
  <2>2. /\ w[1] = b[3 * (i - 1) + 1] /\ w[2] = b[3 * (i - 1) + 2] /\ w[3] = b[3 * (i - 1) + 3]
    <3>1. 1 \in 1 .. 3 /\ 2 \in 1 .. 3 /\ 3 \in 1 .. 3
      OBVIOUS
    <3>2. \A k \in 1 .. 3 : w[k] = b[3 * (i - 1) + k]
      BY <1>1, <2>1
    <3> HIDE DEF quads, tail
    <3> QED
      BY <3>1, <3>2
  <2>3. w \in Seq(Byte) /\ Len(w) = 3
    BY <1>1, <2>1
  <2>4. w[1] \in Byte /\ w[2] \in Byte /\ w[3] \in Byte
    <3>1. 1 \in 1 .. Len(w) /\ 2 \in 1 .. Len(w) /\ 3 \in 1 .. Len(w)
      BY <2>3
    <3> HIDE DEF quads, tail
    <3> QED
      BY <2>3, <3>1, ElementOfSeq
  <2>5. quads[i] = Quad(w)
    BY <1>1, <2>1
  <2>6. /\ Quad(w) \in Seq(Sextet) /\ Len(Quad(w)) = 4
        /\ Quad(w)[1] = w[1] \div 4
        /\ Quad(w)[2] = (w[1] % 4) * 16 + (w[2] \div 16)
        /\ Quad(w)[3] = (w[2] % 16) * 4 + (w[3] \div 64)
        /\ Quad(w)[4] = w[3] % 64
    BY <2>4, QuadChars
  <2> HIDE DEF quads
  <2> QED
    BY <2>2, <2>5, <2>6
<1>5. quads \in Seq(Seq(Sextet)) /\ Len(quads) = g
  <2>1. quads \in [1 .. g -> Seq(Sextet)]
    BY <1>1, <1>4
  <2> HIDE DEF quads
  <2> QED
    BY <2>1, FunctionIsSeq
<1> HIDE DEF quads
<1>6. /\ f \in Seq(Sextet) /\ Len(f) = 4 * g
      /\ \A i \in 1 .. g, k \in 1 .. 4 : f[4 * (i - 1) + k] = quads[i][k]
  <2>1. \A i \in 1 .. Len(quads) : Len(quads[i]) = 4
    BY <1>4, <1>5
  <2>2. 4 \in {3, 4}
    OBVIOUS
  <2>3. /\ FlattenSeq(quads) \in Seq(Sextet) /\ Len(FlattenSeq(quads)) = 4 * Len(quads)
        /\ \A i \in 1 .. Len(quads), k \in 1 .. 4 : FlattenSeq(quads)[4 * (i - 1) + k] = quads[i][k]
    BY <1>5, <2>1, <2>2, FlattenPieces
  <2> QED
    BY <1>2, <1>5, <2>3
<1>7. /\ tail \in Seq(0 .. 64) /\ Len(tail) = IF r = 0 THEN 0 ELSE 4
      /\ r = 1 => /\ tail[1] = b[3 * g + 1] \div 4
                  /\ tail[2] = (b[3 * g + 1] % 4) * 16 + (0 \div 16)
                  /\ tail[3] = Pad /\ tail[4] = Pad
      /\ r = 2 => /\ tail[1] = b[3 * g + 1] \div 4
                  /\ tail[2] = (b[3 * g + 1] % 4) * 16 + (b[3 * g + 2] \div 16)
                  /\ tail[3] = (b[3 * g + 2] % 16) * 4 + (0 \div 64)
                  /\ tail[4] = Pad
  <2>1. CASE r = 0
    <3>1. rest = <<>>
      BY <1>1, <2>1, EmptySeq
    <3> QED
      BY <2>1, <3>1
  <2>2. CASE r # 0
    <3>1. rest # <<>> /\ Len(rest) <= 3
      BY <1>1, <2>2
    <3>2. PICK w : w = Filled(rest, 3, 0)
      OBVIOUS
    <3>3. /\ w \in Seq(Byte) /\ Len(w) = 3
          /\ \A i \in 1 .. 3 : w[i] = IF i <= r THEN rest[i] ELSE 0
      <4>1. 0 \in Byte /\ 3 \in Nat
        BY DEF Byte
      <4> HIDE DEF tail
      <4>2. /\ w \in Seq(Byte) /\ Len(w) = 3
            /\ \A i \in 1 .. 3 : w[i] = IF i <= Len(rest) THEN rest[i] ELSE 0
        <5>1. FilledUp(Filled(rest, 3, 0), Byte, rest, 0, 3)
          BY <1>1, <3>1, <4>1, FilledShape
        <5> QED
          BY <3>2, <5>1 DEF FilledUp
      <4> QED
        BY <1>1, <4>2
    <3>4. w[1] \in Byte /\ w[2] \in Byte /\ w[3] \in Byte
      BY <3>3
    <3>5. PICK q : q = Quad(w)
      OBVIOUS
    <3>6. /\ q \in Seq(Sextet) /\ Len(q) = 4
          /\ q[1] = w[1] \div 4
          /\ q[2] = (w[1] % 4) * 16 + (w[2] \div 16)
          /\ q[3] = (w[2] % 16) * 4 + (w[3] \div 64)
      BY <3>4, <3>5, QuadChars
    <3>7. PICK h : h = SubSeq(q, 1, r + 1)
      OBVIOUS
    <3>8. h \in Seq(0 .. 64) /\ Len(h) = r + 1 /\ \A i \in 1 .. r + 1 : h[i] = q[i]
      <4>1. \A i \in 1 .. r + 1 : q[i] \in 0 .. 64
        <5> HIDE DEF tail
        <5>1. \A i \in 1 .. r + 1 : i \in 1 .. Len(q)
          BY <3>6
        <5>2. \A i \in 1 .. r + 1 : q[i] \in Sextet
          BY <3>6, <5>1, ElementOfSeq
        <5> QED
          BY <5>2 DEF Sextet
      <4>2. 1 \in Int /\ r + 1 \in Int /\ 1 <= r + 1
        OBVIOUS
      <4>3. /\ h \in Seq(0 .. 64) /\ Len(h) = IF 1 <= r + 1 THEN (r + 1) - 1 + 1 ELSE 0
            /\ \A i \in 1 .. (r + 1) - 1 + 1 : h[i] = q[1 + i - 1]
        BY <3>7, <4>1, <4>2, SubSeqProperties
      <4> QED
        BY <4>2, <4>3
    <3>9. tail = Filled(h, 4, Pad)
      BY <1>1, <3>1, <3>2, <3>5, <3>7
    <3>10. /\ tail \in Seq(0 .. 64) /\ Len(tail) = 4
           /\ \A i \in 1 .. 4 : tail[i] = IF i <= r + 1 THEN h[i] ELSE Pad
      <4>1. Pad \in 0 .. 64 /\ 4 \in Nat /\ Len(h) <= 4
        BY <3>8 DEF Pad
      <4> HIDE DEF tail
      <4>2. /\ tail \in Seq(0 .. 64) /\ Len(tail) = 4
            /\ \A i \in 1 .. 4 : tail[i] = IF i <= Len(h) THEN h[i] ELSE Pad
        <5>1. FilledUp(Filled(h, 4, Pad), 0 .. 64, h, Pad, 4)
          BY <3>8, <4>1, FilledShape
        <5> QED
          BY <3>9, <5>1 DEF FilledUp
      <4> QED
        BY <3>8, <4>2
    <3> HIDE DEF tail
    <3>11. CASE r = 1
      <4>1. w[1] = b[3 * g + 1] /\ w[2] = 0
        BY <1>1, <3>3, <3>11
      <4>2. tail[1] = q[1] /\ tail[2] = q[2] /\ tail[3] = Pad /\ tail[4] = Pad
        BY <3>8, <3>10, <3>11
      <4> QED
        BY <3>6, <3>10, <3>11, <4>1, <4>2
    <3>12. CASE r = 2
      <4>1. w[1] = b[3 * g + 1] /\ w[2] = b[3 * g + 2] /\ w[3] = 0
        BY <1>1, <3>3, <3>12
      <4>2. tail[1] = q[1] /\ tail[2] = q[2] /\ tail[3] = q[3] /\ tail[4] = Pad
        BY <3>8, <3>10, <3>12
      <4> QED
        BY <3>6, <3>10, <3>12, <4>1, <4>2
    <3> QED
      BY <2>2, <3>11, <3>12
  <2> QED
    BY <2>1, <2>2
<1> HIDE DEF tail
<1>8. PICK e : e = f \o tail
  OBVIOUS
<1>9. f \in Seq(0 .. 64) /\ \A i \in 1 .. 4 * g : f[i] \in Sextet
  <2>1. \A i \in 1 .. 4 * g : f[i] \in Sextet
    BY <1>6, ElementOfSeq
  <2> QED
    BY <1>6, <2>1 DEF Sextet
<1>10. /\ e \in Seq(0 .. 64) /\ Len(e) = 4 * g + Len(tail)
       /\ \A i \in 1 .. 4 * g + Len(tail) : e[i] = IF i <= 4 * g THEN f[i] ELSE tail[i - 4 * g]
  <2>1. PICK t : t = tail
    OBVIOUS
  <2>2. t \in Seq(0 .. 64)
    BY <1>7, <2>1
  <2>3. /\ f \o t \in Seq(0 .. 64) /\ Len(f \o t) = Len(f) + Len(t)
        /\ \A i \in 1 .. Len(f) + Len(t) : (f \o t)[i] = IF i <= Len(f) THEN f[i] ELSE t[i - Len(f)]
    BY <1>9, <2>2, ConcatProperties
  <2>4. e = f \o t /\ Len(f) = 4 * g
    BY <1>6, <1>8, <2>1
  <2> QED
    BY <2>1, <2>3, <2>4
<1>11. \A i \in 1 .. 4 * g : e[i] = f[i]
  BY <1>7, <1>10
<1>12. r # 0 => \A k \in 1 .. 4 : e[4 * g + k] = tail[k]
  <2>1. ASSUME NEW k \in 1 .. 4, r # 0 PROVE e[4 * g + k] = tail[k]
    <3>1. 4 * g + k \in 1 .. 4 * g + Len(tail) /\ ~(4 * g + k <= 4 * g) /\ 4 * g + k - 4 * g = k
      BY <1>7, <2>1
    <3> QED
      BY <1>10, <3>1
  <2> QED
    BY <2>1
<1>13. \A i \in 1 .. g, k \in 1 .. 4 : e[4 * (i - 1) + k] = quads[i][k]
  <2>1. \A i \in 1 .. g, k \in 1 .. 4 : 4 * (i - 1) + k \in 1 .. 4 * g
    OBVIOUS
  <2> QED
    BY <1>6, <1>11, <2>1
<1>14. /\ e \in Seq(0 .. 64) /\ Len(e) = 4 * g + (IF r = 0 THEN 0 ELSE 4)
       /\ \A i \in 1 .. 4 * g : e[i] \in Sextet
  BY <1>7, <1>9, <1>10, <1>11
<1>15. \A i \in 1 .. g :
         /\ e[4 * (i - 1) + 1] = b[3 * (i - 1) + 1] \div 4
         /\ e[4 * (i - 1) + 2] = (b[3 * (i - 1) + 1] % 4) * 16 + (b[3 * (i - 1) + 2] \div 16)
         /\ e[4 * (i - 1) + 3] = (b[3 * (i - 1) + 2] % 16) * 4 + (b[3 * (i - 1) + 3] \div 64)
         /\ e[4 * (i - 1) + 4] = b[3 * (i - 1) + 3] % 64
  <2> SUFFICES ASSUME NEW i \in 1 .. g
               PROVE  /\ e[4 * (i - 1) + 1] = b[3 * (i - 1) + 1] \div 4
                      /\ e[4 * (i - 1) + 2] = (b[3 * (i - 1) + 1] % 4) * 16 + (b[3 * (i - 1) + 2] \div 16)
                      /\ e[4 * (i - 1) + 3] = (b[3 * (i - 1) + 2] % 16) * 4 + (b[3 * (i - 1) + 3] \div 64)
                      /\ e[4 * (i - 1) + 4] = b[3 * (i - 1) + 3] % 64
    OBVIOUS
  <2>1. /\ e[4 * (i - 1) + 1] = quads[i][1] /\ e[4 * (i - 1) + 2] = quads[i][2]
        /\ e[4 * (i - 1) + 3] = quads[i][3] /\ e[4 * (i - 1) + 4] = quads[i][4]
    <3>1. 1 \in 1 .. 4 /\ 2 \in 1 .. 4 /\ 3 \in 1 .. 4 /\ 4 \in 1 .. 4
      OBVIOUS
    <3> QED
      BY <1>13, <3>1
  <2> QED
    BY <1>4, <2>1, Zenon
<1>16. r = 1 => e[4 * g + 1] = tail[1] /\ e[4 * g + 2] = tail[2] /\ e[4 * g + 3] = tail[3] /\ e[4 * g + 4] = tail[4]
  BY <1>12
<1>17. r = 2 => e[4 * g + 1] = tail[1] /\ e[4 * g + 2] = tail[2] /\ e[4 * g + 3] = tail[3] /\ e[4 * g + 4] = tail[4]
  BY <1>12
<1>18. Chars(e, b, g, r)
  BY <1>7, <1>14, <1>15, <1>16, <1>17 DEF Chars
<1> QED
  BY <1>3, <1>8, <1>18

(* Of the characters, those before the first Pad: all of the whole groups, *)
(* and of the last one as many as stand for bytes, and one more.           *)
UpToPad(head, stop, e) ==
  \E I : /\ I = { i \in 1 .. Len(e) : e[i] = Pad }
         /\ stop = IF I # {} THEN Min(I) ELSE 0
         /\ head = IF stop = 0 THEN e ELSE SubSeq(e, 1, stop - 1)

Meaning(head, e, g, c) ==
  head \in Seq(Sextet) /\ Len(head) = 4 * g + c /\ \A i \in 1 .. 4 * g + c : head[i] = e[i]

(* What stands before the padding is the characters of the bytes.          *)
LEMMA BeforePad ==
  ASSUME NEW e, NEW b \in Seq(Byte), NEW g \in Nat, NEW r \in 0 .. 2, Len(b) = 3 * g + r, Chars(e, b, g, r),
         NEW stop, NEW head, UpToPad(head, stop, e)
  PROVE  Meaning(head, e, g, IF r = 0 THEN 0 ELSE r + 1)
<1>a. PICK I : /\ I = { i \in 1 .. Len(e) : e[i] = Pad }
               /\ stop = IF I # {} THEN Min(I) ELSE 0
               /\ head = IF stop = 0 THEN e ELSE SubSeq(e, 1, stop - 1)
  BY DEF UpToPad
<1>b. \A i \in 1 .. Len(b) : b[i] \in Byte
  BY ElementOfSeq
<1>1. \A x, y \in Byte : /\ x \div 4 \in Sextet /\ (x % 4) * 16 + (y \div 16) \in Sextet
                         /\ (x % 16) * 4 + (y \div 64) \in Sextet
  BY DEF Byte, Sextet
<1>2. 0 \in Byte
  BY DEF Byte
<1>4. /\ e \in Seq(0 .. 64) /\ Len(e) = 4 * g + (IF r = 0 THEN 0 ELSE 4)
      /\ \A i \in 1 .. 4 * g : e[i] \in Sextet
      /\ r = 1 => /\ e[4 * g + 1] = b[3 * g + 1] \div 4
                  /\ e[4 * g + 2] = (b[3 * g + 1] % 4) * 16 + (0 \div 16)
                  /\ e[4 * g + 3] = Pad
      /\ r = 2 => /\ e[4 * g + 1] = b[3 * g + 1] \div 4
                  /\ e[4 * g + 2] = (b[3 * g + 1] % 4) * 16 + (b[3 * g + 2] \div 16)
                  /\ e[4 * g + 3] = (b[3 * g + 2] % 16) * 4 + (0 \div 64)
                  /\ e[4 * g + 4] = Pad
  BY DEF Chars
<1>5. r = 1 => e[4 * g + 1] \in Sextet /\ e[4 * g + 2] \in Sextet
  <2> SUFFICES ASSUME r = 1 PROVE e[4 * g + 1] \in Sextet /\ e[4 * g + 2] \in Sextet
    OBVIOUS
  <2>1. PICK x \in Byte : x = b[3 * g + 1]
    <3>1. 3 * g + 1 \in 1 .. Len(b)
      OBVIOUS
    <3> QED
      BY <1>b, <3>1
  <2>2. x \div 4 \in Sextet /\ (x % 4) * 16 + (0 \div 16) \in Sextet
    BY <1>1, <1>2
  <2> QED
    BY <1>4, <2>1, <2>2
<1>6. r = 2 => e[4 * g + 1] \in Sextet /\ e[4 * g + 2] \in Sextet /\ e[4 * g + 3] \in Sextet
  <2> SUFFICES ASSUME r = 2 PROVE e[4 * g + 1] \in Sextet /\ e[4 * g + 2] \in Sextet /\ e[4 * g + 3] \in Sextet
    OBVIOUS
  <2>1. PICK x, y \in Byte : x = b[3 * g + 1] /\ y = b[3 * g + 2]
    <3>1. 3 * g + 1 \in 1 .. Len(b) /\ 3 * g + 2 \in 1 .. Len(b)
      OBVIOUS
    <3> QED
      BY <1>b, <3>1
  <2>2. x \div 4 \in Sextet /\ (x % 4) * 16 + (y \div 16) \in Sextet /\ (y % 16) * 4 + (0 \div 64) \in Sextet
    BY <1>1, <1>2
  <2> QED
    BY <1>4, <2>1, <2>2
<1>7. Pad \notin Sextet
  BY DEF Pad, Sextet
<1>8. CASE r = 0
  <2>1. Len(e) = 4 * g
    BY <1>4, <1>8
  <2>2. \A i \in 1 .. Len(e) : e[i] \in Sextet
    BY <1>4, <2>1
  <2>3. I = {}
    BY <1>a, <1>7, <2>2
  <2>4. head = e
    BY <1>a, <2>3
  <2>5. e \in Seq(Sextet)
    <3>1. e = [i \in 1 .. Len(e) |-> e[i]] /\ Len(e) \in Nat
      BY <1>4, LenProperties
    <3>2. e \in [1 .. Len(e) -> Sextet]
      BY <2>2, <3>1
    <3> QED
      BY <3>1, <3>2, FunctionIsSeq
  <2>6. Len(head) = 4 * g + 0 /\ \A i \in 1 .. 4 * g + 0 : head[i] = e[i]
    BY <2>1, <2>4
  <2> QED
    BY <1>8, <2>4, <2>5, <2>6 DEF Meaning
<1>9. CASE r # 0
  <2>1. PICK n \in Nat : n = 4 * g + r + 1
    OBVIOUS
  <2>2. Len(e) = 4 * g + 4 /\ n + 1 <= Len(e)
    BY <1>4, <1>9, <2>1
  <2>3. e[n + 1] = Pad
    <3>1. CASE r = 1
      <4>1. n + 1 = 4 * g + 3
        BY <2>1, <3>1
      <4> QED
        BY <1>4, <3>1, <4>1
    <3>2. CASE r = 2
      <4>1. n + 1 = 4 * g + 4
        BY <2>1, <3>2
      <4> QED
        BY <1>4, <3>2, <4>1
    <3> QED
      BY <1>9, <3>1, <3>2
  <2>4. ASSUME NEW i \in 1 .. n PROVE e[i] \in Sextet
    <3>1. i \in 1 .. 4 * g \/ i = 4 * g + 1 \/ i = 4 * g + 2 \/ (r = 2 /\ i = 4 * g + 3)
      BY <1>9, <2>1
    <3>2. r = 1 \/ r = 2
      BY <1>9
    <3> QED
      BY <1>4, <1>5, <1>6, <3>1, <3>2
  <2>5. n + 1 \in I /\ I \in SUBSET Nat
    <3>1. n + 1 \in 1 .. Len(e)
      BY <2>2
    <3> QED
      BY <1>a, <2>3, <3>1
  <2>6. \A i \in I : n + 1 <= i
    <3>1. \A i \in I : i \in Nat /\ i >= 1 /\ e[i] = Pad
      BY <1>a
    <3>2. \A i \in I : ~(i \in 1 .. n)
      BY <1>7, <2>4, <3>1
    <3> QED
      BY <3>1, <3>2
  <2>7. stop = n + 1
    <3>1. I # {} /\ Min(I) \in I /\ \A i \in I : Min(I) <= i
      BY <2>5, MinOf
    <3>2. stop = Min(I)
      BY <1>a, <3>1
    <3>3. PICK m \in Nat : m = stop
      BY <2>5, <3>1, <3>2
    <3>4. m <= n + 1 /\ n + 1 <= m
      BY <2>5, <2>6, <3>1, <3>2, <3>3
    <3> QED
      BY <3>3, <3>4
  <2>8. head = SubSeq(e, 1, n)
    <3>1. stop # 0 /\ stop - 1 = n
      BY <2>7
    <3> QED
      BY <1>a, <3>1
  <2>9. /\ head \in Seq(Sextet) /\ Len(head) = IF 1 <= n THEN n - 1 + 1 ELSE 0
        /\ \A i \in 1 .. n - 1 + 1 : head[i] = e[1 + i - 1]
    <3>1. PICK one \in Int : one = 1
      OBVIOUS
    <3>2. n \in Int /\ \A i \in one .. n : e[i] \in Sextet
      BY <2>4, <3>1
    <3>3. PICK p : p = SubSeq(e, one, n)
      OBVIOUS
    <3>4. /\ p \in Seq(Sextet) /\ Len(p) = IF one <= n THEN n - one + 1 ELSE 0
          /\ \A i \in 1 .. n - one + 1 : p[i] = e[one + i - 1]
      BY <3>2, <3>3, SubSeqProperties
    <3> QED
      BY <2>8, <3>1, <3>3, <3>4
  <2>10. 1 <= n /\ n - 1 + 1 = n
    BY <2>1
  <2>11. Len(head) = n /\ \A i \in 1 .. n : head[i] = e[i]
    BY <2>9, <2>10
  <2>12. n = 4 * g + (r + 1)
    BY <2>1
  <2> QED
    BY <1>9, <2>9, <2>11, <2>12 DEF Meaning
<1> QED
  BY <1>8, <1>9

(* What Encode (voxcrypt.h:120) makes of any bytes, Decode (voxcrypt.h:165) *)
(* takes back to the same bytes.                                            *)
THEOREM Base64RoundTrip == ASSUME NEW b \in Seq(Byte) PROVE Base64Decode(Base64Encode(b)) = b
<1>1. PICK g \in Nat, r \in 0 .. 2 : Len(b) = 3 * g + r
  <2>1. PICK n \in Nat : n = Len(b)
    BY LenProperties
  <2>2. n \div 3 \in Nat /\ n % 3 \in 0 .. 2 /\ n = 3 * (n \div 3) + (n % 3)
    OBVIOUS
  <2> QED
    BY <2>1, <2>2
<1>2. PICK e : e = Base64Encode(b) /\ Chars(e, b, g, r)
  BY <1>1, EncodedChars
<1>a. PICK I : I = { i \in 1 .. Len(e) : e[i] = Pad }
  OBVIOUS
<1>b. SelectInSeq(e, LAMBDA x : x = Pad) = IF I # {} THEN Min(I) ELSE 0
  BY <1>a, Zenon DEF SelectInSeq
<1>3. PICK stop : stop = IF I # {} THEN Min(I) ELSE 0
  OBVIOUS
<1>4. PICK head : head = IF stop = 0 THEN e ELSE SubSeq(e, 1, stop - 1)
  OBVIOUS
<1>5. PICK kept \in Nat : kept = (IF r = 0 THEN 0 ELSE r + 1) /\ kept < 4
  OBVIOUS
<1>6. /\ head \in Seq(Sextet) /\ Len(head) = 4 * g + kept
      /\ \A i \in 1 .. 4 * g + kept : head[i] = e[i]
  <2>1. UpToPad(head, stop, e)
    BY <1>3, <1>4, <1>a DEF UpToPad
  <2>2. Meaning(head, e, g, IF r = 0 THEN 0 ELSE r + 1)
    BY <1>1, <1>2, <2>1, BeforePad
  <2> QED
    BY <1>5, <2>2 DEF Meaning
<1>7. PICK whole, rest : whole = Groups(head, 4) /\ rest = Rest(head, 4)
  OBVIOUS
<1>8. Grouped(head, Sextet, 4, g, kept)
  <2>1. 4 \in {3, 4}
    OBVIOUS
  <2> QED
    BY <1>5, <1>6, <2>1, GroupsShape
<1>9. /\ whole \in [1 .. g -> Seq(Sextet)] /\ DOMAIN whole = 1 .. g
      /\ \A i \in 1 .. g : /\ Len(whole[i]) = 4
                           /\ \A k \in 1 .. 4 : 4 * (i - 1) + k \in 1 .. Len(head) /\ whole[i][k] = head[4 * (i - 1) + k]
      /\ rest \in Seq(Sextet) /\ Len(rest) = kept
      /\ \A k \in 1 .. kept : rest[k] = head[4 * g + k]
  BY <1>7, <1>8 DEF Grouped
<1> DEFINE triples == [i \in DOMAIN whole |-> Triple(whole[i])]
           tail    == IF rest = <<>> THEN <<>> ELSE SubSeq(Triple(Filled(rest, 4, npos)), 1, Len(rest) - 1)
<1>10. Base64Decode(e) = FlattenSeq(triples) \o tail
  <2>1. SelectInSeq(e, LAMBDA x : x = Pad) = stop
    BY <1>3, <1>b, Zenon
  <2>2. Base64Decode(e) =
          LET chars == IF SelectInSeq(e, LAMBDA x : x = Pad) = 0 THEN e
                       ELSE SubSeq(e, 1, SelectInSeq(e, LAMBDA x : x = Pad) - 1)
          IN  FlattenSeq([i \in DOMAIN Groups(chars, 4) |-> Triple(Groups(chars, 4)[i])])
                \o (IF Rest(chars, 4) = <<>> THEN <<>>
                    ELSE SubSeq(Triple(Filled(Rest(chars, 4), 4, npos)), 1, Len(Rest(chars, 4)) - 1))
    BY Zenon DEF Base64Decode
  <2> QED
    BY <1>4, <1>7, <2>1, <2>2, Zenon
<1>11. ASSUME NEW i \in 1 .. g
       PROVE  /\ triples[i] \in Seq(Byte) /\ Len(triples[i]) = 3
              /\ \A k \in 1 .. 3 : triples[i][k] = b[3 * (i - 1) + k]
  <2>1. PICK q : q = whole[i]
    OBVIOUS
  <2>2. q[1] = e[4 * (i - 1) + 1] /\ q[2] = e[4 * (i - 1) + 2] /\ q[3] = e[4 * (i - 1) + 3] /\ q[4] = e[4 * (i - 1) + 4]
    <3>1. 1 \in 1 .. 4 /\ 2 \in 1 .. 4 /\ 3 \in 1 .. 4 /\ 4 \in 1 .. 4
      OBVIOUS
    <3>2. \A k \in 1 .. 4 : q[k] = e[4 * (i - 1) + k]
      <4> HIDE DEF triples, tail
      <4> QED
        BY <1>6, <1>9, <2>1
    <3> HIDE DEF triples, tail
    <3> QED
      BY <3>1, <3>2
  <2>3. PICK x, y, z \in Byte : x = b[3 * (i - 1) + 1] /\ y = b[3 * (i - 1) + 2] /\ z = b[3 * (i - 1) + 3]
    <3>1. 3 * (i - 1) + 1 \in 1 .. Len(b) /\ 3 * (i - 1) + 2 \in 1 .. Len(b) /\ 3 * (i - 1) + 3 \in 1 .. Len(b)
      BY <1>1
    <3> HIDE DEF triples, tail
    <3> QED
      BY <3>1, ElementOfSeq
  <2>4. /\ q[1] = x \div 4 /\ q[2] = (x % 4) * 16 + (y \div 16)
        /\ q[3] = (y % 16) * 4 + (z \div 64) /\ q[4] = z % 64
    <3> HIDE DEF triples, tail
    <3>1. /\ e[4 * (i - 1) + 1] = b[3 * (i - 1) + 1] \div 4
          /\ e[4 * (i - 1) + 2] = (b[3 * (i - 1) + 1] % 4) * 16 + (b[3 * (i - 1) + 2] \div 16)
          /\ e[4 * (i - 1) + 3] = (b[3 * (i - 1) + 2] % 16) * 4 + (b[3 * (i - 1) + 3] \div 64)
          /\ e[4 * (i - 1) + 4] = b[3 * (i - 1) + 3] % 64
      BY <1>2 DEF Chars
    <3> QED
      BY <2>2, <2>3, <3>1
  <2>5. triples[i] = Triple(q)
    BY <1>9, <2>1
  <2>6. PICK t : t = Triple(q)
    OBVIOUS
  <2> HIDE DEF triples, tail
  <2>7. Len(t) = 3 /\ t[1] = x /\ t[2] = y /\ t[3] = z
    BY <2>4, <2>6, TripleOfQuad
  <2>8. t \in Seq(Byte)
    <3>1. q[1] \in Nat /\ q[2] \in Nat /\ q[3] \in Nat /\ q[4] \in Nat
      BY <2>4 DEF Byte
    <3> QED
      BY <2>6, <3>1, TripleBytes
  <2>9. \A k \in 1 .. 3 : k = 1 \/ k = 2 \/ k = 3
    OBVIOUS
  <2>10. \A k \in 1 .. 3 : t[k] = b[3 * (i - 1) + k]
    BY <2>3, <2>7, <2>9
  <2> QED
    BY <2>5, <2>6, <2>7, <2>8, <2>10
<1>12. triples \in Seq(Seq(Byte)) /\ Len(triples) = g
  <2>1. triples \in [1 .. g -> Seq(Byte)]
    BY <1>9, <1>11
  <2> HIDE DEF triples
  <2> QED
    BY <2>1, FunctionIsSeq
<1> HIDE DEF triples
<1>13. PICK f : f = FlattenSeq(triples)
  OBVIOUS
<1>14. /\ f \in Seq(Byte) /\ Len(f) = 3 * g
       /\ \A i \in 1 .. g, k \in 1 .. 3 : f[3 * (i - 1) + k] = b[3 * (i - 1) + k]
  <2> HIDE DEF tail
  <2>1. \A i \in 1 .. Len(triples) : Len(triples[i]) = 3
    BY <1>11, <1>12
  <2>2. 3 \in {3, 4}
    OBVIOUS
  <2>3. /\ f \in Seq(Byte) /\ Len(f) = 3 * Len(triples)
        /\ \A i \in 1 .. Len(triples), k \in 1 .. 3 : f[3 * (i - 1) + k] = triples[i][k]
    BY <1>12, <1>13, <2>1, <2>2, FlattenPieces
  <2> QED
    BY <1>11, <1>12, <2>3
<1>15. \A j \in 1 .. 3 * g : f[j] = b[j]
  <2> HIDE DEF tail
  <2> TAKE j \in 1 .. 3 * g
  <2>1. PICK i \in 1 .. g, k \in 1 .. 3 : j = 3 * (i - 1) + k
    <3>1. (j - 1) \div 3 + 1 \in 1 .. g /\ ((j - 1) % 3) + 1 \in 1 .. 3
          /\ j = 3 * (((j - 1) \div 3 + 1) - 1) + (((j - 1) % 3) + 1)
      OBVIOUS
    <3> QED
      BY <3>1
  <2> QED
    BY <1>14, <2>1
<1>16. tail \in Seq(Byte) /\ Len(tail) = r /\ \A k \in 1 .. r : tail[k] = b[3 * g + k]
  <2>1. CASE r = 0
    <3>1. rest = <<>>
      BY <1>5, <1>9, <2>1, EmptySeq
    <3> QED
      BY <2>1, <3>1
  <2>2. CASE r # 0
    <3>1. rest # <<>> /\ kept = r + 1
      BY <1>5, <1>9, <2>2
    <3>2. PICK w : w = Filled(rest, 4, npos)
      OBVIOUS
    <3>3. PICK t : t = Triple(w)
      OBVIOUS
    <3>4. tail = SubSeq(t, 1, r)
      BY <1>9, <3>1, <3>2, <3>3
    <3> HIDE DEF tail
    <3>5. /\ w \in Seq(Byte) /\ Len(w) = 4
          /\ \A i \in 1 .. 4 : w[i] = IF i <= kept THEN rest[i] ELSE npos
      <4>1. npos \in Byte /\ 4 \in Nat
        BY DEF npos, Byte
      <4>2. rest \in Seq(Byte)
        <5>1. \A i \in 1 .. kept : rest[i] \in Byte
          <6>1. \A i \in 1 .. kept : i \in 1 .. Len(rest)
            BY <1>9
          <6>2. \A i \in 1 .. kept : rest[i] \in Sextet
            BY <1>9, <6>1, ElementOfSeq
          <6>3. Sextet \subseteq Byte
            BY DEF Sextet, Byte
          <6> QED
            BY <6>2, <6>3
        <5>2. rest \in [1 .. kept -> Byte]
          BY <1>9, <5>1
        <5> QED
          BY <5>2, FunctionIsSeq
      <4>3. FilledUp(Filled(rest, 4, npos), Byte, rest, npos, 4)
        BY <1>5, <1>9, <4>1, <4>2, FilledShape
      <4> QED
        BY <1>9, <3>2, <4>3 DEF FilledUp
    <3>6. \A k \in 1 .. kept : w[k] = e[4 * g + k]
      <4>1. \A k \in 1 .. kept : k \in 1 .. 4 /\ k <= kept /\ 4 * g + k \in 1 .. 4 * g + kept
        BY <1>5
      <4> QED
        BY <1>6, <1>9, <3>5, <4>1
    <3>7. t \in Seq(Byte) /\ Len(t) = 3
      <4>1. w[1] \in Nat /\ w[2] \in Nat /\ w[3] \in Nat /\ w[4] \in Nat
        <5>1. 1 \in 1 .. Len(w) /\ 2 \in 1 .. Len(w) /\ 3 \in 1 .. Len(w) /\ 4 \in 1 .. Len(w)
          BY <3>5
        <5>2. w[1] \in Byte /\ w[2] \in Byte /\ w[3] \in Byte /\ w[4] \in Byte
          BY <3>5, <5>1, ElementOfSeq
        <5>3. \A v \in Byte : v \in Nat
          BY DEF Byte
        <5> QED
          BY <5>2, <5>3
      <4> QED
        BY <3>3, <4>1, TripleBytes
    <3>8. t[1] = b[3 * g + 1] /\ (r = 2 => t[2] = b[3 * g + 2])
      <4>1. PICK x \in Byte : x = b[3 * g + 1]
        <5>1. 3 * g + 1 \in 1 .. Len(b)
          BY <1>1, <2>2
        <5> QED
          BY <5>1, ElementOfSeq
      <4>2. 0 \in Byte
        BY DEF Byte
      <4>3. CASE r = 1
        <5>1. w[1] = e[4 * g + 1] /\ w[2] = e[4 * g + 2]
          BY <1>5, <3>6, <4>3
        <5>2. w[1] = x \div 4 /\ w[2] = (x % 4) * 16 + (0 \div 16)
          BY <1>2, <4>1, <4>3, <5>1 DEF Chars
        <5>3. t[1] = x
          BY <3>3, <4>2, <5>2, TripleOfQuad
        <5> QED
          BY <4>1, <4>3, <5>3
      <4>4. CASE r = 2
        <5>1. w[1] = e[4 * g + 1] /\ w[2] = e[4 * g + 2] /\ w[3] = e[4 * g + 3]
          BY <1>5, <3>6, <4>4
        <5>2. PICK y \in Byte : y = b[3 * g + 2]
          <6>1. 3 * g + 2 \in 1 .. Len(b)
            BY <1>1, <4>4
          <6> QED
            BY <6>1, ElementOfSeq
        <5>3. /\ w[1] = x \div 4 /\ w[2] = (x % 4) * 16 + (y \div 16)
              /\ w[3] = (y % 16) * 4 + (0 \div 64)
          BY <1>2, <4>1, <4>4, <5>1, <5>2 DEF Chars
        <5>4. t[1] = x /\ t[2] = y
          BY <3>3, <4>2, <5>3, TripleOfQuad
        <5> QED
          BY <4>1, <5>2, <5>4
      <4> QED
        BY <2>2, <4>3, <4>4
    <3>9. /\ tail \in Seq(Byte) /\ Len(tail) = IF 1 <= r THEN r - 1 + 1 ELSE 0
          /\ \A k \in 1 .. r - 1 + 1 : tail[k] = t[1 + k - 1]
      <4>1. 1 \in Int /\ r \in Int
        OBVIOUS
      <4>2. \A k \in 1 .. r : t[k] \in Byte
        <5>1. \A k \in 1 .. r : k \in 1 .. Len(t)
          BY <3>7
        <5> QED
          BY <3>7, <5>1, ElementOfSeq
      <4> QED
        BY <3>4, <4>1, <4>2, SubSeqProperties
    <3>10. 1 <= r /\ r - 1 + 1 = r /\ \A k \in 1 .. r : k = 1 \/ (r = 2 /\ k = 2)
      BY <2>2
    <3>11. Len(tail) = r /\ \A k \in 1 .. r : tail[k] = t[k]
      BY <3>9, <3>10
    <3> QED
      BY <3>8, <3>9, <3>10, <3>11
  <2> QED
    BY <2>1, <2>2
<1>17. PICK u : u = tail
  OBVIOUS
<1>18. u \in Seq(Byte) /\ Len(u) = r /\ \A k \in 1 .. r : u[k] = b[3 * g + k]
  BY <1>16, <1>17
<1> HIDE DEF tail
<1>19. PICK d : d = f \o u
  OBVIOUS
<1>20. /\ d \in Seq(Byte) /\ Len(d) = Len(f) + Len(u)
       /\ \A i \in 1 .. Len(f) + Len(u) : d[i] = IF i <= Len(f) THEN f[i] ELSE u[i - Len(f)]
  BY <1>14, <1>18, <1>19, ConcatProperties
<1>21. Len(d) = Len(b) /\ \A i \in 1 .. Len(b) : d[i] = IF i <= 3 * g THEN f[i] ELSE u[i - 3 * g]
  BY <1>1, <1>14, <1>18, <1>20
<1>22. ASSUME NEW i \in 1 .. Len(b) PROVE d[i] = b[i]
  <2>1. CASE i <= 3 * g
    BY <1>15, <1>21, <2>1
  <2>2. CASE ~(i <= 3 * g)
    <3>1. i - 3 * g \in 1 .. r /\ 3 * g + (i - 3 * g) = i
      BY <1>1, <2>2
    <3> QED
      BY <1>18, <1>21, <2>2, <3>1
  <2> QED
    BY <2>1, <2>2
<1>23. d = b
  BY <1>20, <1>21, <1>22, SeqEqual
<1> QED
  BY <1>2, <1>10, <1>13, <1>17, <1>19, <1>23

-----------------------------------------------------------------------------
(* Bytes and their bits, as the masks of frames need them.                 *)
Bit == {0, 1}

(* A byte is its bits.                                                     *)
Spelt(v, z, y, x, w, t, s, r, q) ==
  v = z + 2 * y + 4 * x + 8 * w + 16 * t + 32 * s + 64 * r + 128 * q

ReadOff(v, z, y, x, w, t, s, r, q) ==
  /\ (v \div 1) % 2 = z /\ (v \div 2) % 2 = y /\ (v \div 4) % 2 = x /\ (v \div 8) % 2 = w
  /\ (v \div 16) % 2 = t /\ (v \div 32) % 2 = s /\ (v \div 64) % 2 = r /\ (v \div 128) % 2 = q

(* A byte spelt by eight bits gives each of them back.                     *)
LEMMA BitsRead ==
  ASSUME NEW v, NEW z \in Bit, NEW y \in Bit, NEW x \in Bit, NEW w \in Bit,
         NEW t \in Bit, NEW s \in Bit, NEW r \in Bit, NEW q \in Bit, Spelt(v, z, y, x, w, t, s, r, q)
  PROVE  v \in Byte /\ ReadOff(v, z, y, x, w, t, s, r, q)
<1>1. v \in Byte
  BY DEF Spelt, Byte, Bit
<1>2. (v \div 1) % 2 = z /\ (v \div 2) % 2 = y
  BY DEF Spelt, Byte, Bit
<1>3. (v \div 4) % 2 = x /\ (v \div 8) % 2 = w
  BY DEF Spelt, Byte, Bit
<1>4. (v \div 16) % 2 = t /\ (v \div 32) % 2 = s
  BY DEF Spelt, Byte, Bit
<1>5. (v \div 64) % 2 = r /\ (v \div 128) % 2 = q
  BY DEF Spelt, Byte, Bit
<1> QED
  BY <1>1, <1>2, <1>3, <1>4, <1>5 DEF ReadOff

(* Every byte is spelt by eight bits.                                      *)
LEMMA BitsOf ==
  ASSUME NEW v \in Byte
  PROVE  \E z \in Bit, y \in Bit, x \in Bit, w \in Bit, t \in Bit, s \in Bit, r \in Bit, q \in Bit :
           Spelt(v, z, y, x, w, t, s, r, q)
<1> DEFINE z == v % 2
           y == (v \div 2) % 2
           x == (v \div 4) % 2
           w == (v \div 8) % 2
           t == (v \div 16) % 2
           s == (v \div 32) % 2
           r == (v \div 64) % 2
           q == (v \div 128) % 2
<1>1. z \in Bit /\ y \in Bit /\ x \in Bit /\ w \in Bit
  BY DEF Bit, Byte
<1>2. t \in Bit /\ s \in Bit /\ r \in Bit /\ q \in Bit
  BY DEF Bit, Byte
<1>3. Spelt(v, z, y, x, w, t, s, r, q)
  BY DEF Byte, Spelt
<1> HIDE DEF z, y, x, w, t, s, r, q
<1> QED
  BY <1>1, <1>2, <1>3

(* Masking a byte twice with the same key gives it back.                   *)
LEMMA XorBack ==
  ASSUME NEW a \in Byte, NEW b \in Byte
  PROVE  Xor(a, b) \in Byte /\ Xor(Xor(a, b), b) = a
<1>1. PICK z \in Bit, y \in Bit, x \in Bit, w \in Bit, t \in Bit, s \in Bit, r \in Bit, q \in Bit :
        Spelt(a, z, y, x, w, t, s, r, q)
  BY BitsOf
<1>2. PICK k \in Bit, l \in Bit, m \in Bit, n \in Bit, o \in Bit, p \in Bit, i \in Bit, j \in Bit :
        Spelt(b, k, l, m, n, o, p, i, j)
  BY BitsOf
<1> DEFINE e(u, v) == (u + v) % 2
<1>3. \A u, v \in Bit : e(u, v) \in Bit /\ e(e(u, v), v) = u
  BY DEF Bit
<1>4. PICK c : c = Xor(a, b)
  OBVIOUS
<1>5. c = 1 * e(z, k) + 2 * e(y, l) + 4 * e(x, m) + 8 * e(w, n)
            + 16 * e(t, o) + 32 * e(s, p) + 64 * e(r, i) + 128 * e(q, j)
  <2>1. ReadOff(a, z, y, x, w, t, s, r, q) /\ ReadOff(b, k, l, m, n, o, p, i, j)
    BY <1>1, <1>2, BitsRead
  <2> QED
    BY <1>4, <2>1, Zenon DEF Xor, ReadOff
<1>6. PICK zz \in Bit, yy \in Bit, xx \in Bit, ww \in Bit, tt \in Bit, ss \in Bit, rr \in Bit, qq \in Bit :
        /\ zz = e(z, k) /\ yy = e(y, l) /\ xx = e(x, m) /\ ww = e(w, n)
        /\ tt = e(t, o) /\ ss = e(s, p) /\ rr = e(r, i) /\ qq = e(q, j)
  BY <1>3
<1>7. /\ e(zz, k) = z /\ e(yy, l) = y /\ e(xx, m) = x /\ e(ww, n) = w
      /\ e(tt, o) = t /\ e(ss, p) = s /\ e(rr, i) = r /\ e(qq, j) = q
  BY <1>3, <1>6
<1>8. Spelt(c, zz, yy, xx, ww, tt, ss, rr, qq)
  <2> HIDE DEF e
  <2> QED
    BY <1>5, <1>6 DEF Spelt, Bit
<1>9. c \in Byte /\ ReadOff(c, zz, yy, xx, ww, tt, ss, rr, qq)
  BY <1>8, BitsRead
<1>10. Xor(c, b) = 1 * z + 2 * y + 4 * x + 8 * w + 16 * t + 32 * s + 64 * r + 128 * q
  <2>1. ReadOff(b, k, l, m, n, o, p, i, j)
    BY <1>2, BitsRead
  <2> QED
    BY <1>7, <1>9, <2>1, Zenon DEF Xor, ReadOff
<1>11. Xor(c, b) = a
  BY <1>1, <1>10 DEF Spelt, Bit
<1> QED
  BY <1>4, <1>9, <1>11

(* Numbers, highest byte first: each byte moves what was read up by one.   *)
LEMMA NumberSteps ==
  ASSUME NEW s \in Seq(Byte)
  PROVE  \E f : /\ f[0] = 0 /\ \A i \in 1 .. Len(s) : f[i] = 256 * f[i - 1] + s[i]
                /\ BigEndian(s) = f[Len(s)]
<1> DEFINE n == Len(s)
           D == DOMAIN s
           Is(g) == g = [t \in SUBSET D |-> IF t = {} THEN 0 ELSE 256 * g[t \ {Max(t)}] + s[Max(t)]]
           it == CHOOSE g : Is(g)
           step == [p \in Nat \X (1 .. n) |-> 256 * p[1] + s[p[2]]]
<1>1. BigEndian(s) = it[D]
  BY Zenon DEF BigEndian, FoldLeft, MapThenFoldSet
<1>2. n \in Nat /\ D = 1 .. n /\ \A i \in 1 .. n : s[i] \in Nat
  <2>1. n \in Nat /\ D = 1 .. n
    OBVIOUS
  <2>2. \A i \in 1 .. n : s[i] \in Byte
    OBVIOUS
  <2>3. \A x \in Byte : x \in Nat
    BY DEF Byte
  <2> HIDE DEF n, D
  <2> QED
    BY <2>1, <2>2, <2>3
<1> HIDE DEF n, D
<1>3. step \in Steps(n, Nat) /\ 0 \in Nat
  <2>1. \A p \in Nat \X (1 .. n) : 256 * p[1] + s[p[2]] \in Nat
    BY <1>2
  <2> QED
    BY <2>1 DEF Steps
<1>4. PICK g : FoldsBy(g, n, Nat, 0, step)
  <2> HIDE DEF step
  <2> QED
    BY <1>2, <1>3, SubsetRecursion
<1>5. Is(g)
  <2>1. g \in [SUBSET D -> Nat]
    BY <1>2, <1>4 DEF FoldsBy
  <2>2. ASSUME NEW t \in SUBSET D
        PROVE  g[t] = IF t = {} THEN 0 ELSE 256 * g[t \ {Max(t)}] + s[Max(t)]
    <3>1. CASE t = {}
      BY <1>2, <1>4, <3>1 DEF FoldsBy
    <3>2. CASE t # {}
      <4>1. Max(t) \in 1 .. n
        BY <1>2, <3>2, MaxIn
      <4>2. g[t] = step[<<g[t \ {Max(t)}], Max(t)>>]
        BY <1>2, <1>4, <3>2, Zenon DEF FoldsBy
      <4>3. g[t \ {Max(t)}] \in Nat
        BY <1>2, <1>4 DEF FoldsBy
      <4>4. step[<<g[t \ {Max(t)}], Max(t)>>] = 256 * g[t \ {Max(t)}] + s[Max(t)]
        BY <4>1, <4>3
      <4> HIDE DEF step
      <4> QED
        BY <3>2, <4>2, <4>4
    <3> QED
      BY <3>1, <3>2
  <2> QED
    BY <2>1, <2>2
<1>6. Is(it)
  <2> HIDE DEF Is
  <2> QED
    BY <1>5
<1>7. \A t \in SUBSET D : it[t] = IF t = {} THEN 0 ELSE 256 * it[t \ {Max(t)}] + s[Max(t)]
  <2> HIDE DEF it
  <2> QED
    BY <1>6, Zenon
<1> HIDE DEF it, Is
<1> DEFINE f == [i \in 0 .. n |-> it[1 .. i]]
<1>8. f[0] = 0
  <2>1. 1 .. 0 = {} /\ 0 \in 0 .. n
    BY <1>2
  <2> QED
    BY <1>7, <2>1
<1>9. ASSUME NEW i \in 1 .. n PROVE f[i] = 256 * f[i - 1] + s[i]
  <2>1. i \in 0 .. n /\ i - 1 \in 0 .. n
    BY <1>2
  <2>2. /\ 1 .. i # {} /\ 1 .. i \in SUBSET (1 .. n)
        /\ Max(1 .. i) = i /\ (1 .. i) \ {Max(1 .. i)} = 1 .. i - 1
    BY <1>2, FirstPositions
  <2>3. it[1 .. i] = 256 * it[1 .. i - 1] + s[i]
    BY <1>2, <1>7, <2>2
  <2> QED
    BY <2>1, <2>3
<1>10. it[D] = f[n]
  BY <1>2
<1> HIDE DEF f
<1> QED
  BY <1>1, <1>8, <1>9, <1>10 DEF n

(* The bytes of a number in memory are what is left of it each time it is  *)
(* divided by 256.                                                         *)
LEMMA MemorySteps ==
  ASSUME NEW n \in Nat, NEW k \in Nat, k > 0
  PROVE  \E r \in [1 .. k -> Nat] :
           /\ r[1] = n /\ \A i \in 2 .. k : r[i] = r[i - 1] \div 256
           /\ LowFirst(n, k) = [i \in 1 .. k |-> r[i] % 256]
<1> DEFINE Is(f) == f = [i \in 1 .. k |-> IF i = 1 THEN n ELSE f[i - 1] \div 256]
           rest == CHOOSE f : Is(f)
           step == [p \in Nat \X (1 .. k) |-> p[1] \div 256]
<1>1. LowFirst(n, k) = [i \in 1 .. k |-> rest[i] % 256]
  BY Zenon DEF LowFirst
<1>2. step \in Steps(k, Nat)
  BY DEF Steps
<1>3. PICK f : Iterates(f, k, Nat, n, step)
  <2> HIDE DEF step
  <2> QED
    BY <1>2, Recursion
<1>4. /\ f \in [0 .. k -> Nat] /\ f[0] = n
      /\ \A i \in 1 .. k : f[i] = f[i - 1] \div 256
  <2>1. /\ f \in [0 .. k -> Nat] /\ f[0] = n
        /\ \A i \in 1 .. k : f[i] = step[<<f[i - 1], i>>]
    BY <1>3, Zenon DEF Iterates
  <2>2. ASSUME NEW i \in 1 .. k PROVE f[i] = f[i - 1] \div 256
    <3>1. i - 1 \in 0 .. k
      OBVIOUS
    <3>2. f[i - 1] \in Nat
      BY <2>1, <3>1
    <3> QED
      BY <2>1, <3>2
  <2> QED
    BY <2>1, <2>2
<1> DEFINE r == [i \in 1 .. k |-> f[i - 1]]
<1>5. Is(r)
  <2>1. ASSUME NEW i \in 1 .. k PROVE r[i] = IF i = 1 THEN n ELSE r[i - 1] \div 256
    <3>1. CASE i = 1
      BY <1>4, <3>1
    <3>2. CASE i # 1
      <4>1. i - 1 \in 1 .. k /\ (i - 1) - 1 = i - 2
        BY <3>2
      <4>2. f[i - 1] = f[(i - 1) - 1] \div 256
        BY <1>4, <4>1
      <4> QED
        BY <3>2, <4>1, <4>2
    <3> QED
      BY <3>1, <3>2
  <2> HIDE DEF r
  <2>2. r = [i \in 1 .. k |-> r[i]]
    BY DEF r
  <2> QED
    BY <2>1, <2>2
<1>6. Is(rest)
  <2> HIDE DEF Is
  <2> QED
    BY <1>5
<1>7. \A i \in 1 .. k : rest[i] = IF i = 1 THEN n ELSE rest[i - 1] \div 256
  <2> HIDE DEF rest
  <2> QED
    BY <1>6
<1>8. rest = [i \in 1 .. k |-> rest[i]]
  <2> HIDE DEF rest
  <2>1. rest = [i \in 1 .. k |-> IF i = 1 THEN n ELSE rest[i - 1] \div 256]
    BY <1>6
  <2> QED
    BY <2>1, <1>7
<1> HIDE DEF rest, Is
<1>9. \A i \in 1 .. k : rest[i] \in Nat
  <2> DEFINE E == { i \in Nat : i = 0 \/ rest[i] \in Nat }
  <2>1. 0 \in E
    OBVIOUS
  <2>2. ASSUME NEW i \in 0 .. k - 1, i \in E PROVE i + 1 \in E
    <3>1. i + 1 \in 1 .. k /\ (i + 1) - 1 = i
      OBVIOUS
    <3>2. rest[i + 1] = IF i + 1 = 1 THEN n ELSE rest[i] \div 256
      BY <1>7, <3>1
    <3>3. rest[i + 1] \in Nat
      BY <2>2, <3>1, <3>2
    <3> QED
      BY <3>1, <3>3
  <2> HIDE DEF E
  <2>3. 0 .. k \subseteq E
    BY <2>1, <2>2, UpTo
  <2> QED
    BY <2>3 DEF E
<1>10. rest \in [1 .. k -> Nat]
  BY <1>8, <1>9
<1>11. rest[1] = n /\ \A i \in 2 .. k : rest[i] = rest[i - 1] \div 256
  BY <1>7
<1> QED
  BY <1>1, <1>10, <1>11

(* Turned round, they are read as the number, if it has no more bytes.     *)
LEMMA LengthRead ==
  ASSUME NEW n \in Nat, NEW k \in Nat, k > 0,
         \A r \in [1 .. k -> Nat] :
           r[1] = n /\ (\A i \in 2 .. k : r[i] = r[i - 1] \div 256) => r[k] < 256
  PROVE  /\ Reverse(LowFirst(n, k)) \in Seq(Byte) /\ Len(Reverse(LowFirst(n, k))) = k
         /\ BigEndian(Reverse(LowFirst(n, k))) = n
<1>r. PICK r \in [1 .. k -> Nat] :
        /\ r[1] = n /\ \A i \in 2 .. k : r[i] = r[i - 1] \div 256
        /\ LowFirst(n, k) = [i \in 1 .. k |-> r[i] % 256]
  BY MemorySteps
<1>k. r[k] < 256
  BY <1>r
<1>1. PICK s \in Seq(Byte) : /\ s = Reverse(LowFirst(n, k)) /\ Len(s) = k
                             /\ \A i \in 1 .. k : s[i] = r[k + 1 - i] % 256
  <2> DEFINE s == [i \in 1 .. k |-> r[k + 1 - i] % 256]
  <2>1. PICK b \in [1 .. k -> Byte] : b = LowFirst(n, k) /\ \A i \in 1 .. k : b[i] = r[i] % 256
    <3>1. \A x \in Nat : x % 256 \in Byte
      BY DEF Byte
    <3>2. \A i \in 1 .. k : r[i] % 256 \in Byte
      BY <3>1
    <3> QED
      BY <1>r, <3>2
  <2>2. Len(b) = k
    OBVIOUS
  <2>3. Reverse(b) = [i \in 1 .. Len(b) |-> b[Len(b) - i + 1]]
    BY Zenon DEF Reverse
  <2>4. ASSUME NEW i \in 1 .. k
        PROVE  b[k - i + 1] = s[i] /\ s[i] \in Byte
    <3>1. k - i + 1 \in 1 .. k /\ k - i + 1 = k + 1 - i
      OBVIOUS
    <3>2. b[k - i + 1] = r[k + 1 - i] % 256
      BY <2>1, <3>1
    <3>3. b[k - i + 1] \in Byte
      BY <3>1
    <3> QED
      BY <3>2, <3>3
  <2>5. Reverse(b) = s
    BY <2>2, <2>3, <2>4
  <2>6. s \in [1 .. k -> Byte]
    BY <2>4
  <2>7. s \in Seq(Byte) /\ Len(s) = k
    <3> HIDE DEF s
    <3> QED
      BY <2>6
  <2> QED
    BY <2>1, <2>5, <2>7
<1>2. PICK f : /\ f[0] = 0 /\ \A i \in 1 .. k : f[i] = 256 * f[i - 1] + s[i]
               /\ BigEndian(s) = f[k]
  <2>1. k = Len(s)
    BY <1>1
  <2> QED
    BY <2>1, NumberSteps
<1> DEFINE E == { i \in Nat : i = 0 \/ f[i] = r[k + 1 - i] }
<1>3. 0 \in E
  OBVIOUS
<1>4. ASSUME NEW i \in 0 .. k - 1, i \in E PROVE i + 1 \in E
  <2>1. i + 1 \in 1 .. k /\ (i + 1) - 1 = i /\ k + 1 - (i + 1) = k - i /\ k - i \in 1 .. k
    OBVIOUS
  <2>2. PICK a \in Nat : a = r[k - i]
    BY <2>1
  <2>3. f[i + 1] = 256 * f[i] + (a % 256)
    <3>1. f[i + 1] = 256 * f[i] + s[i + 1]
      BY <1>2, <2>1
    <3>2. s[i + 1] = r[k + 1 - (i + 1)] % 256
      BY <1>1, <2>1
    <3> QED
      BY <2>1, <2>2, <3>1, <3>2
  <2>4. f[i] = a \div 256
    <3>1. CASE i = 0
      <4>1. a = r[k] /\ a < 256 /\ f[i] = 0
        BY <1>k, <1>2, <2>2, <3>1
      <4> QED
        BY <4>1
    <3>2. CASE i # 0
      <4>1. k + 1 - i \in 2 .. k /\ (k + 1 - i) - 1 = k - i
        BY <3>2
      <4>2. f[i] = r[k + 1 - i]
        BY <1>4, <3>2
      <4> QED
        BY <1>r, <2>2, <4>1, <4>2
    <3> QED
      BY <3>1, <3>2
  <2>5. 256 * (a \div 256) + (a % 256) = a
    OBVIOUS
  <2>6. f[i + 1] = r[k + 1 - (i + 1)]
    BY <2>1, <2>2, <2>3, <2>4, <2>5
  <2> QED
    BY <2>1, <2>6
<1> HIDE DEF E
<1>5. 0 .. k \subseteq E
  BY <1>3, <1>4, UpTo
<1>6. f[k] = r[k + 1 - k]
  <2>1. k \in E /\ k # 0
    BY <1>5
  <2> QED
    BY <2>1 DEF E
<1>7. k + 1 - k = 1
  OBVIOUS
<1> QED
  BY <1>r, <1>1, <1>2, <1>6, <1>7

-----------------------------------------------------------------------------
(* The numbers of a frame's head are bytes.                                *)
LEMMA SmallNumbers == 0 \in Byte /\ 126 \in Byte /\ 127 \in Byte /\ 129 \in Byte /\ \A x \in Byte : x \in Nat
BY DEF Byte

(* One byte is a sequence of bytes.                                        *)
LEMMA OneByte == ASSUME NEW x \in Byte PROVE <<x>> \in Seq(Byte) /\ Len(<<x>>) = 1 /\ <<x>>[1] = x
OBVIOUS

(* Two sequences of bytes joined, element by element.                      *)
LEMMA Joint ==
  ASSUME NEW a \in Seq(Byte), NEW b \in Seq(Byte)
  PROVE  /\ a \o b \in Seq(Byte) /\ Len(a \o b) = Len(a) + Len(b)
         /\ \A i \in 1 .. Len(a) : (a \o b)[i] = a[i]
         /\ \A i \in 1 .. Len(b) : (a \o b)[Len(a) + i] = b[i]
<1>1. Len(a) \in Nat /\ Len(b) \in Nat
  OBVIOUS
<1>2. /\ a \o b \in Seq(Byte) /\ Len(a \o b) = Len(a) + Len(b)
      /\ \A i \in 1 .. Len(a) + Len(b) : (a \o b)[i] = IF i <= Len(a) THEN a[i] ELSE b[i - Len(a)]
  BY ConcatProperties
<1>3. ASSUME NEW i \in 1 .. Len(b)
      PROVE  /\ Len(a) + i \in 1 .. Len(a) + Len(b)
             /\ ~(Len(a) + i <= Len(a)) /\ Len(a) + i - Len(a) = i
  BY <1>1
<1>4. ASSUME NEW i \in 1 .. Len(a) PROVE i \in 1 .. Len(a) + Len(b) /\ i <= Len(a)
  BY <1>1
<1> QED
  BY <1>2, <1>3, <1>4

(* The same, for a name of the joined sequence.                            *)
LEMMA JointAt ==
  ASSUME NEW a \in Seq(Byte), NEW b \in Seq(Byte)
  PROVE  \E c \in Seq(Byte) : /\ c = a \o b /\ Len(c) = Len(a) + Len(b)
                             /\ (\A i \in 1 .. Len(a) : c[i] = a[i])
                             /\ (\A i \in 1 .. Len(b) : c[Len(a) + i] = b[i])
<1>1. PICK c : c = a \o b
  OBVIOUS
<1>2. /\ c \in Seq(Byte) /\ Len(c) = Len(a) + Len(b)
      /\ (\A i \in 1 .. Len(a) : c[i] = a[i])
      /\ (\A i \in 1 .. Len(b) : c[Len(a) + i] = b[i])
  BY <1>1, Joint, Zenon
<1> QED
  BY <1>1, <1>2, Zenon

(* The two bytes a frame opens with.                                       *)
LEMMA Opening ==
  ASSUME NEW x \in Byte, NEW y \in Byte
  PROVE  \E h \in Seq(Byte) : h = <<x>> \o <<y>> /\ Len(h) = 2 /\ h[1] = x /\ h[2] = y
<1>1. PICK p \in Seq(Byte) : p = <<x>> /\ Len(p) = 1 /\ p[1] = x
  BY OneByte, Zenon
<1>2. PICK q \in Seq(Byte) : q = <<y>> /\ Len(q) = 1 /\ q[1] = y
  BY OneByte, Zenon
<1>3. 1 \in 1 .. 1 /\ 1 + 1 = 2
  OBVIOUS
<1>4. Len(p) = 1 /\ Len(q) = 1
  BY <1>1, <1>2
<1>5. PICK c \in Seq(Byte) : /\ c = p \o q /\ Len(c) = Len(p) + Len(q)
                             /\ (\A i \in 1 .. Len(p) : c[i] = p[i])
                             /\ (\A i \in 1 .. Len(q) : c[Len(p) + i] = q[i])
  BY JointAt, Zenon
<1>6. Len(c) = 2 /\ c[1] = p[1] /\ c[2] = q[1]
  BY <1>3, <1>4, <1>5, Zenon
<1> QED
  BY <1>1, <1>2, <1>5, <1>6, Zenon

(* A browser reads the length of every frame the server can send.          *)
LEMMA HeadedNumber ==
  ASSUME NEW h \in Seq(Byte), NEW s \in Seq(Byte), Len(s) > 0,
         Len(h) \in {1, 2}, (h \o s)[2] < 126 <=> Len(h) = 1
  PROVE  FrameLength(h \o s) = BigEndian(s)
<1>1. PICK n \in {1, 2}, m \in Nat : n = Len(h) /\ m = Len(s) /\ m > 0
  BY LenProperties
<1>2. Len(h \o s) = n + m
  BY <1>1, Joint
<1>3. SubSeq(h \o s, n + 1, n + m) = SubSeq(s, (n + 1) - n, (n + m) - n)
  <2>1. n + 1 \in n + 1 .. n + m /\ n + m \in n + 1 .. n + m
    BY <1>1
  <2> QED
    BY <1>1, <2>1, SubSeqOfConcat2
<1>4. (n + 1) - n = 1 /\ (n + m) - n = m
  BY <1>1
<1>5. SubSeq(s, 1, m) = s
  BY <1>1, SubSeqFull
<1>6. n + 1 = IF (h \o s)[2] < 126 THEN 2 ELSE 3
  <2>1. PICK v : v = (h \o s)[2]
    OBVIOUS
  <2>2. v < 126 <=> n = 1
    BY <1>1, <2>1, Zenon
  <2>3. n + 1 = IF v < 126 THEN 2 ELSE 3
    BY <2>2
  <2> QED
    BY <2>1, <2>3, Zenon
<1> QED
  BY <1>2, <1>3, <1>4, <1>5, <1>6 DEF FrameLength

(* A length that follows the head is read from the bytes that spell it.    *)
LEMMA LongLength ==
  ASSUME NEW s \in Seq(Byte), Len(s) > 0, NEW c \in Byte, c >= 126
  PROVE  FrameLength(<<129>> \o (<<c>> \o s)) = BigEndian(s)
<1>1. PICK h \in Seq(Byte) : h = <<129>> \o <<c>> /\ Len(h) = 2 /\ h[1] = 129 /\ h[2] = c
  BY SmallNumbers, Opening
<1>2. <<129>> \o (<<c>> \o s) = h \o s
  <2>1. PICK p \in Seq(Byte), q \in Seq(Byte) : p = <<129>> /\ q = <<c>>
    BY SmallNumbers, OneByte, Zenon
  <2>2. (p \o q) \o s = p \o (q \o s)
    BY ConcatAssociative
  <2> QED
    BY <1>1, <2>1, <2>2, Zenon
<1>3. Len(h) = 2 /\ 2 \in Nat /\ Len(s) \in Nat /\ 2 \in 1 .. 2
  BY <1>1
<1>4. PICK b \in Seq(Byte) : /\ b = h \o s /\ Len(b) = Len(h) + Len(s)
                             /\ (\A i \in 1 .. Len(h) : b[i] = h[i])
                             /\ (\A i \in 1 .. Len(s) : b[Len(h) + i] = s[i])
  BY JointAt, Zenon
<1>5. b[2] = c
  BY <1>1, <1>3, <1>4, Zenon
<1>6. c \in Nat /\ ~(c < 126)
  BY SmallNumbers
<1>7. Len(h) \in {1, 2} /\ ((h \o s)[2] < 126 <=> Len(h) = 1)
  <2>1. ~(2 = 1) /\ 2 \in {1, 2}
    OBVIOUS
  <2> QED
    BY <1>3, <1>4, <1>5, <1>6, <2>1, Zenon
<1> QED
  BY <1>2, <1>7, HeadedNumber, Zenon

(* The length the server writes before a frame is the one it would read.   *)
LEMMA SentLength == ASSUME NEW sz, Long(sz) PROVE FrameLength(SendStatic(sz)) = sz
<1>1. sz \in Nat
  BY DEF Long
<1>2. CASE sz <= 125
  <2>1. SendStatic(sz) = <<129>> \o <<sz>>
    BY <1>1, <1>2 DEF SendStatic
  <2>2. sz \in Byte
    BY <1>1, <1>2 DEF Byte
  <2>3. PICK h \in Seq(Byte), s \in Seq(Byte) :
          h = <<129>> /\ s = <<sz>> /\ Len(h) = 1 /\ Len(s) = 1 /\ s[1] = sz
    BY <2>2, SmallNumbers, OneByte, Zenon
  <2>4. (h \o s)[2] < 126
    <3>1. (h \o s)[1 + 1] = s[1]
      <4>1. 1 \in 1 .. Len(s)
        BY <2>3
      <4> QED
        BY <2>3, <4>1, Joint
    <3> QED
      BY <1>1, <1>2, <2>3, <3>1
  <2>5. PICK f : f[0] = 0 /\ \A i \in 1 .. 1 : f[i] = 256 * f[i - 1] + s[i] /\ BigEndian(s) = f[1]
    BY <2>3, NumberSteps
  <2>6. BigEndian(s) = sz
    <3>1. f[1] = 256 * f[1 - 1] + s[1] /\ 1 - 1 = 0
      BY <2>5
    <3> QED
      BY <1>1, <2>3, <2>5, <3>1
  <2> QED
    BY <2>1, <2>3, <2>4, <2>6, HeadedNumber
<1>4. CASE sz > 125 /\ sz <= 65535
  <2>1. SendStatic(sz) = <<129>> \o (<<126>> \o Reverse(LowFirst(sz, 2)))
    <3>1. ~(sz <= 125)
      BY <1>1, <1>4
    <3> QED
      BY <1>4, <3>1 DEF SendStatic
  <2>2. ASSUME NEW r \in [1 .. 2 -> Nat], r[1] = sz, \A i \in 2 .. 2 : r[i] = r[i - 1] \div 256
        PROVE  r[2] < 256
    <3>1. r[2] = r[2 - 1] \div 256 /\ 2 - 1 = 1
      BY <2>2
    <3> QED
      BY <1>1, <1>4, <2>2, <3>1
  <2>3. 2 \in Nat /\ 2 > 0 /\ 126 >= 126
    OBVIOUS
  <2>4. PICK s \in Seq(Byte) : s = Reverse(LowFirst(sz, 2)) /\ Len(s) = 2 /\ BigEndian(s) = sz
    BY <1>1, <2>2, <2>3, LengthRead, Zenon
  <2>5. Len(s) > 0
    BY <2>4
  <2> QED
    BY <2>1, <2>3, <2>4, <2>5, SmallNumbers, LongLength, Zenon
<1>5. CASE sz > 65535
  <2>1. SendStatic(sz) = <<129>> \o (<<127>> \o Reverse(LowFirst(sz, 8)))
    <3>1. ~(sz <= 125) /\ ~(sz <= 65535)
      BY <1>1, <1>5
    <3> QED
      BY <3>1 DEF SendStatic
  <2>2. ASSUME NEW r \in [1 .. 8 -> Nat], r[1] = sz, \A i \in 2 .. 8 : r[i] = r[i - 1] \div 256
        PROVE  r[8] < 256
    <3>1. ASSUME NEW i \in 1 .. 7 PROVE r[i + 1] = r[i] \div 256
      <4>1. i + 1 \in 2 .. 8 /\ (i + 1) - 1 = i
        OBVIOUS
      <4> QED
        BY <2>2, <4>1
    <3>2. /\ r[1 + 1] = r[1] \div 256 /\ r[2 + 1] = r[2] \div 256 /\ r[3 + 1] = r[3] \div 256
          /\ r[4 + 1] = r[4] \div 256 /\ r[5 + 1] = r[5] \div 256 /\ r[6 + 1] = r[6] \div 256
          /\ r[7 + 1] = r[7] \div 256
      BY <3>1
    <3>3. PICK r2, r3, r4, r5, r6, r7 :
            /\ r2 = sz \div 256 /\ r3 = r2 \div 256 /\ r4 = r3 \div 256 /\ r5 = r4 \div 256
            /\ r6 = r5 \div 256 /\ r7 = r6 \div 256 /\ r[8] = r7 \div 256
      BY <2>2, <3>2
    <3>4. \A x \in Nat : x \div 256 \in Nat /\ (x \div 256) \div 256 = x \div 65536
      OBVIOUS
    <3>5. r3 = sz \div 65536 /\ r5 = r3 \div 65536 /\ r7 = r5 \div 65536 /\ r7 \in Nat
      <4>1. /\ sz \in Nat /\ r3 = (sz \div 256) \div 256
            /\ r5 = (r3 \div 256) \div 256 /\ r7 = (r5 \div 256) \div 256
        BY <1>1, <3>3, Zenon
      <4>2. r3 = sz \div 65536 /\ r3 \in Nat
        BY <3>4, <4>1, SMTT(30)
      <4>3. r5 = r3 \div 65536 /\ r5 \in Nat
        BY <3>4, <4>1, <4>2, SMTT(30)
      <4>4. r7 = r5 \div 65536 /\ r7 \in Nat
        BY <3>4, <4>1, <4>3, SMTT(30)
      <4> QED
        BY <4>2, <4>3, <4>4
    <3>6. r7 < 65536
      BY <3>5 DEF Long
    <3>7. \A x \in Nat : x < 65536 => x \div 256 < 256
      OBVIOUS
    <3>8. r7 \div 256 < 256
      BY <3>5, <3>6, <3>7
    <3> QED
      BY <3>3, <3>8, Zenon
  <2>3. 8 \in Nat /\ 8 > 0 /\ 127 >= 126
    OBVIOUS
  <2>4. PICK s \in Seq(Byte) : s = Reverse(LowFirst(sz, 8)) /\ Len(s) = 8 /\ BigEndian(s) = sz
    BY <1>1, <2>2, <2>3, LengthRead, Zenon
  <2>5. Len(s) > 0
    BY <2>4
  <2> QED
    BY <2>1, <2>3, <2>4, <2>5, SmallNumbers, LongLength, Zenon
<1> QED
  BY <1>1, <1>2, <1>4, <1>5

-----------------------------------------------------------------------------
(* The frames of a browser, if they are short.                             *)
IsFrame(b, data, key) ==
  /\ b \in Seq(Byte) /\ Len(b) = 6 + Len(data) /\ b[1] = 129 /\ b[2] = 128 + Len(data)
  /\ \A i \in 1 .. 4 : b[2 + i] = key[i]
  /\ \A i \in 1 .. Len(data) : b[6 + i] = Xor(data[i], key[((i - 1) % 4) + 1])

(* A frame's bytes: two of head, four of key, and the masked data.         *)
LEMMA HeadAndRest ==
  ASSUME NEW h \in Seq(Byte), NEW key \in Seq(Byte), NEW rest \in Seq(Byte), Len(h) = 2, Len(key) = 4
  PROVE  \E b \in Seq(Byte) :
           /\ b = (h \o key) \o rest /\ Len(b) = 6 + Len(rest) /\ b[1] = h[1] /\ b[2] = h[2]
           /\ (\A i \in 1 .. 4 : b[2 + i] = key[i])
           /\ (\A i \in 1 .. Len(rest) : b[6 + i] = rest[i])
<1>1. PICK g \in Seq(Byte) : /\ g = h \o key /\ Len(g) = Len(h) + Len(key)
                             /\ (\A i \in 1 .. Len(h) : g[i] = h[i])
                             /\ (\A i \in 1 .. Len(key) : g[Len(h) + i] = key[i])
  BY JointAt, Zenon
<1>2. Len(h) = 2 /\ Len(key) = 4 /\ 2 + 4 = 6
  OBVIOUS
<1>3. Len(g) = 6
  BY <1>1, <1>2, Zenon
<1>4. PICK b \in Seq(Byte) : /\ b = g \o rest /\ Len(b) = Len(g) + Len(rest)
                             /\ (\A i \in 1 .. Len(g) : b[i] = g[i])
                             /\ (\A i \in 1 .. Len(rest) : b[Len(g) + i] = rest[i])
  BY JointAt, Zenon
<1>5. (\A i \in 1 .. 2 : g[i] = h[i]) /\ (\A i \in 1 .. 4 : g[2 + i] = key[i])
  BY <1>1, <1>2, Zenon
<1>6. /\ Len(b) = 6 + Len(rest) /\ (\A i \in 1 .. 6 : b[i] = g[i])
      /\ (\A i \in 1 .. Len(rest) : b[6 + i] = rest[i])
  BY <1>3, <1>4, Zenon
<1>7. (\A i \in 1 .. 6 : b[i] = g[i])
  BY <1>6
<1>8. b[1] = h[1] /\ b[2] = h[2]
  BY <1>5, <1>7
<1>9. ASSUME NEW i \in 1 .. 4 PROVE b[2 + i] = key[i]
  <2>1. 2 + i \in 1 .. 6
    OBVIOUS
  <2> QED
    BY <1>5, <1>7, <2>1, Zenon
<1>10. b = (h \o key) \o rest
  BY <1>1, <1>4, Zenon
<1> QED
  BY <1>6, <1>8, <1>9, <1>10, Zenon

(* A client's frame has that shape.                                        *)
LEMMA FrameShape ==
  ASSUME NEW data \in Seq(Byte), NEW key \in Seq(Byte), Len(key) = 4, Len(data) <= 125
  PROVE  IsFrame(Frame(data, key), data, key)
<1>1. PICK n \in Nat : n = Len(data) /\ n <= 125 /\ DOMAIN data = 1 .. n
  BY LenProperties
<1>n. n \in Nat /\ n < 126
  BY <1>1
<1> DEFINE sent_(i) == Xor(data[i], key[((i - 1) % 4) + 1])
           masked  == [i \in 1 .. n |-> sent_(i)]
<1>2. Frame(data, key) = ((<<129>> \o <<128 + n>>) \o key) \o masked
  <2>1. Frame(data, key) = <<129>> \o <<128 + n>> \o key \o masked
    BY <1>1, <1>n, Zenon DEF Frame
  <2> QED
    BY <2>1
<1>3. ASSUME NEW i \in 1 .. n PROVE sent_(i) \in Byte
  <2>1. PICK j \in 1 .. 4 : j = ((i - 1) % 4) + 1
    OBVIOUS
  <2>2. data[i] \in Byte
    BY <1>1
  <2>3. key[j] \in Byte
    <3>1. j \in 1 .. Len(key)
      OBVIOUS
    <3> QED
      BY <3>1, ElementOfSeq
  <2> QED
    BY <2>1, <2>2, <2>3, XorBack, Zenon
<1>4. PICK m \in Seq(Byte) : m = masked /\ Len(m) = n /\ \A i \in 1 .. n : m[i] = sent_(i)
  <2> HIDE DEF sent_
  <2>1. masked \in [1 .. n -> Byte] /\ \A i \in 1 .. n : masked[i] = sent_(i)
    BY <1>3
  <2> HIDE DEF masked
  <2>2. masked \in Seq(Byte) /\ Len(masked) = n
    BY <2>1
  <2> QED
    BY <2>1, <2>2
<1> HIDE DEF masked
<1>5. PICK x \in Byte : x = 128 + n
  <2>1. 128 + n \in 0 .. 255
    BY <1>n
  <2> QED
    BY <2>1 DEF Byte
<1>6. PICK h \in Seq(Byte) : h = <<129>> \o <<x>> /\ Len(h) = 2 /\ h[1] = 129 /\ h[2] = x
  BY SmallNumbers, Opening
<1>7. PICK b \in Seq(Byte) :
        /\ b = (h \o key) \o m /\ Len(b) = 6 + Len(m) /\ b[1] = h[1] /\ b[2] = h[2]
        /\ (\A i \in 1 .. 4 : b[2 + i] = key[i])
        /\ (\A i \in 1 .. Len(m) : b[6 + i] = m[i])
  <2>1. Len(h) = 2 /\ Len(key) = 4
    BY <1>6
  <2> QED
    BY <2>1, HeadAndRest, Zenon
<1>8. Frame(data, key) = b
  BY <1>2, <1>4, <1>5, <1>6, <1>7, Zenon
<1>9. ASSUME NEW i \in 1 .. n PROVE b[6 + i] = Xor(data[i], key[((i - 1) % 4) + 1])
  BY <1>4, <1>7, Zenon
<1>10. Len(b) = 6 + n /\ b[1] = 129 /\ b[2] = 128 + n
  BY <1>4, <1>5, <1>6, <1>7, Zenon
<1> HIDE DEF sent_
<1> QED
  BY <1>1, <1>7, <1>8, <1>9, <1>10, Zenon DEF IsFrame

(* Decode, of what begins like a short frame with n bytes of data: it is   *)
(* one when all but the last byte is there.                                *)
LEMMA DecodeShort ==
  ASSUME NEW seen_ \in Seq(Byte), Len(seen_) >= 6, NEW n \in Nat, n <= 125, n <= MAX_WS_PACKET,
         seen_[1] = 129, seen_[2] = 128 + n
  PROVE  Decode(seen_) = IF n = 0 THEN Bad
                         ELSE IF Len(seen_) = 5 + n
                         THEN [type |-> "WS_DATA_PACKET", data |-> Unmask(Append(seen_, 0), 2, n)]
                         ELSE NotFull
<1>1. PICK d : d = Append(seen_, 0) /\ Len(d) = Len(seen_) + 1 /\ d[1] = 129 /\ d[2] = 128 + n
  <2>1. 1 \in 1 .. Len(seen_) /\ 2 \in 1 .. Len(seen_)
    BY LenProperties
  <2>2. /\ Len(Append(seen_, 0)) = Len(seen_) + 1
        /\ Append(seen_, 0)[1] = seen_[1] /\ Append(seen_, 0)[2] = seen_[2]
    BY <2>1, SmallNumbers, AppendProperties
  <2> QED
    BY <2>2
<1>2. PacketSize(d) = n /\ KeyOffset(d) = 2
  BY <1>1 DEF PacketSize, KeyOffset
<1>3. MAX_WS_PACKET \in Nat /\ Len(seen_) \in Nat
  BY WebSocketAssumption DEF WebSocketAssumption
<1>4. ~(Len(d) < 7 \/ d[1] < 128 \/ d[2] < 128)
  BY <1>1, <1>3
<1>5. Len(d) - KeyOffset(d) - 4 = Len(seen_) - 5
  BY <1>1, <1>2, <1>3
<1>6. Decode(seen_) = IF n = 0 \/ n > MAX_WS_PACKET THEN Bad
                      ELSE IF n # Len(seen_) - 5 THEN NotFull
                      ELSE [type |-> "WS_DATA_PACKET", data |-> Unmask(d, 2, Len(seen_) - 5)]
  BY <1>1, <1>2, <1>4, <1>5, Zenon DEF Decode
<1>7. ~(n > MAX_WS_PACKET) /\ (n = Len(seen_) - 5 <=> Len(seen_) = 5 + n)
  BY <1>3
<1> QED
  BY <1>1, <1>6, <1>7

(* The decoder refuses what is too short to be a frame.                    *)
LEMMA DecodeRest == ASSUME NEW seen_ \in Seq(Byte), Len(seen_) < 6 PROVE Decode(seen_) = Bad
<1>1. Len(Append(seen_, 0)) < 7
  OBVIOUS
<1> QED
  BY <1>1, Zenon DEF Decode

(* The data of a frame comes out again, but for the last byte.             *)
LEMMA UnmaskFrame ==
  ASSUME NEW data \in Seq(Byte), NEW key \in Seq(Byte), Len(key) = 4, Len(data) > 0,
         NEW b, IsFrame(b, data, key), NEW part \in Seq(Byte), Len(part) = 5 + Len(data),
         \A i \in 1 .. 5 + Len(data) : part[i] = b[i]
  PROVE  /\ Unmask(Append(part, 0), 2, Len(data)) \in Seq(Byte)
         /\ Len(Unmask(Append(part, 0), 2, Len(data))) = Len(data)
         /\ Front(Unmask(Append(part, 0), 2, Len(data))) = Front(data)
<1>1. PICK n \in Nat : n = Len(data) /\ n > 0 /\ data \in [1 .. n -> Byte]
  BY LenProperties
<1>2. PICK d \in Seq(Byte) : d = Append(part, 0) /\ Len(d) = 6 + n /\ \A i \in 1 .. 5 + n : d[i] = b[i]
  <2>1. /\ Append(part, 0) \in Seq(Byte) /\ Len(Append(part, 0)) = Len(part) + 1
        /\ \A i \in 1 .. Len(part) : Append(part, 0)[i] = part[i]
    BY SmallNumbers, AppendProperties
  <2>2. Len(part) = 5 + n /\ (5 + n) + 1 = 6 + n
    BY <1>1
  <2>3. Len(Append(part, 0)) = 6 + n /\ \A i \in 1 .. 5 + n : Append(part, 0)[i] = b[i]
    BY <1>1, <2>1, <2>2
  <2> QED
    BY <2>1, <2>3, Zenon
<1> DEFINE got == [i \in 1 .. n |-> Xor(d[2 + 4 + i], d[2 + ((i - 1) % 4) + 1])]
<1>3. Unmask(Append(part, 0), 2, Len(data)) = got
  BY <1>1, <1>2 DEF Unmask
<1>4. ASSUME NEW i \in 1 .. n
      PROVE  /\ d[2 + 4 + i] \in Byte /\ d[2 + ((i - 1) % 4) + 1] = key[((i - 1) % 4) + 1]
             /\ key[((i - 1) % 4) + 1] \in Byte
             /\ i < n => d[2 + 4 + i] = Xor(data[i], key[((i - 1) % 4) + 1])
  <2>1. PICK j \in 1 .. 4 : j = ((i - 1) % 4) + 1
    OBVIOUS
  <2>2. 2 + ((i - 1) % 4) + 1 = 2 + j /\ 2 + j \in 1 .. 5 + n
    BY <1>1, <2>1
  <2>3. d[2 + j] = key[j]
    BY <1>2, <2>2 DEF IsFrame
  <2>4. key[j] \in Byte
    <3>1. j \in 1 .. Len(key)
      OBVIOUS
    <3> QED
      BY <3>1, ElementOfSeq
  <2>5. 2 + 4 + i = 6 + i /\ 6 + i \in 1 .. 6 + n
    OBVIOUS
  <2>6. d[6 + i] \in Byte
    BY <1>2, <2>5
  <2>7. ASSUME i < n PROVE d[6 + i] = Xor(data[i], key[j])
    <3>1. 6 + i \in 1 .. 5 + n
      BY <2>7
    <3> QED
      BY <1>1, <1>2, <2>1, <3>1 DEF IsFrame
  <2> QED
    BY <2>1, <2>2, <2>3, <2>4, <2>5, <2>6, <2>7
<1>5. \A i \in 1 .. n : got[i] \in Byte
  BY <1>4, XorBack
<1>6. \A i \in 1 .. n : i < n => got[i] = data[i]
  <2> SUFFICES ASSUME NEW i \in 1 .. n, i < n PROVE got[i] = data[i]
    OBVIOUS
  <2>1. data[i] \in Byte
    BY <1>1
  <2> QED
    BY <1>4, <2>1, XorBack
<1>7. got \in [1 .. n -> Byte]
  BY <1>5
<1> HIDE DEF got
<1>8. got \in Seq(Byte) /\ Len(got) = n
  BY <1>7
<1>9. Front(got) = Front(data)
  <2>1. Front(got) = [i \in 1 .. n - 1 |-> got[i]] /\ Front(data) = [i \in 1 .. n - 1 |-> data[i]]
    BY <1>1, <1>8 DEF Front
  <2>2. \A i \in 1 .. n - 1 : got[i] = data[i]
    BY <1>6
  <2> QED
    BY <2>1, <2>2
<1> QED
  BY <1>1, <1>3, <1>8, <1>9

-----------------------------------------------------------------------------
(* Everything the client has sent on the WebSocket, frame after frame.     *)
Streamed(fs) == FlattenSeq([i \in DOMAIN fs |-> Frame(fs[i].data, fs[i].key)])

BytesOf(f) == Frame(f.data, f.key)

(* Each frame of the instance is a short frame of bytes.                   *)
LEMMA SentFrame ==
  ASSUME ShortFrames, NEW f \in Frames
  PROVE  /\ f.data \in Seq(Byte) /\ f.key \in Seq(Byte) /\ Len(f.key) = 4
         /\ Len(f.data) \in Nat /\ Len(f.data) <= 125 /\ Len(f.data) <= MAX_WS_PACKET
         /\ BytesOf(f) \in Seq(Byte) /\ IsFrame(BytesOf(f), f.data, f.key)
<1>1. /\ f.data \in Seq(Byte) /\ f.key \in Seq(Byte) /\ Len(f.key) = 4
      /\ Len(f.data) <= 125 /\ Len(f.data) <= MAX_WS_PACKET
  BY WebSocketAssumption, Zenon DEF WebSocketAssumption, ShortFrames
<1>2. PICK d \in Seq(Byte) : d = f.data
  BY <1>1, Zenon
<1>3. Len(d) \in Nat
  BY LenProperties
<1>4. Len(f.data) \in Nat
  BY <1>2, <1>3, Zenon
<1>5. IsFrame(BytesOf(f), f.data, f.key)
  BY <1>1, FrameShape, Zenon DEF BytesOf
<1>6. BytesOf(f) \in Seq(Byte)
  BY <1>5, Zenon DEF IsFrame
<1> QED
  BY <1>1, <1>4, <1>5, <1>6, Zenon

(* A frame sent is its bytes at the end of the stream.                     *)
LEMMA StreamGrows ==
  ASSUME ShortFrames, NEW fs \in Seq(Frames), NEW f \in Frames
  PROVE  Streamed(fs) \in Seq(Byte) /\ Streamed(Append(fs, f)) = Streamed(fs) \o BytesOf(f)
<1>1. PICK n \in Nat : n = Len(fs) /\ fs \in [1 .. n -> Frames] /\ DOMAIN fs = 1 .. n
  BY LenProperties
<1>2. PICK gs \in Seq(Frames) : /\ gs = Append(fs, f) /\ Len(gs) = n + 1 /\ DOMAIN gs = 1 .. n + 1
                               /\ (\A i \in 1 .. n : gs[i] = fs[i]) /\ gs[n + 1] = f
  <2>1. /\ Append(fs, f) \in Seq(Frames) /\ Len(Append(fs, f)) = Len(fs) + 1
        /\ (\A i \in 1 .. Len(fs) : Append(fs, f)[i] = fs[i]) /\ Append(fs, f)[Len(fs) + 1] = f
    BY AppendProperties
  <2>2. DOMAIN Append(fs, f) = 1 .. Len(fs) + 1
    BY <2>1, LenProperties
  <2> QED
    BY <1>1, <2>1, <2>2, Zenon
<1>3. PICK s \in Seq(Seq(Byte)) : s = [i \in 1 .. n |-> BytesOf(fs[i])] /\ Len(s) = n
                                 /\ (\A i \in 1 .. n : s[i] = BytesOf(fs[i]))
  <2> DEFINE s == [i \in 1 .. n |-> BytesOf(fs[i])]
  <2>1. \A i \in 1 .. n : BytesOf(fs[i]) \in Seq(Byte)
    BY <1>1, SentFrame
  <2>2. s \in [1 .. n -> Seq(Byte)] /\ \A i \in 1 .. n : s[i] = BytesOf(fs[i])
    BY <2>1
  <2> HIDE DEF s
  <2>3. s \in Seq(Seq(Byte)) /\ Len(s) = n
    BY <2>2
  <2> QED
    BY <2>2, <2>3 DEF s
<1>4. Streamed(fs) = FlattenSeq(s)
  BY <1>1, <1>3, Zenon DEF Streamed, BytesOf
<1>5. BytesOf(f) \in Seq(Byte)
  BY SentFrame
<1>6. PICK t \in Seq(Seq(Byte)) : /\ t = Append(s, BytesOf(f)) /\ Len(t) = n + 1
                                 /\ (\A i \in 1 .. n : t[i] = s[i]) /\ t[n + 1] = BytesOf(f)
  <2>1. /\ Append(s, BytesOf(f)) \in Seq(Seq(Byte)) /\ Len(Append(s, BytesOf(f))) = Len(s) + 1
        /\ (\A i \in 1 .. Len(s) : Append(s, BytesOf(f))[i] = s[i])
        /\ Append(s, BytesOf(f))[Len(s) + 1] = BytesOf(f)
    BY <1>5, AppendProperties
  <2> QED
    BY <1>3, <2>1, Zenon
<1>7. t = [i \in 1 .. n + 1 |-> BytesOf(gs[i])]
  <2>1. t \in [1 .. n + 1 -> Seq(Byte)]
    <3>1. t \in [1 .. Len(t) -> Seq(Byte)]
      BY LenProperties
    <3> QED
      BY <1>6, <3>1, Zenon
  <2>2. ASSUME NEW i \in 1 .. n + 1 PROVE t[i] = BytesOf(gs[i])
    <3>1. CASE i = n + 1
      BY <1>2, <1>6, <3>1, Zenon
    <3>2. CASE i # n + 1
      <4>1. i \in 1 .. n
        BY <3>2
      <4> QED
        BY <1>2, <1>3, <1>6, <4>1, Zenon
    <3> QED
      BY <3>1, <3>2
  <2> QED
    BY <2>1, <2>2, Zenon
<1>8. Streamed(Append(fs, f)) = FlattenSeq(t)
  BY <1>2, <1>7, Zenon DEF Streamed, BytesOf
<1>9. FlattenSeq(t) = FlattenSeq(s) \o BytesOf(f) /\ FlattenSeq(s) \in Seq(Byte)
  BY <1>5, <1>6, FlattenAppend, FlattenType, Zenon
<1> QED
  BY <1>4, <1>8, <1>9, Zenon

(* No frame sent is no bytes.                                              *)
LEMMA StreamEmpty == Streamed(<<>>) = <<>>
<1>1. [i \in DOMAIN <<>> |-> Frame(<<>>[i].data, <<>>[i].key)] = <<>>
  OBVIOUS
<1> QED
  BY <1>1, FlattenEmpty, Zenon DEF Streamed

(* Some of the bytes, from one of them to another.                         *)
LEMMA Taken ==
  ASSUME NEW s \in Seq(Byte), NEW d \in Nat, NEW a \in Nat, d <= a, a <= Len(s)
  PROVE  \E p \in Seq(Byte) : /\ p = SubSeq(s, d + 1, a) /\ Len(p) = a - d
                             /\ (\A i \in 1 .. a - d : p[i] = s[d + i])
<1>1. PICK n \in Nat : n = Len(s) /\ s \in [1 .. n -> Byte] /\ a <= n
  BY LenProperties
<1>2. PICK m \in Int : m = d + 1
  OBVIOUS
<1>3. a \in Int /\ \A i \in m .. a : s[i] \in Byte
  BY <1>1, <1>2
<1>4. PICK p : p = SubSeq(s, m, a)
  OBVIOUS
<1>5. /\ p \in Seq(Byte) /\ Len(p) = IF m <= a THEN a - m + 1 ELSE 0
      /\ \A i \in 1 .. a - m + 1 : p[i] = s[m + i - 1]
  BY <1>3, <1>4, SubSeqProperties
<1>6. Len(p) = a - d
  <2>1. CASE m <= a
    BY <1>2, <1>5, <2>1
  <2>2. CASE ~(m <= a)
    <3>1. a - d = 0
      BY <1>2, <2>2
    <3> QED
      BY <1>5, <2>2, <3>1, Zenon
  <2> QED
    BY <2>1, <2>2
<1>7. ASSUME NEW i \in 1 .. a - d PROVE p[i] = s[d + i]
  <2>1. i \in 1 .. a - m + 1 /\ m + i - 1 = d + i
    BY <1>2
  <2> QED
    BY <1>5, <2>1, Zenon
<1> QED
  BY <1>2, <1>4, <1>5, <1>6, <1>7, Zenon

-----------------------------------------------------------------------------
(* What was not thrown away begins like a frame with n bytes of data.      *)
Begins(n) ==
  dropped + 2 <= Len(Stream) /\ Stream[dropped + 1] = 129 /\ Stream[dropped + 2] = 128 + n

(* Where the server is in what was sent: behind all of it; in the last     *)
(* frame; waiting for ever behind a frame that arrived whole; or before    *)
(* the last byte of a frame it has given to the page.                      *)
BehindAll == dropped = Len(Stream)

InFrame ==
  /\ frames # <<>> /\ dropped = Len(Streamed(Front(frames)))
  /\ arrived >= dropped + 6 /\ read < Len(Stream)

Stuck == \E n \in 1 .. 125 : n <= MAX_WS_PACKET /\ Begins(n) /\ dropped + 6 + n <= read

OneLeft == read = dropped /\ dropped + 1 = Len(Stream)

WebSocketInv ==
  /\ frames \in Seq(Frames) /\ Stream \in Seq(Byte) /\ messages \in Seq(Seq(Byte))
  /\ arrived \in Nat /\ read \in Nat /\ dropped \in Nat
  /\ dropped <= read /\ read <= arrived /\ arrived <= Len(Stream)
  /\ BehindAll \/ InFrame \/ Stuck \/ OneLeft
  /\ WebSocketData

(* The stream is the bytes of the frames sent, before a step and after it. *)
LEMMA StreamIs == Stream = Streamed(frames) /\ (Stream)' = Streamed(frames')
BY Zenon DEF Stream, Streamed

(* The invariant of the WebSocket holds at first.                          *)
LEMMA WebSocketInit == SessionInit => WebSocketInv
<1> SUFFICES ASSUME SessionInit PROVE WebSocketInv
  OBVIOUS
<1>1. /\ frames = <<>> /\ arrived = 0 /\ read = 0 /\ dropped = 0 /\ messages = <<>> /\ replies = {}
  BY DEF SessionInit
<1>2. Stream = <<>>
  BY <1>1, StreamIs, StreamEmpty, Zenon
<1>3. Len(Stream) = 0
  BY <1>2
<1>4. frames \in Seq(Frames) /\ Stream \in Seq(Byte) /\ messages \in Seq(Seq(Byte))
  BY <1>1, <1>2
<1>5. WebSocketData
  BY <1>1 DEF WebSocketData
<1>6. 0 \in Nat /\ 0 <= 0
  OBVIOUS
<1> QED
  BY <1>1, <1>3, <1>4, <1>5, <1>6, Zenon DEF WebSocketInv, BehindAll

(* The sequence before the last element, and that element.                 *)
LEMMA FrontOfAppend ==
  ASSUME NEW fs \in Seq(Frames), NEW f \in Frames
  PROVE  Append(fs, f) # <<>> /\ Front(Append(fs, f)) = fs /\ Append(fs, f)[Len(Append(fs, f))] = f
<1>1. Append(fs, f) # <<>> /\ Append(fs, f)[Len(Append(fs, f))] = f
  OBVIOUS
<1>2. Front(Append(fs, f)) = fs
  BY DEF Front
<1> QED
  BY <1>1, <1>2

(* Sending a frame.                                                        *)
LEMMA KeptBySendFrame == ASSUME ShortFrames, WebSocketInv, SendFrame PROVE WebSocketInv'
<1>1. /\ frames \in Seq(Frames) /\ messages \in Seq(Seq(Byte)) /\ arrived \in Nat /\ read \in Nat /\ dropped \in Nat
      /\ dropped <= read /\ read <= arrived /\ arrived <= Len(Stream)
      /\ BehindAll \/ InFrame \/ Stuck \/ OneLeft
      /\ WebSocketData
  BY DEF WebSocketInv
<1>2. PICK f \in Frames : frames' = Append(frames, f)
  BY Zenon DEF SendFrame
<1>3. /\ read = Len(Stream) /\ arrived' = arrived + 6
      /\ read' = read /\ dropped' = dropped /\ messages' = messages /\ replies' = replies
  BY DEF SendFrame
<1>4. PICK s \in Seq(Byte), b \in Seq(Byte), t \in Seq(Byte) :
        /\ s = Stream /\ b = BytesOf(f) /\ t = (Stream)' /\ t = s \o b
  <2>1. Streamed(frames) \in Seq(Byte) /\ Streamed(Append(frames, f)) = Streamed(frames) \o BytesOf(f)
    BY <1>1, StreamGrows
  <2>2. BytesOf(f) \in Seq(Byte)
    BY SentFrame
  <2>3. Streamed(frames) \o BytesOf(f) \in Seq(Byte)
    BY <2>1, <2>2, ConcatProperties
  <2> QED
    BY <1>2, <2>1, <2>2, <2>3, StreamIs, Zenon
<1>5. PICK m \in Nat, n \in Nat : m = Len(s) /\ n = Len(b) /\ Len(t) = m + n /\ \A i \in 1 .. m : t[i] = s[i]
  <2>1. PICK c \in Seq(Byte) : /\ c = s \o b /\ Len(c) = Len(s) + Len(b)
                               /\ (\A i \in 1 .. Len(s) : c[i] = s[i])
                               /\ (\A i \in 1 .. Len(b) : c[Len(s) + i] = b[i])
    BY JointAt, Zenon
  <2>2. Len(t) = Len(s) + Len(b) /\ \A i \in 1 .. Len(s) : t[i] = s[i]
    BY <1>4, <2>1, Zenon
  <2> QED
    BY <2>2, LenProperties
<1>6. n >= 6
  <2>1. IsFrame(b, f.data, f.key) /\ Len(f.data) \in Nat
    BY <1>4, SentFrame, Zenon
  <2>2. n = 6 + Len(f.data)
    BY <1>5, <2>1, Zenon DEF IsFrame
  <2> QED
    BY <2>1, <2>2
<1>7. read = m /\ arrived = m /\ Len(Stream) = m /\ (Len(Stream))' = m + n
  <2>1. read = m /\ Len(Stream) = m
    BY <1>3, <1>4, <1>5, Zenon
  <2>2. arrived = m
    BY <1>1, <2>1
  <2>3. (Len(Stream))' = m + n
    BY <1>4, <1>5, Zenon
  <2> QED
    BY <2>1, <2>2, <2>3
<1>8. frames' \in Seq(Frames) /\ (Stream)' \in Seq(Byte) /\ messages' \in Seq(Seq(Byte))
  <2>1. Append(frames, f) \in Seq(Frames)
    BY <1>1, AppendProperties
  <2> QED
    BY <1>1, <1>2, <1>3, <1>4, <2>1, Zenon
<1>9. /\ arrived' \in Nat /\ read' \in Nat /\ dropped' \in Nat
      /\ dropped' <= read' /\ read' <= arrived' /\ arrived' <= m + n
  BY <1>1, <1>3, <1>6, <1>7
<1>10. WebSocketData'
  <2>1. frames' \in Seq(Frames) /\ Len(frames') = Len(frames) + 1 /\ \A i \in 1 .. Len(frames) : frames'[i] = frames[i]
    BY <1>1, <1>2, AppendProperties
  <2>2. DOMAIN frames = 1 .. Len(frames) /\ DOMAIN frames' = 1 .. Len(frames') /\ Len(frames) \in Nat
    BY <1>1, <2>1, LenProperties
  <2>3. \A j \in DOMAIN frames : j \in DOMAIN frames' /\ frames'[j] = frames[j]
    BY <2>1, <2>2
  <2> QED
    BY <1>1, <1>3, <2>3, Zenon DEF WebSocketData
<1>11. CASE BehindAll
  <2>1. InFrame'
    <3>1. frames' # <<>> /\ Front(frames') = frames
      BY <1>1, <1>2, FrontOfAppend, Zenon
    <3>2. dropped' = Len(Streamed(Front(frames')))
      BY <1>3, <1>11, <3>1, StreamIs, Zenon DEF BehindAll
    <3>3. arrived' >= dropped' + 6 /\ read' < m + n
      BY <1>1, <1>3, <1>6, <1>7
    <3> QED
      BY <1>7, <3>1, <3>2, <3>3, Zenon DEF InFrame
  <2> QED
    BY <1>7, <1>8, <1>9, <1>10, <2>1, Zenon DEF WebSocketInv
<1>12. CASE Stuck
  <2>1. PICK k \in 1 .. 125 : k <= MAX_WS_PACKET /\ Begins(k) /\ dropped + 6 + k <= read
    BY <1>12 DEF Stuck
  <2>2. dropped + 1 \in 1 .. m /\ dropped + 2 \in 1 .. m /\ dropped + 2 <= m + n
    BY <1>1, <1>7, <2>1
  <2>3. s[dropped + 1] = 129 /\ s[dropped + 2] = 128 + k
    BY <1>4, <2>1, Zenon DEF Begins
  <2>4. t[dropped + 1] = 129 /\ t[dropped + 2] = 128 + k
    BY <1>5, <2>2, <2>3, Zenon
  <2>5. Begins(k)'
    BY <1>3, <1>4, <1>7, <2>2, <2>4, Zenon DEF Begins
  <2>6. Stuck'
    BY <1>3, <2>1, <2>5, Zenon DEF Stuck
  <2> QED
    BY <1>7, <1>8, <1>9, <1>10, <2>6, Zenon DEF WebSocketInv
<1>13. ~InFrame /\ ~OneLeft
  <2>1. ~(read < Len(Stream))
    BY <1>7
  <2>2. ASSUME OneLeft PROVE FALSE
    BY <1>1, <1>7, <2>2 DEF OneLeft
  <2> QED
    BY <2>1, <2>2, Zenon DEF InFrame
<1> QED
  BY <1>1, <1>11, <1>12, <1>13, Zenon

(* A byte arrives.                                                         *)
LEMMA KeptByArriveFrame == ASSUME WebSocketInv, ArriveFrame PROVE WebSocketInv'
<1>1. /\ arrived < Len(Stream) /\ arrived' = arrived + 1
      /\ frames' = frames /\ messages' = messages /\ replies' = replies /\ read' = read /\ dropped' = dropped
  BY DEF ArriveFrame
<1>2. (Stream)' = Stream
  BY <1>1, StreamIs, Zenon
<1>3. arrived \in Nat /\ read \in Nat /\ dropped \in Nat /\ read <= arrived /\ Len(Stream) \in Nat
  BY LenProperties DEF WebSocketInv
<1>4. /\ arrived' \in Nat /\ read <= arrived' /\ arrived' <= Len(Stream)
      /\ (arrived >= dropped + 6 => arrived' >= dropped + 6)
  BY <1>1, <1>3
<1>5. WebSocketData'
  BY <1>1, Zenon DEF WebSocketInv, WebSocketData
<1>6. /\ BehindAll => BehindAll'
      /\ InFrame => InFrame'
      /\ Stuck => Stuck'
      /\ OneLeft => OneLeft'
  BY <1>1, <1>2, <1>4, Zenon DEF BehindAll, InFrame, Stuck, OneLeft, Begins
<1> QED
  BY <1>1, <1>2, <1>4, <1>5, <1>6, Zenon DEF WebSocketInv


(* What OnConnect does with each of the three results of Decode.           *)
LEMMA Outcome ==
  ASSUME FrameArrived, NEW p, p = SubSeq(Stream, dropped + 1, arrived)
  PROVE  /\ arrived > read /\ read' = arrived /\ frames' = frames /\ arrived' = arrived
         /\ Decode(p) = Bad => dropped' = arrived /\ messages' = messages /\ replies' = replies
         /\ Decode(p) = NotFull => dropped' = dropped /\ messages' = messages /\ replies' = replies
         /\ \A d : Decode(p) = [type |-> "WS_DATA_PACKET", data |-> d] =>
              /\ dropped' = arrived /\ messages' = Append(messages, d)
              /\ \/ replies' = replies
                 \/ \E sz \in ReplySizes : replies' = replies \cup {<<SendStatic(sz), sz>>}
<1>1. PICK r : r = Decode(p)
  OBVIOUS
<1>2. /\ arrived > read /\ read' = arrived /\ frames' = frames /\ arrived' = arrived
      /\ dropped' = IF r.type = "WS_NOTFULL_PACKET" THEN dropped ELSE arrived
      /\ IF r.type = "WS_DATA_PACKET" THEN OnWebSocket(r.data) ELSE UNCHANGED <<messages, replies>>
  BY <1>1, Zenon DEF FrameArrived
<1>3. ASSUME r = Bad PROVE dropped' = arrived /\ messages' = messages /\ replies' = replies
  <2>1. r.type = "WS_BAD_PACKET"
    BY <1>3 DEF Bad
  <2> QED
    BY <1>2, <2>1
<1>4. ASSUME r = NotFull PROVE dropped' = dropped /\ messages' = messages /\ replies' = replies
  <2>1. r.type = "WS_NOTFULL_PACKET"
    BY <1>4 DEF NotFull
  <2> QED
    BY <1>2, <2>1
<1>5. ASSUME NEW d, r = [type |-> "WS_DATA_PACKET", data |-> d]
      PROVE  /\ dropped' = arrived /\ messages' = Append(messages, d)
             /\ \/ replies' = replies
                \/ \E sz \in ReplySizes : replies' = replies \cup {<<SendStatic(sz), sz>>}
  <2>1. r.type = "WS_DATA_PACKET" /\ r.data = d
    BY <1>5
  <2>2. dropped' = arrived /\ OnWebSocket(d)
    BY <1>2, <2>1
  <2> QED
    BY <2>2, Zenon DEF OnWebSocket
<1> QED
  BY <1>1, <1>2, <1>3, <1>4, <1>5, Zenon

(* The frames that pages send are read right, and so are those before.     *)
LEMMA RepliesRead ==
  ASSUME \A r \in replies : FrameLength(r[1]) = r[2],
         \/ replies' = replies
         \/ \E sz \in ReplySizes : replies' = replies \cup {<<SendStatic(sz), sz>>}
  PROVE  \A r \in replies' : FrameLength(r[1]) = r[2]
<1>1. CASE replies' = replies
  BY <1>1, Zenon
<1>2. CASE \E sz \in ReplySizes : replies' = replies \cup {<<SendStatic(sz), sz>>}
  <2>1. PICK sz \in ReplySizes : replies' = replies \cup {<<SendStatic(sz), sz>>}
    BY <1>2
  <2>2. FrameLength(SendStatic(sz)) = sz
    BY WebSocketAssumption, SentLength, Zenon DEF WebSocketAssumption
  <2>3. PICK b : b = SendStatic(sz)
    OBVIOUS
  <2>4. ASSUME NEW r \in replies' PROVE FrameLength(r[1]) = r[2]
    <3>1. CASE r \in replies
      BY <3>1, Zenon
    <3>2. CASE r = <<b, sz>>
      <4>1. r[1] = b /\ r[2] = sz
        BY <3>2
      <4> QED
        BY <2>2, <2>3, <4>1, Zenon
    <3> QED
      BY <2>1, <2>3, <3>1, <3>2, Zenon
  <2> QED
    BY <2>4
<1> QED
  BY <1>1, <1>2

(* What is taken in the middle of the last frame is its beginning.         *)
LEMMA LastFrame ==
  ASSUME ShortFrames, WebSocketInv, InFrame
  PROVE  \E f \in Frames, b \in Seq(Byte), n \in Nat :
           /\ frames[Len(frames)] = f /\ Len(frames) \in DOMAIN frames
           /\ b = BytesOf(f) /\ n = Len(f.data) /\ Len(Stream) = dropped + 6 + n
           /\ \A i \in 1 .. 6 + n : Stream[dropped + i] = b[i]
<1>1. frames \in Seq(Frames) /\ frames # <<>> /\ dropped = Len(Streamed(Front(frames)))
  BY DEF WebSocketInv, InFrame
<1>2. PICK fs \in Seq(Frames), f \in Frames : frames = Append(fs, f)
  BY <1>1, SequenceEmptyOrAppend
<1>3. Front(frames) = fs /\ frames[Len(frames)] = f
  BY <1>2, FrontOfAppend, Zenon
<1>4. Len(frames) \in DOMAIN frames
  BY <1>1, LenProperties
<1>5. PICK s \in Seq(Byte), b \in Seq(Byte) :
        s = Streamed(fs) /\ b = BytesOf(f) /\ Stream = s \o b
  <2>1. BytesOf(f) \in Seq(Byte)
    BY SentFrame
  <2>2. Streamed(fs) \in Seq(Byte) /\ Streamed(Append(fs, f)) = Streamed(fs) \o BytesOf(f)
    BY StreamGrows
  <2> QED
    BY <1>2, <2>1, <2>2, StreamIs, Zenon
<1>6. PICK n \in Nat : n = Len(f.data) /\ Len(b) = 6 + n
  <2>1. Len(f.data) \in Nat /\ IsFrame(b, f.data, f.key)
    BY <1>5, SentFrame, Zenon
  <2> QED
    BY <2>1, Zenon DEF IsFrame
<1>7. Len(s) = dropped
  BY <1>1, <1>3, <1>5, Zenon
<1>8. PICK c \in Seq(Byte) : /\ c = s \o b /\ Len(c) = Len(s) + Len(b)
                             /\ (\A i \in 1 .. Len(s) : c[i] = s[i])
                             /\ (\A i \in 1 .. Len(b) : c[Len(s) + i] = b[i])
  BY JointAt, Zenon
<1>9. /\ Len(Stream) = dropped + (6 + n)
      /\ \A i \in 1 .. 6 + n : Stream[dropped + i] = b[i]
  BY <1>5, <1>6, <1>7, <1>8, Zenon
<1>10. dropped + (6 + n) = dropped + 6 + n
  BY DEF WebSocketInv
<1>11. Len(Stream) = dropped + 6 + n
  BY <1>9, <1>10, Zenon
<1>12. n = Len(f.data)
  BY <1>6
<1> QED
  BY <1>3, <1>4, <1>5, <1>9, <1>11, <1>12, Zenon


(* Bytes arrive at the server.                                             *)
LEMMA KeptByFrameArrived == ASSUME ShortFrames, WebSocketInv, FrameArrived PROVE WebSocketInv'
<1>1. /\ arrived \in Nat /\ read \in Nat /\ dropped \in Nat
      /\ dropped <= read /\ read <= arrived /\ arrived <= Len(Stream)
      /\ Stream \in Seq(Byte) /\ Len(Stream) \in Nat
  BY LenProperties DEF WebSocketInv
<1>2. /\ frames \in Seq(Frames) /\ messages \in Seq(Seq(Byte)) /\ WebSocketData
      /\ BehindAll \/ InFrame \/ Stuck \/ OneLeft
  BY DEF WebSocketInv
<1>3. arrived > read
  BY Zenon DEF FrameArrived
<1>4. PICK p \in Seq(Byte) : /\ p = SubSeq(Stream, dropped + 1, arrived) /\ Len(p) = arrived - dropped
                             /\ (\A i \in 1 .. arrived - dropped : p[i] = Stream[dropped + i])
  <2>1. dropped <= arrived
    BY <1>1
  <2> QED
    BY <1>1, <2>1, Taken, Zenon
<1>5. read' = arrived /\ frames' = frames /\ arrived' = arrived /\ (Stream)' = Stream
  <2>1. read' = arrived /\ frames' = frames /\ arrived' = arrived
    BY <1>4, Outcome, Zenon
  <2> QED
    BY <2>1, StreamIs, Zenon
<1>6. ASSUME messages' = messages, replies' = replies PROVE WebSocketData' /\ messages' \in Seq(Seq(Byte))
  BY <1>2, <1>5, <1>6, Zenon DEF WebSocketData
<1>7. ASSUME dropped' \in Nat, dropped' <= arrived, WebSocketData', messages' \in Seq(Seq(Byte)),
             BehindAll' \/ InFrame' \/ Stuck' \/ OneLeft'
      PROVE  WebSocketInv'
  <2>1. arrived <= arrived
    BY <1>1
  <2> QED
    BY <1>1, <1>2, <1>5, <1>7, <2>1, Zenon DEF WebSocketInv
<1>8. ~BehindAll
  BY <1>1, <1>3 DEF BehindAll
<1>9. CASE OneLeft
  <2>1. Len(p) < 6 /\ arrived = Len(Stream)
    BY <1>1, <1>3, <1>4, <1>9 DEF OneLeft
  <2>2. dropped' = arrived /\ messages' = messages /\ replies' = replies
    BY <1>4, <2>1, DecodeRest, Outcome, Zenon
  <2>3. BehindAll' /\ arrived <= arrived
    BY <1>1, <1>5, <2>1, <2>2 DEF BehindAll
  <2> QED
    BY <1>1, <1>6, <1>7, <2>2, <2>3, Zenon
<1>10. CASE Stuck
  <2>1. PICK n \in 1 .. 125 : n <= MAX_WS_PACKET /\ Begins(n) /\ dropped + 6 + n <= read
    BY <1>10 DEF Stuck
  <2>2. n \in Nat /\ n <= 125 /\ n # 0
    OBVIOUS
  <2>3. 1 \in 1 .. arrived - dropped /\ 2 \in 1 .. arrived - dropped
    BY <1>1, <1>3, <2>1
  <2>4. p[1] = 129 /\ p[2] = 128 + n
    BY <1>4, <2>1, <2>3, Zenon DEF Begins
  <2>5. Len(p) >= 6 /\ Len(p) # 5 + n
    BY <1>1, <1>3, <1>4, <2>1
  <2>6. Decode(p) = NotFull
    BY <2>1, <2>2, <2>4, <2>5, DecodeShort, ZenonT(30)
  <2>7. dropped' = dropped /\ messages' = messages /\ replies' = replies
    BY <1>4, <2>6, Outcome, Zenon
  <2>8. dropped + 6 + n <= arrived /\ dropped <= arrived
    BY <1>1, <1>3, <2>1
  <2>9. Stuck'
    BY <1>5, <2>1, <2>7, <2>8, Zenon DEF Stuck, Begins
  <2> QED
    BY <1>1, <1>6, <1>7, <2>7, <2>8, <2>9, Zenon
<1>11. CASE InFrame
  <2>1. PICK f \in Frames, b \in Seq(Byte), n \in Nat :
          /\ frames[Len(frames)] = f /\ Len(frames) \in DOMAIN frames
          /\ b = BytesOf(f) /\ n = Len(f.data) /\ Len(Stream) = dropped + 6 + n
          /\ \A i \in 1 .. 6 + n : Stream[dropped + i] = b[i]
    BY <1>11, LastFrame, Zenon
  <2>2. /\ f.data \in Seq(Byte) /\ f.key \in Seq(Byte) /\ Len(f.key) = 4
        /\ Len(f.data) <= 125 /\ Len(f.data) <= MAX_WS_PACKET /\ IsFrame(b, f.data, f.key)
    BY <2>1, SentFrame, Zenon
  <2>3. n <= 125 /\ n <= MAX_WS_PACKET /\ b[1] = 129 /\ b[2] = 128 + n
    BY <2>1, <2>2, Zenon DEF IsFrame
  <2>4. arrived >= dropped + 6 /\ read < Len(Stream)
    BY <1>11 DEF InFrame
  <2>5. Len(Stream) = dropped + 6 + n
    BY <2>1
  <2>6. /\ Len(p) >= 6 /\ 1 \in 1 .. arrived - dropped /\ 2 \in 1 .. arrived - dropped
        /\ 1 \in 1 .. 6 + n /\ 2 \in 1 .. 6 + n
    BY <1>1, <1>4, <2>4
  <2>7. ASSUME NEW i \in 1 .. arrived - dropped PROVE p[i] = b[i]
    <3>1. i \in 1 .. 6 + n
      BY <1>1, <2>5
    <3> QED
      BY <1>4, <2>1, <3>1, Zenon
  <2>8. p[1] = 129 /\ p[2] = 128 + n
    BY <2>3, <2>6, <2>7, Zenon
  <2>9. Decode(p) = IF n = 0 THEN Bad
                    ELSE IF Len(p) = 5 + n
                    THEN [type |-> "WS_DATA_PACKET", data |-> Unmask(Append(p, 0), 2, n)]
                    ELSE NotFull
    BY <2>3, <2>6, <2>8, DecodeShort, ZenonT(30)
  <2>10. CASE n = 0
    <3>1. dropped' = arrived /\ messages' = messages /\ replies' = replies
      BY <1>4, <2>9, <2>10, Outcome, Zenon
    <3>2. arrived = Len(Stream) /\ arrived <= arrived
      BY <1>1, <2>4, <2>5, <2>10
    <3>3. BehindAll'
      BY <1>5, <3>1, <3>2, Zenon DEF BehindAll
    <3> QED
      BY <1>1, <1>6, <1>7, <3>1, <3>2, <3>3, Zenon
  <2>11. CASE n # 0 /\ Len(p) = 5 + n
    <3>1. PICK got : got = Unmask(Append(p, 0), 2, n)
      OBVIOUS
    <3>2. n > 0 /\ arrived - dropped = 5 + n
      BY <1>4, <2>11
    <3>3. got \in Seq(Byte) /\ Len(got) = Len(f.data) /\ Front(got) = Front(f.data)
      <4>1. PICK d \in Seq(Byte), k \in Seq(Byte) :
              d = f.data /\ k = f.key /\ Len(k) = 4 /\ n = Len(d) /\ IsFrame(b, d, k)
        BY <2>1, <2>2, Zenon
      <4>2. Len(d) > 0 /\ Len(p) = 5 + Len(d)
        BY <2>11, <3>2, <4>1, Zenon
      <4>3. \A i \in 1 .. 5 + Len(d) : p[i] = b[i]
        BY <2>7, <3>2, <4>1, Zenon
      <4>4. got = Unmask(Append(p, 0), 2, Len(d))
        BY <3>1, <4>1, Zenon
      <4>5. Len(k) = 4 /\ IsFrame(b, d, k)
        BY <4>1
      <4>6. got \in Seq(Byte) /\ Len(got) = Len(d) /\ Front(got) = Front(d)
        BY <4>2, <4>3, <4>4, <4>5, UnmaskFrame
      <4> QED
        BY <4>1, <4>6, Zenon
    <3>4. /\ dropped' = arrived /\ messages' = Append(messages, got)
          /\ \/ replies' = replies
             \/ \E sz \in ReplySizes : replies' = replies \cup {<<SendStatic(sz), sz>>}
      <4>1. Decode(p) = [type |-> "WS_DATA_PACKET", data |-> got]
        BY <2>9, <2>11, <3>1, Zenon
      <4> QED
        BY <1>4, <4>1, Outcome, Zenon
    <3>5. /\ messages' \in Seq(Seq(Byte)) /\ DOMAIN messages' = 1 .. Len(messages) + 1
          /\ DOMAIN messages = 1 .. Len(messages) /\ Len(messages) \in Nat
          /\ (\A i \in 1 .. Len(messages) : messages'[i] = messages[i])
          /\ messages'[Len(messages) + 1] = got
      <4>1. /\ Append(messages, got) \in Seq(Seq(Byte)) /\ Len(Append(messages, got)) = Len(messages) + 1
            /\ (\A i \in 1 .. Len(messages) : Append(messages, got)[i] = messages[i])
            /\ Append(messages, got)[Len(messages) + 1] = got
        BY <1>2, <3>3, AppendProperties
      <4>2. DOMAIN Append(messages, got) = 1 .. Len(messages) + 1
        BY <4>1, LenProperties
      <4>3. DOMAIN messages = 1 .. Len(messages) /\ Len(messages) \in Nat
        BY <1>2, LenProperties
      <4> QED
        BY <3>4, <4>1, <4>2, <4>3, Zenon
    <3>6. ASSUME NEW i \in DOMAIN messages'
          PROVE  \E j \in DOMAIN frames' : /\ Len(messages'[i]) = Len(frames'[j].data)
                                          /\ Front(messages'[i]) = Front(frames'[j].data)
      <4>1. CASE i = Len(messages) + 1
        BY <1>5, <2>1, <3>3, <3>5, <4>1, Zenon
      <4>2. CASE i # Len(messages) + 1
        <5>1. i \in 1 .. Len(messages)
          BY <3>5, <4>2
        <5>2. i \in DOMAIN messages /\ messages'[i] = messages[i]
          BY <3>5, <5>1, Zenon
        <5> QED
          BY <1>2, <1>5, <5>2, Zenon DEF WebSocketData
      <4> QED
        BY <4>1, <4>2
    <3>7. \A r \in replies' : FrameLength(r[1]) = r[2]
      <4>1. \A r \in replies : FrameLength(r[1]) = r[2]
        BY <1>2, Zenon DEF WebSocketData
      <4> QED
        BY <3>4, <4>1, RepliesRead, Zenon
    <3>8. WebSocketData'
      BY <3>6, <3>7, Zenon DEF WebSocketData
    <3>9. dropped' + 1 = Len(Stream) /\ arrived <= arrived
      BY <1>1, <2>5, <3>2, <3>4
    <3>10. OneLeft'
      BY <1>5, <3>4, <3>9, Zenon DEF OneLeft
    <3> QED
      BY <1>1, <1>7, <3>4, <3>5, <3>8, <3>9, <3>10, Zenon
  <2>12. CASE n # 0 /\ Len(p) # 5 + n
    <3>1. dropped' = dropped /\ messages' = messages /\ replies' = replies
      <4>1. Decode(p) = NotFull
        BY <2>9, <2>12, Zenon
      <4> QED
        BY <1>4, <4>1, Outcome, Zenon
    <3>2. dropped <= arrived
      BY <1>1
    <3>3. CASE arrived < Len(Stream)
      <4>1. InFrame'
        BY <1>5, <1>11, <2>4, <3>1, <3>3, Zenon DEF InFrame
      <4> QED
        BY <1>1, <1>6, <1>7, <3>1, <3>2, <4>1, Zenon
    <3>4. CASE ~(arrived < Len(Stream))
      <4>1. dropped + 6 + n <= arrived /\ dropped + 2 <= Len(Stream) /\ n \in 1 .. 125
        BY <1>1, <2>3, <2>5, <2>12, <3>4
      <4>2. Stream[dropped + 1] = 129 /\ Stream[dropped + 2] = 128 + n
        BY <2>1, <2>3, <2>6, Zenon
      <4>3. Begins(n)'
        BY <1>5, <3>1, <4>1, <4>2, Zenon DEF Begins
      <4>4. Stuck'
        BY <1>5, <2>3, <3>1, <4>1, <4>3, Zenon DEF Stuck
      <4> QED
        BY <1>1, <1>6, <1>7, <3>1, <3>2, <4>4, Zenon
    <3> QED
      BY <3>3, <3>4
  <2> QED
    BY <2>10, <2>11, <2>12
<1> QED
  BY <1>2, <1>8, <1>9, <1>10, <1>11

(* Every step keeps the invariant of the WebSocket.                        *)
LEMMA WebSocketStep == ASSUME ShortFrames, WebSocketInv, [SessionNext]_allVars PROVE WebSocketInv'
<1>1. ASSUME UNCHANGED wsVars PROVE WebSocketInv'
  <2>1. /\ frames' = frames /\ arrived' = arrived /\ read' = read /\ dropped' = dropped
        /\ messages' = messages /\ replies' = replies
    BY <1>1 DEF wsVars
  <2>2. (Stream)' = Stream
    BY <2>1, StreamIs, Zenon
  <2> QED
    BY <2>1, <2>2, Zenon DEF WebSocketInv, WebSocketData, BehindAll, InFrame, Stuck, OneLeft, Begins
<1>2. CASE Client
  BY <1>1, <1>2, Zenon DEF Client
<1>3. CASE Request
  BY <1>1, <1>3, Zenon DEF Request
<1>4. CASE SendFrame
  BY <1>4, KeptBySendFrame
<1>5. CASE ArriveFrame
  BY <1>5, KeptByArriveFrame
<1>6. CASE FrameArrived
  BY <1>6, KeptByFrameArrived
<1>7. CASE UNCHANGED allVars
  BY <1>1, <1>7, Zenon DEF allVars
<1> QED
  BY <1>2, <1>3, <1>4, <1>5, <1>6, <1>7, Zenon DEF SessionNext

(* A page on a WebSocket is given the data of a frame the client sent, all *)
(* but the last byte, however the frames are cut, and the browser reads    *)
(* the lengths of the page's frames right (WebSocket.cpp:40 and :85).      *)
THEOREM SessionWebSocketData == ASSUME ShortFrames PROVE SessionSpec => []WebSocketData
<1>1. SessionInit => WebSocketInv
  BY WebSocketInit
<1>2. WebSocketInv /\ [SessionNext]_allVars => WebSocketInv'
  BY WebSocketStep
<1>3. WebSocketInv => WebSocketData
  BY Zenon DEF WebSocketInv
<1> QED
  BY <1>1, <1>2, <1>3, PTL DEF SessionSpec

(* A session is a run of HttpFraming with more to it.                      *)
LEMMA SessionIsFraming == SessionSpec => Spec
<1>1. SessionInit => Init
  BY Zenon DEF SessionInit
<1>2. [SessionNext]_allVars => [Next]_vars
  <2> SUFFICES ASSUME [SessionNext]_allVars PROVE [Next]_vars
    OBVIOUS
  <2>1. CASE Client
    BY <2>1, Zenon DEF Client, Next
  <2>2. CASE Request
    BY <2>2, Zenon DEF Request, Next
  <2>3. CASE SendFrame
    BY <2>3, Zenon DEF SendFrame
  <2>4. CASE ArriveFrame
    BY <2>4, Zenon DEF ArriveFrame
  <2>5. CASE FrameArrived
    BY <2>5, Zenon DEF FrameArrived
  <2>6. CASE UNCHANGED allVars
    BY <2>6, Zenon DEF allVars
  <2> QED
    BY <2>1, <2>2, <2>3, <2>4, <2>5, <2>6, Zenon DEF SessionNext
<1> QED
  BY <1>1, <1>2, PTL DEF SessionSpec, Spec

(* So what is proved of the framing holds in a session, where pages, files *)
(* and the server answer and the connection may become a WebSocket.        *)
THEOREM SessionFraming ==
  ASSUME LengthsFit PROVE SessionSpec => [](CutsDoNotMatter /\ BodyComplete /\ BadClient)
<1>1. SessionSpec => Spec
  BY SessionIsFraming
<1>2. Spec => []CutsDoNotMatter /\ []BodyComplete /\ []BadClient
  BY FramingCutsDoNotMatter, FramingBodyComplete, FramingBadClient
<1> QED
  BY <1>1, <1>2, PTL

(* What separates words; cookies are separated by a semicolon.             *)
Blank == " "

(* One step of the fold of decode_web, and the states it can be in.        *)
Unescape(str, d, i) ==
  IF str[i] = "%" THEN [d EXCEPT !.tbt = 2]
  ELSE IF d.tbt = 0 THEN [d EXCEPT !.res = Append(@, IF str[i] = "+" THEN Blank ELSE str[i])]
  ELSE IF ~isxdigit(str[i]) THEN [d EXCEPT !.tbt = 0]
  ELSE IF d.tbt = 2 THEN [d EXCEPT !.tbt = 1]
  ELSE [tbt |-> 0, res |-> Append(d.res, Char(strtol(str[i - 1], str[i])))]

Decoded(T) == [tbt : 0 .. 2, res : Seq(T)]

(* What Char gives is one of the characters with a code, or a "?".         *)
LEMMA CharIn == ASSUME NEW n PROVE Char(n) \in DOMAIN Code \cup {"?"}
<1> DEFINE C == { c \in DOMAIN Code : Code[c] = n }
<1>1. CASE \E c \in DOMAIN Code : Code[c] = n
  <2>1. Char(n) = CHOOSE c \in DOMAIN Code : Code[c] = n
    BY <1>1, Zenon DEF Char
  <2>2. (CHOOSE c \in DOMAIN Code : Code[c] = n) \in DOMAIN Code
    BY <1>1, Zenon
  <2> QED
    BY <2>1, <2>2, Zenon
<1>2. CASE ~\E c \in DOMAIN Code : Code[c] = n
  <2>1. Char(n) = "?"
    BY <1>2, Zenon DEF Char
  <2> QED
    BY <2>1
<1> QED
  BY <1>1, <1>2

(* A step leads from such a state to such a state.                         *)
LEMMA UnescapeType ==
  ASSUME NEW T, DOMAIN Code \cup {"?"} \subseteq T, NEW str \in Seq(T), NEW d \in Decoded(T), NEW i \in 1 .. Len(str)
  PROVE  Unescape(str, d, i) \in Decoded(T)
<1>1. d.tbt \in 0 .. 2 /\ d.res \in Seq(T) /\ d = [tbt |-> d.tbt, res |-> d.res]
  BY DEF Decoded
<1>2. str[i] \in T /\ Blank \in T
  BY ElementOfSeq DEF Code, Blank, Semicolon
<1>3. Append(d.res, IF str[i] = "+" THEN Blank ELSE str[i]) \in Seq(T)
  BY <1>1, <1>2, AppendProperties
<1>4. PICK c : c = Char(strtol(str[i - 1], str[i]))
  OBVIOUS
<1>5. c \in T
  BY <1>4, CharIn
<1>6. Append(d.res, c) \in Seq(T)
  BY <1>1, <1>5, AppendProperties
<1>7. PICK a : a = Append(d.res, IF str[i] = "+" THEN Blank ELSE str[i])
  OBVIOUS
<1>8. /\ [d EXCEPT !.tbt = 2] = [tbt |-> 2, res |-> d.res] /\ [d EXCEPT !.tbt = 0] = [tbt |-> 0, res |-> d.res]
      /\ [d EXCEPT !.tbt = 1] = [tbt |-> 1, res |-> d.res]
      /\ [d EXCEPT !.res = a] = [tbt |-> d.tbt, res |-> a]
  BY <1>1
<1>9. \/ Unescape(str, d, i) = [tbt |-> 2, res |-> d.res] \/ Unescape(str, d, i) = [tbt |-> 0, res |-> d.res]
      \/ Unescape(str, d, i) = [tbt |-> 1, res |-> d.res] \/ Unescape(str, d, i) = [tbt |-> d.tbt, res |-> a]
      \/ Unescape(str, d, i) = [tbt |-> 0, res |-> Append(d.res, c)]
  BY <1>4, <1>7, <1>8, Zenon DEF Unescape
<1>10. a \in Seq(T)
  BY <1>3, <1>7
<1>11. PICK b \in Seq(T) : b = Append(d.res, c)
  BY <1>6
<1>12. PICK u : u = Unescape(str, d, i)
  OBVIOUS
<1>13. \E k \in 0 .. 2, x \in Seq(T) : u = [tbt |-> k, res |-> x]
  <2>1. 0 \in 0 .. 2 /\ 1 \in 0 .. 2 /\ 2 \in 0 .. 2
    OBVIOUS
  <2> QED
    BY <1>1, <1>9, <1>10, <1>11, <1>12, <2>1, Zenon
<1> QED
  BY <1>12, <1>13 DEF Decoded

(* decode_web goes through the text character by character.                *)
LEMMA DecodeFold ==
  ASSUME NEW T, DOMAIN Code \cup {"?"} \subseteq T, NEW str \in Seq(T)
  PROVE  \E f : /\ f[0] = [tbt |-> 0, res |-> <<>>]
                /\ \A i \in 1 .. Len(str) :
                     /\ f[i - 1] \in Decoded(T)
                     /\ f[i] \in Decoded(T)
                     /\ f[i] = Unescape(str, f[i - 1], i)
                /\ decode_web(str) = f[Len(str)].res
<1> DEFINE op(m, i) == Unescape(str, m, i)
           seq == [i \in DOMAIN str |-> i]
           D == DOMAIN seq
           base == [tbt |-> 0, res |-> <<>>]
           Steady(g) == g = [s \in SUBSET D |-> IF s = {} THEN base ELSE op(g[s \ {Max(s)}], seq[Max(s)])]
           it == CHOOSE g : Steady(g)
           step == [e \in Decoded(T) \X (1 .. Len(str)) |-> op(e[1], seq[e[2]])]
<1>1. decode_web(str) = it[D].res
  BY DEF decode_web, FoldLeftDomain, FoldLeft, MapThenFoldSet, Unescape, Blank
<1>2. Len(str) \in Nat /\ D = 1 .. Len(str)
  BY LenProperties
<1>3. \A m \in Decoded(T), i \in 1 .. Len(str) : op(m, seq[i]) \in Decoded(T)
  <2>1. \A i \in 1 .. Len(str) : seq[i] = i /\ i \in Nat
    BY <1>2
  <2> HIDE DEF seq
  <2> QED
    BY <2>1, UnescapeType
<1>4. base \in Decoded(T)
  BY EmptySeq DEF Decoded
<1>5. step \in Steps(Len(str), Decoded(T))
  <2> HIDE DEF op, seq
  <2> QED
    BY <1>3 DEF Steps
<1>6. PICK g : FoldsBy(g, Len(str), Decoded(T), base, step)
  <2> HIDE DEF step, base, seq
  <2> QED
    BY <1>2, <1>4, <1>5, SubsetRecursion
<1>7. Steady(g)
  <2>1. g \in [SUBSET D -> Decoded(T)]
    BY <1>2, <1>6 DEF FoldsBy
  <2>2. ASSUME NEW s \in SUBSET D
        PROVE  g[s] = IF s = {} THEN base ELSE op(g[s \ {Max(s)}], seq[Max(s)])
    <3>1. CASE s = {}
      BY <1>2, <1>6, <3>1 DEF FoldsBy
    <3>2. CASE s # {}
      <4>1. Max(s) \in 1 .. Len(str)
        BY <1>2, <3>2, MaxIn
      <4>2. g[s] = step[<<g[s \ {Max(s)}], Max(s)>>]
        BY <1>2, <1>6, <3>2, Zenon DEF FoldsBy
      <4>3. g[s \ {Max(s)}] \in Decoded(T)
        BY <1>2, <1>6 DEF FoldsBy
      <4>4. step[<<g[s \ {Max(s)}], Max(s)>>] = op(g[s \ {Max(s)}], seq[Max(s)])
        <5> HIDE DEF op, seq
        <5> QED
          BY <4>1, <4>3
      <4> HIDE DEF step, op, seq
      <4> QED
        BY <3>2, <4>2, <4>4
    <3> QED
      BY <3>1, <3>2
  <2> HIDE DEF op, base, seq
  <2> QED
    BY <2>1, <2>2
<1>8. Steady(it)
  <2> HIDE DEF Steady
  <2> QED
    BY <1>7
<1>9. \A s \in SUBSET D : it[s] = IF s = {} THEN base ELSE op(it[s \ {Max(s)}], seq[Max(s)])
  <2> HIDE DEF it, op, base, seq
  <2> QED
    BY <1>8, Zenon
<1>17. \A i \in 1 .. Len(str) : seq[i] = i
  BY <1>2
<1> HIDE DEF it, Steady, op, base, step, seq
<1>10. it[{}] = base
  BY <1>9
<1>11. \A i \in 1 .. Len(str) : it[1 .. i] = op(it[1 .. i - 1], seq[i])
  <2> TAKE i \in 1 .. Len(str)
  <2>1. /\ 1 .. i # {} /\ 1 .. i \in SUBSET (1 .. Len(str))
        /\ Max(1 .. i) = i /\ (1 .. i) \ {Max(1 .. i)} = 1 .. i - 1
    BY <1>2, FirstPositions
  <2> QED
    BY <1>2, <1>9, <2>1
<1> DEFINE f == [i \in 0 .. Len(str) |-> it[1 .. i]]
           E == { i \in 0 .. Len(str) : f[i] \in Decoded(T) }
<1>12. f[0] = base /\ f[Len(str)] = it[D]
  <2>1. 1 .. 0 = {}
    OBVIOUS
  <2> QED
    BY <1>2, <1>10, <2>1
<1>13. \A i \in 1 .. Len(str) : f[i] = op(f[i - 1], seq[i])
  <2> TAKE i \in 1 .. Len(str)
  <2>1. i \in 0 .. Len(str) /\ i - 1 \in 0 .. Len(str)
    BY <1>2
  <2> QED
    BY <1>11, <2>1
<1> HIDE DEF f
<1>14. 0 .. Len(str) \subseteq E
  <2>1. 0 \in E
    BY <1>2, <1>4, <1>12
  <2>2. ASSUME NEW i \in 0 .. Len(str) - 1, i \in E PROVE i + 1 \in E
    <3>1. i + 1 \in 1 .. Len(str) /\ (i + 1) - 1 = i
      BY <1>2
    <3>2. f[i + 1] = op(f[i], seq[i + 1])
      BY <1>13, <3>1
    <3>3. f[i + 1] \in Decoded(T)
      BY <1>3, <2>2, <3>1, <3>2
    <3> QED
      BY <1>2, <3>1, <3>3
  <2> HIDE DEF E
  <2> QED
    BY <1>2, <2>1, <2>2, UpTo
<1>15. \A i \in 1 .. Len(str) : f[i - 1] \in Decoded(T) /\ f[i] \in Decoded(T) /\ f[i] = op(f[i - 1], seq[i])
  <2> TAKE i \in 1 .. Len(str)
  <2>1. i \in 0 .. Len(str) /\ i - 1 \in 0 .. Len(str)
    BY <1>2
  <2> QED
    BY <1>13, <1>14, <2>1
<1>16. decode_web(str) = f[Len(str)].res
  BY <1>1, <1>12
<1> WITNESS f
<1> QED
  BY <1>12, <1>15, <1>16, <1>17 DEF op, base

(* Sequences joined to t: what is joined before each, and where it is.     *)
Joining(f, s, T, t) ==
  /\ f \in [0 .. Len(s) -> Seq(T)] /\ f[0] = <<>> /\ t = f[Len(s)]
  /\ \A j \in 1 .. Len(s) : /\ s[j] \in Seq(T) /\ f[j] = f[j - 1] \o s[j]
                            /\ Len(f[j]) = Len(f[j - 1]) + Len(s[j]) /\ Len(f[j]) <= Len(t)
                            /\ \A i \in 1 .. Len(s[j]) : t[Len(f[j - 1]) + i] = s[j][i]

(* What FlattenSeq gives is such a sequence.                               *)
LEMMA FlattenJoining ==
  ASSUME NEW T, NEW s \in Seq(Seq(T)) PROVE \E f : Joining(f, s, T, FlattenSeq(s))
<1>1. PICK f \in [0 .. Len(s) -> Seq(T)] :
        /\ f[0] = <<>>
        /\ \A i \in 1 .. Len(s) : f[i] = f[i - 1] \o s[i]
        /\ FlattenSeq(s) = f[Len(s)]
  BY FlattenSteps
<1>2. PICK t : t = FlattenSeq(s)
  OBVIOUS
<1>3. PICK n \in Nat : n = Len(s)
  BY LenProperties
<1>4. \A j \in 0 .. n : f[j] \in Seq(T) /\ Len(f[j]) \in Nat
  BY <1>1, <1>3, LenProperties
<1>5. ASSUME NEW j \in 1 .. n
      PROVE  /\ s[j] \in Seq(T) /\ Len(s[j]) \in Nat /\ Len(f[j]) = Len(f[j - 1]) + Len(s[j])
             /\ \A i \in 1 .. Len(f[j - 1]) : f[j][i] = f[j - 1][i]
             /\ \A i \in 1 .. Len(s[j]) : f[j][Len(f[j - 1]) + i] = s[j][i]
  <2>1. s[j] \in Seq(T) /\ Len(s[j]) \in Nat
    BY <1>3, ElementOfSeq, LenProperties
  <2>2. PICK a \in Seq(T) : a = f[j - 1]
    BY <1>4
  <2>3. f[j] = a \o s[j]
    BY <1>1, <1>3, <2>2
  <2>4. Len(a) \in Nat
    BY <2>2, LenProperties
  <2>5. /\ Len(f[j]) = Len(a) + Len(s[j])
        /\ \A i \in 1 .. Len(a) + Len(s[j]) : f[j][i] = IF i <= Len(a) THEN a[i] ELSE s[j][i - Len(a)]
    BY <2>1, <2>3, ConcatProperties
  <2>6. \A i \in 1 .. Len(a) : f[j][i] = a[i]
    <3>1. \A i \in 1 .. Len(a) : i \in 1 .. Len(a) + Len(s[j]) /\ i <= Len(a)
      BY <2>1, <2>4
    <3> QED
      BY <2>5, <3>1
  <2>7. \A i \in 1 .. Len(s[j]) : f[j][Len(a) + i] = s[j][i]
    <3> TAKE i \in 1 .. Len(s[j])
    <3>1. Len(a) + i \in 1 .. Len(a) + Len(s[j]) /\ ~(Len(a) + i <= Len(a)) /\ (Len(a) + i) - Len(a) = i
      BY <2>1, <2>4
    <3> QED
      BY <2>5, <3>1
  <2> QED
    BY <2>1, <2>2, <2>5, <2>6, <2>7
<1> DEFINE Is(k) == Len(f[k]) <= Len(t) /\ \A i \in 1 .. Len(f[k]) : t[i] = f[k][i]
           E == { k \in Nat : k <= n => Is(n - k) }
<1>6. 0 \in E
  <2>1. Is(n)
    BY <1>1, <1>2, <1>3, <1>4
  <2>2. n - 0 = n
    OBVIOUS
  <2> HIDE DEF Is
  <2> QED
    BY <2>1, <2>2
<1>7. ASSUME NEW k \in 0 .. n - 1, k \in E PROVE k + 1 \in E
  <2>1. n - k \in 1 .. n /\ (n - k) - 1 = n - (k + 1) /\ n - (k + 1) \in 0 .. n
    OBVIOUS
  <2>2. Is(n - k)
    BY <1>7
  <2>3. PICK j \in 1 .. n : j = n - k
    BY <2>1
  <2>4. Is(j - 1)
    <3>1. Len(f[j - 1]) \in Nat /\ Len(f[j]) \in Nat /\ Len(s[j]) \in Nat /\ Len(t) \in Nat
      <4>1. j - 1 \in 0 .. n /\ j \in 0 .. n /\ n \in 0 .. n
        OBVIOUS
      <4> QED
        BY <1>1, <1>2, <1>3, <1>4, <1>5, <4>1
    <3>2. Is(j)
      BY <2>2, <2>3
    <3>3. Len(f[j - 1]) <= Len(f[j]) /\ Len(f[j]) <= Len(t)
      BY <1>5, <3>1, <3>2
    <3>4. ASSUME NEW i \in 1 .. Len(f[j - 1]) PROVE t[i] = f[j - 1][i]
      <4>1. i \in 1 .. Len(f[j])
        BY <3>1, <3>3
      <4> QED
        BY <1>5, <3>2, <4>1
    <3> QED
      BY <3>1, <3>3, <3>4
  <2> HIDE DEF Is
  <2> QED
    BY <2>1, <2>3, <2>4
<1> HIDE DEF E
<1>8. 0 .. n \subseteq E
  BY <1>6, <1>7, UpTo
<1>9. ASSUME NEW j \in 0 .. n PROVE Is(j)
  <2>1. n - j \in 0 .. n /\ n - (n - j) = j /\ n - j <= n
    OBVIOUS
  <2> HIDE DEF Is
  <2> QED
    BY <1>8, <2>1 DEF E
<1>10. ASSUME NEW j \in 1 .. n
       PROVE  /\ s[j] \in Seq(T) /\ f[j] = f[j - 1] \o s[j]
              /\ Len(f[j]) = Len(f[j - 1]) + Len(s[j]) /\ Len(f[j]) <= Len(t)
              /\ \A i \in 1 .. Len(s[j]) : t[Len(f[j - 1]) + i] = s[j][i]
  <2>1. Is(j)
    BY <1>9
  <2>2. Len(f[j - 1]) \in Nat /\ Len(f[j]) \in Nat /\ Len(s[j]) \in Nat
    <3>1. j - 1 \in 0 .. n /\ j \in 0 .. n
      OBVIOUS
    <3> QED
      BY <1>4, <1>5, <3>1
  <2>3. \A i \in 1 .. Len(s[j]) : Len(f[j - 1]) + i \in 1 .. Len(f[j])
    BY <1>5, <2>2
  <2> QED
    BY <1>1, <1>3, <1>5, <2>1, <2>3
<1>11. Joining(f, s, T, t)
  BY <1>1, <1>2, <1>3, <1>10 DEF Joining
<1> QED
  BY <1>2, <1>11

(* The value of a hexadecimal digit.                                       *)
LEMMA HexValue ==
  ASSUME NEW k \in {3, 4, 6, 7, 12, 14} PROVE isxdigit(Hex[k]) /\ Digit(Hex[k]) = k - 1
<1>1. PICK c : c = Hex[k]
  OBVIOUS
<1> DEFINE I == { i \in 1 .. Len(Hex) : Hex[i] = c }
<1>2. k \in I /\ I \in SUBSET Nat
  BY <1>1, HexShape
<1>3. \A i \in I : k <= i
  <2>1. SUFFICES ASSUME NEW i \in 1 .. 13, Hex[i] = c, i < k PROVE FALSE
    BY HexShape
  <2>2. i = 1 \/ i = 2 \/ i = 3 \/ i = 4 \/ i = 5 \/ i = 6 \/ i = 7 \/ i = 8 \/ i = 9 \/ i = 10 \/ i = 11
        \/ i = 12 \/ i = 13
    OBVIOUS
  <2>3. CASE k = 3
    BY <1>1, <2>1, <2>3, HexShape
  <2>4. CASE k = 4
    BY <1>1, <2>1, <2>4, HexShape
  <2>5. CASE k = 6
    BY <1>1, <2>1, <2>2, <2>5, HexShape
  <2>6. CASE k = 7
    BY <1>1, <2>1, <2>2, <2>6, HexShape
  <2>7. CASE k = 12
    BY <1>1, <2>1, <2>2, <2>7, HexShape
  <2>8. CASE k = 14
    BY <1>1, <2>1, <2>2, <2>8, HexShape
  <2> QED
    BY <2>3, <2>4, <2>5, <2>6, <2>7, <2>8
<1>4. Digit(c) = Min(I) - 1
  <2>1. Digit(c) = (IF I # {} THEN Min(I) ELSE 0) - 1
    BY Zenon DEF Digit, SelectInSeq
  <2> HIDE DEF I
  <2> QED
    BY <1>2, <2>1
<1>5. Min(I) \in I /\ Min(I) <= k
  <2> HIDE DEF I
  <2> QED
    BY <1>2, MinOf
<1>6. Min(I) = k
  BY <1>2, <1>3, <1>5
<1>7. isxdigit(c)
  <2>1. c \in { Hex[i] : i \in 1 .. Len(Hex) }
    BY <1>2
  <2> QED
    BY HexShape, <1>1 DEF isxdigit, Contains
<1> QED
  BY <1>1, <1>4, <1>6, <1>7

(* A text that holds a character, escaped to n, from k + 1 on.             *)
EscapedAt(str, k, c, n) ==
  n = Len(Escaped(c)) /\ \A i \in 1 .. n : str[k + i] = Escaped(c)[i]

(* The code of an escaped character, read, is the character, if nothing on *)
(* the stack is taken for a third digit.                                   *)
LEMMA CodeRead ==
  ASSUME ~isxdigit(Leftover), NEW c \in DOMAIN Code \ {Blank}
  PROVE  LET x == Hex[Code[c] \div 16 + 1]
             y == Hex[(Code[c] % 16) + 1]
         IN  /\ isxdigit(x) /\ isxdigit(y) /\ Char(strtol(x, y)) = c
             /\ Escaped(c) = <<"%", x, y>> /\ x # "%" /\ y # "%"
<1>1. /\ DOMAIN Code = {Blank, "%", "&", "+", Semicolon, "="} /\ Code[Blank] = 32
      /\ Code["%"] = 37 /\ Code["&"] = 38
      /\ Code["+"] = 43 /\ Code[Semicolon] = 59 /\ Code["="] = 61
  BY DEF Code, Blank, Semicolon
<1>2. PICK n : n = Code[c]
  OBVIOUS
<1>3. n \in {37, 38, 43, 59, 61}
  BY <1>1, <1>2
<1>4. n \in Nat /\ n \div 16 \in {2, 3} /\ n % 16 \in {5, 6, 11, 13} /\ 16 * (n \div 16) + (n % 16) = n
  <2>1. /\ 37 \div 16 = 2 /\ 38 \div 16 = 2 /\ 43 \div 16 = 2 /\ 59 \div 16 = 3 /\ 61 \div 16 = 3
        /\ 37 % 16 = 5 /\ 38 % 16 = 6 /\ 43 % 16 = 11 /\ 59 % 16 = 11 /\ 61 % 16 = 13
    OBVIOUS
  <2>2. n = 37 \/ n = 38 \/ n = 43 \/ n = 59 \/ n = 61
    BY <1>3
  <2> QED
    BY <2>1, <2>2
<1>5. PICK a : a = n \div 16
  OBVIOUS
<1>6. PICK b : b = n % 16
  OBVIOUS
<1>7. a \in {2, 3} /\ b \in {5, 6, 11, 13} /\ 16 * a + b = n
  BY <1>4, <1>5, <1>6
<1>8. PICK x : x = Hex[a + 1]
  OBVIOUS
<1>9. PICK y : y = Hex[b + 1]
  OBVIOUS
<1>10. isxdigit(x) /\ isxdigit(y) /\ Digit(x) = a /\ Digit(y) = b
  <2>1. a + 1 \in {3, 4} /\ (a + 1) - 1 = a
    BY <1>7
  <2>2. b + 1 \in {6, 7, 12, 14} /\ (b + 1) - 1 = b
    BY <1>7
  <2>3. isxdigit(x) /\ Digit(x) = a
    BY <1>8, <2>1, HexValue
  <2>4. isxdigit(y) /\ Digit(y) = b
    BY <1>9, <2>2, HexValue
  <2> QED
    BY <2>3, <2>4
<1>11. strtol(x, y) = n
  BY <1>7, <1>10 DEF strtol
<1>12. Char(n) = c
  <2>1. ASSUME NEW e \in DOMAIN Code, Code[e] = n PROVE e = c
    <3>1. e = Blank \/ e = "%" \/ e = "&" \/ e = "+" \/ e = Semicolon \/ e = "="
      BY <1>1
    <3>2. c = "%" \/ c = "&" \/ c = "+" \/ c = Semicolon \/ c = "="
      BY <1>1
    <3>3. \/ (e = Blank /\ n = 32) \/ (e = "%" /\ n = 37) \/ (e = "&" /\ n = 38) \/ (e = "+" /\ n = 43)
          \/ (e = Semicolon /\ n = 59) \/ (e = "=" /\ n = 61)
      BY <1>1, <2>1, <3>1
    <3>4. \/ (c = "%" /\ n = 37) \/ (c = "&" /\ n = 38) \/ (c = "+" /\ n = 43)
          \/ (c = Semicolon /\ n = 59) \/ (c = "=" /\ n = 61)
      BY <1>1, <1>2, <3>2
    <3>5. CASE n = 37
      BY <3>3, <3>4, <3>5
    <3>6. CASE n = 38
      BY <3>3, <3>4, <3>6
    <3>7. CASE n = 43
      BY <3>3, <3>4, <3>7
    <3>8. CASE n = 59
      BY <3>3, <3>4, <3>8
    <3>9. CASE n = 61
      BY <3>3, <3>4, <3>9
    <3> QED
      BY <3>4, <3>5, <3>6, <3>7, <3>8, <3>9
  <2>2. Char(n) = CHOOSE e \in DOMAIN Code : Code[e] = n
    BY <1>2, Zenon DEF Char
  <2>3. (CHOOSE e \in DOMAIN Code : Code[e] = n) = c
    BY <1>2, <2>1, Zenon
  <2> QED
    BY <2>2, <2>3, Zenon
<1>13. Escaped(c) = <<"%", Hex[Code[c] \div 16 + 1], Hex[(Code[c] % 16) + 1]>>
  BY Zenon DEF Escaped, Blank
<1>14. x # "%" /\ y # "%"
  <2>1. a + 1 = 3 \/ a + 1 = 4
    BY <1>7
  <2>2. b + 1 = 6 \/ b + 1 = 7 \/ b + 1 = 12 \/ b + 1 = 14
    BY <1>7
  <2>3. x = "2" \/ x = "3"
    BY <1>8, <2>1, HexShape
  <2>4. y = "5" \/ y = "6" \/ y = "B" \/ y = "D"
    BY <1>9, <2>2, HexShape
  <2> QED
    BY <2>3, <2>4
<1> QED
  BY <1>2, <1>5, <1>6, <1>8, <1>9, <1>10, <1>11, <1>12, <1>13, <1>14

(* The second digit behind a "%".                                          *)
LEMMA LastDigit ==
  ASSUME NEW str, NEW d, NEW i, d.tbt = 1, str[i] # "%", isxdigit(str[i])
  PROVE  Unescape(str, d, i) = [tbt |-> 0, res |-> Append(d.res, Char(strtol(str[i - 1], str[i])))]
<1>1. ~(d.tbt = 0) /\ ~(d.tbt = 2)
  OBVIOUS
<1> QED
  BY <1>1 DEF Unescape

(* The steps from k to k + n.                                              *)
Unescapes(f, str, k, n) == \A i \in 1 .. n : f[k + i] = Unescape(str, f[(k + i) - 1], k + i)

(* At i, all that came is read, and it is r.                               *)
HasRead(f, i, r) == f[i] = [tbt |-> 0, res |-> r]

(* A character is read from what it was escaped to.                        *)
LEMMA OneDecoded ==
  ASSUME ~isxdigit(Leftover), NEW str, NEW k \in Nat, NEW c, NEW n \in Nat, EscapedAt(str, k, c, n),
         NEW f, NEW r, Unescapes(f, str, k, n), HasRead(f, k, r)
  PROVE  HasRead(f, k + n, Append(r, c))
<1> SUFFICES f[k + n] = [tbt |-> 0, res |-> Append(r, c)]
  BY DEF HasRead
<1>1. Blank \in DOMAIN Code /\ "%" \in DOMAIN Code /\ "+" \in DOMAIN Code
  BY DEF Code, Blank, Semicolon
<1>2. CASE c = Blank \/ c \notin DOMAIN Code
  <2>1. PICK e : e = IF c = Blank THEN "+" ELSE c
    OBVIOUS
  <2>2. Escaped(c) = <<e>>
    <3>1. CASE c = Blank
      BY <2>1, <3>1, Zenon DEF Escaped, Blank
    <3>2. CASE c # Blank
      BY <1>2, <2>1, <3>2, Zenon DEF Escaped, Blank
    <3> QED
      BY <3>1, <3>2
  <2>3. n = 1 /\ str[k + 1] = e
    BY <2>2 DEF EscapedAt
  <2>4. f[k + 1] = Unescape(str, f[k], k + 1)
    <3>1. (k + 1) - 1 = k /\ 1 \in 1 .. n
      BY <2>3
    <3> QED
      BY <3>1 DEF Unescapes
  <2>5. e # "%" /\ (IF e = "+" THEN Blank ELSE e) = c
    BY <1>1, <1>2, <2>1
  <2>7. PICK d : d = f[k]
    OBVIOUS
  <2>8. d = [tbt |-> 0, res |-> r]
    BY <2>7 DEF HasRead
  <2>9. PICK x : x = Append(r, c)
    OBVIOUS
  <2>10. [d EXCEPT !.res = x] = [tbt |-> 0, res |-> x] /\ d.tbt = 0 /\ d.res = r
    BY <2>8
  <2>11. Unescape(str, d, k + 1) = [d EXCEPT !.res = Append(d.res, IF e = "+" THEN Blank ELSE e)]
    BY <2>3, <2>5, <2>10, Zenon DEF Unescape
  <2>12. Unescape(str, d, k + 1) = [tbt |-> 0, res |-> x]
    BY <2>5, <2>9, <2>10, <2>11
  <2> QED
    BY <2>3, <2>4, <2>7, <2>9, <2>12
<1>3. CASE c \in DOMAIN Code \ {Blank}
  <2>1. PICK x, y : /\ isxdigit(x) /\ isxdigit(y) /\ Char(strtol(x, y)) = c
                    /\ Escaped(c) = <<"%", x, y>> /\ x # "%" /\ y # "%"
    BY <1>3, CodeRead
  <2>2. n = 3 /\ str[k + 1] = "%" /\ str[k + 2] = x /\ str[k + 3] = y
    <3>1. Len(<<"%", x, y>>) = 3 /\ <<"%", x, y>>[1] = "%" /\ <<"%", x, y>>[2] = x /\ <<"%", x, y>>[3] = y
      OBVIOUS
    <3> QED
      BY <2>1, <3>1 DEF EscapedAt
  <2>3. /\ f[k + 1] = Unescape(str, f[k], k + 1) /\ f[k + 2] = Unescape(str, f[k + 1], k + 2)
        /\ f[k + 3] = Unescape(str, f[k + 2], k + 3)
    <3>1. (k + 1) - 1 = k /\ (k + 2) - 1 = k + 1 /\ (k + 3) - 1 = k + 2
      OBVIOUS
    <3> QED
      BY <2>2, <3>1 DEF Unescapes
  <2>5. f[k] = [tbt |-> 0, res |-> r]
    BY DEF HasRead
  <2>6. f[k + 1] = [tbt |-> 2, res |-> r]
    <3>1. [f[k] EXCEPT !.tbt = 2] = [tbt |-> 2, res |-> r]
      BY <2>5
    <3> QED
      BY <2>2, <2>3, <3>1 DEF Unescape
  <2>7. f[k + 2] = [tbt |-> 1, res |-> r]
    <3>1. [f[k + 1] EXCEPT !.tbt = 1] = [tbt |-> 1, res |-> r] /\ f[k + 1].tbt = 2
      BY <2>6
    <3> QED
      BY <2>1, <2>2, <2>3, <3>1 DEF Unescape
  <2>8. f[k + 3] = [tbt |-> 0, res |-> Append(r, c)]
    <3>1. PICK d : d = f[k + 2]
      OBVIOUS
    <3>2. d.tbt = 1 /\ d.res = r /\ (k + 3) - 1 = k + 2
      BY <2>7, <3>1
    <3>6. PICK i : i = k + 3
      OBVIOUS
    <3>3. Unescape(str, d, i) = [tbt |-> 0, res |-> Append(d.res, Char(strtol(str[i - 1], str[i])))]
      <4>1. d.tbt = 1 /\ str[i] # "%" /\ isxdigit(str[i])
        BY <2>1, <2>2, <3>2, <3>6
      <4> QED
        BY <4>1, LastDigit, Zenon
    <3>4. i - 1 = k + 2
      BY <3>6
    <3>5. f[k + 3] = [tbt |-> 0, res |-> Append(r, Char(strtol(x, y)))]
      BY <2>2, <2>3, <3>1, <3>2, <3>3, <3>4, <3>6, Zenon
    <3> QED
      BY <2>1, <3>5, Zenon
  <2> QED
    BY <2>2, <2>8
<1> QED
  BY <1>2, <1>3

(* What the characters that are escaped are written with, and the "=".     *)
Spelling == {"%", "+", "2", "3", "5", "6", "B", "D", "="}

(* A character that may be a blank is written without one.                 *)
LEMMA EscapedIn ==
  ASSUME NEW S, Spelling \subseteq S, NEW c, c \in S \/ c = Blank PROVE Escaped(c) \in Seq(S)
<1>1. /\ DOMAIN Code = {Blank, "%", "&", "+", Semicolon, "="}
      /\ Code["%"] = 37 /\ Code["&"] = 38
      /\ Code["+"] = 43 /\ Code[Semicolon] = 59 /\ Code["="] = 61
  BY DEF Code, Blank, Semicolon
<1>2. /\ Hex[3] = "2" /\ Hex[4] = "3" /\ Hex[6] = "5" /\ Hex[7] = "6"
      /\ Hex[12] = "B" /\ Hex[14] = "D"
  BY DEF Hex
<1>3. /\ "%" \in S /\ "+" \in S /\ "2" \in S /\ "3" \in S /\ "5" \in S
      /\ "6" \in S /\ "B" \in S /\ "D" \in S
  BY DEF Spelling
<1>4. CASE c = Blank
  <2>1. Escaped(c) = <<"+">>
    BY <1>4, Zenon DEF Escaped, Blank
  <2> QED
    BY <1>3, <2>1
<1>5. CASE c \in DOMAIN Code \ {Blank}
  <2>1. Escaped(c) = <<"%", Hex[Code[c] \div 16 + 1], Hex[(Code[c] % 16) + 1]>>
    BY <1>5, Zenon DEF Escaped, Blank
  <2>2. Code[c] \in {37, 38, 43, 59, 61}
    BY <1>1, <1>5
  <2>3. \A n \in {37, 38, 43, 59, 61} : (n \div 16) + 1 \in {3, 4} /\ (n % 16) + 1 \in {6, 7, 12, 14}
    OBVIOUS
  <2>4. Hex[Code[c] \div 16 + 1] \in S /\ Hex[(Code[c] % 16) + 1] \in S
    <3> DEFINE x == Code[c] \div 16 + 1
               y == (Code[c] % 16) + 1
    <3>1. x \in {3, 4} /\ y \in {6, 7, 12, 14}
      BY <2>2, <2>3
    <3> HIDE DEF x, y
    <3>2. Hex[x] \in S /\ Hex[y] \in S
      BY <1>2, <1>3, <3>1
    <3> QED
      BY <3>2 DEF x, y
  <2> QED
    BY <1>3, <2>1, <2>4
<1>6. CASE c # Blank /\ c \notin DOMAIN Code
  <2>1. Escaped(c) = <<c>>
    BY <1>6, Zenon DEF Escaped, Blank
  <2> QED
    BY <1>6, <2>1
<1> QED
  BY <1>4, <1>5, <1>6

(* A text of escaped characters, decoded.                                  *)
LEMMA EscapedRead ==
  ASSUME ~isxdigit(Leftover), NEW T, NEW v \in Seq(T), NEW S, DOMAIN Code \cup {"?"} \subseteq S,
         NEW s \in Seq(Seq(S)), Len(s) = Len(v), \A j \in 1 .. Len(v) : s[j] = Escaped(v[j])
  PROVE  decode_web(FlattenSeq(s)) = v
<1>1. Len(v) \in Nat /\ DOMAIN v = 1 .. Len(v) /\ \A i \in 1 .. Len(v) : v[i] \in T
  BY LenProperties, ElementOfSeq
<1>3. Len(s) = Len(v) /\ \A j \in 1 .. Len(v) : s[j] = Escaped(v[j])
  OBVIOUS
<1>4. PICK str : str = FlattenSeq(s)
  OBVIOUS
<1>5. PICK g : Joining(g, s, S, str)
  BY <1>4, FlattenJoining
<1>6. /\ g \in [0 .. Len(s) -> Seq(S)] /\ g[0] = <<>> /\ str = g[Len(s)]
      /\ \A j \in 1 .. Len(s) : /\ s[j] \in Seq(S) /\ g[j] = g[j - 1] \o s[j]
                                /\ Len(g[j]) = Len(g[j - 1]) + Len(s[j]) /\ Len(g[j]) <= Len(str)
                                /\ \A i \in 1 .. Len(s[j]) : str[Len(g[j - 1]) + i] = s[j][i]
  BY <1>5, Zenon DEF Joining
<1>7. PICK n \in Nat : n = Len(v)
  BY <1>1
<1>8. str \in Seq(S) /\ Len(str) \in Nat
  <2>1. Len(s) \in 0 .. Len(s)
    BY <1>3, <1>7
  <2> QED
    BY <1>6, <2>1, LenProperties
<1>9. PICK f : /\ f[0] = [tbt |-> 0, res |-> <<>>]
               /\ \A i \in 1 .. Len(str) : /\ f[i - 1] \in Decoded(S) /\ f[i] \in Decoded(S)
                                           /\ f[i] = Unescape(str, f[i - 1], i)
               /\ decode_web(str) = f[Len(str)].res
  BY <1>8, DecodeFold
<1> DEFINE E == { j \in Nat : f[Len(g[j])] = [tbt |-> 0, res |-> SubSeq(v, 1, j)] }
<1>10. 0 \in E
  <2>1. SubSeq(v, 1, 0) = <<>> /\ Len(g[0]) = 0
    BY <1>6
  <2> QED
    BY <1>9, <2>1
<1>11. ASSUME NEW j \in 0 .. n - 1, j \in E PROVE j + 1 \in E
  <2>1. j + 1 \in 1 .. n /\ (j + 1) - 1 = j /\ j \in 0 .. n
    OBVIOUS
  <2>2. PICK c : c = v[j + 1]
    OBVIOUS
  <2>3. PICK k : k = Len(g[j])
    OBVIOUS
  <2>4. k \in Nat /\ s[j + 1] = Escaped(c)
    <3>1. g[j] \in Seq(S)
      BY <1>3, <1>6, <1>7, <2>1
    <3> QED
      BY <1>3, <1>7, <2>1, <2>2, <2>3, <3>1, LenProperties
  <2>5. PICK m : m = Len(Escaped(c))
    OBVIOUS
  <2>6. EscapedAt(str, k, c, m)
    <3>1. \A i \in 1 .. Len(s[j + 1]) : str[Len(g[(j + 1) - 1]) + i] = s[j + 1][i]
      BY <1>3, <1>6, <1>7, <2>1
    <3> QED
      BY <2>1, <2>3, <2>4, <2>5, <3>1 DEF EscapedAt
  <2>7. m \in Nat /\ Len(g[j + 1]) = k + m /\ k + m <= Len(str)
    <3>1. s[j + 1] \in Seq(S)
      BY <1>3, <1>6, <1>7, <2>1
    <3> QED
      BY <1>3, <1>6, <1>7, <2>1, <2>3, <2>4, <2>5, <3>1, LenProperties
  <2>8. f[k] = [tbt |-> 0, res |-> SubSeq(v, 1, j)]
    BY <1>11, <2>3
  <2>9. PICK r : r = SubSeq(v, 1, j)
    OBVIOUS
  <2>10. Unescapes(f, str, k, m)
    <3> SUFFICES ASSUME NEW i \in 1 .. m PROVE f[k + i] = Unescape(str, f[(k + i) - 1], k + i)
      BY DEF Unescapes
    <3>1. k + i \in 1 .. Len(str)
      BY <1>8, <2>4, <2>7
    <3> QED
      BY <1>9, <3>1, Zenon
  <2>11. f[k + m] = [tbt |-> 0, res |-> Append(r, c)]
    <3>1. k \in Nat
      BY <2>4
    <3>2. m \in Nat
      BY <2>7
    <3>3. HasRead(f, k, r)
      BY <2>8, <2>9 DEF HasRead
    <3>4. ~isxdigit(Leftover)
      OBVIOUS
    <3>5. HasRead(f, k + m, Append(r, c))
      BY <2>6, <2>10, <3>1, <3>2, <3>3, <3>4, OneDecoded, Zenon
    <3> QED
      BY <3>5 DEF HasRead
  <2>12. Append(SubSeq(v, 1, j), c) = SubSeq(v, 1, j + 1)
    BY <1>7, <2>1, <2>2
  <2>13. f[Len(g[j + 1])] = [tbt |-> 0, res |-> SubSeq(v, 1, j + 1)]
    BY <2>7, <2>9, <2>11, <2>12, Zenon
  <2> QED
    BY <2>1, <2>13
<1> HIDE DEF E
<1>12. n \in E
  <2>1. 0 .. n \subseteq E
    BY <1>7, <1>10, <1>11, UpTo
  <2> QED
    BY <1>7, <2>1
<1>13. f[Len(str)] = [tbt |-> 0, res |-> SubSeq(v, 1, n)]
  BY <1>3, <1>6, <1>7, <1>12 DEF E
<1>14. SubSeq(v, 1, n) = v
  BY <1>7
<1> QED
  BY <1>4, <1>9, <1>13, <1>14

(* What a browser escapes, decode_web reads back, whatever it is, as long  *)
(* as what happens to be on the stack behind its two digits is none.       *)
THEOREM DecodeRoundTrip ==
  ASSUME ~isxdigit(Leftover), NEW T, NEW v \in Seq(T) PROVE decode_web(Encoded(v)) = v
<1> DEFINE S == T \cup DOMAIN Code \cup {"?"} \cup Spelling
           s == [i \in DOMAIN v |-> Escaped(v[i])]
<1>1. Len(v) \in Nat /\ DOMAIN v = 1 .. Len(v) /\ \A i \in 1 .. Len(v) : v[i] \in T
  BY LenProperties, ElementOfSeq
<1>2. ASSUME NEW c \in T PROVE Escaped(c) \in Seq(S)
  <2>1. Spelling \subseteq S /\ c \in S
    BY DEF Spelling
  <2> HIDE DEF S
  <2> QED
    BY <2>1, EscapedIn
<1>3. s \in Seq(Seq(S)) /\ Len(s) = Len(v) /\ \A j \in 1 .. Len(v) : s[j] = Escaped(v[j])
  <2>1. s \in [1 .. Len(v) -> Seq(S)]
    <3> HIDE DEF S
    <3> QED
      BY <1>1, <1>2
  <2>2. \A j \in 1 .. Len(v) : s[j] = Escaped(v[j])
    BY <1>1
  <2> HIDE DEF s, S
  <2> QED
    BY <1>1, <2>1, <2>2, FunctionIsSeq
<1>4. Encoded(v) = FlattenSeq(s)
  BY Zenon DEF Encoded
<1>5. DOMAIN Code \cup {"?"} \subseteq S
  OBVIOUS
<1> HIDE DEF s, S
<1> QED
  BY <1>3, <1>4, <1>5, EscapedRead
===============================================================================
