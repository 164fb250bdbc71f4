----------------------------- MODULE RequestProofs -----------------------------
(***************************************************************************)
(* Machine-checked proofs about what becomes of a request's text behind    *)
(* the framing: what ParseHeader reads in it, although it overwrites it as *)
(* it goes, and that the answer is therefore the one the client is due.    *)
(*                                                                         *)
(* The argument goes from the memory to the session: what split leaves of  *)
(* a string and of what is around it; what each line of a header makes of  *)
(* the parser, and that the text behind the line is untouched; the lines   *)
(* that a client writes, one after the other, up to the empty one; that a  *)
(* body changes nothing of what was read; and Process with what is known.  *)
(***************************************************************************)
EXTENDS TextProofs, FiniteSetTheorems

(* What there is in memory.                                                *)
Mark == Sign \cup {NUL}

(* The string at p ends at z.                                              *)
StringAt(buf, p, z) ==
  /\ p \in Nat /\ z \in Nat /\ 1 <= p /\ p <= z /\ z <= Len(buf)
  /\ buf[z] = NUL
  /\ \A i \in p .. z - 1 : buf[i] # NUL

(* A string is what is before the first NUL.                               *)
LEMMA StringRead ==
  ASSUME NEW T, NEW buf \in Seq(T), NEW p, NEW z, StringAt(buf, p, z)
  PROVE  /\ StrEnd(buf, p) = z /\ CStr(buf, p) = SubSeq(buf, p, z - 1)
         /\ CStr(buf, p) \in Seq(T) /\ Len(CStr(buf, p)) = z - p
         /\ \A i \in 1 .. z - p : CStr(buf, p)[i] = buf[p + i - 1]
<1> DEFINE I == { i \in p .. Len(buf) : buf[i] = NUL }
<1>1. Len(buf) \in Nat /\ p \in Nat /\ z \in Nat /\ 1 <= p /\ p <= z /\ z <= Len(buf)
  BY LenProperties DEF StringAt
<1>2. StrEnd(buf, p) = IF I # {} THEN Min(I) ELSE 0
  BY Zenon DEF StrEnd, SelectInSubSeq
<1>3. z \in I /\ I \in SUBSET Nat /\ \A i \in I : z <= i
  BY <1>1 DEF StringAt
<1>4. Min(I) = z
  <2> HIDE DEF I
  <2>1. Min(I) \in I /\ \A i \in I : Min(I) <= i
    BY <1>3, MinOf
  <2>2. Min(I) \in Nat /\ z <= Min(I) /\ Min(I) <= z
    BY <1>3, <2>1
  <2> QED
    BY <1>1, <2>2
<1>5. StrEnd(buf, p) = z
  <2> HIDE DEF I
  <2> QED
    BY <1>2, <1>3, <1>4
<1>6. CStr(buf, p) = SubSeq(buf, p, z - 1)
  BY <1>5 DEF CStr
<1>7. \A i \in p .. z - 1 : i \in 1 .. Len(buf) /\ buf[i] \in T
  BY <1>1, ElementOfSeq
<1>8. SubSeq(buf, p, z - 1) = [i \in 1 .. z - p |-> buf[p + i - 1]]
  BY <1>1
<1> QED
  BY <1>1, <1>5, <1>6, <1>7, <1>8

(* A sequence of numbers that are the members of a set in order.           *)
InOrder(e, S) ==
  /\ e \in Seq(Nat)
  /\ \A j \in 1 .. Len(e) : e[j] \in S
  /\ \A x \in S : \E j \in 1 .. Len(e) : e[j] = x
  /\ \A j, k \in 1 .. Len(e) : j < k => e[j] < e[k]

(* A number greater than all in a set comes behind them.                   *)
LEMMA OneMore ==
  ASSUME NEW S, NEW e, InOrder(e, S), NEW x \in Nat, \A y \in S : y < x
  PROVE  InOrder(Append(e, x), S \cup {x})
<1> DEFINE f == Append(e, x)
<1>1. /\ f \in Seq(Nat) /\ Len(f) = Len(e) + 1 /\ Len(e) \in Nat
      /\ \A j \in 1 .. Len(e) : f[j] = e[j]
      /\ f[Len(e) + 1] = x
  BY AppendProperties, LenProperties DEF InOrder
<1> HIDE DEF f
<1>2. \A j \in 1 .. Len(f) : j \in 1 .. Len(e) \/ j = Len(e) + 1
  BY <1>1
<1>3. \A j \in 1 .. Len(f) : f[j] \in S \cup {x}
  BY <1>1, <1>2 DEF InOrder
<1>4. \A y \in S \cup {x} : \E j \in 1 .. Len(f) : f[j] = y
  <2>1. \A j \in 1 .. Len(e) : j \in 1 .. Len(f)
    BY <1>1
  <2>2. Len(e) + 1 \in 1 .. Len(f)
    BY <1>1
  <2> QED
    BY <1>1, <2>1, <2>2 DEF InOrder
<1>5. ASSUME NEW j \in 1 .. Len(f), NEW k \in 1 .. Len(f), j < k PROVE f[j] < f[k]
  <2>1. j \in 1 .. Len(e)
    BY <1>1, <1>5
  <2>2. CASE k \in 1 .. Len(e)
    BY <1>1, <1>5, <2>1, <2>2 DEF InOrder
  <2>3. CASE k = Len(e) + 1
    BY <1>1, <2>1, <2>3 DEF InOrder
  <2> QED
    BY <1>2, <2>2, <2>3
<1>6. InOrder(f, S \cup {x})
  BY <1>1, <1>3, <1>4, <1>5 DEF InOrder
<1> QED
  BY <1>6 DEF f
-----------------------------------------------------------------------------
(* The comparison with a delimiter, one character further, and what it can *)
(* have come to.                                                           *)
Match(text, d, m, i) ==
  IF text[i] # d[m.ok + 1] THEN [m EXCEPT !.ok = 0]
  ELSE IF m.ok + 1 < Len(d) THEN [m EXCEPT !.ok = @ + 1]
  ELSE [ok |-> 0, ends |-> Append(m.ends, i)]

Matched(d) == [ok : 0 .. Len(d) - 1, ends : Seq(Nat)]

(* It stays what it can come to.                                           *)
LEMMA MatchType ==
  ASSUME NEW text, NEW d, Len(d) \in Nat, Len(d) > 0, NEW m \in Matched(d), NEW i \in Nat
  PROVE  Match(text, d, m, i) \in Matched(d)
<1>1. /\ m.ok \in 0 .. Len(d) - 1 /\ m.ends \in Seq(Nat)
      /\ m = [ok |-> m.ok, ends |-> m.ends]
  BY DEF Matched
<1>2. /\ [m EXCEPT !.ok = 0] = [ok |-> 0, ends |-> m.ends]
      /\ [m EXCEPT !.ok = @ + 1] = [ok |-> m.ok + 1, ends |-> m.ends]
  BY <1>1
<1>3. Append(m.ends, i) \in Seq(Nat)
  BY <1>1, AppendProperties
<1>4. 0 \in 0 .. Len(d) - 1 /\ (m.ok + 1 < Len(d) => m.ok + 1 \in 0 .. Len(d) - 1)
  BY <1>1
<1> QED
  BY <1>1, <1>2, <1>3, <1>4 DEF Match, Matched

(* Ends goes through the text character by character.                      *)
LEMMA EndsFold ==
  ASSUME NEW text, Len(text) \in Nat, DOMAIN text = 1 .. Len(text), NEW d, Len(d) \in Nat, Len(d) > 0
  PROVE  \E f : /\ f[0] = [ok |-> 0, ends |-> <<>>]
                /\ \A i \in 1 .. Len(text) :
                     /\ f[i - 1] \in Matched(d)
                     /\ f[i] \in Matched(d)
                     /\ f[i] = Match(text, d, f[i - 1], i)
                /\ Ends(text, d) = f[Len(text)].ends
<1> DEFINE op(m, i) == Match(text, d, m, i)
           seq == [i \in DOMAIN text |-> i]
           D == DOMAIN seq
           base == [ok |-> 0, ends |-> <<>>]
           Steady(g) == g = [s \in SUBSET D |-> IF s = {} THEN base ELSE op(g[s \ {Max(s)}], seq[Max(s)])]
           it == CHOOSE g : Steady(g)
           step == [e \in Matched(d) \X (1 .. Len(text)) |-> op(e[1], seq[e[2]])]
<1>1. Ends(text, d) = it[D].ends
  BY DEF Ends, FoldLeftDomain, FoldLeft, MapThenFoldSet, Match
<1>2. Len(text) \in Nat /\ D = 1 .. Len(text)
  BY LenProperties
<1>3. \A m \in Matched(d), i \in 1 .. Len(text) : op(m, seq[i]) \in Matched(d)
  <2>1. \A i \in 1 .. Len(text) : seq[i] = i /\ i \in Nat
    BY <1>2
  <2> HIDE DEF seq
  <2> QED
    BY <2>1, MatchType
<1>4. base \in Matched(d)
  BY EmptySeq DEF Matched
<1>5. step \in Steps(Len(text), Matched(d))
  <2> HIDE DEF op, seq
  <2> QED
    BY <1>3 DEF Steps
<1>6. PICK g : FoldsBy(g, Len(text), Matched(d), base, step)
  <2> HIDE DEF step, base, seq
  <2> QED
    BY <1>2, <1>4, <1>5, SubsetRecursion
<1>7. Steady(g)
  <2>1. g \in [SUBSET D -> Matched(d)]
    BY <1>2, <1>6 DEF FoldsBy
  <2>2. ASSUME NEW s \in SUBSET D
        PROVE  g[s] = IF s = {} THEN base ELSE op(g[s \ {Max(s)}], seq[Max(s)])
    <3>1. CASE s = {}
      BY <1>2, <1>6, <3>1 DEF FoldsBy
    <3>2. CASE s # {}
      <4>1. Max(s) \in 1 .. Len(text)
        BY <1>2, <3>2, MaxIn
      <4>2. g[s] = step[<<g[s \ {Max(s)}], Max(s)>>]
        BY <1>2, <1>6, <3>2, Zenon DEF FoldsBy
      <4>3. g[s \ {Max(s)}] \in Matched(d)
        BY <1>2, <1>6 DEF FoldsBy
      <4>4. step[<<g[s \ {Max(s)}], Max(s)>>] = op(g[s \ {Max(s)}], seq[Max(s)])
        <5> HIDE DEF op, seq
        <5> QED
          BY <4>1, <4>3
      <4> HIDE DEF step, op, seq
      <4> QED
        BY <3>2, <4>2, <4>4
    <3> QED
      BY <3>1, <3>2
  <2> HIDE DEF op, base, seq
  <2> QED
    BY <2>1, <2>2
<1>8. Steady(it)
  <2> HIDE DEF Steady
  <2> QED
    BY <1>7
<1>9. \A s \in SUBSET D : it[s] = IF s = {} THEN base ELSE op(it[s \ {Max(s)}], seq[Max(s)])
  <2> HIDE DEF it, op, base, seq
  <2> QED
    BY <1>8, Zenon
<1>e. \A i \in 1 .. Len(text) : seq[i] = i
  BY <1>2
<1> HIDE DEF it, Steady, op, base, step, seq
<1>10. it[{}] = base
  BY <1>9
<1>11. \A i \in 1 .. Len(text) : it[1 .. i] = op(it[1 .. i - 1], seq[i])
  <2> TAKE i \in 1 .. Len(text)
  <2>1. /\ 1 .. i # {} /\ 1 .. i \in SUBSET (1 .. Len(text))
        /\ Max(1 .. i) = i /\ (1 .. i) \ {Max(1 .. i)} = 1 .. i - 1
    BY <1>2, FirstPositions
  <2> QED
    BY <1>2, <1>9, <2>1
<1> DEFINE f == [i \in 0 .. Len(text) |-> it[1 .. i]]
           E == { i \in 0 .. Len(text) : f[i] \in Matched(d) }
<1>12. f[0] = base /\ f[Len(text)] = it[D]
  <2>1. 1 .. 0 = {}
    OBVIOUS
  <2> QED
    BY <1>2, <1>10, <2>1
<1>13. \A i \in 1 .. Len(text) : f[i] = op(f[i - 1], seq[i])
  <2> TAKE i \in 1 .. Len(text)
  <2>1. i \in 0 .. Len(text) /\ i - 1 \in 0 .. Len(text)
    BY <1>2
  <2> QED
    BY <1>11, <2>1
<1> HIDE DEF f
<1>14. 0 .. Len(text) \subseteq E
  <2>1. 0 \in E
    BY <1>2, <1>4, <1>12
  <2>2. ASSUME NEW i \in 0 .. Len(text) - 1, i \in E PROVE i + 1 \in E
    <3>1. i + 1 \in 1 .. Len(text) /\ (i + 1) - 1 = i
      BY <1>2
    <3>2. f[i + 1] = op(f[i], seq[i + 1])
      BY <1>13, <3>1
    <3>3. f[i + 1] \in Matched(d)
      BY <1>3, <2>2, <3>1, <3>2
    <3> QED
      BY <1>2, <3>1, <3>3
  <2> HIDE DEF E
  <2> QED
    BY <1>2, <2>1, <2>2, UpTo
<1>15. \A i \in 1 .. Len(text) : f[i - 1] \in Matched(d) /\ f[i] \in Matched(d) /\ f[i] = op(f[i - 1], seq[i])
  <2> TAKE i \in 1 .. Len(text)
  <2>1. i \in 0 .. Len(text) /\ i - 1 \in 0 .. Len(text)
    BY <1>2
  <2> QED
    BY <1>13, <1>14, <2>1
<1>16. Ends(text, d) = f[Len(text)].ends
  BY <1>1, <1>12
<1> WITNESS f
<1> QED
  BY <1>12, <1>15, <1>16, <1>e DEF op, base

(* A single character ends where it is.                                    *)
LEMMA EndsOfOne ==
  ASSUME NEW T, NEW text \in Seq(T), NEW c
  PROVE  InOrder(Ends(text, <<c>>), { i \in 1 .. Len(text) : text[i] = c })
<1>d. PICK d : d = <<c>>
  OBVIOUS
<1> DEFINE n == Len(text)
           S(i) == { j \in 1 .. i : text[j] = c }
<1>1. n \in Nat /\ Len(d) = 1 /\ d[1] = c
  BY <1>d, LenProperties
<1>a. Len(d) \in Nat /\ Len(d) > 0 /\ Len(text) \in Nat /\ DOMAIN text = 1 .. Len(text)
  BY <1>1, LenProperties
<1>2. PICK f : /\ f[0] = [ok |-> 0, ends |-> <<>>]
               /\ \A i \in 1 .. Len(text) :
                    f[i - 1] \in Matched(d) /\ f[i] \in Matched(d) /\ f[i] = Match(text, d, f[i - 1], i)
               /\ Ends(text, d) = f[Len(text)].ends
  BY <1>a, EndsFold
<1> DEFINE E == { i \in 0 .. n : InOrder(f[i].ends, S(i)) }
<1>3. 0 \in E
  <2>1. S(0) = {} /\ f[0].ends = <<>>
    BY <1>2
  <2>2. InOrder(<<>>, {})
    BY EmptySeq DEF InOrder
  <2>3. InOrder(f[0].ends, S(0)) /\ 0 \in 0 .. n
    BY <1>1, <2>1, <2>2
  <2> HIDE DEF S
  <2> QED
    BY <2>3
<1>4. ASSUME NEW i \in 0 .. n - 1, i \in E PROVE i + 1 \in E
  <2>1. i \in Nat /\ i + 1 \in 1 .. n /\ (i + 1) - 1 = i
    BY <1>1
  <2>2. f[i] \in Matched(d) /\ f[i + 1] = Match(text, d, f[i], i + 1) /\ f[i + 1] \in Matched(d)
    BY <1>2, <2>1
  <2>3. f[i].ok = 0 /\ f[i].ends \in Seq(Nat) /\ f[i] = [ok |-> f[i].ok, ends |-> f[i].ends]
    BY <1>1, <2>2 DEF Matched
  <2>4. CASE text[i + 1] # c
    <3>1. f[i + 1].ends = f[i].ends
      BY <1>1, <2>2, <2>3, <2>4 DEF Match
    <3>2. S(i + 1) = S(i)
      BY <2>1, <2>4
    <3>3. InOrder(f[i].ends, S(i)) /\ i + 1 \in 0 .. n
      BY <1>1, <1>4, <2>1
    <3> HIDE DEF S
    <3>4. InOrder(f[i + 1].ends, S(i + 1))
      BY <3>1, <3>2, <3>3
    <3> QED
      BY <3>3, <3>4
  <2>5. CASE text[i + 1] = c
    <3>1. f[i + 1].ends = Append(f[i].ends, i + 1)
      BY <1>1, <2>2, <2>3, <2>5 DEF Match
    <3>2. S(i + 1) = S(i) \cup {i + 1} /\ \A j \in S(i) : j < i + 1
      BY <2>1, <2>5
    <3> HIDE DEF S
    <3>3. InOrder(f[i].ends, S(i))
      BY <1>4
    <3>4. InOrder(Append(f[i].ends, i + 1), S(i) \cup {i + 1})
      BY <2>1, <3>2, <3>3, OneMore
    <3>5. InOrder(f[i + 1].ends, S(i + 1))
      BY <3>1, <3>2, <3>4, Zenon
    <3>6. i + 1 \in 0 .. n
      BY <1>1, <2>1
    <3> QED
      BY <3>5, <3>6
  <2> QED
    BY <2>4, <2>5
<1>5. n \in E
  <2> HIDE DEF E, n
  <2>1. 0 .. n \subseteq E
    BY <1>1, <1>3, <1>4, UpTo
  <2> QED
    BY <1>1, <2>1
<1>6. f[n].ends = Ends(text, d)
  BY <1>2
<1> HIDE DEF n
<1>7. InOrder(Ends(text, d), S(n))
  BY <1>5, <1>6
<1> QED
  BY <1>7, <1>d DEF n

(* Where the pieces of the string at p begin that c cuts: at p, and behind *)
(* each c; and the memory without them.                                    *)
Heads(buf, p, z, c) == { x \in p .. z : x = p \/ (x > p /\ buf[x - 1] = c) }

Cleared(buf, p, z, c) == [i \in DOMAIN buf |-> IF i \in p .. z - 1 /\ buf[i] = c THEN NUL ELSE buf[i]]

(* A split at a single character.                                          *)
LEMMA SplitAtOne ==
  ASSUME NEW T, NEW buf \in Seq(T), NEW p, NEW z, StringAt(buf, p, z), NEW c
  PROVE  /\ InOrder(Split(buf, p, <<c>>).at, Heads(buf, p, z, c))
         /\ Split(buf, p, <<c>>).buf = Cleared(buf, p, z, c)
<1> DEFINE text == CStr(buf, p)
           e == Ends(text, <<c>>)
           sp == Split(buf, p, <<c>>)
<1>1. /\ text \in Seq(T) /\ Len(text) = z - p /\ \A i \in 1 .. z - p : text[i] = buf[p + i - 1]
      /\ p \in Nat /\ z \in Nat /\ 1 <= p /\ p <= z /\ z <= Len(buf) /\ DOMAIN buf = 1 .. Len(buf) /\ Len(buf) \in Nat
  <2>1. /\ CStr(buf, p) \in Seq(T) /\ Len(CStr(buf, p)) = z - p
        /\ \A i \in 1 .. z - p : CStr(buf, p)[i] = buf[p + i - 1]
    BY StringRead
  <2>2. DOMAIN buf = 1 .. Len(buf) /\ Len(buf) \in Nat
    BY LenProperties
  <2> QED
    BY <2>1, <2>2 DEF StringAt
<1>2. InOrder(e, { i \in 1 .. z - p : text[i] = c })
  <2> HIDE DEF text
  <2> QED
    BY <1>1, EndsOfOne
<1>3. /\ sp.at = <<p>> \o [i \in DOMAIN e |-> p + e[i]]
      /\ sp.buf = [i \in DOMAIN buf |->
                     IF \E j \in DOMAIN e : i \in p + e[j] - 1 .. p + e[j] - 1 THEN NUL ELSE buf[i]]
  <2>1. Len(<<c>>) = 1
    OBVIOUS
  <2>2. sp = Cut(buf, p, 1, e)
    BY <2>1 DEF Split
  <2> HIDE DEF sp, e
  <2> QED
    BY <2>2 DEF Cut
<1> HIDE DEF sp, e, text
<1>4. /\ e \in Seq(Nat) /\ Len(e) \in Nat /\ DOMAIN e = 1 .. Len(e)
      /\ \A j \in 1 .. Len(e) : e[j] \in 1 .. z - p /\ text[e[j]] = c
      /\ \A i \in 1 .. z - p : text[i] = c => \E j \in 1 .. Len(e) : e[j] = i
      /\ \A j, k \in 1 .. Len(e) : j < k => e[j] < e[k]
  BY <1>2, LenProperties DEF InOrder
<1>5. sp.buf = Cleared(buf, p, z, c)
  <2>1. ASSUME NEW i \in 1 .. Len(buf)
        PROVE  (\E j \in DOMAIN e : i \in p + e[j] - 1 .. p + e[j] - 1) <=> (i \in p .. z - 1 /\ buf[i] = c)
    <3>1. ASSUME NEW j \in 1 .. Len(e), i \in p + e[j] - 1 .. p + e[j] - 1 PROVE i \in p .. z - 1 /\ buf[i] = c
      <4>1. PICK x \in 1 .. z - p : x = e[j] /\ text[x] = c
        BY <1>4
      <4>2. i = p + x - 1
        BY <1>1, <3>1, <4>1
      <4> QED
        BY <1>1, <4>1, <4>2
    <3>2. ASSUME i \in p .. z - 1, buf[i] = c PROVE \E j \in 1 .. Len(e) : i \in p + e[j] - 1 .. p + e[j] - 1
      <4>1. i - p + 1 \in 1 .. z - p /\ p + (i - p + 1) - 1 = i
        BY <1>1, <3>2
      <4>2. text[i - p + 1] = c
        BY <1>1, <3>2, <4>1
      <4>3. PICK j \in 1 .. Len(e) : e[j] = i - p + 1
        BY <1>4, <4>1, <4>2
      <4>4. i \in p + e[j] - 1 .. p + e[j] - 1
        BY <1>1, <4>1, <4>3
      <4> QED
        BY <4>4
    <3> QED
      BY <1>4, <3>1, <3>2
  <2> QED
    BY <1>1, <1>3, <2>1 DEF Cleared
<1>6. InOrder(sp.at, Heads(buf, p, z, c))
  <2> DEFINE g == [i \in DOMAIN e |-> p + e[i]]
             at == sp.at
  <2>1. g \in Seq(Nat) /\ Len(g) = Len(e) /\ \A i \in 1 .. Len(e) : g[i] = p + e[i]
    <3>1. \A i \in 1 .. Len(e) : p + e[i] \in Nat
      BY <1>1, <1>4
    <3>2. g \in [1 .. Len(e) -> Nat]
      BY <1>4, <3>1
    <3> QED
      BY <1>4, <3>2, FunctionIsSeq
  <2>2. <<p>> \in Seq(Nat) /\ Len(<<p>>) = 1 /\ <<p>>[1] = p
    BY <1>1
  <2>3. /\ at \in Seq(Nat) /\ Len(at) = 1 + Len(e)
        /\ \A i \in 1 .. 1 + Len(e) : at[i] = IF i <= 1 THEN <<p>>[i] ELSE g[i - 1]
    <3>1. at = <<p>> \o g
      BY <1>3
    <3> HIDE DEF g, at
    <3> QED
      BY <2>1, <2>2, <3>1, ConcatProperties
  <2> HIDE DEF g, at
  <2>4. at[1] = p /\ \A i \in 2 .. Len(at) : i - 1 \in 1 .. Len(e) /\ at[i] = p + e[i - 1]
    <3>1. at[1] = p
      BY <1>4, <2>2, <2>3
    <3>2. ASSUME NEW i \in 2 .. Len(at) PROVE i - 1 \in 1 .. Len(e) /\ at[i] = p + e[i - 1]
      <4>1. i \in 1 .. 1 + Len(e) /\ ~(i <= 1) /\ i - 1 \in 1 .. Len(e)
        BY <1>4, <2>3
      <4>2. at[i] = g[i - 1]
        BY <2>3, <4>1
      <4> QED
        BY <2>1, <4>1, <4>2
    <3> QED
      BY <3>1, <3>2
  <2>5. \A i \in 1 .. Len(at) : i = 1 \/ i \in 2 .. Len(at)
    BY <1>4, <2>3
  <2>6. ASSUME NEW i \in 1 .. Len(at) PROVE at[i] \in Heads(buf, p, z, c)
    <3>1. CASE i = 1
      BY <1>1, <2>4, <3>1 DEF Heads
    <3>2. CASE i \in 2 .. Len(at)
      <4>1. PICK x \in 1 .. z - p : x = e[i - 1] /\ text[x] = c
        BY <1>4, <2>4, <3>2
      <4>2. at[i] = p + x /\ at[i] \in p .. z /\ at[i] > p /\ buf[p + x - 1] = c /\ p + x - 1 = at[i] - 1
        <5>1. at[i] = p + x
          BY <2>4, <3>2, <4>1
        <5>2. p + x \in p .. z /\ p + x > p /\ p + x - 1 = (p + x) - 1
          BY <1>1
        <5>3. buf[p + x - 1] = c
          BY <1>1, <4>1
        <5> QED
          BY <5>1, <5>2, <5>3
      <4> QED
        BY <4>2 DEF Heads
    <3> QED
      BY <2>5, <3>1, <3>2
  <2>7. ASSUME NEW x \in Heads(buf, p, z, c) PROVE \E j \in 1 .. Len(at) : at[j] = x
    <3>1. CASE x = p
      <4>1. 1 \in 1 .. Len(at)
        BY <1>4, <2>3
      <4> QED
        BY <2>4, <3>1, <4>1
    <3>2. CASE x # p
      <4>1. x \in p .. z /\ x > p /\ buf[x - 1] = c
        BY <2>7, <3>2 DEF Heads
      <4>2. x - p \in 1 .. z - p /\ p + (x - p) - 1 = x - 1
        BY <1>1, <4>1
      <4>3. text[x - p] = c
        BY <1>1, <4>1, <4>2
      <4>4. PICK j \in 1 .. Len(e) : e[j] = x - p
        BY <1>4, <4>2, <4>3
      <4>5. j + 1 \in 2 .. Len(at) /\ (j + 1) - 1 = j /\ j + 1 \in 1 .. Len(at)
        BY <1>4, <2>3
      <4>6. at[j + 1] = p + (x - p)
        BY <2>4, <4>4, <4>5
      <4>7. p + (x - p) = x
        BY <1>1, <4>1
      <4> QED
        BY <4>5, <4>6, <4>7
    <3> QED
      BY <3>1, <3>2
  <2>8. ASSUME NEW j \in 1 .. Len(at), NEW k \in 1 .. Len(at), j < k PROVE at[j] < at[k]
    <3>1. k \in 2 .. Len(at) /\ k - 1 \in 1 .. Len(e) /\ at[k] = p + e[k - 1] /\ e[k - 1] \in 1 .. z - p
      BY <1>4, <2>4, <2>5, <2>8
    <3>2. CASE j = 1
      BY <1>1, <2>4, <3>1, <3>2
    <3>3. CASE j \in 2 .. Len(at)
      <4>1. j - 1 \in 1 .. Len(e) /\ at[j] = p + e[j - 1] /\ e[j - 1] \in 1 .. z - p /\ j - 1 < k - 1
        BY <1>4, <2>4, <2>8, <3>1, <3>3
      <4>2. e[j - 1] < e[k - 1]
        BY <1>4, <3>1, <4>1
      <4> QED
        BY <1>1, <3>1, <4>1, <4>2
    <3> QED
      BY <2>5, <3>2, <3>3
  <2>9. InOrder(at, Heads(buf, p, z, c))
    BY <2>3, <2>6, <2>7, <2>8 DEF InOrder
  <2> QED
    BY <2>9 DEF at
<1> QED
  BY <1>5, <1>6 DEF sp

-----------------------------------------------------------------------------
(* The first, the next and the last member of a set in order.              *)
LEMMA FirstInOrder ==
  ASSUME NEW S \in SUBSET Nat, NEW e, InOrder(e, S), NEW x \in S, \A y \in S : x <= y
  PROVE  Len(e) > 0 /\ e[1] = x
<1>1. PICK j \in 1 .. Len(e) : e[j] = x
  BY DEF InOrder
<1>2. Len(e) \in Nat /\ 1 \in 1 .. Len(e)
  BY LenProperties DEF InOrder
<1>3. e[1] \in S /\ e[1] \in Nat /\ x \in Nat /\ x <= e[1]
  BY <1>2 DEF InOrder
<1>4. CASE j = 1
  BY <1>1, <1>2, <1>4
<1>5. CASE j > 1
  <2>1. e[1] < e[j]
    BY <1>2, <1>5 DEF InOrder
  <2> QED
    BY <1>1, <1>3, <2>1
<1> QED
  BY <1>2, <1>4, <1>5

(* The smallest number above the j-th comes next.                          *)
LEMMA NextInOrder ==
  ASSUME NEW S \in SUBSET Nat, NEW e, InOrder(e, S), NEW j \in 1 .. Len(e), NEW x \in S, e[j] < x,
         \A y \in S : y <= e[j] \/ x <= y
  PROVE  j + 1 \in 1 .. Len(e) /\ e[j + 1] = x
<1>1. PICK k \in 1 .. Len(e) : e[k] = x
  BY DEF InOrder
<1>2. Len(e) \in Nat /\ e[j] \in Nat /\ x \in Nat /\ j \in Nat
  BY LenProperties DEF InOrder
<1>3. k > j
  <2>1. k < j => e[k] < e[j]
    BY DEF InOrder
  <2>2. k # j /\ ~(k < j)
    BY <1>1, <1>2, <2>1
  <2> QED
    BY <1>2, <2>2
<1>4. j + 1 \in 1 .. Len(e)
  BY <1>2, <1>3
<1>5. e[j + 1] \in S /\ e[j + 1] \in Nat /\ e[j] < e[j + 1]
  <2>1. j < j + 1
    BY <1>2
  <2> QED
    BY <1>4, <2>1 DEF InOrder
<1>6. x <= e[j + 1]
  BY <1>2, <1>5
<1>7. CASE k = j + 1
  BY <1>1, <1>4, <1>7
<1>8. CASE k > j + 1
  <2>1. e[j + 1] < e[k]
    BY <1>4, <1>8 DEF InOrder
  <2> QED
    BY <1>1, <1>2, <1>5, <1>6, <2>1
<1> QED
  BY <1>2, <1>3, <1>7, <1>8

(* If no number is above the j-th, that is the last.                       *)
LEMMA LastInOrder ==
  ASSUME NEW S \in SUBSET Nat, NEW e, InOrder(e, S), NEW j \in 1 .. Len(e), \A y \in S : y <= e[j]
  PROVE  Len(e) = j
<1>1. Len(e) \in Nat /\ j \in Nat /\ e[j] \in Nat
  BY LenProperties DEF InOrder
<1> SUFFICES ASSUME j < Len(e) PROVE FALSE
  BY <1>1
<1>2. j + 1 \in 1 .. Len(e) /\ j < j + 1
  BY <1>1
<1>3. e[j] < e[j + 1] /\ e[j + 1] \in S /\ e[j + 1] \in Nat
  BY <1>2 DEF InOrder
<1> QED
  BY <1>1, <1>3

(* There is one order.                                                     *)
LEMMA OneOrder ==
  ASSUME NEW S \in SUBSET Nat, NEW e, InOrder(e, S), NEW q, InOrder(q, S)
  PROVE  e = q
<1>1. /\ e \in Seq(Nat) /\ q \in Seq(Nat) /\ Len(e) \in Nat /\ Len(q) \in Nat
      /\ \A j \in 1 .. Len(e) : e[j] \in Nat
      /\ \A j \in 1 .. Len(q) : q[j] \in Nat /\ q[j] \in S
  BY LenProperties, ElementOfSeq DEF InOrder
<1> DEFINE E == { i \in Nat : i <= Len(q) => i <= Len(e) /\ (i > 0 => e[i] = q[i]) }
<1>2. 0 \in E
  BY <1>1
<1>3. ASSUME NEW i \in Nat, i \in E PROVE i + 1 \in E
  <2> SUFFICES ASSUME i + 1 <= Len(q) PROVE i + 1 <= Len(e) /\ e[i + 1] = q[i + 1]
    OBVIOUS
  <2>1. i <= Len(e) /\ (i > 0 => e[i] = q[i]) /\ i + 1 \in 1 .. Len(q)
    BY <1>1, <1>3
  <2>2. q[i + 1] \in S
    BY <1>1, <2>1
  <2>3. CASE i = 0
    <3>1. \A y \in S : q[1] <= y
      <4> TAKE y \in S
      <4>1. PICK k \in 1 .. Len(q) : q[k] = y
        BY DEF InOrder
      <4>2. k = 1 \/ 1 < k
        OBVIOUS
      <4>3. 1 \in 1 .. Len(q)
        BY <2>1, <2>3
      <4>4. 1 < k => q[1] < q[k]
        BY <4>3 DEF InOrder
      <4> QED
        BY <1>1, <4>1, <4>2, <4>3, <4>4
    <3>2. q[1] \in S
      BY <2>2, <2>3
    <3>3. Len(e) > 0 /\ e[1] = q[1]
      BY <3>1, <3>2, FirstInOrder
    <3> QED
      BY <1>1, <2>3, <3>3
  <2>4. CASE i > 0
    <3>1. i \in 1 .. Len(e) /\ i \in 1 .. Len(q) /\ i < i + 1 /\ e[i] = q[i]
      BY <1>1, <2>1, <2>4
    <3>2. e[i] < q[i + 1]
      BY <2>1, <3>1 DEF InOrder
    <3>3. \A y \in S : y <= e[i] \/ q[i + 1] <= y
      <4> TAKE y \in S
      <4>1. PICK k \in 1 .. Len(q) : q[k] = y
        BY DEF InOrder
      <4>2. k < i \/ k = i \/ k = i + 1 \/ i + 1 < k
        OBVIOUS
      <4>3. k < i => q[k] < q[i]
        BY <3>1 DEF InOrder
      <4>4. i + 1 < k => q[i + 1] < q[k]
        BY <2>1 DEF InOrder
      <4> QED
        BY <1>1, <2>1, <3>1, <4>1, <4>2, <4>3, <4>4
    <3>4. PICK x \in S : x = q[i + 1]
      BY <2>2
    <3>5. e[i] < x /\ \A y \in S : y <= e[i] \/ x <= y
      BY <3>2, <3>3, <3>4
    <3>6. i + 1 \in 1 .. Len(e) /\ e[i + 1] = x
      BY <3>1, <3>5, NextInOrder
    <3>7. i + 1 \in 1 .. Len(e) /\ e[i + 1] = q[i + 1]
      BY <3>4, <3>6
    <3> QED
      BY <1>1, <3>7
  <2> QED
    BY <2>3, <2>4
<1>4. Nat \subseteq E
  <2> HIDE DEF E
  <2> QED
    BY <1>2, <1>3, NatSetInduction
<1>5. Len(q) <= Len(e) /\ \A i \in 1 .. Len(q) : e[i] = q[i]
  BY <1>1, <1>4
<1>6. Len(e) = Len(q)
  <2>1. CASE Len(q) = 0
    <3>1. S = {}
      BY <2>1 DEF InOrder
    <3>2. \A j \in 1 .. Len(e) : FALSE
      BY <3>1 DEF InOrder
    <3>3. ~(1 <= Len(e))
      BY <1>1, <3>2
    <3> QED
      BY <1>1, <2>1, <3>3
  <2>2. CASE Len(q) > 0
    <3>1. Len(q) \in 1 .. Len(e) /\ Len(q) \in 1 .. Len(q) /\ e[Len(q)] = q[Len(q)]
      BY <1>1, <1>5, <2>2
    <3>2. \A y \in S : y <= e[Len(q)]
      <4> TAKE y \in S
      <4>1. PICK k \in 1 .. Len(q) : q[k] = y
        BY DEF InOrder
      <4>2. k = Len(q) \/ k < Len(q)
        BY <1>1
      <4>3. k < Len(q) => q[k] < q[Len(q)]
        BY <3>1 DEF InOrder
      <4> QED
        BY <1>1, <3>1, <4>1, <4>2, <4>3
    <3> QED
      BY <3>1, <3>2, LastInOrder
  <2> QED
    BY <1>1, <2>1, <2>2
<1> QED
  BY <1>1, <1>5, <1>6, SeqEqual

(* A split at c of a string in which c is where the pieces q end.          *)
LEMMA SplitPieces ==
  ASSUME NEW T, NEW buf \in Seq(T), NEW p, NEW z, StringAt(buf, p, z), NEW c,
         NEW q, InOrder(q, Heads(buf, p, z, c))
  PROVE  Split(buf, p, <<c>>) = [at |-> q, buf |-> Cleared(buf, p, z, c)]
<1>1. Heads(buf, p, z, c) \in SUBSET Nat
  BY DEF Heads, StringAt
<1>2. /\ InOrder(Split(buf, p, <<c>>).at, Heads(buf, p, z, c))
      /\ Split(buf, p, <<c>>).buf = Cleared(buf, p, z, c)
  BY SplitAtOne
<1>3. Split(buf, p, <<c>>).at = q
  BY <1>1, <1>2, OneOrder
<1>4. Split(buf, p, <<c>>) = [at |-> Split(buf, p, <<c>>).at, buf |-> Split(buf, p, <<c>>).buf]
  BY DEF Split, Cut
<1> QED
  BY <1>2, <1>3, <1>4

-----------------------------------------------------------------------------
(* The memory after a split.                                               *)
LEMMA ClearedType ==
  ASSUME NEW T, NUL \in T, NEW buf \in Seq(T), NEW p, NEW z, NEW c
  PROVE  /\ Cleared(buf, p, z, c) \in Seq(T) /\ Len(Cleared(buf, p, z, c)) = Len(buf)
         /\ \A i \in 1 .. Len(buf) :
              Cleared(buf, p, z, c)[i] = IF i \in p .. z - 1 /\ buf[i] = c THEN NUL ELSE buf[i]
<1> DEFINE b == Cleared(buf, p, z, c)
<1>1. Len(buf) \in Nat /\ DOMAIN buf = 1 .. Len(buf) /\ \A i \in 1 .. Len(buf) : buf[i] \in T
  BY LenProperties, ElementOfSeq
<1>2. b \in [1 .. Len(buf) -> T]
  BY <1>1 DEF Cleared
<1>3. b \in Seq(T) /\ Len(b) = Len(buf)
  BY <1>1, <1>2, FunctionIsSeq
<1>4. \A i \in 1 .. Len(buf) : b[i] = IF i \in p .. z - 1 /\ buf[i] = c THEN NUL ELSE buf[i]
  BY <1>1 DEF Cleared
<1> QED
  BY <1>3, <1>4

(* Where the k-th piece ends.                                              *)
PieceEnd(q, k, z) == IF k < Len(q) THEN q[k + 1] - 1 ELSE z

(* Each piece is a string.                                                 *)
LEMMA PieceString ==
  ASSUME NEW T, NUL \in T, NEW buf \in Seq(T), NEW p, NEW z, StringAt(buf, p, z), NEW c,
         NEW q, InOrder(q, Heads(buf, p, z, c)), NEW k \in 1 .. Len(q)
  PROVE  /\ StringAt(Cleared(buf, p, z, c), q[k], PieceEnd(q, k, z))
         /\ p <= q[k] /\ q[k] <= PieceEnd(q, k, z) /\ PieceEnd(q, k, z) <= z /\ q[k] \in Nat
         /\ PieceEnd(q, k, z) \in Nat
         /\ \A i \in q[k] .. PieceEnd(q, k, z) - 1 : buf[i] # c /\ buf[i] # NUL
         /\ k < Len(q) => PieceEnd(q, k, z) < z /\ buf[PieceEnd(q, k, z)] = c
<1> DEFINE b == Cleared(buf, p, z, c)
           e == PieceEnd(q, k, z)
           H == Heads(buf, p, z, c)
<1>1. /\ p \in Nat /\ z \in Nat /\ 1 <= p /\ p <= z /\ z <= Len(buf) /\ Len(buf) \in Nat
      /\ buf[z] = NUL /\ \A i \in p .. z - 1 : buf[i] # NUL
  BY LenProperties DEF StringAt
<1>2. /\ Len(b) = Len(buf)
      /\ \A i \in 1 .. Len(buf) : b[i] = IF i \in p .. z - 1 /\ buf[i] = c THEN NUL ELSE buf[i]
  BY ClearedType
<1>3. \A x \in H : x \in p .. z /\ x \in Nat /\ (x = p \/ (x > p /\ buf[x - 1] = c))
  BY <1>1 DEF Heads
<1>4. \A x \in p .. z : x > p /\ buf[x - 1] = c => x \in H
  BY DEF Heads
<1>5. q[k] \in H /\ Len(q) \in Nat
  BY LenProperties DEF InOrder
<1> HIDE DEF b, H
<1>6. q[k] \in p .. z /\ q[k] \in Nat
  BY <1>3, <1>5
<1>7. /\ e \in Nat /\ q[k] <= e /\ e <= z
      /\ k < Len(q) => e < z /\ buf[e] = c
      /\ \A x \in H : x <= q[k] \/ e < x
  <2>1. CASE k < Len(q)
    <3>1. k + 1 \in 1 .. Len(q) /\ k < k + 1 /\ e = q[k + 1] - 1
      BY <1>5, <2>1 DEF PieceEnd
    <3>2. q[k + 1] \in H /\ q[k] < q[k + 1]
      BY <3>1 DEF InOrder, H
    <3>3. q[k + 1] \in p .. z /\ q[k + 1] \in Nat /\ buf[q[k + 1] - 1] = c
      BY <1>1, <1>3, <1>6, <3>2
    <3>4. \A x \in H : x <= q[k] \/ e < x
      <4> TAKE x \in H
      <4>1. PICK j \in 1 .. Len(q) : q[j] = x
        BY DEF InOrder, H
      <4>2. j < k \/ j = k \/ j = k + 1 \/ k + 1 < j
        BY <1>5
      <4>3. j < k => q[j] < q[k]
        BY DEF InOrder
      <4>4. k + 1 < j => q[k + 1] < q[j]
        BY <3>1 DEF InOrder
      <4>5. x \in Nat
        BY <1>3
      <4> QED
        BY <1>6, <3>1, <3>3, <4>1, <4>2, <4>3, <4>4, <4>5
    <3> QED
      BY <1>1, <1>6, <3>1, <3>2, <3>3, <3>4
  <2>2. CASE ~(k < Len(q))
    <3>1. e = z /\ k = Len(q)
      BY <1>5, <2>2 DEF PieceEnd
    <3>2. \A x \in H : x <= q[k]
      <4> TAKE x \in H
      <4>1. PICK j \in 1 .. Len(q) : q[j] = x
        BY DEF InOrder, H
      <4>2. j < k \/ j = k
        BY <1>5, <3>1
      <4>3. j < k => q[j] < q[k]
        BY DEF InOrder
      <4>5. x \in Nat
        BY <1>3
      <4> QED
        BY <1>6, <4>1, <4>2, <4>3, <4>5
    <3> QED
      BY <1>1, <1>6, <2>2, <3>1, <3>2
  <2> QED
    BY <2>1, <2>2
<1> HIDE DEF e
<1>8. ASSUME NEW i \in q[k] .. e - 1 PROVE buf[i] # c /\ buf[i] # NUL /\ b[i] # NUL
  <2>1. i \in p .. z - 1 /\ i \in 1 .. Len(buf) /\ i \in Nat
    BY <1>1, <1>6, <1>7
  <2>2. buf[i] # c
    <3>1. SUFFICES ASSUME buf[i] = c PROVE FALSE
      OBVIOUS
    <3>2. i + 1 \in p .. z /\ i + 1 > p /\ (i + 1) - 1 = i
      BY <1>1, <2>1
    <3>3. i + 1 \in H
      BY <1>4, <3>1, <3>2
    <3>4. i + 1 <= q[k] \/ e < i + 1
      BY <1>7, <3>3
    <3> QED
      BY <1>6, <1>7, <2>1, <3>4
  <2> QED
    BY <1>1, <1>2, <2>1, <2>2
<1>9. b[e] = NUL
  <2>1. e \in 1 .. Len(buf)
    BY <1>1, <1>6, <1>7
  <2>2. CASE k < Len(q)
    <3>1. e \in p .. z - 1 /\ buf[e] = c
      BY <1>1, <1>6, <1>7, <2>2
    <3> QED
      BY <1>2, <2>1, <3>1
  <2>3. CASE ~(k < Len(q))
    <3>1. e = z
      BY <2>3 DEF e, PieceEnd
    <3> QED
      BY <1>1, <1>2, <2>1, <3>1
  <2> QED
    BY <2>2, <2>3
<1>10. StringAt(b, q[k], e)
  BY <1>1, <1>2, <1>6, <1>7, <1>8, <1>9 DEF StringAt
<1> QED
  BY <1>6, <1>7, <1>8, <1>10 DEF b, e

(* A text up to the first c.                                               *)
Until(t, c) == LET i == SelectInSeq(t, LAMBDA x : x = c) IN IF i = 0 THEN t ELSE SubSeq(t, 1, i - 1)

(* The first piece is the string up to the first c.                        *)
LEMMA FirstPiece ==
  ASSUME NEW T, NUL \in T, NEW buf \in Seq(T), NEW p, NEW z, StringAt(buf, p, z), NEW c,
         NEW q, InOrder(q, Heads(buf, p, z, c))
  PROVE  Len(q) > 0 /\ q[1] = p /\ CStr(Cleared(buf, p, z, c), p) = Until(CStr(buf, p), c)
<1> DEFINE b == Cleared(buf, p, z, c)
           e == PieceEnd(q, 1, z)
           H == Heads(buf, p, z, c)
           t == CStr(buf, p)
           I == { i \in 1 .. Len(t) : t[i] = c }
           pos == IF I # {} THEN Min(I) ELSE 0
<1>1. p \in Nat /\ z \in Nat /\ 1 <= p /\ p <= z /\ z <= Len(buf) /\ Len(buf) \in Nat
  BY LenProperties DEF StringAt
<1>2. p \in H /\ H \in SUBSET Nat /\ \A x \in H : p <= x
  BY <1>1 DEF Heads
<1>3. Len(q) > 0 /\ q[1] = p
  <2> HIDE DEF H
  <2>1. InOrder(q, H)
    BY DEF H
  <2> QED
    BY <1>2, <2>1, FirstInOrder
<1>4. Len(q) \in Nat /\ 1 \in 1 .. Len(q)
  BY <1>3, LenProperties DEF InOrder
<1>5. /\ StringAt(b, p, e) /\ p <= e /\ e <= z /\ e \in Nat
      /\ \A i \in p .. e - 1 : buf[i] # c
      /\ 1 < Len(q) => e < z /\ buf[e] = c
      /\ ~(1 < Len(q)) => e = z
  <2>1. /\ StringAt(b, q[1], e) /\ q[1] <= e /\ e <= z /\ e \in Nat
        /\ \A i \in q[1] .. e - 1 : buf[i] # c
        /\ 1 < Len(q) => e < z /\ buf[e] = c
    BY <1>4, PieceString
  <2>2. ~(1 < Len(q)) => e = z
    BY DEF PieceEnd
  <2> QED
    BY <1>3, <2>1, <2>2
<1>6. /\ t \in Seq(T) /\ Len(t) = z - p /\ \A i \in 1 .. z - p : t[i] = buf[p + i - 1]
  BY StringRead
<1>7. b \in Seq(T) /\ \A i \in 1 .. Len(buf) : b[i] = IF i \in p .. z - 1 /\ buf[i] = c THEN NUL ELSE buf[i]
  BY ClearedType
<1>8. /\ CStr(b, p) \in Seq(T) /\ Len(CStr(b, p)) = e - p /\ \A i \in 1 .. e - p : CStr(b, p)[i] = b[p + i - 1]
  <2> HIDE DEF b, e
  <2> QED
    BY <1>5, <1>7, StringRead
<1>9. Until(t, c) = IF pos = 0 THEN t ELSE SubSeq(t, 1, pos - 1)
  BY Zenon DEF Until, SelectInSeq, SelectInSubSeq
<1>10. \A i \in 1 .. e - p : t[i] # c /\ CStr(b, p)[i] = t[i]
  <2> HIDE DEF t, e
  <2> TAKE i \in 1 .. e - p
  <2>1. p + i - 1 \in p .. e - 1 /\ p + i - 1 \in 1 .. Len(buf) /\ i \in 1 .. z - p
    BY <1>1, <1>5
  <2>2. t[i] = buf[p + i - 1] /\ buf[p + i - 1] # c
    BY <1>5, <1>6, <2>1
  <2>3. b[p + i - 1] = buf[p + i - 1]
    BY <1>7, <2>1, <2>2
  <2> HIDE DEF b
  <2> QED
    BY <1>8, <2>2, <2>3
<1> HIDE DEF t, e, b, H
<1>11. CASE 1 < Len(q)
  <2>1. e - p + 1 \in 1 .. Len(t) /\ t[e - p + 1] = c
    <3>1. e - p + 1 \in 1 .. z - p /\ p + (e - p + 1) - 1 = e
      BY <1>1, <1>5, <1>11
    <3> QED
      BY <1>5, <1>6, <1>11, <3>1
  <2>2. e - p + 1 \in I /\ I \in SUBSET Nat
    BY <2>1
  <2>3. \A i \in I : e - p + 1 <= i
    <3> TAKE i \in I
    <3>1. i \in 1 .. Len(t) /\ t[i] = c
      OBVIOUS
    <3> HIDE DEF I
    <3>2. ~(i \in 1 .. e - p)
      BY <1>10, <3>1
    <3> QED
      BY <1>1, <1>5, <3>1, <3>2
  <2> HIDE DEF I
  <2>4. Min(I) \in I /\ Min(I) <= e - p + 1
    BY <2>2, MinOf
  <2>5. Min(I) \in Nat /\ e - p + 1 <= Min(I)
    BY <2>2, <2>3, <2>4
  <2>6. pos = e - p + 1
    BY <1>1, <1>5, <2>2, <2>4, <2>5
  <2> HIDE DEF pos
  <2>7. Until(t, c) = SubSeq(t, 1, e - p)
    BY <1>1, <1>5, <1>9, <2>6
  <2>8. SubSeq(t, 1, e - p) \in Seq(T) /\ Len(SubSeq(t, 1, e - p)) = e - p
        /\ \A i \in 1 .. e - p : SubSeq(t, 1, e - p)[i] = t[i]
    BY <1>1, <1>5, <1>6
  <2>9. CStr(b, p) = Until(t, c)
    BY <1>8, <1>10, <2>7, <2>8, SeqEqual
  <2> QED
    BY <1>3, <2>9 DEF b, t
<1>12. CASE ~(1 < Len(q))
  <2>1. e = z
    BY <1>5, <1>12
  <2>2. I = {}
    BY <1>6, <1>10, <2>1
  <2>3. Until(t, c) = t
    BY <1>9, <2>2
  <2>4. CStr(b, p) = t
    BY <1>6, <1>8, <1>10, <2>1, SeqEqual
  <2> QED
    BY <1>3, <2>3, <2>4 DEF b, t
<1> QED
  BY <1>11, <1>12

(* Memory in which NULs were put between p and z, and nothing else was     *)
(* changed.                                                                *)
Cuts(old, new, p, z) ==
  /\ new \in Seq(Mark) /\ Len(new) = Len(old)
  /\ \A i \in 1 .. Len(old) : new[i] = old[i] \/ (i \in p .. z - 1 /\ new[i] = NUL)

(* There is a string at every position before a NUL.                       *)
LEMMA SomeString ==
  ASSUME NEW T, NEW buf \in Seq(T), NEW z \in 1 .. Len(buf), buf[z] = NUL, NEW p \in 1 .. z
  PROVE  \E e \in p .. z : StringAt(buf, p, e)
<1> DEFINE I == { i \in p .. z : buf[i] = NUL }
<1>1. I \in SUBSET Nat /\ z \in I
  OBVIOUS
<1>2. Min(I) \in I /\ \A i \in I : Min(I) <= i
  <2> HIDE DEF I
  <2> QED
    BY <1>1, MinOf
<1>3. PICK e : e = Min(I)
  OBVIOUS
<1>4. e \in p .. z /\ buf[e] = NUL
  BY <1>2, <1>3
<1>5. \A i \in p .. e - 1 : buf[i] # NUL
  <2> SUFFICES ASSUME NEW i \in p .. e - 1, buf[i] = NUL PROVE FALSE
    OBVIOUS
  <2>1. i \in I /\ i < e
    BY <1>4
  <2> HIDE DEF I
  <2>2. Min(I) <= i
    BY <1>2, <2>1
  <2> QED
    BY <1>3, <1>4, <2>1, <2>2
<1>6. StringAt(buf, p, e)
  BY <1>4, <1>5, LenProperties DEF StringAt
<1> QED
  BY <1>4, <1>6

(* Cuts are cuts in a wider range, and put together.                       *)
LEMMA CutsMore ==
  ASSUME NEW a, NEW b, NEW c, NEW p \in Int, NEW z \in Int, NEW x \in Int, NEW y \in Int, p <= x, y <= z,
         Len(a) \in Nat, Cuts(a, b, p, z), Cuts(b, c, x, y)
  PROVE  Cuts(a, c, p, z)
<1>1. c \in Seq(Mark) /\ Len(c) = Len(a)
  BY DEF Cuts
<1>2. ASSUME NEW i \in 1 .. Len(a) PROVE c[i] = a[i] \/ (i \in p .. z - 1 /\ c[i] = NUL)
  <2>1. b[i] = a[i] \/ (i \in p .. z - 1 /\ b[i] = NUL)
    BY DEF Cuts
  <2>2. c[i] = b[i] \/ (i \in x .. y - 1 /\ c[i] = NUL)
    BY DEF Cuts
  <2>3. i \in x .. y - 1 => i \in p .. z - 1
    OBVIOUS
  <2> QED
    BY <2>1, <2>2, <2>3
<1> QED
  BY <1>1, <1>2 DEF Cuts

(* Nothing was changed.                                                    *)
LEMMA CutsNone == ASSUME NEW a \in Seq(Mark), NEW p, NEW z PROVE Cuts(a, a, p, z)
BY DEF Cuts

(* A split cuts the string it splits, and its pieces begin in there.       *)
LEMMA SplitCuts ==
  ASSUME NEW buf \in Seq(Mark), NEW z \in 1 .. Len(buf), buf[z] = NUL, NEW p \in 1 .. z, NEW c
  PROVE  LET two == Split(buf, p, <<c>>)
         IN  /\ Cuts(buf, two.buf, p, z) /\ two.at \in Seq(Nat) /\ Len(two.at) > 0
             /\ \A j \in 1 .. Len(two.at) : two.at[j] \in p .. z
<1>1. PICK e \in p .. z : StringAt(buf, p, e)
  BY SomeString
<1>2. PICK two : two = Split(buf, p, <<c>>)
  OBVIOUS
<1>3. InOrder(two.at, Heads(buf, p, e, c)) /\ two.buf = Cleared(buf, p, e, c)
  BY <1>1, <1>2, SplitAtOne
<1>4. NUL \in Mark
  BY DEF Mark
<1>5. /\ two.buf \in Seq(Mark) /\ Len(two.buf) = Len(buf)
      /\ \A i \in 1 .. Len(buf) : two.buf[i] = IF i \in p .. e - 1 /\ buf[i] = c THEN NUL ELSE buf[i]
  BY <1>3, <1>4, ClearedType
<1>6. Cuts(buf, two.buf, p, z)
  <2>1. \A i : i \in p .. e - 1 => i \in p .. z - 1
    BY <1>1
  <2> QED
    BY <1>5, <2>1 DEF Cuts
<1>7. two.at \in Seq(Nat) /\ \A j \in 1 .. Len(two.at) : two.at[j] \in p .. z
  <2>1. \A x \in Heads(buf, p, e, c) : x \in p .. z
    BY <1>1 DEF Heads
  <2> QED
    BY <1>3, <2>1 DEF InOrder
<1>8. Len(two.at) > 0
  BY <1>1, <1>3, <1>4, FirstPiece
<1> QED
  BY <1>2, <1>6, <1>7, <1>8

(* What Items has made of the memory and found so far.                     *)
ItmType == [Name : Nat, Value : Nat]
Cutting(buf, p, z) == { a \in [buf : Seq(Mark), prm : Seq(ItmType)] : Cuts(buf, a.buf, p, z) }

(* One item more.                                                          *)
LEMMA ItemCuts ==
  ASSUME NEW buf \in Seq(Mark), NEW z \in 1 .. Len(buf), buf[z] = NUL, NEW p \in 1 .. z,
         NEW m \in Cutting(buf, p, z), NEW x \in p .. z
  PROVE  Item(m, Split(m.buf, x, <<"=">>)) \in Cutting(buf, p, z)
<1>1. PICK two : two = Split(m.buf, x, <<"=">>)
  OBVIOUS
<1>2. m.buf \in Seq(Mark) /\ m.prm \in Seq(ItmType) /\ Cuts(buf, m.buf, p, z)
  BY DEF Cutting
<1>3. z \in 1 .. Len(m.buf) /\ m.buf[z] = NUL /\ x \in 1 .. z /\ Len(buf) \in Nat
  BY <1>2, LenProperties DEF Cuts
<1>4. /\ Cuts(m.buf, two.buf, x, z) /\ two.at \in Seq(Nat) /\ Len(two.at) > 0
      /\ \A j \in 1 .. Len(two.at) : two.at[j] \in x .. z
  BY <1>1, <1>2, <1>3, SplitCuts
<1>5. Cuts(buf, two.buf, p, z)
  BY <1>2, <1>3, <1>4, CutsMore
<1>6. two.buf \in Seq(Mark)
  BY <1>4 DEF Cuts
<1>7. CASE Len(two.at) = 2
  <2>1. two.at[1] \in Nat /\ two.at[2] \in Nat
    BY <1>4, <1>7
  <2>2. PrmItm(two.at[1], two.at[2]) \in ItmType
    BY <2>1 DEF PrmItm, ItmType
  <2>3. Append(m.prm, PrmItm(two.at[1], two.at[2])) \in Seq(ItmType)
    BY <1>2, <2>2, AppendProperties
  <2> QED
    BY <1>1, <1>5, <1>6, <1>7, <2>3 DEF Item, Cutting
<1>8. CASE Len(two.at) # 2
  BY <1>1, <1>2, <1>5, <1>6, <1>8 DEF Item, Cutting
<1> QED
  BY <1>7, <1>8

(* Items goes through the pieces one by one.                               *)
LEMMA ItemsFold ==
  ASSUME NEW buf \in Seq(Mark), NEW z \in 1 .. Len(buf), buf[z] = NUL, NEW p \in 1 .. z,
         NEW cut, cut.at \in Seq(Nat), \A j \in 1 .. Len(cut.at) : cut.at[j] \in p .. z,
         Cuts(buf, cut.buf, p, z)
  PROVE  \E f : /\ f[0] = [buf |-> cut.buf, prm |-> <<>>]
                /\ \A i \in 1 .. Len(cut.at) :
                     /\ f[i - 1] \in Cutting(buf, p, z)
                     /\ f[i] \in Cutting(buf, p, z)
                     /\ f[i] = Item(f[i - 1], Split(f[i - 1].buf, cut.at[i], <<"=">>))
                /\ Items(cut) = f[Len(cut.at)]
<1> DEFINE op(m, i) == Item(m, Split(m.buf, i, <<"=">>))
           seq == cut.at
           D == DOMAIN seq
           base == [buf |-> cut.buf, prm |-> <<>>]
           Steady(g) == g = [s \in SUBSET D |-> IF s = {} THEN base ELSE op(g[s \ {Max(s)}], seq[Max(s)])]
           it == CHOOSE g : Steady(g)
           step == [e \in Cutting(buf, p, z) \X (1 .. Len(cut.at)) |-> op(e[1], seq[e[2]])]
<1>1. Items(cut) = it[D]
  BY Zenon DEF Items, FoldLeft, MapThenFoldSet
<1>2. Len(cut.at) \in Nat /\ D = 1 .. Len(cut.at)
  BY LenProperties
<1>3. \A m \in Cutting(buf, p, z), i \in 1 .. Len(cut.at) : op(m, seq[i]) \in Cutting(buf, p, z)
  <2> HIDE DEF op, seq
  <2> TAKE m \in Cutting(buf, p, z), i \in 1 .. Len(cut.at)
  <2>1. seq[i] \in p .. z
    BY DEF seq
  <2>2. op(m, seq[i]) \in Cutting(buf, p, z)
    BY <2>1, ItemCuts DEF op
  <2> QED
    BY <2>2
<1>4. base \in Cutting(buf, p, z)
  BY EmptySeq DEF Cutting, Cuts
<1>5. step \in Steps(Len(cut.at), Cutting(buf, p, z))
  <2> HIDE DEF op, seq
  <2> QED
    BY <1>3 DEF Steps
<1>6. PICK g : FoldsBy(g, Len(cut.at), Cutting(buf, p, z), base, step)
  <2> HIDE DEF step, base, seq
  <2> QED
    BY <1>2, <1>4, <1>5, SubsetRecursion
<1>7. Steady(g)
  <2>1. g \in [SUBSET D -> Cutting(buf, p, z)]
    BY <1>2, <1>6 DEF FoldsBy
  <2>2. ASSUME NEW s \in SUBSET D
        PROVE  g[s] = IF s = {} THEN base ELSE op(g[s \ {Max(s)}], seq[Max(s)])
    <3>1. CASE s = {}
      BY <1>2, <1>6, <3>1 DEF FoldsBy
    <3>2. CASE s # {}
      <4>1. Max(s) \in 1 .. Len(cut.at)
        BY <1>2, <3>2, MaxIn
      <4>2. g[s] = step[<<g[s \ {Max(s)}], Max(s)>>]
        BY <1>2, <1>6, <3>2, Zenon DEF FoldsBy
      <4>3. g[s \ {Max(s)}] \in Cutting(buf, p, z)
        BY <1>2, <1>6 DEF FoldsBy
      <4>4. step[<<g[s \ {Max(s)}], Max(s)>>] = op(g[s \ {Max(s)}], seq[Max(s)])
        <5> HIDE DEF op, seq
        <5> QED
          BY <4>1, <4>3
      <4> HIDE DEF step, op, seq
      <4> QED
        BY <3>2, <4>2, <4>4
    <3> QED
      BY <3>1, <3>2
  <2> HIDE DEF op, base, seq
  <2> QED
    BY <2>1, <2>2
<1>8. Steady(it)
  <2> HIDE DEF Steady
  <2> QED
    BY <1>7
<1>9. \A s \in SUBSET D : it[s] = IF s = {} THEN base ELSE op(it[s \ {Max(s)}], seq[Max(s)])
  <2> HIDE DEF it, op, base, seq
  <2> QED
    BY <1>8, Zenon
<1>e. \A i \in 1 .. Len(cut.at) : seq[i] = cut.at[i]
  BY <1>2
<1> HIDE DEF it, Steady, op, base, step, seq
<1>10. it[{}] = base
  BY <1>9
<1>11. \A i \in 1 .. Len(cut.at) : it[1 .. i] = op(it[1 .. i - 1], seq[i])
  <2> TAKE i \in 1 .. Len(cut.at)
  <2>1. /\ 1 .. i # {} /\ 1 .. i \in SUBSET (1 .. Len(cut.at))
        /\ Max(1 .. i) = i /\ (1 .. i) \ {Max(1 .. i)} = 1 .. i - 1
    BY <1>2, FirstPositions
  <2> QED
    BY <1>2, <1>9, <2>1
<1> DEFINE f == [i \in 0 .. Len(cut.at) |-> it[1 .. i]]
           E == { i \in 0 .. Len(cut.at) : f[i] \in Cutting(buf, p, z) }
<1>12. f[0] = base /\ f[Len(cut.at)] = it[D]
  <2>1. 1 .. 0 = {}
    OBVIOUS
  <2> QED
    BY <1>2, <1>10, <2>1
<1>13. \A i \in 1 .. Len(cut.at) : f[i] = op(f[i - 1], seq[i])
  <2> TAKE i \in 1 .. Len(cut.at)
  <2>1. i \in 0 .. Len(cut.at) /\ i - 1 \in 0 .. Len(cut.at)
    BY <1>2
  <2> QED
    BY <1>11, <2>1
<1> HIDE DEF f
<1>14. 0 .. Len(cut.at) \subseteq E
  <2>1. 0 \in E
    BY <1>2, <1>4, <1>12
  <2>2. ASSUME NEW i \in 0 .. Len(cut.at) - 1, i \in E PROVE i + 1 \in E
    <3>1. i + 1 \in 1 .. Len(cut.at) /\ (i + 1) - 1 = i
      BY <1>2
    <3>2. f[i + 1] = op(f[i], seq[i + 1])
      BY <1>13, <3>1
    <3>3. f[i + 1] \in Cutting(buf, p, z)
      BY <1>3, <2>2, <3>1, <3>2
    <3> QED
      BY <1>2, <3>1, <3>3
  <2> HIDE DEF E
  <2> QED
    BY <1>2, <2>1, <2>2, UpTo
<1>15. \A i \in 1 .. Len(cut.at) :
       /\ f[i - 1] \in Cutting(buf, p, z)
       /\ f[i] \in Cutting(buf, p, z)
       /\ f[i] = op(f[i - 1], seq[i])
  <2> TAKE i \in 1 .. Len(cut.at)
  <2>1. i \in 0 .. Len(cut.at) /\ i - 1 \in 0 .. Len(cut.at)
    BY <1>2
  <2> QED
    BY <1>13, <1>14, <2>1
<1>16. Items(cut) = f[Len(cut.at)]
  BY <1>1, <1>12
<1> WITNESS f
<1> QED
  BY <1>12, <1>15, <1>16, <1>e DEF op, base


(* Parameters are found by cuts in the string they are in.                 *)
LEMMA ParamsCut ==
  ASSUME NEW buf \in Seq(Mark), NEW z \in 1 .. Len(buf), buf[z] = NUL, NEW p \in 1 .. z, NEW c
  PROVE  Params(buf, p, <<c>>) \in Cutting(buf, p, z)
<1>1. PICK cut : cut = Split(buf, p, <<c>>)
  OBVIOUS
<1>2. /\ Cuts(buf, cut.buf, p, z) /\ cut.at \in Seq(Nat) /\ Len(cut.at) > 0
      /\ \A j \in 1 .. Len(cut.at) : cut.at[j] \in p .. z
  BY <1>1, SplitCuts
<1>3. PICK f : /\ f[0] = [buf |-> cut.buf, prm |-> <<>>]
               /\ \A i \in 1 .. Len(cut.at) :
                    /\ f[i - 1] \in Cutting(buf, p, z)
                    /\ f[i] \in Cutting(buf, p, z)
                    /\ f[i] = Item(f[i - 1], Split(f[i - 1].buf, cut.at[i], <<"=">>))
               /\ Items(cut) = f[Len(cut.at)]
  BY <1>2, ItemsFold
<1>4. Len(cut.at) \in 1 .. Len(cut.at)
  BY <1>2, LenProperties
<1>5. Items(cut) \in Cutting(buf, p, z)
  BY <1>3, <1>4
<1> QED
  BY <1>1, <1>5 DEF Params

(* A state of the parser.                                                  *)
Members == {"buf", "cur", "content", "ok", "POST", "URL", "Host", "ContentType",
            "GetPrm", "PostPrm", "CookiePrm", "FilePrm", "Upgrade", "Key"}

IsParser(st) == st \in [Members -> { st[k] : k \in Members }] /\ st.buf \in Seq(Mark)

(* One word of a Cookie line, and what can become of the parser there.     *)
Baked(st, params) == [st EXCEPT !.buf = params.buf, !.CookiePrm = @ \o params.prm]

Baking(st, p, z) ==
  { s \in [Members -> { st[k] : k \in Members } \cup Seq(Mark) \cup Seq(ItmType)] :
      /\ Cuts(st.buf, s.buf, p, z) /\ s.CookiePrm \in Seq(ItmType)
      /\ \A k \in Members \ {"buf", "CookiePrm"} : s[k] = st[k] }

(* It stays what it can become.                                            *)
LEMMA CookieCuts ==
  ASSUME NEW st, IsParser(st), NEW z \in 1 .. Len(st.buf), st.buf[z] = NUL, NEW p \in 1 .. z,
         NEW m \in Baking(st, p, z), NEW x \in p .. z
  PROVE  Baked(m, Params(m.buf, x, <<";">>)) \in Baking(st, p, z)
<1>1. PICK prm : prm = Params(m.buf, x, <<";">>)
  OBVIOUS
<1>2. /\ Cuts(st.buf, m.buf, p, z) /\ m.CookiePrm \in Seq(ItmType)
      /\ \A k \in Members \ {"buf", "CookiePrm"} : m[k] = st[k]
      /\ m \in [Members -> { st[k] : k \in Members } \cup Seq(Mark) \cup Seq(ItmType)]
  BY DEF Baking
<1>3. m.buf \in Seq(Mark) /\ z \in 1 .. Len(m.buf) /\ m.buf[z] = NUL /\ x \in 1 .. z /\ Len(st.buf) \in Nat
  BY <1>2, LenProperties DEF Cuts, IsParser
<1>4. Cuts(m.buf, prm.buf, x, z) /\ prm.prm \in Seq(ItmType)
  <2>1. prm \in Cutting(m.buf, x, z)
    BY <1>1, <1>3, ParamsCut
  <2> QED
    BY <2>1 DEF Cutting
<1>5. Cuts(st.buf, prm.buf, p, z)
  BY <1>2, <1>3, <1>4, CutsMore
<1>6. prm.buf \in Seq(Mark) /\ m.CookiePrm \o prm.prm \in Seq(ItmType)
  BY <1>2, <1>4, ConcatProperties DEF Cuts
<1> DEFINE s == [m EXCEPT !.buf = prm.buf, !.CookiePrm = @ \o prm.prm]
<1>7. s \in [Members -> { st[k] : k \in Members } \cup Seq(Mark) \cup Seq(ItmType)]
  BY <1>2, <1>6
<1>8. s.buf = prm.buf /\ s.CookiePrm = m.CookiePrm \o prm.prm
  BY <1>2 DEF Members
<1>9. \A k \in Members \ {"buf", "CookiePrm"} : s[k] = st[k]
  BY <1>2
<1> HIDE DEF s
<1>10. s \in Baking(st, p, z)
  BY <1>5, <1>6, <1>7, <1>8, <1>9 DEF Baking
<1> QED
  BY <1>1, <1>10 DEF s, Baked

(* Cookies goes through the words of its line one by one.                  *)
Bakes(f, st, at, words, p, z) ==
  /\ f[0] = st
  /\ \A i \in 1 .. Len(words) :
       /\ f[i - 1] \in Baking(st, p, z) /\ f[i] \in Baking(st, p, z)
       /\ f[i] = Baked(f[i - 1], Params(f[i - 1].buf, words[i], <<";">>))
  /\ Cookies(st, at) = f[Len(words)]

(* There are such steps, and each of them only cuts the line up.           *)
LEMMA CookiesFold ==
  ASSUME NEW st, IsParser(st), NEW z \in 1 .. Len(st.buf), st.buf[z] = NUL, NEW p \in 1 .. z,
         st.CookiePrm \in Seq(ItmType), NEW at, NEW words, words = <<at[1] + 2>> \o Tail(at),
         words \in Seq(Nat), \A j \in 1 .. Len(words) : words[j] \in p .. z
  PROVE  \E f : Bakes(f, st, at, words, p, z)
<1> DEFINE op(m, i) == Baked(m, Params(m.buf, i, <<";">>))
           seq == words
           D == DOMAIN seq
           base == st
           Steady(g) == g = [s \in SUBSET D |-> IF s = {} THEN base ELSE op(g[s \ {Max(s)}], seq[Max(s)])]
           it == CHOOSE g : Steady(g)
           step == [e \in Baking(st, p, z) \X (1 .. Len(words)) |-> op(e[1], seq[e[2]])]
<1>1. Cookies(st, at) = it[D]
  BY Zenon DEF Cookies, FoldLeft, MapThenFoldSet, Baked
<1>2. Len(words) \in Nat /\ D = 1 .. Len(words)
  BY LenProperties
<1>3. \A m \in Baking(st, p, z), i \in 1 .. Len(words) : op(m, seq[i]) \in Baking(st, p, z)
  <2> HIDE DEF op, seq
  <2> TAKE m \in Baking(st, p, z), i \in 1 .. Len(words)
  <2>1. seq[i] \in p .. z
    BY DEF seq
  <2>2. op(m, seq[i]) \in Baking(st, p, z)
    BY <2>1, CookieCuts DEF op
  <2> QED
    BY <2>2
<1>4. base \in Baking(st, p, z)
  BY CutsNone DEF Baking, IsParser
<1>5. step \in Steps(Len(words), Baking(st, p, z))
  <2> HIDE DEF op, seq
  <2> QED
    BY <1>3 DEF Steps
<1>6. PICK g : FoldsBy(g, Len(words), Baking(st, p, z), base, step)
  <2> HIDE DEF step, base, seq
  <2> QED
    BY <1>2, <1>4, <1>5, SubsetRecursion
<1>7. Steady(g)
  <2>1. g \in [SUBSET D -> Baking(st, p, z)]
    BY <1>2, <1>6 DEF FoldsBy
  <2>2. ASSUME NEW s \in SUBSET D
        PROVE  g[s] = IF s = {} THEN base ELSE op(g[s \ {Max(s)}], seq[Max(s)])
    <3>1. CASE s = {}
      BY <1>2, <1>6, <3>1 DEF FoldsBy
    <3>2. CASE s # {}
      <4>1. Max(s) \in 1 .. Len(words)
        BY <1>2, <3>2, MaxIn
      <4>2. g[s] = step[<<g[s \ {Max(s)}], Max(s)>>]
        BY <1>2, <1>6, <3>2, Zenon DEF FoldsBy
      <4>3. g[s \ {Max(s)}] \in Baking(st, p, z)
        BY <1>2, <1>6 DEF FoldsBy
      <4>4. step[<<g[s \ {Max(s)}], Max(s)>>] = op(g[s \ {Max(s)}], seq[Max(s)])
        <5> HIDE DEF op, seq
        <5> QED
          BY <4>1, <4>3
      <4> HIDE DEF step, op, seq
      <4> QED
        BY <3>2, <4>2, <4>4
    <3> QED
      BY <3>1, <3>2
  <2> HIDE DEF op, base, seq
  <2> QED
    BY <2>1, <2>2
<1>8. Steady(it)
  <2> HIDE DEF Steady
  <2> QED
    BY <1>7
<1>9. \A s \in SUBSET D : it[s] = IF s = {} THEN base ELSE op(it[s \ {Max(s)}], seq[Max(s)])
  <2> HIDE DEF it, op, base, seq
  <2> QED
    BY <1>8, Zenon
<1>e. \A i \in 1 .. Len(words) : seq[i] = words[i]
  BY <1>2
<1> HIDE DEF it, Steady, op, base, step, seq
<1>10. it[{}] = base
  BY <1>9
<1>11. \A i \in 1 .. Len(words) : it[1 .. i] = op(it[1 .. i - 1], seq[i])
  <2> TAKE i \in 1 .. Len(words)
  <2>1. /\ 1 .. i # {} /\ 1 .. i \in SUBSET (1 .. Len(words))
        /\ Max(1 .. i) = i /\ (1 .. i) \ {Max(1 .. i)} = 1 .. i - 1
    BY <1>2, FirstPositions
  <2> QED
    BY <1>2, <1>9, <2>1
<1> DEFINE f == [i \in 0 .. Len(words) |-> it[1 .. i]]
           E == { i \in 0 .. Len(words) : f[i] \in Baking(st, p, z) }
<1>12. f[0] = base /\ f[Len(words)] = it[D]
  <2>1. 1 .. 0 = {}
    OBVIOUS
  <2> QED
    BY <1>2, <1>10, <2>1
<1>13. \A i \in 1 .. Len(words) : f[i] = op(f[i - 1], seq[i])
  <2> TAKE i \in 1 .. Len(words)
  <2>1. i \in 0 .. Len(words) /\ i - 1 \in 0 .. Len(words)
    BY <1>2
  <2> QED
    BY <1>11, <2>1
<1> HIDE DEF f
<1>14. 0 .. Len(words) \subseteq E
  <2>1. 0 \in E
    BY <1>2, <1>4, <1>12
  <2>2. ASSUME NEW i \in 0 .. Len(words) - 1, i \in E PROVE i + 1 \in E
    <3>1. i + 1 \in 1 .. Len(words) /\ (i + 1) - 1 = i
      BY <1>2
    <3>2. f[i + 1] = op(f[i], seq[i + 1])
      BY <1>13, <3>1
    <3>3. f[i + 1] \in Baking(st, p, z)
      BY <1>3, <2>2, <3>1, <3>2
    <3> QED
      BY <1>2, <3>1, <3>3
  <2> HIDE DEF E
  <2> QED
    BY <1>2, <2>1, <2>2, UpTo
<1>15. \A i \in 1 .. Len(words) :
       /\ f[i - 1] \in Baking(st, p, z)
       /\ f[i] \in Baking(st, p, z)
       /\ f[i] = op(f[i - 1], seq[i])
  <2> TAKE i \in 1 .. Len(words)
  <2>1. i \in 0 .. Len(words) /\ i - 1 \in 0 .. Len(words)
    BY <1>2
  <2> QED
    BY <1>13, <1>14, <2>1
<1>16. Cookies(st, at) = f[Len(words)]
  BY <1>1, <1>12
<1>17. Bakes(f, st, at, words, p, z)
  BY <1>12, <1>15, <1>16, <1>e, Zenon DEF op, base, Bakes
<1> QED
  BY <1>17

(* The memory is what was received, from p on, and ends with NUL.          *)
Memory(buf, raw, p) ==
  /\ buf \in Seq(Mark) /\ Len(buf) = Len(raw) + 1 /\ buf[Len(raw) + 1] = NUL
  /\ \A i \in p .. Len(raw) : buf[i] = raw[i]

(* What a line consists of; the text received has the line s at p.         *)
Inline == Sign \ {CR, LF, NUL}

LineAt(raw, p, s) ==
  /\ p \in Nat \ {0} /\ s \in Seq(Inline) /\ p + Len(s) + 1 <= Len(raw)
  /\ \A i \in 1 .. Len(s) : raw[p + i - 1] = s[i]
  /\ raw[p + Len(s)] = CR /\ raw[p + Len(s) + 1] = LF

(* The parser reads a header, up to the line s.                            *)
Reading(st, raw, s) ==
  /\ IsParser(st) /\ st.ok /\ ~st.content
  /\ Memory(st.buf, raw, st.cur) /\ LineAt(raw, st.cur, s)

(* It finds its end.                                                       *)
LEMMA LineFound ==
  ASSUME NEW raw \in Seq(Sign), NEW buf, NEW p, NEW s, Memory(buf, raw, p), LineAt(raw, p, s)
  PROVE  LineEnds(buf, p) # {} /\ Min(LineEnds(buf, p)) = p + Len(s) + 1
<1> DEFINE E == LineEnds(buf, p)
<1>n. PICK n : n = p + Len(s) + 1
  OBVIOUS
<1>1. /\ p \in Nat /\ p > 0 /\ Len(s) \in Nat /\ Len(raw) \in Nat /\ n <= Len(raw) /\ n \in Nat
      /\ Len(buf) = Len(raw) + 1
      /\ \A i \in p .. Len(raw) : buf[i] = raw[i]
      /\ \A i \in 1 .. Len(s) : raw[p + i - 1] = s[i] /\ s[i] # LF
      /\ raw[n - 1] = CR /\ raw[n] = LF
  <2>1. Len(s) \in Nat /\ Len(raw) \in Nat /\ \A i \in 1 .. Len(s) : s[i] \in Inline
    BY LenProperties, ElementOfSeq DEF LineAt
  <2>2. \A i \in 1 .. Len(s) : s[i] # LF
    BY <2>1 DEF Inline
  <2>3. (p + Len(s) + 1) - 1 = p + Len(s)
    BY <2>1 DEF LineAt
  <2> QED
    BY <1>n, <2>1, <2>2, <2>3 DEF LineAt, Memory
<1>e. E = { i \in p + 1 .. Len(buf) : buf[i - 1] = CR /\ buf[i] = LF }
  BY DEF LineEnds, CR, LF
<1> HIDE DEF E
<1>2. n \in E /\ E \in SUBSET Nat
  <2>1. n \in p + 1 .. Len(buf) /\ n - 1 \in p .. Len(raw) /\ n \in p .. Len(raw)
    BY <1>n, <1>1
  <2>2. buf[n - 1] = CR /\ buf[n] = LF
    BY <1>1, <2>1
  <2>3. \A i \in E : i \in Nat
    BY <1>1, <1>e
  <2> QED
    BY <1>e, <2>1, <2>2, <2>3
<1>3. \A i \in E : n <= i
  <2> SUFFICES ASSUME NEW i \in E, i < n PROVE FALSE
    BY <1>1, <1>2
  <2>1. i \in Nat /\ i > p /\ i < n /\ buf[i] = LF
    BY <1>1, <1>e
  <2>2. buf[i] = raw[i]
    BY <1>1, <2>1
  <2>3. i # n - 1
    BY <1>1, <2>1, <2>2 DEF CR, LF
  <2>4. i - p + 1 \in 1 .. Len(s) /\ p + (i - p + 1) - 1 = i
    BY <1>n, <1>1, <2>1, <2>3
  <2> QED
    BY <1>1, <2>1, <2>2, <2>4
<1>4. Min(E) \in E /\ Min(E) <= n /\ n <= Min(E)
  BY <1>2, <1>3, MinOf
<1>5. Min(E) = n
  <2>1. \A i \in Nat : i <= n /\ n <= i => i = n
    BY <1>1
  <2> QED
    BY <1>2, <1>4, <2>1, Zenon
<1> QED
  BY <1>2, <1>5, <1>n DEF E

(* The memory with the end of the line taken away.                         *)
Ended(buf, p, s) == Zeroed(buf, p + Len(s), p + Len(s) + 1)

(* The line is a string of its own then.                                   *)
LEMMA LineString ==
  ASSUME NEW raw \in Seq(Sign), NEW buf, NEW p, NEW s, Memory(buf, raw, p), LineAt(raw, p, s)
  PROVE  LET b == Ended(buf, p, s)
             z == p + Len(s)
         IN  /\ StringAt(b, p, z) /\ CStr(b, p) = s
             /\ \A i \in 1 .. Len(s) : b[p + i - 1] = s[i]
             /\ Memory(b, raw, z + 2) /\ Cuts(buf, b, p, z + 2) /\ z \in 1 .. Len(b) /\ z \in Nat
             /\ Len(b) = Len(buf) /\ b[z] = NUL
<1>1. PICK b : b = Ended(buf, p, s)
  OBVIOUS
<1>2. PICK z : z = p + Len(s)
  OBVIOUS
<1>3. /\ p \in Nat /\ p > 0 /\ Len(s) \in Nat /\ Len(raw) \in Nat /\ z + 1 <= Len(raw) /\ z \in Nat
      /\ Len(buf) = Len(raw) + 1 /\ DOMAIN buf = 1 .. Len(buf)
      /\ \A i \in p .. Len(raw) : buf[i] = raw[i]
      /\ \A i \in 1 .. Len(s) : raw[p + i - 1] = s[i] /\ s[i] # NUL
      /\ \A i \in 1 .. Len(buf) : buf[i] \in Mark
      /\ buf[Len(raw) + 1] = NUL
  <2>1. Len(s) \in Nat /\ Len(raw) \in Nat /\ \A i \in 1 .. Len(s) : s[i] \in Inline
    BY LenProperties, ElementOfSeq DEF LineAt
  <2>2. \A i \in 1 .. Len(s) : s[i] # NUL
    BY <2>1 DEF Inline
  <2>3. \A i \in 1 .. Len(buf) : buf[i] \in Mark
    BY ElementOfSeq DEF Memory
  <2> QED
    BY <1>2, <2>1, <2>2, <2>3, LenProperties DEF LineAt, Memory
<1>4. b = [i \in DOMAIN buf |-> IF i \in z .. z + 1 THEN NUL ELSE buf[i]]
  BY <1>1, <1>2 DEF Ended, Zeroed
<1>5. b \in [1 .. Len(buf) -> Mark]
  <2>1. NUL \in Mark
    BY DEF Mark
  <2>2. \A i \in 1 .. Len(buf) : (IF i \in z .. z + 1 THEN NUL ELSE buf[i]) \in Mark
    BY <1>3, <2>1, Zenon
  <2>3. DOMAIN buf = 1 .. Len(buf)
    BY <1>3
  <2> QED
    BY <1>4, <2>2, <2>3, Zenon
<1>6. b \in Seq(Mark) /\ Len(b) = Len(buf)
  <2>1. Len(buf) \in Nat
    BY <1>3
  <2> QED
    BY <1>5, <2>1, FunctionIsSeq
<1>7. \A i \in 1 .. Len(buf) : b[i] = IF i \in z .. z + 1 THEN NUL ELSE buf[i]
  BY <1>3, <1>4
<1>8. b[z] = NUL /\ \A i \in 1 .. Len(s) : b[p + i - 1] = s[i]
  <2>1. z \in 1 .. Len(buf)
    BY <1>2, <1>3
  <2>2. ASSUME NEW i \in 1 .. Len(s) PROVE b[p + i - 1] = s[i]
    <3>1. p + i - 1 \in 1 .. Len(buf) /\ ~(p + i - 1 \in z .. z + 1) /\ p + i - 1 \in p .. Len(raw)
      BY <1>2, <1>3
    <3> QED
      BY <1>3, <1>7, <3>1
  <2> QED
    BY <1>3, <1>7, <2>1, <2>2
<1>9. StringAt(b, p, z)
  <2>1. ASSUME NEW i \in p .. z - 1 PROVE b[i] # NUL
    <3>1. i - p + 1 \in 1 .. Len(s) /\ p + (i - p + 1) - 1 = i
      BY <1>2, <1>3
    <3> QED
      BY <1>3, <1>8, <3>1
  <2> QED
    BY <1>2, <1>3, <1>6, <1>8, <2>1 DEF StringAt
<1>10. CStr(b, p) = s
  <2>1. CStr(b, p) \in Seq(Mark) /\ Len(CStr(b, p)) = z - p /\ \A i \in 1 .. z - p : CStr(b, p)[i] = b[p + i - 1]
    BY <1>6, <1>9, StringRead
  <2>2. s \in Seq(Inline) /\ z - p = Len(s)
    BY <1>2, <1>3 DEF LineAt
  <2> QED
    BY <1>8, <2>1, <2>2, SeqEqual
<1>11. Memory(b, raw, z + 2)
  <2>1. b[Len(raw) + 1] = NUL
    BY <1>3, <1>7
  <2>2. \A i \in z + 2 .. Len(raw) : b[i] = raw[i]
    BY <1>2, <1>3, <1>7
  <2> QED
    BY <1>3, <1>6, <2>1, <2>2 DEF Memory
<1>12. Cuts(buf, b, p, z + 2)
  <2>1. \A i \in z .. z + 1 : i \in p .. (z + 2) - 1
    BY <1>2, <1>3
  <2> QED
    BY <1>6, <1>7, <2>1 DEF Cuts
<1> QED
  BY <1>1, <1>2, <1>3, <1>6, <1>8, <1>9, <1>10, <1>11, <1>12

(* Words of headers, whatever their case.                                  *)
LEMMA LowerWords ==
  /\ tolower("Host:") = "host:" /\ tolower("Upgrade:") = "upgrade:" /\ tolower("Cookie:") = "cookie:"
  /\ tolower("Content-Type:") = "content-type:" /\ tolower("Sec-WebSocket-Key:") = "sec-websocket-key:"
  /\ tolower("host:") = "host:" /\ tolower("upgrade:") = "upgrade:" /\ tolower("cookie:") = "cookie:"
  /\ tolower("content-type:") = "content-type:" /\ tolower("sec-websocket-key:") = "sec-websocket-key:"
  /\ tolower("websocket") = "websocket" /\ tolower("connection:") = "connection:"
BY DEF tolower, Lower

(* Words are compared in lower case.                                       *)
LEMMA CompareOne ==
  ASSUME NEW c, NEW d PROVE icompare(<<c>>, <<d>>) <=> tolower(c) = tolower(d)
BY DEF icompare

(* The word a header line begins with.                                     *)
Is(st, at, name) == Len(at) > 1 /\ icompare(CStr(st.buf, at[1]), <<name>>)

(* The cases of HeaderWords.                                               *)
LEMMA WordCases ==
  ASSUME NEW st, NEW at
  PROVE  HeaderWords(st, at) =
           CASE Is(st, at, "Host:")    -> [st EXCEPT !.Host = Strings(CStr(st.buf, at[2]), <<":">>)[1]]
             [] Is(st, at, "Upgrade:") -> [st EXCEPT !.Upgrade = @ \/ icompare(CStr(st.buf, at[2]), <<"websocket">>)]
             [] Is(st, at, "Sec-WebSocket-Key:") -> [st EXCEPT !.Key = at[2]]
             [] Is(st, at, "Content-Type:") ->
                  [st EXCEPT !.ContentType = @ \o FlattenSeq([i \in 1 .. Len(at) - 1 |-> CStr(st.buf, at[i + 1])])]
             [] Is(st, at, "Cookie:")  -> Cookies(st, at)
             [] OTHER -> st
BY Zenon DEF HeaderWords, Is

(* A line of a single word says nothing.                                   *)
LEMMA NoWords == ASSUME NEW st, NEW at, ~(Len(at) > 1) PROVE HeaderWords(st, at) = st
<1>1. ~Is(st, at, "Host:") /\ ~Is(st, at, "Upgrade:") /\ ~Is(st, at, "Sec-WebSocket-Key:")
      /\ ~Is(st, at, "Content-Type:") /\ ~Is(st, at, "Cookie:")
  BY DEF Is
<1> QED
  BY <1>1, WordCases, Zenon

(* The first word decides.                                                 *)
LEMMA FirstWord ==
  ASSUME NEW st, NEW at, Len(at) > 1, NEW w, CStr(st.buf, at[1]) = <<w>>
  PROVE  \A name : Is(st, at, name) <=> tolower(w) = tolower(name)
BY CompareOne DEF Is

(* A line that begins with "host:".                                      *)
LEMMA HostWords ==
  ASSUME NEW st, NEW at, Len(at) > 1, CStr(st.buf, at[1]) = <<"host:">>
  PROVE  HeaderWords(st, at) = [st EXCEPT !.Host = Strings(CStr(st.buf, at[2]), <<":">>)[1]]
<1>1. Is(st, at, "Host:") /\ ~Is(st, at, "Upgrade:")
      /\ ~Is(st, at, "Sec-WebSocket-Key:") /\ ~Is(st, at, "Content-Type:") /\ ~Is(st, at, "Cookie:")
  BY FirstWord, LowerWords
<1> QED
  BY <1>1, WordCases, Zenon

(* A line that begins with "upgrade:".                                   *)
LEMMA UpgradeWords ==
  ASSUME NEW st, NEW at, Len(at) > 1, CStr(st.buf, at[1]) = <<"upgrade:">>
  PROVE  HeaderWords(st, at) = [st EXCEPT !.Upgrade = @ \/ icompare(CStr(st.buf, at[2]), <<"websocket">>)]
<1>1. ~Is(st, at, "Host:") /\ Is(st, at, "Upgrade:")
      /\ ~Is(st, at, "Sec-WebSocket-Key:") /\ ~Is(st, at, "Content-Type:") /\ ~Is(st, at, "Cookie:")
  BY FirstWord, LowerWords
<1> QED
  BY <1>1, WordCases, Zenon

(* A line that begins with "sec-websocket-key:".                         *)
LEMMA KeyWords ==
  ASSUME NEW st, NEW at, Len(at) > 1, CStr(st.buf, at[1]) = <<"sec-websocket-key:">>
  PROVE  HeaderWords(st, at) = [st EXCEPT !.Key = at[2]]
<1>1. ~Is(st, at, "Host:") /\ ~Is(st, at, "Upgrade:")
      /\ Is(st, at, "Sec-WebSocket-Key:") /\ ~Is(st, at, "Content-Type:") /\ ~Is(st, at, "Cookie:")
  BY FirstWord, LowerWords
<1> QED
  BY <1>1, WordCases, Zenon

(* A line that begins with "content-type:".                              *)
LEMMA TypeWords ==
  ASSUME NEW st, NEW at, Len(at) > 1, CStr(st.buf, at[1]) = <<"content-type:">>
  PROVE  HeaderWords(st, at) =
           [st EXCEPT !.ContentType = @ \o FlattenSeq([i \in 1 .. Len(at) - 1 |-> CStr(st.buf, at[i + 1])])]
<1>1. ~Is(st, at, "Host:") /\ ~Is(st, at, "Upgrade:")
      /\ ~Is(st, at, "Sec-WebSocket-Key:") /\ Is(st, at, "Content-Type:") /\ ~Is(st, at, "Cookie:")
  BY FirstWord, LowerWords
<1> QED
  BY <1>1, WordCases, Zenon

(* A line that begins with "cookie:".                                    *)
LEMMA CookieWords ==
  ASSUME NEW st, NEW at, Len(at) > 1, CStr(st.buf, at[1]) = <<"cookie:">>
  PROVE  HeaderWords(st, at) = Cookies(st, at)
<1>1. ~Is(st, at, "Host:") /\ ~Is(st, at, "Upgrade:")
      /\ ~Is(st, at, "Sec-WebSocket-Key:") /\ ~Is(st, at, "Content-Type:") /\ Is(st, at, "Cookie:")
  BY FirstWord, LowerWords
<1> QED
  BY <1>1, WordCases, Zenon

(* A line that begins with "connection:" says nothing.                     *)
LEMMA ClosingWords ==
  ASSUME NEW st, NEW at, Len(at) > 1, CStr(st.buf, at[1]) = <<"connection:">>
  PROVE  HeaderWords(st, at) = st
<1>1. ~Is(st, at, "Host:") /\ ~Is(st, at, "Upgrade:")
      /\ ~Is(st, at, "Sec-WebSocket-Key:") /\ ~Is(st, at, "Content-Type:") /\ ~Is(st, at, "Cookie:")
  BY FirstWord, LowerWords
<1> QED
  BY <1>1, WordCases, Zenon

(* The string at p is s.                                                   *)
Holds(b, p, s) ==
  /\ s \in Seq(Mark) /\ StringAt(b, p, p + Len(s))
  /\ \A i \in 1 .. Len(s) : b[p + i - 1] = s[i]

(* Where the pieces of a text begin that c cuts, and the k-th of them.     *)
PieceHeads(s, c) == { x \in 1 .. Len(s) + 1 : x = 1 \/ (x > 1 /\ s[x - 1] = c) }

Piece(s, q, k) == SubSeq(s, q[k], PieceEnd(q, k, Len(s) + 1) - 1)

(* A string is read as what it is.                                         *)
LEMMA StringIs ==
  ASSUME NEW b \in Seq(Mark), NEW p, NEW s, Holds(b, p, s) PROVE CStr(b, p) = s
<1>1. s \in Seq(Mark) /\ Len(s) \in Nat /\ p \in Nat /\ \A i \in 1 .. Len(s) : b[p + i - 1] = s[i]
  BY LenProperties DEF Holds, StringAt
<1>2. PICK z : z = p + Len(s)
  OBVIOUS
<1>3. z - p = Len(s) /\ StringAt(b, p, z)
  BY <1>1, <1>2 DEF Holds
<1>4. /\ CStr(b, p) \in Seq(Mark) /\ Len(CStr(b, p)) = z - p
      /\ \A i \in 1 .. z - p : CStr(b, p)[i] = b[p + i - 1]
  BY <1>3, StringRead
<1> QED
  BY <1>1, <1>3, <1>4, SeqEqual

(* The string s at p, cut at c into its pieces, which begin at q.          *)
CutAt(b, w, p, s, q, c) ==
  /\ w.buf = Cleared(b, p, p + Len(s), c) /\ w.buf \in Seq(Mark) /\ Len(w.buf) = Len(b)
  /\ Cuts(b, w.buf, p, p + Len(s))
  /\ w.at \in Seq(Nat) /\ Len(w.at) = Len(q)
  /\ \A k \in 1 .. Len(q) : /\ w.at[k] = p + q[k] - 1 /\ w.at[k] \in p .. p + Len(s)
                            /\ Holds(w.buf, w.at[k], Piece(s, q, k))

(* A split of a string that is known.                                      *)
LEMMA StringPieces ==
  ASSUME NEW b \in Seq(Mark), NEW p, NEW s, Holds(b, p, s), NEW c, NEW q, InOrder(q, PieceHeads(s, c)),
         NEW w, w = Split(b, p, <<c>>)
  PROVE  CutAt(b, w, p, s, q, c)
<1>2. PICK z : z = p + Len(s)
  OBVIOUS
<1>3. /\ s \in Seq(Mark) /\ Len(s) \in Nat /\ p \in Nat /\ p > 0 /\ z \in Nat /\ p <= z /\ z <= Len(b)
      /\ Len(b) \in Nat /\ b[z] = NUL
      /\ \A i \in 1 .. Len(s) : b[p + i - 1] = s[i]
      /\ StringAt(b, p, z)
  BY <1>2, LenProperties DEF Holds, StringAt
<1>4. /\ q \in Seq(Nat) /\ Len(q) \in Nat
      /\ \A j \in 1 .. Len(q) : q[j] \in PieceHeads(s, c)
      /\ \A x \in PieceHeads(s, c) : \E j \in 1 .. Len(q) : q[j] = x
      /\ \A j, k \in 1 .. Len(q) : j < k => q[j] < q[k]
  BY LenProperties DEF InOrder
<1>5. \A j \in 1 .. Len(q) : q[j] \in 1 .. Len(s) + 1 /\ (q[j] = 1 \/ (q[j] > 1 /\ s[q[j] - 1] = c))
  BY <1>4 DEF PieceHeads
<1> DEFINE g == [j \in 1 .. Len(q) |-> p + q[j] - 1]
<1>6. g \in Seq(Nat) /\ Len(g) = Len(q) /\ \A j \in 1 .. Len(q) : g[j] = p + q[j] - 1
  <2>1. \A j \in 1 .. Len(q) : p + q[j] - 1 \in Nat
    BY <1>3, <1>5
  <2>2. g \in [1 .. Len(q) -> Nat]
    BY <2>1
  <2>3. \A j \in 1 .. Len(q) : g[j] = p + q[j] - 1
    OBVIOUS
  <2> HIDE DEF g
  <2>4. g \in Seq(Nat) /\ Len(g) = Len(q)
    BY <1>4, <2>2, FunctionIsSeq
  <2> QED
    BY <2>3, <2>4
<1> HIDE DEF g
<1>7. InOrder(g, Heads(b, p, z, c))
  <2>1. ASSUME NEW j \in 1 .. Len(g) PROVE g[j] \in Heads(b, p, z, c)
    <3>1. PICK x \in 1 .. Len(s) + 1 : x = q[j] /\ (x = 1 \/ (x > 1 /\ s[x - 1] = c))
      BY <1>5, <1>6
    <3>2. g[j] = p + x - 1 /\ p + x - 1 \in p .. z
      BY <1>2, <1>3, <1>6, <3>1
    <3>3. CASE x = 1
      BY <1>3, <3>2, <3>3 DEF Heads
    <3>4. CASE x > 1 /\ s[x - 1] = c
      <4>1. x - 1 \in 1 .. Len(s) /\ p + (x - 1) - 1 = (p + x - 1) - 1
        BY <1>3, <3>1, <3>4
      <4>2. PICK m, y : m = x - 1 /\ y = p + x - 1
        OBVIOUS
      <4>3. m \in 1 .. Len(s) /\ p + m - 1 = y - 1 /\ s[m] = c
        BY <3>4, <4>1, <4>2
      <4>4. b[p + m - 1] = s[m]
        BY <1>3, <4>3, Zenon
      <4>5. y > p
        BY <1>3, <4>2, <4>3
      <4>6. g[j] = y /\ y \in p .. z /\ b[y - 1] = c
        BY <3>2, <4>2, <4>3, <4>4, Zenon
      <4> QED
        BY <4>5, <4>6 DEF Heads
    <3> QED
      BY <3>1, <3>3, <3>4
  <2>2. ASSUME NEW y \in Heads(b, p, z, c) PROVE \E j \in 1 .. Len(g) : g[j] = y
    <3>1. y \in p .. z /\ (y = p \/ (y > p /\ b[y - 1] = c))
      BY DEF Heads
    <3>2. PICK x : x = y - p + 1
      OBVIOUS
    <3>3. x \in 1 .. Len(s) + 1 /\ p + x - 1 = y
      BY <1>2, <1>3, <3>1, <3>2
    <3>4. x = 1 \/ (x > 1 /\ s[x - 1] = c)
      <4>1. CASE y = p
        BY <1>3, <3>2, <4>1
      <4>2. CASE y > p /\ b[y - 1] = c
        <5>1. x > 1 /\ x - 1 \in 1 .. Len(s) /\ p + (x - 1) - 1 = y - 1
          BY <1>3, <3>1, <3>3, <4>2
        <5>2. s[x - 1] = b[p + (x - 1) - 1]
          BY <1>3, <5>1
        <5> QED
          BY <4>2, <5>1, <5>2
      <4> QED
        BY <3>1, <4>1, <4>2
    <3>5. x \in PieceHeads(s, c)
      BY <3>3, <3>4 DEF PieceHeads
    <3>6. PICK j \in 1 .. Len(q) : q[j] = x
      BY <1>4, <3>5
    <3> QED
      BY <1>6, <3>3, <3>6
  <2>3. ASSUME NEW j \in 1 .. Len(g), NEW k \in 1 .. Len(g), j < k PROVE g[j] < g[k]
    <3>1. q[j] < q[k] /\ q[j] \in Nat /\ q[k] \in Nat
      BY <1>4, <1>5, <1>6, <2>3, SMTT(30)
    <3> QED
      BY <1>3, <1>6, <3>1
  <2> QED
    BY <1>6, <2>1, <2>2, <2>3 DEF InOrder
<1>8. w.at = g /\ w.buf = Cleared(b, p, z, c)
  <2>1. Split(b, p, <<c>>) = [at |-> g, buf |-> Cleared(b, p, z, c)]
    BY <1>3, <1>7, SplitPieces
  <2> QED
    BY <2>1
<1>9. NUL \in Mark
  BY DEF Mark
<1>10. /\ w.buf \in Seq(Mark) /\ Len(w.buf) = Len(b)
       /\ \A i \in 1 .. Len(b) : w.buf[i] = IF i \in p .. z - 1 /\ b[i] = c THEN NUL ELSE b[i]
  BY <1>8, <1>9, ClearedType
<1>11. Cuts(b, w.buf, p, z)
  BY <1>10 DEF Cuts
<1>12. ASSUME NEW k \in 1 .. Len(q)
       PROVE  w.at[k] \in p .. p + Len(s) /\ Holds(w.buf, w.at[k], Piece(s, q, k))
  <2>1. PICK x : x = q[k]
    OBVIOUS
  <2>2. PICK e : e = PieceEnd(q, k, Len(s) + 1)
    OBVIOUS
  <2>3. PICK y : y = PieceEnd(g, k, z)
    OBVIOUS
  <2>4. x \in 1 .. Len(s) + 1 /\ g[k] = p + x - 1
    BY <1>5, <1>6, <2>1
  <2>5. e \in Nat /\ y = p + e - 1
    <3>1. CASE k < Len(q)
      <4>1. k + 1 \in 1 .. Len(q)
        BY <1>4, <3>1
      <4>2. q[k + 1] \in Nat /\ q[k + 1] >= 1 /\ g[k + 1] = p + q[k + 1] - 1
        BY <1>5, <1>6, <4>1
      <4> QED
        BY <1>3, <1>6, <2>2, <2>3, <3>1, <4>2, SMTT(30) DEF PieceEnd
    <3>2. CASE ~(k < Len(q))
      BY <1>2, <1>3, <1>6, <2>2, <2>3, <3>2 DEF PieceEnd
    <3> QED
      BY <3>1, <3>2
  <2>6. /\ StringAt(w.buf, g[k], y) /\ g[k] <= y /\ y <= z
        /\ \A i \in g[k] .. y - 1 : b[i] # c /\ b[i] # NUL
    <3>1. k \in 1 .. Len(g)
      BY <1>6
    <3> QED
      BY <1>3, <1>7, <1>8, <1>9, <2>3, <3>1, PieceString
  <2>7. x <= e /\ e <= Len(s) + 1
    BY <1>2, <1>3, <2>4, <2>5, <2>6
  <2>8. PICK t : t = SubSeq(s, x, e - 1)
    OBVIOUS
  <2>9. t \in Seq(Mark) /\ Len(t) = e - x /\ \A i \in 1 .. e - x : t[i] = s[x + i - 1]
    BY <1>3, <2>4, <2>5, <2>7, <2>8
  <2>10. g[k] + Len(t) = y
    BY <1>3, <2>4, <2>5, <2>9
  <2>11. \A i \in 1 .. Len(t) : w.buf[g[k] + i - 1] = t[i]
    <3> TAKE i \in 1 .. Len(t)
    <3>1. x + i - 1 \in 1 .. Len(s) /\ p + (x + i - 1) - 1 = g[k] + i - 1
      BY <1>3, <2>4, <2>5, <2>7, <2>9
    <3>2. t[i] = b[g[k] + i - 1]
      BY <1>3, <2>9, <3>1
    <3>3. g[k] + i - 1 \in g[k] .. y - 1 /\ g[k] + i - 1 \in 1 .. Len(b)
      <4>1. PICK h, n, l : h = g[k] /\ n = Len(t) /\ l = Len(b)
        OBVIOUS
      <4>2. h \in Nat /\ h >= p /\ n \in Nat /\ i \in 1 .. n /\ y = h + n
        BY <1>3, <2>4, <2>9, <2>10, <4>1
      <4>3. y <= z /\ z <= l /\ l \in Nat /\ z \in Nat /\ p >= 1 /\ p \in Nat
        BY <1>3, <2>6, <4>1
      <4>4. h + i - 1 \in h .. y - 1 /\ h + i - 1 \in 1 .. l
        BY <4>2, <4>3
      <4> QED
        BY <4>1, <4>4
    <3>4. PICK j : j = g[k] + i - 1
      OBVIOUS
    <3>5. j \in 1 .. Len(b) /\ b[j] # c /\ t[i] = b[j]
      BY <2>6, <3>2, <3>3, <3>4
    <3>6. w.buf[j] = b[j]
      BY <1>10, <3>5
    <3> QED
      BY <3>4, <3>5, <3>6
  <2>12. Holds(w.buf, g[k], t)
    BY <2>6, <2>9, <2>10, <2>11 DEF Holds
  <2>13. g[k] \in p .. p + Len(s)
    BY <1>2, <1>3, <2>4
  <2> QED
    BY <1>8, <2>1, <2>2, <2>8, <2>12, <2>13 DEF Piece
<1> QED
  BY <1>2, <1>6, <1>8, <1>10, <1>11, <1>12 DEF CutAt

(* A text without the delimiter is one piece.                              *)
LEMMA OnePiece ==
  ASSUME NEW s \in Seq(Mark), NEW c, \A i \in 1 .. Len(s) : s[i] # c, NEW q, q = << 1 >>
  PROVE  InOrder(q, PieceHeads(s, c)) /\ Piece(s, q, 1) = s
<1>1. Len(s) \in Nat
  BY LenProperties
<1>2. PieceHeads(s, c) = {1}
  <2>1. 1 \in PieceHeads(s, c)
    BY <1>1 DEF PieceHeads
  <2>2. ASSUME NEW x \in PieceHeads(s, c) PROVE x = 1
    <3>1. x \in 1 .. Len(s) + 1 /\ (x = 1 \/ (x > 1 /\ s[x - 1] = c))
      BY DEF PieceHeads
    <3>2. x > 1 => x - 1 \in 1 .. Len(s)
      BY <1>1, <3>1
    <3> QED
      BY <3>1, <3>2
  <2> QED
    BY <2>1, <2>2
<1>4. q \in Seq(Nat) /\ Len(q) = 1 /\ q[1] = 1
  OBVIOUS
<1>5. InOrder(q, {1})
  BY <1>4 DEF InOrder
<1>6. PieceEnd(q, 1, Len(s) + 1) = Len(s) + 1
  BY <1>4 DEF PieceEnd
<1>7. Piece(s, q, 1) = SubSeq(s, 1, Len(s))
  BY <1>1, <1>4, <1>6 DEF Piece
<1>8. SubSeq(s, 1, Len(s)) = s
  OBVIOUS
<1> QED
  BY <1>2, <1>5, <1>7, <1>8

(* The text u has the pieces of s, which begin at q, and one more, t.      *)
Longer(u, r, s, q, t, c) ==
  /\ u \in Seq(Mark) /\ InOrder(r, PieceHeads(u, c))
  /\ Len(r) = Len(q) + 1 /\ Len(q) \in Nat /\ r[Len(q) + 1] = Len(s) + 2
  /\ \A k \in 1 .. Len(q) : r[k] = q[k] /\ Piece(u, r, k) = Piece(s, q, k)
  /\ Piece(u, r, Len(q) + 1) = t

(* A delimiter and a text without it are one piece more.                   *)
LEMMA PieceMore ==
  ASSUME NEW s \in Seq(Mark), NEW c \in Mark, NEW t \in Seq(Mark), \A i \in 1 .. Len(t) : t[i] # c,
         NEW q, InOrder(q, PieceHeads(s, c)), NEW u, u = (s \o <<c>>) \o t,
         NEW r, r = Append(q, Len(s) + 2)
  PROVE  Longer(u, r, s, q, t, c)
<1>1. /\ Len(s) \in Nat /\ Len(t) \in Nat /\ u \in Seq(Mark) /\ Len(u) = Len(s) + 1 + Len(t)
      /\ \A i \in 1 .. Len(s) : u[i] = s[i]
      /\ u[Len(s) + 1] = c
      /\ \A i \in 1 .. Len(t) : u[Len(s) + 1 + i] = t[i]
  <2>1. PICK d : d = <<c>>
    OBVIOUS
  <2>2. d \in Seq(Mark) /\ Len(d) = 1 /\ d[1] = c
    BY <2>1
  <2>3. PICK v : v = s \o d
    OBVIOUS
  <2>4. /\ v \in Seq(Mark) /\ Len(v) = Len(s) + 1 /\ Len(s) \in Nat /\ Len(t) \in Nat
        /\ \A i \in 1 .. Len(s) + 1 : v[i] = IF i <= Len(s) THEN s[i] ELSE d[i - Len(s)]
    <3>1. /\ v \in Seq(Mark) /\ Len(v) = Len(s) + Len(d)
          /\ \A i \in 1 .. Len(s) + Len(d) : v[i] = IF i <= Len(s) THEN s[i] ELSE d[i - Len(s)]
      BY <2>2, <2>3, ConcatProperties
    <3>2. Len(s) \in Nat /\ Len(t) \in Nat
      BY LenProperties
    <3> QED
      BY <2>2, <3>1, <3>2
  <2>5. u = v \o t
    BY <2>1, <2>3
  <2>6. /\ u \in Seq(Mark) /\ Len(u) = Len(v) + Len(t)
        /\ \A i \in 1 .. Len(v) + Len(t) : u[i] = IF i <= Len(v) THEN v[i] ELSE t[i - Len(v)]
    BY <2>4, <2>5, ConcatProperties
  <2>7. \A i \in 1 .. Len(s) : u[i] = s[i]
    BY <2>4, <2>6
  <2>8. u[Len(s) + 1] = c
    BY <2>2, <2>4, <2>6
  <2>9. \A i \in 1 .. Len(t) : u[Len(s) + 1 + i] = t[i]
    <3> TAKE i \in 1 .. Len(t)
    <3>1. Len(s) + 1 + i \in 1 .. Len(v) + Len(t) /\ ~(Len(s) + 1 + i <= Len(v)) /\ (Len(s) + 1 + i) - Len(v) = i
      BY <2>4
    <3> QED
      BY <2>6, <3>1
  <2> QED
    BY <2>4, <2>6, <2>7, <2>8, <2>9
<1>2. /\ q \in Seq(Nat) /\ Len(q) \in Nat
      /\ \A j \in 1 .. Len(q) : q[j] \in PieceHeads(s, c)
      /\ \A j, k \in 1 .. Len(q) : j < k => q[j] < q[k]
  BY LenProperties DEF InOrder
<1>3. /\ r \in Seq(Nat) /\ Len(r) = Len(q) + 1 /\ \A j \in 1 .. Len(q) : r[j] = q[j]
      /\ r[Len(q) + 1] = Len(s) + 2
  BY <1>1, <1>2, AppendProperties
<1>4. PieceHeads(u, c) = PieceHeads(s, c) \cup {Len(s) + 2}
  <2>1. ASSUME NEW x \in PieceHeads(u, c) PROVE x \in PieceHeads(s, c) \/ x = Len(s) + 2
    <3>1. x \in 1 .. Len(u) + 1 /\ (x = 1 \/ (x > 1 /\ u[x - 1] = c))
      BY DEF PieceHeads
    <3>2. CASE x <= Len(s) + 1
      <4>1. x \in 1 .. Len(s) + 1 /\ (x > 1 => x - 1 \in 1 .. Len(s))
        BY <1>1, <3>1, <3>2
      <4> QED
        BY <1>1, <3>1, <4>1 DEF PieceHeads
    <3>3. CASE x > Len(s) + 2
      <4>1. x - 2 - Len(s) \in 1 .. Len(t) /\ Len(s) + 1 + (x - 2 - Len(s)) = x - 1 /\ x > 1
        BY <1>1, <3>1, <3>3
      <4>2. u[x - 1] # c
        BY <1>1, <4>1
      <4> QED
        BY <1>1, <3>1, <4>1, <4>2
    <3> QED
      BY <1>1, <3>1, <3>2, <3>3
  <2>2. ASSUME NEW x \in PieceHeads(s, c) PROVE x \in PieceHeads(u, c)
    <3>1. x \in 1 .. Len(s) + 1 /\ (x = 1 \/ (x > 1 /\ s[x - 1] = c))
      BY DEF PieceHeads
    <3>2. x \in 1 .. Len(u) + 1 /\ (x > 1 => x - 1 \in 1 .. Len(s))
      BY <1>1, <3>1
    <3> QED
      BY <1>1, <3>1, <3>2 DEF PieceHeads
  <2>3. Len(s) + 2 \in PieceHeads(u, c)
    <3>1. Len(s) + 2 \in 1 .. Len(u) + 1 /\ Len(s) + 2 > 1 /\ (Len(s) + 2) - 1 = Len(s) + 1
      BY <1>1
    <3> QED
      BY <1>1, <3>1 DEF PieceHeads
  <2> QED
    BY <2>1, <2>2, <2>3
<1>5. InOrder(r, PieceHeads(u, c))
  <2>1. Len(s) + 2 \in Nat /\ \A y \in PieceHeads(s, c) : y < Len(s) + 2
    BY <1>1 DEF PieceHeads
  <2>2. InOrder(Append(q, Len(s) + 2), PieceHeads(s, c) \cup {Len(s) + 2})
    BY <2>1, OneMore
  <2> QED
    BY <1>4, <2>2
<1>6. ASSUME NEW k \in 1 .. Len(q) PROVE Piece(u, r, k) = Piece(s, q, k)
  <2>1. PICK x : x = q[k]
    OBVIOUS
  <2>2. PICK e : e = PieceEnd(q, k, Len(s) + 1)
    OBVIOUS
  <2>3. x \in 1 .. Len(s) + 1 /\ r[k] = x
    BY <1>2, <1>3, <2>1 DEF PieceHeads
  <2>4. e \in 1 .. Len(s) + 1 /\ PieceEnd(r, k, Len(u) + 1) = e
    <3>1. CASE k < Len(q)
      <4>1. k + 1 \in 1 .. Len(q) /\ k < k + 1 /\ k < Len(r)
        BY <1>2, <1>3, <3>1
      <4>2. q[k + 1] \in 1 .. Len(s) + 1 /\ x < q[k + 1] /\ r[k + 1] = q[k + 1]
        BY <1>2, <1>3, <2>1, <4>1 DEF PieceHeads
      <4> QED
        BY <1>1, <2>2, <2>3, <3>1, <4>1, <4>2 DEF PieceEnd
    <3>2. CASE k = Len(q)
      <4>1. ~(k < Len(q)) /\ k < Len(r) /\ r[k + 1] = Len(s) + 2
        BY <1>2, <1>3, <3>2
      <4> QED
        BY <1>1, <2>2, <4>1 DEF PieceEnd
    <3> QED
      BY <1>2, <3>1, <3>2
  <2>5. Piece(u, r, k) = SubSeq(u, x, e - 1) /\ Piece(s, q, k) = SubSeq(s, x, e - 1)
    BY <2>1, <2>2, <2>3, <2>4 DEF Piece
  <2>6. SubSeq(u, x, e - 1) = SubSeq(s, x, e - 1)
    <3>1. \A i \in x .. e - 1 : i \in 1 .. Len(s) /\ u[i] = s[i]
      BY <1>1, <2>3, <2>4
    <3>2. SubSeq(u, x, e - 1) = [i \in 1 .. e - 1 - x + 1 |-> u[i + x - 1]]
      BY <1>1, <2>3, <2>4
    <3>3. SubSeq(s, x, e - 1) = [i \in 1 .. e - 1 - x + 1 |-> s[i + x - 1]]
      BY <1>1, <2>3, <2>4
    <3>4. \A i \in 1 .. e - 1 - x + 1 : i + x - 1 \in x .. e - 1
      BY <2>3, <2>4
    <3> QED
      BY <3>1, <3>2, <3>3, <3>4
  <2> QED
    BY <2>5, <2>6
<1>7. Piece(u, r, Len(q) + 1) = t
  <2>1. PieceEnd(r, Len(q) + 1, Len(u) + 1) = Len(u) + 1
    BY <1>2, <1>3 DEF PieceEnd
  <2>2. Piece(u, r, Len(q) + 1) = SubSeq(u, Len(s) + 2, Len(u))
    <3>1. Piece(u, r, Len(q) + 1) = SubSeq(u, Len(s) + 2, (Len(u) + 1) - 1)
      BY <1>3, <2>1, Zenon DEF Piece
    <3>2. (Len(u) + 1) - 1 = Len(u)
      BY <1>1
    <3> QED
      BY <3>1, <3>2
  <2>3. PICK v : v = SubSeq(u, Len(s) + 2, Len(u))
    OBVIOUS
  <2>4. v \in Seq(Mark) /\ Len(v) = Len(t) /\ \A i \in 1 .. Len(t) : v[i] = u[Len(s) + 1 + i]
    <3>1. v = [i \in 1 .. Len(t) |-> u[Len(s) + 1 + i]]
      BY <1>1, <2>3
    <3>2. \A i \in 1 .. Len(t) : u[Len(s) + 1 + i] \in Mark
      BY <1>1, ElementOfSeq
    <3> QED
      BY <1>1, <3>1, <3>2
  <2>5. v = t
    <3>1. \A i \in 1 .. Len(v) : v[i] = t[i]
      BY <1>1, <2>4
    <3> QED
      BY <2>4, <3>1, SeqEqual
  <2> QED
    BY <2>2, <2>3, <2>5
<1> QED
  BY <1>1, <1>2, <1>3, <1>5, <1>6, <1>7 DEF Longer

(* The text a c v, and its two pieces.                                     *)
Two(s, a, c, v) == s = <<a, c>> \o v

InTwo(s, q, a, c, v) ==
  s \in Seq(Mark) /\ InOrder(q, PieceHeads(s, c)) /\ Piece(s, q, 1) = <<a>> /\ Piece(s, q, 2) = v

(* Two pieces, the first of them one character.                            *)
LEMMA TwoPieces ==
  ASSUME NEW a \in Mark, NEW c \in Mark, a # c, NEW v \in Seq(Mark), \A i \in 1 .. Len(v) : v[i] # c,
         NEW s, Two(s, a, c, v), NEW r, r = <<1, 3>>
  PROVE  InTwo(s, r, a, c, v)
<1>1. PICK d : d = <<a>>
  OBVIOUS
<1>2. PICK q : q = << 1 >>
  OBVIOUS
<1>3. d \in Seq(Mark) /\ Len(d) = 1 /\ d[1] = a /\ q \in Seq(Nat) /\ Len(q) = 1 /\ q[1] = 1
  BY <1>1, <1>2
<1>4. InOrder(q, PieceHeads(d, c)) /\ Piece(d, q, 1) = d
  <2>1. \A i \in 1 .. Len(d) : d[i] # c
    BY <1>3
  <2> QED
    BY <1>2, <1>3, <2>1, OnePiece
<1>5. r = Append(q, Len(d) + 2)
  BY <1>2, <1>3
<1>6. s = (d \o <<c>>) \o v
  BY <1>1 DEF Two
<1>7. /\ s \in Seq(Mark) /\ InOrder(r, PieceHeads(s, c))
      /\ Piece(s, r, 1) = d /\ Piece(s, r, 2) = v
  <2>1. Longer(s, r, d, q, v, c)
    BY <1>3, <1>4, <1>5, <1>6, PieceMore
  <2>2. 1 \in 1 .. Len(q) /\ Len(q) + 1 = 2 /\ Len(d) + 2 = 3
    BY <1>3
  <2> QED
    BY <1>3, <1>4, <2>1, <2>2 DEF Longer
<1> QED
  BY <1>1, <1>7 DEF InTwo

(* What a state of the parser is.                                          *)
LEMMA ParserIs ==
  ASSUME NEW s, s = [j \in Members |-> s[j]], s.buf \in Seq(Mark) PROVE IsParser(s)
<1>1. s \in [Members -> { s[j] : j \in Members }]
  OBVIOUS
<1> QED
  BY <1>1 DEF IsParser

(* What the parser has when it has put an end to the line s.               *)
LineOf(st, s) == [st EXCEPT !.buf = Ended(st.buf, st.cur, s)]

Next_(st, s) == st.cur + Len(s) + 2

Lined(st, cut, raw, s) ==
  /\ IsParser(cut) /\ cut.buf = Ended(st.buf, st.cur, s) /\ \A k \in Members \ {"buf"} : cut[k] = st[k]
  /\ Holds(cut.buf, st.cur, s) /\ Memory(cut.buf, raw, Next_(st, s))
  /\ Cuts(st.buf, cut.buf, st.cur, Next_(st, s))
  /\ cut.buf \in Seq(Mark) /\ Len(cut.buf) = Len(st.buf)
  /\ st.cur + Len(s) \in 1 .. Len(cut.buf) /\ cut.buf[st.cur + Len(s)] = NUL
  /\ st.cur \in Nat \ {0} /\ Len(s) \in Nat /\ Next_(st, s) \in Nat

(* The line of a parser in the header is so.                               *)
LEMMA LineOfMembers ==
  ASSUME NEW raw \in Seq(Sign), NEW st, NEW s, Reading(st, raw, s)
  PROVE  Lined(st, LineOf(st, s), raw, s)
<1>1. IsParser(st) /\ Memory(st.buf, raw, st.cur) /\ LineAt(raw, st.cur, s)
  BY DEF Reading
<1>2. PICK b : b = Ended(st.buf, st.cur, s)
  OBVIOUS
<1>3. PICK p : p = st.cur
  OBVIOUS
<1>4. PICK z : z = p + Len(s)
  OBVIOUS
<1>5. /\ StringAt(b, p, z) /\ CStr(b, p) = s
      /\ \A i \in 1 .. Len(s) : b[p + i - 1] = s[i]
      /\ Memory(b, raw, z + 2) /\ Cuts(st.buf, b, p, z + 2) /\ z \in 1 .. Len(b) /\ z \in Nat
      /\ Len(b) = Len(st.buf) /\ b[z] = NUL
  BY <1>1, <1>2, <1>3, <1>4, LineString
<1>6. b \in Seq(Mark) /\ s \in Seq(Mark) /\ p \in Nat \ {0} /\ Len(s) \in Nat
  <2>1. s \in Seq(Inline) /\ p \in Nat \ {0}
    BY <1>1, <1>3 DEF LineAt
  <2>2. Inline \subseteq Mark
    BY DEF Inline, Mark
  <2>3. s \in Seq(Mark)
    BY <2>1, <2>2, SeqMonotonic
  <2> QED
    BY <1>5, <2>1, <2>3, LenProperties DEF Memory
<1>7. PICK cut : cut = LineOf(st, s)
  OBVIOUS
<1>8. IsParser(cut) /\ \A k \in Members : cut[k] = IF k = "buf" THEN b ELSE st[k]
  <2>1. DOMAIN st = Members /\ "buf" \in Members
    BY <1>1 DEF IsParser, Members
  <2>2. cut = [st EXCEPT !.buf = b]
    BY <1>2, <1>7 DEF LineOf
  <2>3. cut = [k \in Members |-> cut[k]] /\ \A k \in Members : cut[k] = IF k = "buf" THEN b ELSE st[k]
    BY <2>1, <2>2
  <2>4. cut.buf \in Seq(Mark)
    BY <1>6, <2>1, <2>3
  <2> QED
    BY <2>3, <2>4, ParserIs
<1>9. cut.buf = b /\ \A k \in Members \ {"buf"} : cut[k] = st[k]
  BY <1>8 DEF Members
<1>10. Holds(b, p, s)
  BY <1>4, <1>5, <1>6 DEF Holds
<1>11. Next_(st, s) = z + 2 /\ z + 2 \in Nat
  BY <1>3, <1>4, <1>5, <1>6 DEF Next_
<1> QED
  BY <1>2, <1>3, <1>4, <1>5, <1>6, <1>7, <1>8, <1>9, <1>10, <1>11 DEF Lined

(* One line is read.                                                       *)
LEMMA NextLineIs ==
  ASSUME NEW raw \in Seq(Sign), NEW st, NEW s, Reading(st, raw, s)
  PROVE  NextLine(st) =
           IF s = <<>> THEN [LineOf(st, s) EXCEPT !.content = TRUE, !.cur = Next_(st, s)]
           ELSE [(IF st.cur = 1 THEN RequestLine(LineOf(st, s)) ELSE HeaderLine(LineOf(st, s)))
                   EXCEPT !.cur = Next_(st, s)]
<1>1. IsParser(st) /\ Memory(st.buf, raw, st.cur) /\ LineAt(raw, st.cur, s) /\ st.ok /\ ~st.content
  BY DEF Reading
<1>2. LineEnds(st.buf, st.cur) # {} /\ Min(LineEnds(st.buf, st.cur)) = st.cur + Len(s) + 1
  BY <1>1, LineFound
<1>3. PICK cut : cut = LineOf(st, s)
  OBVIOUS
<1>4. /\ Holds(cut.buf, st.cur, s) /\ st.cur \in Nat \ {0} /\ Len(s) \in Nat
      /\ \A k \in Members \ {"buf"} : cut[k] = st[k]
  BY <1>3, LineOfMembers DEF Lined
<1>5. NextLine(st) = Line(cut, Next_(st, s))
  <2>1. NextLine(st) = LineEnd(st, st.cur + Len(s) + 1)
    BY <1>1, <1>2 DEF NextLine
  <2>2. (st.cur + Len(s) + 1) - 1 = st.cur + Len(s) /\ (st.cur + Len(s) + 1) + 1 = Next_(st, s)
    BY <1>4 DEF Next_
  <2>3. LineEnd(st, st.cur + Len(s) + 1) =
         Line([st EXCEPT !.buf = Zeroed(st.buf, st.cur + Len(s), st.cur + Len(s) + 1)], Next_(st, s))
    BY <2>2 DEF LineEnd
  <2> QED
    BY <1>3, <2>1, <2>3 DEF LineOf, Ended
<1>6. cut.cur = st.cur
  BY <1>4 DEF Members
<1>7. cut.buf[st.cur] = NUL <=> s = <<>>
  <2>1. CASE s = <<>>
    <3>1. st.cur + Len(s) = st.cur
      BY <1>4, <2>1
    <3> QED
      BY <2>1, <1>4, <3>1 DEF Holds, StringAt
  <2>2. CASE s # <<>>
    <3>1. Len(s) > 0 /\ st.cur \in st.cur .. st.cur + Len(s) - 1
      <4>1. s \in Seq(Mark)
        BY <1>4 DEF Holds
      <4>2. Len(s) # 0
        BY <2>2, <4>1, EmptySeq
      <4> QED
        BY <1>4, <4>2
    <3> QED
      BY <1>4, <2>2, <3>1 DEF Holds, StringAt
  <2> QED
    BY <2>1, <2>2
<1> QED
  BY <1>3, <1>5, <1>6, <1>7 DEF Line

(* What a line of the header leaves behind.                                *)
Stepped(st, new, raw, s) ==
  /\ IsParser(new) /\ new.cur = Next_(st, s)
  /\ Memory(new.buf, raw, new.cur) /\ Cuts(st.buf, new.buf, st.cur, new.cur)

Kept(st, new, changed) == \A k \in Members \ (changed \cup {"buf", "cur"}) : new[k] = st[k]

(* Whatever is cut in the line itself, the parser goes on behind it.       *)
LEMMA GoOn ==
  ASSUME NEW raw \in Seq(Sign), NEW st, NEW s, Reading(st, raw, s),
         NEW m, IsParser(m), Cuts(LineOf(st, s).buf, m.buf, st.cur, st.cur + Len(s)),
         NEW new, new = [m EXCEPT !.cur = Next_(st, s)]
  PROVE  Stepped(st, new, raw, s) /\ new.buf = m.buf /\ \A k \in Members \ {"cur"} : new[k] = m[k]
<1>1. PICK b : b = LineOf(st, s).buf
  OBVIOUS
<1>2. PICK p : p = st.cur
  OBVIOUS
<1>3. PICK x : x = Next_(st, s)
  OBVIOUS
<1>4. /\ Memory(b, raw, x) /\ Cuts(st.buf, b, p, x) /\ b \in Seq(Mark) /\ Len(b) = Len(st.buf)
      /\ p + Len(s) \in 1 .. Len(b) /\ p \in Nat \ {0} /\ Len(s) \in Nat /\ x \in Nat
  BY <1>1, <1>2, <1>3, LineOfMembers DEF Lined
<1>5. x = p + Len(s) + 2
  BY <1>2, <1>3 DEF Next_
<1>6. DOMAIN m = Members /\ m = [k \in Members |-> m[k]] /\ "cur" \in Members /\ "buf" \in Members
  BY DEF IsParser, Members
<1>7. new = [k \in Members |-> new[k]] /\ \A k \in Members : new[k] = IF k = "cur" THEN x ELSE m[k]
  BY <1>3, <1>6
<1>8. new.buf = m.buf /\ new.cur = x /\ \A k \in Members \ {"cur"} : new[k] = m[k]
  BY <1>6, <1>7
<1>9. IsParser(new)
  <2>1. new.buf \in Seq(Mark)
    BY <1>8 DEF IsParser
  <2> QED
    BY <1>7, <2>1, ParserIs
<1>10. Cuts(b, m.buf, p, p + Len(s))
  BY <1>1, <1>2
<1>11. Cuts(st.buf, m.buf, p, x)
  <2>1. Len(st.buf) \in Nat /\ p \in Int /\ x \in Int /\ p + Len(s) \in Int /\ p <= p /\ p + Len(s) <= x
    BY <1>4, <1>5, LenProperties
  <2> QED
    BY <1>4, <1>10, <2>1, CutsMore
<1>12. Memory(m.buf, raw, x)
  <2>1. /\ b \in Seq(Mark) /\ Len(b) = Len(raw) + 1 /\ b[Len(raw) + 1] = NUL
        /\ \A i \in x .. Len(raw) : b[i] = raw[i]
    BY <1>4 DEF Memory
  <2>2. /\ m.buf \in Seq(Mark) /\ Len(m.buf) = Len(b)
        /\ \A i \in 1 .. Len(b) : m.buf[i] = b[i] \/ (i \in p .. (p + Len(s)) - 1 /\ m.buf[i] = NUL)
    BY <1>10, Zenon DEF Cuts
  <2>3. Len(raw) \in Nat
    BY LenProperties
  <2>4. m.buf[Len(raw) + 1] = NUL
    BY <2>1, <2>2, <2>3
  <2>5. \A i \in x .. Len(raw) : m.buf[i] = raw[i]
    <3> TAKE i \in x .. Len(raw)
    <3>1. i \in 1 .. Len(b) /\ ~(i \in p .. (p + Len(s)) - 1)
      BY <1>4, <1>5, <2>1, <2>3
    <3> QED
      BY <2>1, <2>2, <3>1
  <2> QED
    BY <2>1, <2>2, <2>4, <2>5 DEF Memory
<1>13. Stepped(st, new, raw, s)
  BY <1>2, <1>3, <1>8, <1>9, <1>11, <1>12 DEF Stepped
<1> QED
  BY <1>8, <1>13

(* The line leads to what HeaderWords makes of the words at at.            *)
Leads(st, s, m, at) == NextLine(st) = [HeaderWords(m, at) EXCEPT !.cur = Next_(st, s)]

(* A line of the header, cut into its words, which begin at q.             *)
Words_(st, s, q, m, at) ==
  /\ IsParser(m) /\ \A k \in Members \ {"buf"} : m[k] = st[k]
  /\ Cuts(LineOf(st, s).buf, m.buf, st.cur, st.cur + Len(s))
  /\ Len(at) = Len(q) /\ at \in Seq(Nat)
  /\ \A k \in 1 .. Len(q) : /\ at[k] = st.cur + q[k] - 1 /\ at[k] \in st.cur .. st.cur + Len(s)
                            /\ Holds(m.buf, at[k], Piece(s, q, k)) /\ CStr(m.buf, at[k]) = Piece(s, q, k)
  /\ Leads(st, s, m, at)

(* Every line of the header is cut so.                                     *)
LEMMA LineWords ==
  ASSUME NEW raw \in Seq(Sign), NEW st, NEW s, Reading(st, raw, s), st.cur # 1, s # <<>>,
         NEW q, InOrder(q, PieceHeads(s, Blank))
  PROVE  \E m, at : Words_(st, s, q, m, at)
<1>1. PICK cut : cut = LineOf(st, s)
  OBVIOUS
<1>2. PICK p : p = st.cur
  OBVIOUS
<1>3. /\ IsParser(cut) /\ \A k \in Members \ {"buf"} : cut[k] = st[k]
      /\ Holds(cut.buf, p, s) /\ cut.buf \in Seq(Mark)
  <2>1. Lined(st, cut, raw, s)
    BY <1>1, LineOfMembers
  <2> QED
    BY <1>2, <2>1 DEF Lined
<1>4. PICK w : w = Split(cut.buf, p, <<Blank>>)
  OBVIOUS
<1>5. /\ w.buf \in Seq(Mark)
      /\ Cuts(cut.buf, w.buf, p, p + Len(s))
      /\ w.at \in Seq(Nat) /\ Len(w.at) = Len(q)
      /\ \A k \in 1 .. Len(q) : /\ w.at[k] = p + q[k] - 1 /\ w.at[k] \in p .. p + Len(s)
                                /\ Holds(w.buf, w.at[k], Piece(s, q, k))
  <2>1. CutAt(cut.buf, w, p, s, q, Blank)
    BY <1>3, <1>4, StringPieces
  <2> QED
    BY <2>1 DEF CutAt
<1>6. PICK m : m = [cut EXCEPT !.buf = w.buf]
  OBVIOUS
<1>7. DOMAIN cut = Members /\ "buf" \in Members /\ "cur" \in Members
  BY <1>3 DEF IsParser, Members
<1>8. m = [k \in Members |-> m[k]] /\ \A k \in Members : m[k] = IF k = "buf" THEN w.buf ELSE cut[k]
  BY <1>6, <1>7
<1>9. m.buf = w.buf /\ \A k \in Members \ {"buf"} : m[k] = st[k]
  BY <1>3, <1>7, <1>8
<1>10. IsParser(m)
  <2>1. m.buf \in Seq(Mark)
    BY <1>5, <1>9
  <2> QED
    BY <1>8, <2>1, ParserIs
<1>11. Leads(st, s, m, w.at)
  <2>1. NextLine(st) = [HeaderLine(cut) EXCEPT !.cur = Next_(st, s)]
    BY <1>1, NextLineIs
  <2>2. cut.cur = p
    BY <1>2, <1>3, <1>7
  <2>3. HeaderLine(cut) = HeaderWords(m, w.at)
    <3>1. HeaderLine(cut) = CutLine(cut, w)
      BY <1>4, <2>2, Zenon DEF HeaderLine, Blank
    <3> QED
      BY <1>6, <3>1, Zenon DEF CutLine
  <2> QED
    BY <2>1, <2>3 DEF Leads
<1>12. \A k \in 1 .. Len(q) : CStr(m.buf, w.at[k]) = Piece(s, q, k)
  BY <1>5, <1>9, StringIs
<1>13. Words_(st, s, q, m, w.at)
  BY <1>1, <1>2, <1>5, <1>9, <1>10, <1>11, <1>12 DEF Words_
<1> QED
  BY <1>13

(* A text with a NUL behind it is a string.                                *)
LEMMA TextHolds ==
  ASSUME NEW v \in Seq(Mark), \A i \in 1 .. Len(v) : v[i] # NUL
  PROVE  Append(v, NUL) \in Seq(Mark) /\ Holds(Append(v, NUL), 1, v)
<1>1. PICK b : b = Append(v, NUL)
  OBVIOUS
<1>2. NUL \in Mark
  BY DEF Mark
<1>3. /\ b \in Seq(Mark) /\ Len(b) = Len(v) + 1 /\ Len(v) \in Nat
      /\ \A i \in 1 .. Len(v) : b[i] = v[i]
      /\ b[Len(v) + 1] = NUL
  BY <1>1, <1>2, AppendProperties, LenProperties
<1>4. 1 + Len(v) = Len(v) + 1 /\ \A i \in 1 .. Len(v) : 1 + i - 1 = i
  BY <1>3
<1>5. StringAt(b, 1, 1 + Len(v))
  <2>1. \A i \in 1 .. (1 + Len(v)) - 1 : i \in 1 .. Len(v)
    BY <1>3
  <2> QED
    BY <1>3, <1>4, <2>1 DEF StringAt
<1>6. Holds(b, 1, v)
  BY <1>3, <1>4, <1>5 DEF Holds
<1> QED
  BY <1>1, <1>3, <1>6

(* The first piece of a string is what comes before the first delimiter.   *)
LEMMA StringsFirst ==
  ASSUME NEW v \in Seq(Mark), v # <<>>, \A i \in 1 .. Len(v) : v[i] # NUL, NEW c
  PROVE  Strings(v, <<c>>)[1] = Until(v, c)
<1>1. PICK b : b = Append(v, NUL)
  OBVIOUS
<1>2. b \in Seq(Mark) /\ Holds(b, 1, v)
  BY <1>1, TextHolds
<1>3. PICK w : w = Split(b, 1, <<c>>)
  OBVIOUS
<1>4. PICK z : z = 1 + Len(v)
  OBVIOUS
<1>5. StringAt(b, 1, z) /\ CStr(b, 1) = v /\ NUL \in Mark
  BY <1>2, <1>4, StringIs DEF Holds, Mark
<1>6. InOrder(w.at, Heads(b, 1, z, c)) /\ w.buf = Cleared(b, 1, z, c)
  BY <1>2, <1>3, <1>5, SplitAtOne
<1>7. Len(w.at) > 0 /\ w.at[1] = 1 /\ CStr(w.buf, 1) = Until(v, c)
  BY <1>2, <1>5, <1>6, FirstPiece
<1>8. w.at \in Seq(Nat) /\ 1 \in DOMAIN w.at
  BY <1>6, <1>7, LenProperties DEF InOrder
<1>9. Strings(v, <<c>>) = [i \in DOMAIN w.at |-> CStr(w.buf, w.at[i])]
  BY <1>1, <1>3, Zenon DEF Strings, Pieces
<1> QED
  BY <1>7, <1>8, <1>9

(* A blank is a letter.                                                    *)
LEMMA BlankIs == Blank \in Letter /\ Blank \in Inline
<1>1. " " \in Letter
  BY Zenon DEF Letter, Words, CR, LF, Length
<1>2. " " # CR /\ " " # LF /\ " " # NUL
  BY Zenon DEF CR, LF, NUL
<1> QED
  BY <1>1, <1>2, Zenon DEF Blank, Inline, Sign

(* A line of two words, a and v.                                           *)
LEMMA TwoWords ==
  ASSUME NEW raw \in Seq(Sign), NEW st, NEW s, Reading(st, raw, s), st.cur # 1,
         NEW a \in Inline \ {Blank}, NEW v \in Seq(Inline \ {Blank}), Two(s, a, Blank, v),
         NEW q, q = <<1, 3>>
  PROVE  \E m, at : /\ Words_(st, s, q, m, at)
                    /\ Len(at) = 2 /\ at[1] = st.cur /\ at[2] = st.cur + 2
                    /\ CStr(m.buf, at[1]) = <<a>> /\ CStr(m.buf, at[2]) = v /\ Holds(m.buf, at[2], v)
<1>1. Blank \in Mark /\ a \in Mark /\ v \in Seq(Mark) /\ (\A i \in 1 .. Len(v) : v[i] # Blank) /\ a # Blank
  <2>1. Blank \in Mark /\ Inline \ {Blank} \subseteq Mark
    BY BlankIs DEF Mark, Inline
  <2>2. v \in Seq(Mark)
    BY <2>1, SeqMonotonic
  <2>3. \A i \in 1 .. Len(v) : v[i] \in Inline \ {Blank}
    BY ElementOfSeq
  <2> QED
    BY <2>1, <2>2, <2>3
<1>3. q \in Seq(Nat) /\ Len(q) = 2 /\ q[1] = 1 /\ q[2] = 3
  OBVIOUS
<1>4. InOrder(q, PieceHeads(s, Blank)) /\ Piece(s, q, 1) = <<a>> /\ Piece(s, q, 2) = v
  BY <1>1, TwoPieces DEF InTwo
<1>5. s # <<>>
  <2>1. <<a, Blank>> \in Seq(Mark) /\ <<a, Blank>> # <<>>
    BY <1>1
  <2> QED
    BY <1>1, <2>1, ConcatEqualIffEmpty DEF Two
<1>6. PICK m, at : Words_(st, s, q, m, at)
  BY <1>4, <1>5, LineWords
<1>7. 1 \in 1 .. Len(q) /\ 2 \in 1 .. Len(q) /\ st.cur \in Nat
  BY <1>3 DEF Reading, LineAt
<1>8. /\ Len(at) = 2 /\ at[1] = st.cur /\ at[2] = st.cur + 2
      /\ CStr(m.buf, at[1]) = <<a>> /\ CStr(m.buf, at[2]) = v /\ Holds(m.buf, at[2], v)
  BY <1>3, <1>4, <1>6, <1>7 DEF Words_
<1> QED
  BY <1>6, <1>8

(* What the words at at make of the parser, h, is what the line does.      *)
LEMMA WordsTo ==
  ASSUME NEW raw \in Seq(Sign), NEW st, NEW s, Reading(st, raw, s), NEW q, NEW m, NEW at, Words_(st, s, q, m, at),
         NEW h, h = HeaderWords(m, at), IsParser(h), Cuts(m.buf, h.buf, st.cur, st.cur + Len(s)),
         NEW new, new = NextLine(st)
  PROVE  Stepped(st, new, raw, s) /\ \A k \in Members \ {"cur"} : new[k] = h[k]
<1>1. PICK b : b = LineOf(st, s).buf
  OBVIOUS
<1>2. Cuts(b, m.buf, st.cur, st.cur + Len(s)) /\ Leads(st, s, m, at)
  BY <1>1 DEF Words_
<1>3. Len(b) \in Nat /\ st.cur \in Int /\ st.cur + Len(s) \in Int
  <2>1. Lined(st, LineOf(st, s), raw, s)
    BY LineOfMembers
  <2>2. b \in Seq(Mark) /\ st.cur \in Nat /\ Len(s) \in Nat
    BY <1>1, <2>1 DEF Lined
  <2> QED
    BY <2>2, LenProperties
<1>4. Cuts(b, h.buf, st.cur, st.cur + Len(s))
  BY <1>2, <1>3, CutsMore
<1>5. new = [h EXCEPT !.cur = Next_(st, s)]
  BY <1>2, Zenon DEF Leads
<1>6. PICK new_ : new_ = [h EXCEPT !.cur = Next_(st, s)]
  OBVIOUS
<1>7. Stepped(st, new_, raw, s) /\ \A k \in Members \ {"cur"} : new_[k] = h[k]
  BY <1>1, <1>4, <1>6, GoOn
<1> QED
  BY <1>5, <1>6, <1>7, Zenon

(* A member of the parser that changes.                                    *)
Put(m, k, v, h) == h = [m EXCEPT ![k] = v]

(* Nothing else changes with it.                                           *)
LEMMA Changed ==
  ASSUME NEW m, IsParser(m), NEW k \in Members \ {"buf"}, NEW v, NEW h, Put(m, k, v, h)
  PROVE  IsParser(h) /\ h[k] = v /\ (\A j \in Members \ {k} : h[j] = m[j]) /\ h.buf = m.buf
<1>1. DOMAIN m = Members /\ m = [j \in Members |-> m[j]] /\ m.buf \in Seq(Mark) /\ "buf" \in Members
  BY DEF IsParser, Members
<1>2. h = [j \in Members |-> h[j]] /\ \A j \in Members : h[j] = IF j = k THEN v ELSE m[j]
  BY <1>1 DEF Put
<1>3. h.buf = m.buf
  BY <1>1, <1>2
<1>4. IsParser(h)
  BY <1>1, <1>2, <1>3, ParserIs
<1> QED
  BY <1>2, <1>3, <1>4

(* What a line changes at most.                                            *)
Changes(st, new, raw, s, changed) == Stepped(st, new, raw, s) /\ Kept(st, new, changed)

Turns(st, new, raw, s, m, k, v) == Changes(st, new, raw, s, {k}) /\ new[k] = v /\ new.buf = m.buf

(* A line changes one member of the parser, if what its words make of it   *)
(* is just that.                                                           *)
LEMMA OneChange ==
  ASSUME NEW raw \in Seq(Sign), NEW st, NEW s, Reading(st, raw, s), NEW q, NEW m, NEW at, Words_(st, s, q, m, at),
         NEW k \in Members \ {"buf", "cur"}, NEW v, NEW h, Put(m, k, v, h), h = HeaderWords(m, at),
         NEW new, new = NextLine(st)
  PROVE  Turns(st, new, raw, s, m, k, v)
<1>2. IsParser(m) /\ \A j \in Members \ {"buf"} : m[j] = st[j]
  BY DEF Words_
<1>3. IsParser(h) /\ h[k] = v /\ (\A j \in Members \ {k} : h[j] = m[j]) /\ h.buf = m.buf
  BY <1>2, Changed
<1>4. Cuts(m.buf, h.buf, st.cur, st.cur + Len(s))
  BY <1>2, <1>3, CutsNone DEF IsParser
<1>6. Stepped(st, new, raw, s) /\ \A j \in Members \ {"cur"} : new[j] = h[j]
  BY <1>2, <1>3, <1>4, WordsTo
<1>7. Kept(st, new, {k})
  BY <1>2, <1>3, <1>6 DEF Kept
<1>8. new.buf = m.buf /\ new[k] = v
  BY <1>3, <1>6 DEF Members
<1> QED
  BY <1>6, <1>7, <1>8 DEF Changes, Turns

(* The line with the Host.                                                 *)
LEMMA HostLine ==
  ASSUME NEW raw \in Seq(Sign), NEW st, NEW s, Reading(st, raw, s), st.cur # 1,
         NEW v \in Seq(Inline \ {Blank}), v # <<>>, Two(s, "host:", Blank, v), NEW new, new = NextLine(st)
  PROVE  Changes(st, new, raw, s, {"Host"}) /\ new.Host = Until(v, ":")
<1>1. "host:" \in Inline \ {Blank}
  <2>1. "host:" \in Letter
    BY Zenon DEF Letter, Words, CR, LF, Length
  <2>2. "host:" # CR /\ "host:" # LF /\ "host:" # NUL
    BY Zenon DEF CR, LF, NUL
  <2>3. "host:" # " "
    BY Zenon
  <2> QED
    BY <2>1, <2>2, <2>3, Zenon DEF Inline, Sign, Blank
<1>2. PICK q : q = <<1, 3>>
  OBVIOUS
<1>3. PICK m, at : /\ Words_(st, s, q, m, at)
                   /\ Len(at) = 2 /\ at[1] = st.cur /\ at[2] = st.cur + 2
                   /\ CStr(m.buf, at[1]) = <<"host:">> /\ CStr(m.buf, at[2]) = v /\ Holds(m.buf, at[2], v)
  BY <1>1, <1>2, TwoWords
<1>4. PICK h : h = HeaderWords(m, at)
  OBVIOUS
<1>5. Strings(v, <<":">>)[1] = Until(v, ":")
  <2>1. v \in Seq(Mark) /\ \A i \in 1 .. Len(v) : v[i] # NUL
    <3>1. Inline \ {Blank} \subseteq Mark
      BY DEF Inline, Mark
    <3>2. \A i \in 1 .. Len(v) : v[i] \in Inline
      BY ElementOfSeq
    <3> QED
      BY <3>1, <3>2, SeqMonotonic DEF Inline
  <2> QED
    BY <2>1, StringsFirst
<1>6. "Host" \in Members \ {"buf", "cur"}
  BY DEF Members
<1>7. Put(m, "Host", Until(v, ":"), h)
  <2>1. Len(at) > 1
    BY <1>3
  <2>2. h = [m EXCEPT !.Host = Strings(CStr(m.buf, at[2]), <<":">>)[1]]
    BY <1>3, <1>4, <2>1, HostWords, Zenon
  <2> QED
    BY <1>3, <1>5, <2>2, Zenon DEF Put
<1>8. PICK u : u = Until(v, ":")
  OBVIOUS
<1>9. PICK k : k = "Host"
  OBVIOUS
<1>10. Turns(st, new, raw, s, m, k, u)
  <2>1. k \in Members \ {"buf", "cur"} /\ Put(m, k, u, h)
    BY <1>6, <1>7, <1>8, <1>9
  <2>2. Words_(st, s, q, m, at)
    BY <1>3
  <2> QED
    BY <1>4, <2>1, <2>2, OneChange
<1> QED
  BY <1>8, <1>9, <1>10 DEF Turns

(* The names of header lines are words.                                    *)
Label == {"host:", "upgrade:", "sec-websocket-key:", "content-type:", "cookie:", "websocket",
          "connection:", "close", "multipart/form-data;", "boundary=", "B", "C", "POST", "GET", "HTTP/1.1", "?", "="}

(* They may stand in a line, and have no blanks in them.                   *)
LEMMA LabelInline == Label \subseteq Inline \ {Blank}
<1>1. \A w \in Label : w \in Letter
  BY DEF Label, Letter, Words, CR, LF, Length
<1>2. \A w \in Label : w # CR /\ w # LF /\ w # NUL
  BY DEF Label, CR, LF, NUL
<1>3. \A w \in Label : w # " "
  BY Zenon DEF Label
<1> QED
  BY <1>1, <1>2, <1>3, Zenon DEF Inline, Sign, Blank

(* The line by which a client says that it will close.                     *)
LEMMA ClosingLine ==
  ASSUME NEW raw \in Seq(Sign), NEW st, NEW s, Reading(st, raw, s), st.cur # 1,
         NEW v, v = <<"close">>, Two(s, "connection:", Blank, v), NEW new, new = NextLine(st)
  PROVE  Changes(st, new, raw, s, {})
<1>1. "connection:" \in Inline \ {Blank} /\ "close" \in Inline \ {Blank}
  BY LabelInline DEF Label
<1>2. PICK q : q = << 1, 3 >>
  OBVIOUS
<1>3. PICK m, at : /\ Words_(st, s, q, m, at)
                   /\ Len(at) = 2 /\ at[1] = st.cur /\ at[2] = st.cur + 2
                   /\ CStr(m.buf, at[1]) = <<"connection:">> /\ CStr(m.buf, at[2]) = v /\ Holds(m.buf, at[2], v)
  <2>1. v \in Seq(Inline \ {Blank})
    BY <1>1
  <2> QED
    BY <1>1, <1>2, <2>1, TwoWords
<1>4. m = HeaderWords(m, at)
  <2>1. Len(at) > 1
    BY <1>3
  <2> QED
    BY <1>3, <2>1, ClosingWords, Zenon
<1>5. IsParser(m) /\ \A k \in Members \ {"buf"} : m[k] = st[k]
  BY <1>3 DEF Words_
<1>6. Cuts(m.buf, m.buf, st.cur, st.cur + Len(s))
  BY <1>5, CutsNone DEF IsParser
<1>7. Stepped(st, new, raw, s) /\ \A k \in Members \ {"cur"} : new[k] = m[k]
  BY <1>3, <1>4, <1>5, <1>6, WordsTo
<1> QED
  BY <1>5, <1>7 DEF Changes, Kept

(* The line of an upgrade.                                                 *)
LEMMA UpgradeLine ==
  ASSUME NEW raw \in Seq(Sign), NEW st, NEW s, Reading(st, raw, s), st.cur # 1,
         NEW v, v = <<"websocket">>, Two(s, "upgrade:", Blank, v), NEW new, new = NextLine(st)
  PROVE  Changes(st, new, raw, s, {"Upgrade"}) /\ new.Upgrade = TRUE
<1>1. "upgrade:" \in Inline \ {Blank} /\ "websocket" \in Inline \ {Blank}
  BY LabelInline DEF Label
<1>2. PICK q : q = <<1, 3>>
  OBVIOUS
<1>3. PICK m, at : /\ Words_(st, s, q, m, at)
                   /\ Len(at) = 2 /\ at[1] = st.cur /\ at[2] = st.cur + 2
                   /\ CStr(m.buf, at[1]) = <<"upgrade:">> /\ CStr(m.buf, at[2]) = v /\ Holds(m.buf, at[2], v)
  <2>1. v \in Seq(Inline \ {Blank})
    BY <1>1
  <2> QED
    BY <1>1, <1>2, <2>1, TwoWords
<1>4. PICK h : h = HeaderWords(m, at)
  OBVIOUS
<1>5. icompare(CStr(m.buf, at[2]), <<"websocket">>)
  BY <1>3, CompareOne
<1>6. "Upgrade" \in Members \ {"buf", "cur"}
  BY DEF Members
<1>7. Put(m, "Upgrade", TRUE, h)
  <2>1. Len(at) > 1
    BY <1>3
  <2>2. h = [m EXCEPT !.Upgrade = @ \/ icompare(CStr(m.buf, at[2]), <<"websocket">>)]
    BY <1>3, <1>4, <2>1, UpgradeWords, Zenon
  <2>3. (m.Upgrade \/ icompare(CStr(m.buf, at[2]), <<"websocket">>)) = TRUE
    BY <1>5
  <2> QED
    BY <2>2, <2>3, Zenon DEF Put
<1>8. PICK k, u : k = "Upgrade" /\ u = TRUE
  OBVIOUS
<1>9. Turns(st, new, raw, s, m, k, u)
  <2>1. k \in Members \ {"buf", "cur"} /\ Put(m, k, u, h)
    BY <1>6, <1>7, <1>8
  <2>2. Words_(st, s, q, m, at)
    BY <1>3
  <2> QED
    BY <1>4, <2>1, <2>2, OneChange
<1> QED
  BY <1>8, <1>9 DEF Turns

(* The line with the key, which is where Key points.                       *)
LEMMA KeyLine ==
  ASSUME NEW raw \in Seq(Sign), NEW st, NEW s, Reading(st, raw, s), st.cur # 1,
         NEW v \in Seq(Inline \ {Blank}), Two(s, "sec-websocket-key:", Blank, v), NEW new, new = NextLine(st)
  PROVE  Changes(st, new, raw, s, {"Key"}) /\ Holds(new.buf, new.Key, v) /\ new.Key = st.cur + 2
<1>1. "sec-websocket-key:" \in Inline \ {Blank}
  BY LabelInline DEF Label
<1>2. PICK q : q = <<1, 3>>
  OBVIOUS
<1>3. PICK m, at : /\ Words_(st, s, q, m, at)
                   /\ Len(at) = 2 /\ at[1] = st.cur /\ at[2] = st.cur + 2
                   /\ CStr(m.buf, at[1]) = <<"sec-websocket-key:">> /\ CStr(m.buf, at[2]) = v /\ Holds(m.buf, at[2], v)
  BY <1>1, <1>2, TwoWords
<1>4. PICK h : h = HeaderWords(m, at)
  OBVIOUS
<1>6. "Key" \in Members \ {"buf", "cur"}
  BY DEF Members
<1>7. Put(m, "Key", at[2], h)
  <2>1. Len(at) > 1
    BY <1>3
  <2>2. h = [m EXCEPT !.Key = at[2]]
    BY <1>3, <1>4, <2>1, KeyWords, Zenon
  <2> QED
    BY <2>2, Zenon DEF Put
<1>8. PICK k, u : k = "Key" /\ u = at[2]
  OBVIOUS
<1>9. Turns(st, new, raw, s, m, k, u)
  <2>1. k \in Members \ {"buf", "cur"} /\ Put(m, k, u, h)
    BY <1>6, <1>7, <1>8
  <2>2. Words_(st, s, q, m, at)
    BY <1>3
  <2> QED
    BY <1>4, <2>1, <2>2, OneChange
<1> QED
  BY <1>3, <1>8, <1>9 DEF Turns

(* A line of one word says nothing.                                        *)
LEMMA PlainLine ==
  ASSUME NEW raw \in Seq(Sign), NEW st, NEW s, Reading(st, raw, s), st.cur # 1, s # <<>>,
         \A i \in 1 .. Len(s) : s[i] # Blank, NEW new, new = NextLine(st)
  PROVE  Changes(st, new, raw, s, {})
<1>1. PICK q : q = << 1 >>
  OBVIOUS
<1>2. s \in Seq(Mark) /\ q \in Seq(Nat) /\ Len(q) = 1
  <2>1. s \in Seq(Inline) /\ Inline \subseteq Mark
    BY DEF Reading, LineAt, Inline, Mark
  <2> QED
    BY <1>1, <2>1, SeqMonotonic
<1>3. InOrder(q, PieceHeads(s, Blank))
  BY <1>1, <1>2, OnePiece
<1>4. PICK m, at : Words_(st, s, q, m, at)
  BY <1>3, LineWords
<1>5. /\ Len(at) = 1 /\ IsParser(m) /\ \A k \in Members \ {"buf"} : m[k] = st[k]
  BY <1>2, <1>4 DEF Words_
<1>6. m = HeaderWords(m, at)
  <2>1. ~(Len(at) > 1)
    BY <1>5
  <2> QED
    BY <2>1, NoWords, Zenon
<1>7. Cuts(m.buf, m.buf, st.cur, st.cur + Len(s))
  BY <1>5, CutsNone DEF IsParser
<1>8. Stepped(st, new, raw, s) /\ \A j \in Members \ {"cur"} : new[j] = m[j]
  BY <1>4, <1>5, <1>6, <1>7, WordsTo
<1> QED
  BY <1>5, <1>8 DEF Changes, Kept

(* The empty line ends the header.                                         *)
LEMMA EmptyLine ==
  ASSUME NEW raw \in Seq(Sign), NEW st, NEW s, Reading(st, raw, s), s = <<>>, NEW new, new = NextLine(st)
  PROVE  Changes(st, new, raw, s, {"content"}) /\ new.content = TRUE
<1>1. PICK c : c = LineOf(st, s)
  OBVIOUS
<1>2. PICK x : x = Next_(st, s)
  OBVIOUS
<1>3. new = [c EXCEPT !.content = TRUE, !.cur = x]
  BY <1>1, <1>2, NextLineIs, Zenon
<1>4. Lined(st, c, raw, s)
  BY <1>1, LineOfMembers
<1>5. /\ IsParser(c) /\ \A k \in Members \ {"buf"} : c[k] = st[k]
      /\ Memory(c.buf, raw, x) /\ Cuts(st.buf, c.buf, st.cur, x) /\ c.buf \in Seq(Mark)
  BY <1>2, <1>4 DEF Lined
<1>6. DOMAIN c = Members /\ "cur" \in Members /\ "content" \in Members /\ "buf" \in Members
  BY <1>5 DEF IsParser, Members
<1>7. new = [k \in Members |-> new[k]]
      /\ \A k \in Members : new[k] = IF k = "cur" THEN x ELSE IF k = "content" THEN TRUE ELSE c[k]
  <2>1. c = [k \in Members |-> c[k]]
    BY <1>5 DEF IsParser
  <2> QED
    BY <1>3, <1>6, <2>1
<1>8. new.buf = c.buf /\ new.cur = x /\ new.content = TRUE /\ Kept(st, new, {"content"})
  BY <1>5, <1>6, <1>7 DEF Kept
<1>9. IsParser(new)
  BY <1>5, <1>7, <1>8, ParserIs
<1> QED
  BY <1>2, <1>5, <1>8, <1>9 DEF Changes, Stepped

(* The text a c u c v, and its three pieces.                               *)
Three(s, a, c, u, v) == s = ((<<a, c>> \o u) \o <<c>>) \o v

InThree(s, q, a, c, u, v) ==
  /\ s \in Seq(Mark) /\ s # <<>> /\ InOrder(q, PieceHeads(s, c)) /\ Len(q) = 3 /\ q[1] = 1 /\ q[2] = 3
  /\ Piece(s, q, 1) = <<a>> /\ Piece(s, q, 2) = u /\ Piece(s, q, 3) = v

(* A text of this form comes in three pieces, if u and v have no c.        *)
LEMMA ThreePieces ==
  ASSUME NEW a \in Mark, NEW c \in Mark, a # c, NEW u \in Seq(Mark), \A i \in 1 .. Len(u) : u[i] # c,
         NEW v \in Seq(Mark), \A i \in 1 .. Len(v) : v[i] # c, NEW s, Three(s, a, c, u, v)
  PROVE  \E q : InThree(s, q, a, c, u, v)
<1>1. PICK t : t = <<a, c>> \o u
  OBVIOUS
<1>2. PICK q : q = <<1, 3>>
  OBVIOUS
<1>3. q \in Seq(Nat) /\ Len(q) = 2 /\ q[1] = 1 /\ q[2] = 3
  BY <1>2
<1>4. t \in Seq(Mark) /\ InOrder(q, PieceHeads(t, c)) /\ Piece(t, q, 1) = <<a>> /\ Piece(t, q, 2) = u
  <2>1. Two(t, a, c, u)
    BY <1>1 DEF Two
  <2>2. InTwo(t, q, a, c, u)
    BY <1>2, <2>1, TwoPieces
  <2> QED
    BY <2>2 DEF InTwo
<1>5. PICK r : r = Append(q, Len(t) + 2)
  OBVIOUS
<1>6. s = (t \o <<c>>) \o v
  BY <1>1, Zenon DEF Three
<1>7. Longer(s, r, t, q, v, c)
  BY <1>4, <1>5, <1>6, PieceMore
<1>8. 1 \in 1 .. Len(q) /\ 2 \in 1 .. Len(q) /\ Len(q) + 1 = 3
  BY <1>3
<1>9. /\ s \in Seq(Mark) /\ InOrder(r, PieceHeads(s, c)) /\ Len(r) = 3 /\ r[1] = 1 /\ r[2] = 3
      /\ Piece(s, r, 1) = <<a>> /\ Piece(s, r, 2) = u /\ Piece(s, r, 3) = v
  BY <1>3, <1>4, <1>7, <1>8 DEF Longer
<1>10. s # <<>>
  <2>1. t # <<>> /\ <<c>> \in Seq(Mark)
    <3>1. <<a, c>> \in Seq(Mark) /\ <<a, c>> # <<>>
      OBVIOUS
    <3> QED
      BY <1>1, <3>1, ConcatEqualIffEmpty
  <2>2. t \o <<c>> \in Seq(Mark) /\ t \o <<c>> # <<>>
    BY <1>4, <2>1, ConcatEqualIffEmpty, ConcatProperties
  <2> QED
    BY <1>6, <2>2, ConcatEqualIffEmpty
<1> QED
  BY <1>9, <1>10 DEF InThree

(* Two texts, joined.                                                      *)
LEMMA FlattenTwo ==
  ASSUME NEW T, NEW u \in Seq(T), NEW v \in Seq(T), NEW s, s = [i \in 1 .. 2 |-> IF i = 1 THEN u ELSE v]
  PROVE  FlattenSeq(s) = u \o v
<1>1. s \in Seq(Seq(T)) /\ Len(s) = 2 /\ s[1] = u /\ s[2] = v
  OBVIOUS
<1>2. PICK f \in [0 .. Len(s) -> Seq(T)] :
        f[0] = <<>> /\ (\A i \in 1 .. Len(s) : f[i] = f[i - 1] \o s[i]) /\ FlattenSeq(s) = f[Len(s)]
  BY <1>1, FlattenSteps
<1>3. f[1] = <<>> \o u /\ f[2] = f[1] \o v /\ FlattenSeq(s) = f[2]
  <2>1. 1 \in 1 .. Len(s) /\ 2 \in 1 .. Len(s) /\ 1 - 1 = 0 /\ 2 - 1 = 1
    BY <1>1
  <2> QED
    BY <1>1, <1>2, <2>1, ZenonT(30)
<1>4. <<>> \o u = u
  BY ConcatEmptySeq
<1> QED
  BY <1>3, <1>4

(* The kind of a body in parts.                                            *)
Multipart == "multipart/form-data;"

(* It is a word of a line, too.                                            *)
LEMMA MultipartIs == Multipart \in Inline \ {Blank}
<1>1. Multipart \in Label
  BY Zenon DEF Multipart, Label
<1> QED
  BY <1>1, LabelInline

(* The line of a body in parts.                                            *)
Typed(st, new, raw, s, u, v) ==
  Changes(st, new, raw, s, {"ContentType"}) /\ new.ContentType = u \o v

(* NextLine makes this of a line Content-Type, "multipart" and so on.      *)
LEMMA TypeLine_ ==
  ASSUME NEW raw \in Seq(Sign), NEW st, NEW s, Reading(st, raw, s), st.cur # 1, st.ContentType = <<>>,
         NEW u, u = <<Multipart>>, NEW v, v = <<"boundary=", "B", "C">>,
         Three(s, "content-type:", Blank, u, v), NEW new, new = NextLine(st)
  PROVE  Typed(st, new, raw, s, u, v)
<1>1. /\ "content-type:" \in Inline \ {Blank} /\ Multipart \in Inline \ {Blank}
      /\ "boundary=" \in Inline \ {Blank} /\ "B" \in Inline \ {Blank} /\ "C" \in Inline \ {Blank}
  BY LabelInline, MultipartIs, Zenon DEF Label
<1>2. u \in Seq(Inline \ {Blank}) /\ v \in Seq(Inline \ {Blank})
  BY <1>1
<1>3. /\ u \in Seq(Mark) /\ v \in Seq(Mark) /\ "content-type:" \in Mark /\ Blank \in Mark
      /\ "content-type:" # Blank
      /\ (\A i \in 1 .. Len(u) : u[i] # Blank) /\ (\A i \in 1 .. Len(v) : v[i] # Blank)
  <2>1. Inline \subseteq Mark /\ Inline \ {Blank} \subseteq Mark
    BY DEF Inline, Mark
  <2>2. Blank \in Inline
    BY BlankIs
  <2>3. \A i \in 1 .. Len(u) : u[i] \in Inline \ {Blank}
    BY <1>2, ElementOfSeq
  <2>4. \A i \in 1 .. Len(v) : v[i] \in Inline \ {Blank}
    BY <1>2, ElementOfSeq
  <2>5. u \in Seq(Mark) /\ v \in Seq(Mark)
    BY <1>2, <2>1, SeqMonotonic
  <2> QED
    BY <1>1, <2>1, <2>2, <2>3, <2>4, <2>5
<1>4. PICK q : InThree(s, q, "content-type:", Blank, u, v)
  BY <1>3, ThreePieces
<1>5. PICK m, at : Words_(st, s, q, m, at)
  BY <1>4, LineWords DEF InThree
<1>6. /\ Len(at) = 3 /\ CStr(m.buf, at[1]) = <<"content-type:">>
      /\ CStr(m.buf, at[2]) = u /\ CStr(m.buf, at[3]) = v
      /\ m.ContentType = <<>>
  <2>1. Len(q) = 3 /\ 1 \in 1 .. Len(q) /\ 2 \in 1 .. Len(q) /\ 3 \in 1 .. Len(q)
    BY <1>4 DEF InThree
  <2>2. "ContentType" \in Members \ {"buf"}
    BY DEF Members
  <2> QED
    BY <1>4, <1>5, <2>1, <2>2 DEF InThree, Words_
<1>7. PICK h : h = HeaderWords(m, at)
  OBVIOUS
<1>8. "ContentType" \in Members \ {"buf", "cur"}
  BY DEF Members
<1>9. Put(m, "ContentType", u \o v, h)
  <2>1. Len(at) > 1 /\ Len(at) - 1 = 2
    BY <1>6
  <2>2. PICK w : w = [i \in 1 .. Len(at) - 1 |-> CStr(m.buf, at[i + 1])]
    OBVIOUS
  <2>3. h = [m EXCEPT !.ContentType = @ \o FlattenSeq(w)]
    BY <1>6, <1>7, <2>1, <2>2, TypeWords, Zenon
  <2>4. w = [i \in 1 .. 2 |-> IF i = 1 THEN u ELSE v]
    <3>1. \A i \in 1 .. 2 : (i = 1 /\ i + 1 = 2) \/ (i = 2 /\ i + 1 = 3)
      OBVIOUS
    <3>2. \A i \in 1 .. 2 : CStr(m.buf, at[i + 1]) = IF i = 1 THEN u ELSE v
      BY <1>6, <3>1
    <3> QED
      BY <2>1, <2>2, <3>2
  <2>5. FlattenSeq(w) = u \o v /\ u \o v \in Seq(Mark)
    BY <1>3, <2>4, FlattenTwo, ConcatProperties
  <2>6. m.ContentType \o FlattenSeq(w) = u \o v
    BY <1>6, <2>5, ConcatEmptySeq
  <2> QED
    BY <2>3, <2>6, Zenon DEF Put
<1>10. PICK k, x : k = "ContentType" /\ x = u \o v
  OBVIOUS
<1>11. Turns(st, new, raw, s, m, k, x)
  <2>1. k \in Members \ {"buf", "cur"} /\ Put(m, k, x, h)
    BY <1>8, <1>9, <1>10
  <2> QED
    BY <1>5, <1>7, <2>1, OneChange
<1> QED
  BY <1>10, <1>11 DEF Turns, Typed

(* Every text has its pieces.                                              *)
LEMMA SomePieces ==
  ASSUME NEW s \in Seq(Mark), \A i \in 1 .. Len(s) : s[i] # NUL, NEW c
  PROVE  \E q : InOrder(q, PieceHeads(s, c))
<1>1. PICK b : b = Append(s, NUL)
  OBVIOUS
<1>2. b \in Seq(Mark) /\ Holds(b, 1, s)
  BY <1>1, TextHolds
<1>3. PICK z : z = 1 + Len(s)
  OBVIOUS
<1>4. StringAt(b, 1, z) /\ \A i \in 1 .. Len(s) : b[1 + i - 1] = s[i]
  BY <1>2, <1>3 DEF Holds
<1>5. InOrder(Split(b, 1, <<c>>).at, Heads(b, 1, z, c))
  BY <1>2, <1>4, SplitAtOne
<1>6. Heads(b, 1, z, c) = PieceHeads(s, c)
  <2>1. Len(s) \in Nat /\ \A i \in 1 .. Len(s) : b[i] = s[i]
    <3>1. \A i \in 1 .. Len(s) : 1 + i - 1 = i
      BY LenProperties
    <3> QED
      BY <1>4, <3>1, LenProperties
  <2>2. \A x \in 1 .. Len(s) + 1 : x > 1 => x - 1 \in 1 .. Len(s)
    BY <2>1
  <2> QED
    BY <1>3, <2>1, <2>2 DEF Heads, PieceHeads
<1> QED
  BY <1>5, <1>6

(* The first piece of the text a c v, whatever v is.                       *)
LEMMA FirstOfTwo ==
  ASSUME NEW a \in Mark, NEW c \in Mark, a # c, NEW v \in Seq(Mark), NEW s, Two(s, a, c, v),
         NEW q, InOrder(q, PieceHeads(s, c))
  PROVE  /\ s \in Seq(Mark) /\ Len(s) >= 2 /\ Len(q) >= 2
         /\ q[1] = 1 /\ Piece(s, q, 1) = <<a>>
<1>1. PICK t : t = <<a, c>>
  OBVIOUS
<1>2. t \in Seq(Mark) /\ Len(t) = 2 /\ t[1] = a /\ t[2] = c
  BY <1>1
<1>3. s = t \o v
  BY <1>1 DEF Two
<1>4. /\ s \in Seq(Mark) /\ Len(s) = 2 + Len(v) /\ Len(v) \in Nat /\ s[1] = a /\ s[2] = c
  <2>1. /\ s \in Seq(Mark) /\ Len(s) = Len(t) + Len(v)
        /\ \A i \in 1 .. Len(t) + Len(v) : s[i] = IF i <= Len(t) THEN t[i] ELSE v[i - Len(t)]
    BY <1>2, <1>3, ConcatProperties
  <2>2. Len(v) \in Nat
    BY LenProperties
  <2> QED
    BY <1>2, <2>1, <2>2
<1> DEFINE S == PieceHeads(s, c)
<1>5. S \in SUBSET Nat /\ 1 \in S /\ 3 \in S /\ 2 \notin S /\ \A y \in S : y >= 1
  BY <1>4 DEF PieceHeads
<1> HIDE DEF S
<1>6. InOrder(q, S)
  BY DEF S
<1>7. Len(q) > 0 /\ q[1] = 1
  BY <1>5, <1>6, FirstInOrder
<1>8. Len(q) \in Nat /\ 1 \in 1 .. Len(q)
  BY <1>6, <1>7, LenProperties DEF InOrder
<1>9. PICK j, x : j = 1 /\ x = 3
  OBVIOUS
<1>a. j \in 1 .. Len(q) /\ x \in S /\ q[j] < x /\ \A y \in S : y <= q[j] \/ x <= y
  <2>1. \A y \in S : y \in Nat /\ (y <= 1 \/ 3 <= y)
    BY <1>5
  <2> QED
    BY <1>5, <1>7, <1>8, <1>9, <2>1
<1>b. j + 1 \in 1 .. Len(q) /\ q[j + 1] = x
  BY <1>5, <1>6, <1>a, NextInOrder
<1>10. 2 \in 1 .. Len(q) /\ q[2] = 3
  BY <1>9, <1>b
<1>11. PieceEnd(q, 1, Len(s) + 1) = 2
  BY <1>8, <1>10 DEF PieceEnd
<1>12. Piece(s, q, 1) = SubSeq(s, 1, 1)
  <2>1. Piece(s, q, 1) = SubSeq(s, q[1], 2 - 1)
    BY <1>11, Zenon DEF Piece
  <2> QED
    BY <1>7, <2>1
<1>13. SubSeq(s, 1, 1) = <<a>>
  <2>1. PICK d : d = <<a>>
    OBVIOUS
  <2>2. d \in Seq(Mark) /\ Len(d) = 1 /\ d[1] = a
    BY <2>1
  <2>3. PICK e : e = SubSeq(s, 1, 1)
    OBVIOUS
  <2>4. e \in Seq(Mark) /\ Len(e) = 1 /\ e[1] = a
    BY <1>4, <2>3
  <2>5. d = e
    BY <2>2, <2>4, SeqEqual
  <2> QED
    BY <2>1, <2>3, <2>5
<1> QED
  BY <1>4, <1>7, <1>8, <1>10, <1>12, <1>13

(* Whatever the words of a Cookie line are, they are cut where they are.   *)
LEMMA CookiesIn ==
  ASSUME NEW st, IsParser(st), NEW z \in 1 .. Len(st.buf), st.buf[z] = NUL, NEW p \in 1 .. z,
         st.CookiePrm \in Seq(ItmType), NEW at, NEW words, words = <<at[1] + 2>> \o Tail(at),
         words \in Seq(Nat), Len(words) > 0, \A j \in 1 .. Len(words) : words[j] \in p .. z
  PROVE  Cookies(st, at) \in Baking(st, p, z)
<1>1. PICK f : Bakes(f, st, at, words, p, z)
  BY CookiesFold
<1>2. /\ \A i \in 1 .. Len(words) : f[i] \in Baking(st, p, z)
      /\ Cookies(st, at) = f[Len(words)]
  BY <1>1, Zenon DEF Bakes
<1>3. Len(words) \in 1 .. Len(words)
  BY LenProperties
<1> QED
  BY <1>2, <1>3

(* The line with the cookies.                                              *)
LEMMA CookieLine ==
  ASSUME NEW raw \in Seq(Sign), NEW st, NEW s, Reading(st, raw, s), st.cur # 1, st.CookiePrm \in Seq(ItmType),
         NEW v \in Seq(Inline), Two(s, "cookie:", Blank, v), NEW new, new = NextLine(st)
  PROVE  Changes(st, new, raw, s, {"CookiePrm"}) /\ new.CookiePrm \in Seq(ItmType)
<1>1. PICK a : a = "cookie:"
  OBVIOUS
<1>2. /\ a \in Mark /\ Blank \in Mark /\ a # Blank /\ v \in Seq(Mark)
      /\ s \in Seq(Mark) /\ (\A i \in 1 .. Len(s) : s[i] # NUL) /\ Two(s, a, Blank, v)
      /\ st.cur \in Nat \ {0}
  <2>1. a \in Inline \ {Blank}
    BY <1>1, LabelInline DEF Label
  <2>2. Inline \subseteq Mark /\ Blank \in Inline
    BY BlankIs DEF Inline, Mark
  <2>3. s \in Seq(Inline) /\ st.cur \in Nat \ {0}
    BY DEF Reading, LineAt
  <2>4. \A i \in 1 .. Len(s) : s[i] # NUL
    BY <2>3, ElementOfSeq DEF Inline
  <2>5. v \in Seq(Mark) /\ s \in Seq(Mark)
    BY <2>2, <2>3, SeqMonotonic
  <2> QED
    BY <1>1, <2>1, <2>2, <2>3, <2>4, <2>5
<1>3. PICK q : InOrder(q, PieceHeads(s, Blank))
  BY <1>2, SomePieces
<1>4. Len(s) >= 2 /\ Len(q) >= 2 /\ q[1] = 1 /\ Piece(s, q, 1) = <<a>>
  BY <1>2, <1>3, FirstOfTwo
<1>5. s # <<>> /\ Len(s) \in Nat /\ Len(q) \in Nat
  BY <1>2, <1>3, <1>4, EmptySeq, LenProperties DEF InOrder
<1>6. PICK m, at : Words_(st, s, q, m, at)
  BY <1>3, <1>5, LineWords
<1>7. PICK p, z : p = st.cur /\ z = st.cur + Len(s)
  OBVIOUS
<1>8. /\ IsParser(m) /\ \A k \in Members \ {"buf"} : m[k] = st[k]
      /\ at \in Seq(Nat) /\ Len(at) = Len(q) /\ at[1] = p /\ CStr(m.buf, at[1]) = <<a>>
      /\ \A k \in 1 .. Len(q) : at[k] \in p .. z
      /\ Cuts(LineOf(st, s).buf, m.buf, p, z)
  <2>1. 1 \in 1 .. Len(q)
    BY <1>4, <1>5
  <2>2. st.cur + 1 - 1 = st.cur
    BY <1>2
  <2> QED
    BY <1>4, <1>6, <1>7, <2>1, <2>2 DEF Words_
<1>9. z \in 1 .. Len(m.buf) /\ m.buf[z] = NUL /\ p \in 1 .. z /\ p + 2 \in p .. z /\ z \in Nat /\ p \in Nat
  <2>1. Lined(st, LineOf(st, s), raw, s)
    BY LineOfMembers
  <2>2. PICK b : b = LineOf(st, s).buf
    OBVIOUS
  <2>3. z \in 1 .. Len(b) /\ b[z] = NUL
    BY <1>7, <2>1, <2>2 DEF Lined
  <2>4. Len(m.buf) = Len(b) /\ \A i \in 1 .. Len(b) : m.buf[i] = b[i] \/ (i \in p .. z - 1 /\ m.buf[i] = NUL)
    BY <1>8, <2>2 DEF Cuts
  <2>5. PICK n : n = Len(s)
    OBVIOUS
  <2>6. n \in Nat /\ n >= 2 /\ p \in Nat \ {0} /\ z = p + n
    BY <1>2, <1>4, <1>5, <1>7, <2>5
  <2>7. p \in 1 .. z /\ p + 2 \in p .. z /\ z \in Nat /\ p \in Nat /\ z \notin p .. z - 1
    BY <2>6
  <2>8. z \in 1 .. Len(m.buf) /\ m.buf[z] = NUL
    BY <2>3, <2>4, <2>7
  <2> QED
    BY <2>7, <2>8
<1>10. PICK h : h = HeaderWords(m, at)
  OBVIOUS
<1>11. h = Cookies(m, at)
  <2>1. Len(at) > 1
    BY <1>4, <1>5, <1>8
  <2> QED
    BY <1>1, <1>8, <1>10, <2>1, CookieWords, Zenon
<1>12. PICK words : words = <<at[1] + 2>> \o Tail(at)
  OBVIOUS
<1>13. words \in Seq(Nat) /\ Len(words) > 0 /\ \A j \in 1 .. Len(words) : words[j] \in p .. z
  <2>1. PICK t : t = Tail(at)
    OBVIOUS
  <2>2. at # <<>>
    BY <1>4, <1>8, EmptySeq
  <2>3. t \in Seq(Nat) /\ Len(t) = Len(at) - 1 /\ \A i \in 1 .. Len(t) : t[i] = at[i + 1]
    BY <1>8, <2>1, <2>2, HeadTailProperties
  <2>4. PICK d : d = <<at[1] + 2>>
    OBVIOUS
  <2>5. d \in Seq(Nat) /\ Len(d) = 1 /\ d[1] = p + 2
    BY <1>8, <1>9, <2>4
  <2>6. /\ words \in Seq(Nat) /\ Len(words) = Len(d) + Len(t)
        /\ \A i \in 1 .. Len(d) + Len(t) : words[i] = IF i <= Len(d) THEN d[i] ELSE t[i - Len(d)]
    BY <1>12, <2>1, <2>3, <2>4, <2>5, ConcatProperties
  <2>7. ASSUME NEW j \in 1 .. Len(words) PROVE words[j] \in p .. z
    <3>1. CASE j = 1
      <4>1. words[1] = d[1]
        BY <1>4, <1>5, <1>8, <2>3, <2>5, <2>6
      <4> QED
        BY <1>9, <2>5, <3>1, <4>1
    <3>2. CASE j # 1
      <4>1. j - 1 \in 1 .. Len(t) /\ words[j] = t[j - 1] /\ (j - 1) + 1 = j /\ j \in 1 .. Len(q)
        BY <1>4, <1>5, <1>8, <2>3, <2>5, <2>6, <3>2
      <4> QED
        BY <1>8, <2>3, <4>1
    <3> QED
      BY <3>1, <3>2
  <2> QED
    BY <1>4, <1>5, <1>8, <2>3, <2>5, <2>6, <2>7
<1>14. m.CookiePrm \in Seq(ItmType)
  <2>1. "CookiePrm" \in Members \ {"buf"}
    BY DEF Members
  <2> QED
    BY <1>8, <2>1
<1>15. Cookies(m, at) \in Baking(m, p, z)
  BY <1>8, <1>9, <1>12, <1>13, <1>14, CookiesIn
<1>16. h \in Baking(m, p, z)
  BY <1>11, <1>15
<1>17. /\ Cuts(m.buf, h.buf, p, z) /\ h.CookiePrm \in Seq(ItmType)
       /\ \A k \in Members \ {"buf", "CookiePrm"} : h[k] = m[k]
       /\ h = [k \in Members |-> h[k]]
  BY <1>16 DEF Baking
<1>18. IsParser(h)
  <2>1. h.buf \in Seq(Mark)
    BY <1>17 DEF Cuts
  <2> QED
    BY <1>17, <2>1, ParserIs
<1>19. Stepped(st, new, raw, s) /\ \A k \in Members \ {"cur"} : new[k] = h[k]
  <2>1. Cuts(m.buf, h.buf, st.cur, st.cur + Len(s))
    BY <1>7, <1>17
  <2> QED
    BY <1>6, <1>10, <1>18, <2>1, WordsTo
<1>20. Kept(st, new, {"CookiePrm"}) /\ new.CookiePrm = h.CookiePrm
  <2>1. "CookiePrm" \in Members \ {"cur"}
    BY DEF Members
  <2> QED
    BY <1>8, <1>17, <1>19, <2>1 DEF Kept
<1> QED
  BY <1>17, <1>19, <1>20 DEF Changes

(* The memory and another member of the parser that change.                *)
PutBoth(m, b, k, v, h) == h = [m EXCEPT !.buf = b, ![k] = v]

(* Nothing else changes with them.                                         *)
LEMMA ChangedBoth ==
  ASSUME NEW m, IsParser(m), NEW k \in Members \ {"buf"}, NEW b \in Seq(Mark), NEW v, NEW h, PutBoth(m, b, k, v, h)
  PROVE  IsParser(h) /\ h[k] = v /\ h.buf = b /\ \A j \in Members \ {k, "buf"} : h[j] = m[j]
<1>1. DOMAIN m = Members /\ m = [j \in Members |-> m[j]] /\ m.buf \in Seq(Mark) /\ "buf" \in Members
  BY DEF IsParser, Members
<1>2. h = [j \in Members |-> h[j]] /\ \A j \in Members : h[j] = IF j = k THEN v ELSE IF j = "buf" THEN b ELSE m[j]
  BY <1>1 DEF PutBoth
<1>3. h.buf = b
  BY <1>1, <1>2
<1>4. IsParser(h)
  BY <1>1, <1>2, <1>3, ParserIs
<1> QED
  BY <1>2, <1>3, <1>4

(* Where a URL ends, and where its parameters do.                          *)
Question  == "?"
Ampersand == "&"

(* The second word of the request line, at x in the memory b, ends before  *)
(* z; the parser m becomes t.                                              *)
Aimed(m, b, t, x, u, z) ==
  /\ IsParser(t) /\ Cuts(b, t.buf, x, z) /\ t.URL = Until(u, Question)
  /\ \A k \in Members \ {"buf", "URL", "GetPrm"} : t[k] = m[k]

(* Target aims so: what is behind the "?" is cut up, and the rest is the   *)
(* URL.                                                                    *)
LEMMA TargetIs ==
  ASSUME NEW m, IsParser(m), NEW b \in Seq(Mark), NEW z \in 1 .. Len(b), b[z] = NUL, NEW x \in 1 .. z,
         NEW u, Holds(b, x, u), NEW url, url = Split(b, x, <<Question>>),
         NEW t, t = Target(m, url)
  PROVE  Aimed(m, b, t, x, u, z)
<1>1. /\ Cuts(b, url.buf, x, z) /\ url.at \in Seq(Nat) /\ Len(url.at) > 0 /\ url.buf \in Seq(Mark)
      /\ \A j \in 1 .. Len(url.at) : url.at[j] \in x .. z
  BY SplitCuts DEF Cuts
<1>2. CStr(url.buf, url.at[1]) = Until(u, Question)
  <2>1. PICK e : e = x + Len(u)
    OBVIOUS
  <2>2. StringAt(b, x, e) /\ CStr(b, x) = u /\ NUL \in Mark
    BY <2>1, StringIs DEF Holds, Mark
  <2>3. InOrder(url.at, Heads(b, x, e, Question)) /\ url.buf = Cleared(b, x, e, Question)
    BY <2>2, SplitAtOne
  <2> QED
    BY <2>2, <2>3, FirstPiece
<1>3. PICK t1 : t1 = [m EXCEPT !.buf = url.buf, !.URL = CStr(url.buf, url.at[1])]
  OBVIOUS
<1>4. PICK k : k = "URL"
  OBVIOUS
<1>5. k \in Members \ {"buf"}
  BY <1>4 DEF Members
<1>6. PutBoth(m, url.buf, k, Until(u, Question), t1)
  BY <1>2, <1>3, <1>4, Zenon DEF PutBoth
<1>7. /\ IsParser(t1) /\ t1[k] = Until(u, Question) /\ t1.buf = url.buf
      /\ \A j \in Members \ {k, "buf"} : t1[j] = m[j]
  BY <1>1, <1>5, <1>6, ChangedBoth
<1>8. CASE Len(url.at) < 2
  <2>1. t = t1
    BY <1>3, <1>8, Zenon DEF Target
  <2> QED
    BY <1>1, <1>4, <1>7, <2>1 DEF Aimed
<1>9. CASE ~(Len(url.at) < 2)
  <2>1. PICK get : get = Params(url.buf, url.at[2], <<Ampersand>>)
    OBVIOUS
  <2>2. t = [t1 EXCEPT !.buf = get.buf, !.GetPrm = NonEmpty(get)]
    <3>1. t = Query(t1, Params(url.buf, url.at[2], <<Ampersand>>))
      BY <1>3, <1>9, Zenon DEF Target, Ampersand
    <3> QED
      BY <2>1, <3>1, Zenon DEF Query
  <2>3. url.at[2] \in x .. z
    <3>1. Len(url.at) \in Nat
      BY <1>1, LenProperties
    <3> QED
      BY <1>1, <1>9, <3>1
  <2>4. z \in 1 .. Len(url.buf) /\ url.buf[z] = NUL /\ url.at[2] \in 1 .. z /\ Len(b) \in Nat
    BY <1>1, <2>3, LenProperties DEF Cuts
  <2>5. Cuts(url.buf, get.buf, url.at[2], z) /\ get.buf \in Seq(Mark)
    <3>1. get \in Cutting(url.buf, url.at[2], z)
      BY <1>1, <2>1, <2>4, ParamsCut
    <3> QED
      BY <3>1 DEF Cutting
  <2>6. Cuts(b, get.buf, x, z)
    BY <1>1, <2>3, <2>4, <2>5, CutsMore
  <2>7. PICK n : n = "GetPrm"
    OBVIOUS
  <2>8. PICK v : v = NonEmpty(get)
    OBVIOUS
  <2>9. n \in Members \ {"buf"}
    BY <2>7 DEF Members
  <2>10. PutBoth(t1, get.buf, n, v, t)
    BY <2>2, <2>7, <2>8, Zenon DEF PutBoth
  <2>11. IsParser(t) /\ t.buf = get.buf /\ \A j \in Members \ {n, "buf"} : t[j] = t1[j]
    BY <1>7, <2>5, <2>9, <2>10, ChangedBoth
  <2>12. t.URL = t1.URL
    BY <2>7, <2>11 DEF Members
  <2> QED
    BY <1>4, <1>7, <2>6, <2>7, <2>11, <2>12 DEF Aimed
<1> QED
  BY <1>8, <1>9

(* The request line, with the method a and the target u.                   *)
Requested(st, new, raw, s, a, u) ==
  /\ Changes(st, new, raw, s, {"POST", "URL", "GetPrm"})
  /\ new.POST = (a = "POST") /\ new.URL = Until(u, Question)

(* NextLine makes this of a first line, when it has three words.           *)
LEMMA FirstLineRead ==
  ASSUME NEW raw \in Seq(Sign), NEW st, NEW s, Reading(st, raw, s), st.cur = 1,
         NEW a \in {"POST", "GET"}, NEW u \in Seq(Inline \ {Blank}), NEW v \in Seq(Inline \ {Blank}),
         Three(s, a, Blank, u, v), NEW new, new = NextLine(st)
  PROVE  Requested(st, new, raw, s, a, u)
<1>1. /\ u \in Seq(Mark) /\ v \in Seq(Mark) /\ a \in Mark /\ Blank \in Mark /\ a # Blank
      /\ (\A i \in 1 .. Len(u) : u[i] # Blank) /\ (\A i \in 1 .. Len(v) : v[i] # Blank)
  <2>1. Inline \subseteq Mark /\ Inline \ {Blank} \subseteq Mark
    BY DEF Inline, Mark
  <2>2. Blank \in Inline
    BY BlankIs
  <2>3. \A i \in 1 .. Len(u) : u[i] \in Inline \ {Blank}
    BY ElementOfSeq
  <2>4. \A i \in 1 .. Len(v) : v[i] \in Inline \ {Blank}
    BY ElementOfSeq
  <2>5. u \in Seq(Mark) /\ v \in Seq(Mark)
    BY <2>1, SeqMonotonic
  <2>6. a \in Inline \ {Blank}
    BY LabelInline DEF Label
  <2> QED
    BY <2>1, <2>2, <2>3, <2>4, <2>5, <2>6
<1>2. PICK q : InThree(s, q, a, Blank, u, v)
  BY <1>1, ThreePieces
<1>3. PICK cut : cut = LineOf(st, s)
  OBVIOUS
<1>4. PICK p, z : p = st.cur /\ z = st.cur + Len(s)
  OBVIOUS
<1>5. Lined(st, cut, raw, s)
  BY <1>3, LineOfMembers
<1>6. PICK b : b = cut.buf
  OBVIOUS
<1>7. /\ IsParser(cut) /\ \A k \in Members \ {"buf"} : cut[k] = st[k]
      /\ Holds(b, p, s) /\ b \in Seq(Mark) /\ z \in 1 .. Len(b) /\ b[z] = NUL /\ p = 1
      /\ Len(s) \in Nat /\ cut.cur = p
  <2>1. "cur" \in Members \ {"buf"}
    BY DEF Members
  <2> QED
    BY <1>4, <1>5, <1>6, <2>1 DEF Lined
<1>8. PICK w : w = Split(b, p, <<Blank>>)
  OBVIOUS
<1>9. CutAt(b, w, p, s, q, Blank)
  BY <1>2, <1>7, <1>8, StringPieces DEF InThree
<1>10. PICK x : x = w.at[2]
  OBVIOUS
<1>11. /\ w.buf \in Seq(Mark) /\ Cuts(b, w.buf, p, z) /\ Len(w.at) = 3 /\ Len(b) \in Nat
       /\ CStr(w.buf, w.at[1]) = <<a>> /\ Holds(w.buf, x, u) /\ x \in p .. z
  <2>1. Len(q) = 3 /\ 1 \in 1 .. Len(q) /\ 2 \in 1 .. Len(q) /\ Piece(s, q, 1) = <<a>> /\ Piece(s, q, 2) = u
    BY <1>2 DEF InThree
  <2>2. /\ w.buf \in Seq(Mark) /\ Cuts(b, w.buf, p, z) /\ Len(w.at) = 3
        /\ Holds(w.buf, w.at[1], <<a>>) /\ Holds(w.buf, x, u) /\ x \in p .. z
    BY <1>4, <1>9, <1>10, <2>1 DEF CutAt
  <2>3. CStr(w.buf, w.at[1]) = <<a>>
    BY <2>2, StringIs
  <2> QED
    BY <1>7, <2>2, <2>3, LenProperties
<1>12. PICK m1 : m1 = [cut EXCEPT !.POST = CStr(w.buf, w.at[1]) = <<"POST">>]
  OBVIOUS
<1>13. PICK t : t = RequestLine(cut)
  OBVIOUS
<1>14. PICK url : url = Split(w.buf, x, <<Question>>)
  OBVIOUS
<1>15. t = Target(m1, url)
  <2>1. t = RequestWords(cut, w)
    BY <1>6, <1>7, <1>8, <1>13, Zenon DEF RequestLine, Blank
  <2>2. ~(Len(w.at) <= 2)
    BY <1>11
  <2> QED
    BY <1>10, <1>12, <1>14, <2>1, <2>2, Zenon DEF RequestWords, Question
<1>16. PICK k : k = "POST"
  OBVIOUS
<1>17. Put(cut, k, a = "POST", m1)
  <2>1. (CStr(w.buf, w.at[1]) = <<"POST">>) = (a = "POST")
    <3>1. CStr(w.buf, w.at[1]) = <<"POST">> <=> a = "POST"
      <4>1. <<a>> = <<"POST">> <=> a = "POST"
        OBVIOUS
      <4> QED
        BY <1>11, <4>1
    <3> QED
      BY <3>1
  <2> QED
    BY <1>12, <1>16, <2>1, Zenon DEF Put
<1>18. /\ IsParser(m1) /\ m1[k] = (a = "POST") /\ m1.buf = b
       /\ \A j \in Members \ {k} : m1[j] = cut[j]
  <2>1. k \in Members \ {"buf"}
    BY <1>16 DEF Members
  <2>2. PICK c : c = (a = "POST")
    OBVIOUS
  <2>3. IsParser(m1) /\ m1[k] = c /\ (\A j \in Members \ {k} : m1[j] = cut[j]) /\ m1.buf = cut.buf
    BY <1>7, <1>17, <2>1, <2>2, Changed
  <2> QED
    BY <1>6, <2>2, <2>3
<1>19. Aimed(m1, w.buf, t, x, u, z)
  <2>1. z \in 1 .. Len(w.buf) /\ w.buf[z] = NUL /\ x \in 1 .. z
    BY <1>7, <1>11 DEF Cuts
  <2> QED
    BY <1>11, <1>14, <1>15, <1>18, <2>1, TargetIs
<1>20. /\ IsParser(t) /\ Cuts(w.buf, t.buf, x, z) /\ t.URL = Until(u, Question)
       /\ \A j \in Members \ {"buf", "URL", "GetPrm"} : t[j] = m1[j]
  BY <1>19 DEF Aimed
<1>21. Cuts(b, t.buf, p, z)
  <2>1. p \in Int /\ z \in Int /\ x \in Int /\ p <= x /\ z <= z
    BY <1>7, <1>11
  <2> QED
    BY <1>11, <1>20, <2>1, CutsMore
<1>22. PICK new_ : new_ = [t EXCEPT !.cur = Next_(st, s)]
  OBVIOUS
<1>23. new = new_
  <2>1. s # <<>>
    BY <1>2 DEF InThree
  <2> QED
    BY <1>3, <1>13, <1>22, <2>1, NextLineIs, Zenon
<1>24. Stepped(st, new, raw, s) /\ \A j \in Members \ {"cur"} : new[j] = t[j]
  <2>1. Cuts(LineOf(st, s).buf, t.buf, st.cur, st.cur + Len(s))
    BY <1>3, <1>4, <1>6, <1>21
  <2> QED
    BY <1>20, <1>22, <1>23, <2>1, GoOn
<1>25. /\ Kept(st, new, {"POST", "URL", "GetPrm"})
       /\ new.POST = (a = "POST") /\ new.URL = Until(u, Question)
  <2>1. new.URL = t.URL /\ new.POST = t.POST /\ t.POST = m1.POST
    BY <1>20, <1>24 DEF Members
  <2>2. \A j \in Members \ {"buf", "URL", "GetPrm", "POST", "cur"} : new[j] = st[j]
    BY <1>7, <1>16, <1>18, <1>20, <1>24
  <2> QED
    BY <1>16, <1>18, <1>20, <2>1, <2>2 DEF Kept
<1> QED
  BY <1>24, <1>25 DEF Changes, Requested

(* The ends of lines before p, each of them a step of the parser.          *)
EndsBefore(raw, p) == { e \in LineEnds(raw, 1) : e < p }

Path(a, n, raw, st) ==
  /\ n \in Nat /\ a[0] = Start(raw) /\ (\A i \in 1 .. n : a[i] = NextLine(a[i - 1])) /\ a[n] = st
  /\ n <= Cardinality(EndsBefore(raw, st.cur))

Reached(raw, st) == \E a, n : Path(a, n, raw, st)

(* They are finitely many, as many as there are in the text at most.       *)
LEMMA EndsFinite ==
  ASSUME NEW raw \in Seq(Sign), NEW p
  PROVE  /\ IsFiniteSet(LineEnds(raw, 1)) /\ IsFiniteSet(EndsBefore(raw, p))
         /\ Cardinality(EndsBefore(raw, p)) \in Nat /\ Cardinality(LineEnds(raw, 1)) \in Nat
         /\ Cardinality(EndsBefore(raw, p)) <= Cardinality(LineEnds(raw, 1))
<1>1. LineEnds(raw, 1) \subseteq 1 .. Len(raw)
  BY LenProperties DEF LineEnds
<1>2. IsFiniteSet(1 .. Len(raw))
  BY FS_Interval, LenProperties
<1>3. IsFiniteSet(LineEnds(raw, 1))
  BY <1>1, <1>2, FS_Subset
<1>4. EndsBefore(raw, p) \subseteq LineEnds(raw, 1)
  BY DEF EndsBefore
<1> QED
  BY <1>3, <1>4, FS_Subset, FS_CardinalityType

(* The parser is at the beginning when it starts.                          *)
LEMMA ReachedStart == ASSUME NEW raw \in Seq(Sign) PROVE Reached(raw, Start(raw))
<1>1. PICK a : a = [i \in 0 .. 0 |-> Start(raw)]
  OBVIOUS
<1>2. a[0] = Start(raw)
  BY <1>1
<1>3. 0 \in Nat /\ \A i \in 1 .. 0 : a[i] = NextLine(a[i - 1])
  OBVIOUS
<1>4. 0 <= Cardinality(EndsBefore(raw, Start(raw).cur))
  BY EndsFinite
<1>5. Path(a, 0, raw, Start(raw))
  BY <1>2, <1>3, <1>4 DEF Path
<1> QED
  BY <1>5 DEF Reached

(* And it reaches what NextLine makes of a parser it has reached.          *)
LEMMA ReachedNext ==
  ASSUME NEW raw \in Seq(Sign), NEW st, Reached(raw, st), NEW s, Reading(st, raw, s), NEW new, new = NextLine(st),
         new.cur = Next_(st, s)
  PROVE  Reached(raw, new)
<1>1. PICK a, n : Path(a, n, raw, st)
  BY DEF Reached
<1>2. /\ n \in Nat /\ a[0] = Start(raw) /\ (\A i \in 1 .. n : a[i] = NextLine(a[i - 1])) /\ a[n] = st
      /\ n <= Cardinality(EndsBefore(raw, st.cur))
  BY <1>1 DEF Path
<1>3. PICK c : c = [i \in 0 .. n + 1 |-> IF i = n + 1 THEN new ELSE a[i]]
  OBVIOUS
<1>4. c[n + 1] = new /\ \A i \in 0 .. n : c[i] = a[i]
  BY <1>2, <1>3
<1>5. c[0] = Start(raw) /\ \A i \in 1 .. n + 1 : c[i] = NextLine(c[i - 1])
  <2>1. ASSUME NEW i \in 1 .. n + 1 PROVE c[i] = NextLine(c[i - 1])
    <3>1. CASE i = n + 1
      <4>1. i - 1 = n /\ n \in 0 .. n
        BY <1>2, <3>1
      <4> QED
        BY <1>2, <1>4, <3>1, <4>1
    <3>2. CASE i # n + 1
      <4>1. i \in 1 .. n /\ i \in 0 .. n /\ i - 1 \in 0 .. n
        BY <1>2, <3>2
      <4> QED
        BY <1>2, <1>4, <4>1
    <3> QED
      BY <3>1, <3>2
  <2> QED
    BY <1>2, <1>4, <2>1
<1>6. PICK e : e = st.cur + Len(s) + 1
  OBVIOUS
<1>7. /\ LineAt(raw, st.cur, s) /\ st.cur \in Nat \ {0} /\ Len(s) \in Nat /\ Len(raw) \in Nat
      /\ new.cur = e + 1 /\ e > st.cur /\ e <= Len(raw) /\ e \in Nat
  <2>1. LineAt(raw, st.cur, s)
    BY DEF Reading
  <2> QED
    BY <1>6, <2>1, LenProperties DEF LineAt, Next_
<1>8. e \in LineEnds(raw, 1)
  <2>1. e - 1 = st.cur + Len(s) /\ e \in 1 + 1 .. Len(raw)
    BY <1>6, <1>7
  <2>2. raw[e - 1] = CR /\ raw[e] = LF
    BY <1>6, <1>7, <2>1 DEF LineAt
  <2> QED
    BY <2>1, <2>2 DEF LineEnds, CR, LF
<1>9. PICK A, B : A = EndsBefore(raw, st.cur) /\ B = EndsBefore(raw, new.cur)
  OBVIOUS
<1>10. /\ IsFiniteSet(A) /\ IsFiniteSet(B) /\ Cardinality(A) \in Nat /\ Cardinality(B) \in Nat
  BY <1>9, EndsFinite
<1>11. e \notin A /\ A \cup {e} \subseteq B
  <2>1. \A x \in LineEnds(raw, 1) : x \in Nat
    BY <1>7 DEF LineEnds
  <2>2. e \notin A
    BY <1>7, <1>9 DEF EndsBefore
  <2>3. e \in B
    BY <1>7, <1>8, <1>9 DEF EndsBefore
  <2>4. ASSUME NEW x \in A PROVE x \in B
    <3>1. x \in LineEnds(raw, 1) /\ x < st.cur /\ x \in Nat
      BY <1>9, <2>1, <2>4 DEF EndsBefore
    <3>2. x < new.cur
      BY <1>7, <3>1
    <3> QED
      BY <1>9, <3>1, <3>2 DEF EndsBefore
  <2> QED
    BY <2>2, <2>3, <2>4
<1>12. Cardinality(A) + 1 <= Cardinality(B)
  <2>1. Cardinality(A \cup {e}) = Cardinality(A) + 1
    BY <1>10, <1>11, FS_AddElement
  <2>2. Cardinality(A \cup {e}) <= Cardinality(B)
    BY <1>10, <1>11, FS_Subset
  <2> QED
    BY <2>1, <2>2
<1>13. Path(c, n + 1, raw, new)
  <2>1. n + 1 \in Nat /\ n + 1 <= Cardinality(B)
    BY <1>2, <1>9, <1>10, <1>12
  <2> QED
    BY <1>4, <1>5, <1>9, <2>1 DEF Path
<1> QED
  BY <1>13 DEF Reached

(* What the parser has been on its way through the first n lines.          *)
Visited(a, n) == { a[i] : i \in 0 .. n }

(* ReadHeader reads line after line.                                       *)
LEMMA HeaderFold ==
  ASSUME NEW raw, NEW a, NEW n \in Nat, a[0] = Start(raw), \A i \in 1 .. n : a[i] = NextLine(a[i - 1]),
         NextLine(a[n]) = a[n], NEW N \in Nat, N = Cardinality(LineEnds(raw, 1))
  PROVE  \E f : /\ f[0] = Start(raw)
                /\ \A i \in 1 .. N : f[i - 1] \in Visited(a, n) /\ f[i] \in Visited(a, n) /\ f[i] = NextLine(f[i - 1])
                /\ ReadHeader(raw) = f[N]
<1> DEFINE op(m, i) == NextLine(m)
           seq == [i \in 1 .. N |-> i]
           D == DOMAIN seq
           base == Start(raw)
           Steady(g) == g = [s \in SUBSET D |-> IF s = {} THEN base ELSE op(g[s \ {Max(s)}], seq[Max(s)])]
           it == CHOOSE g : Steady(g)
           step == [e \in Visited(a, n) \X (1 .. N) |-> op(e[1], seq[e[2]])]
<1>1. ReadHeader(raw) = it[D]
  BY Zenon DEF ReadHeader, FoldLeft, MapThenFoldSet
<1>2. N \in Nat /\ D = 1 .. N
  OBVIOUS
<1>3. \A m \in Visited(a, n), i \in 1 .. N : op(m, seq[i]) \in Visited(a, n)
  <2> HIDE DEF seq
  <2> TAKE m \in Visited(a, n), i \in 1 .. N
  <2>1. PICK j \in 0 .. n : m = a[j]
    BY DEF Visited
  <2>2. NextLine(m) \in Visited(a, n)
    <3>1. CASE j = n
      BY <2>1, <3>1 DEF Visited
    <3>2. CASE j # n
      <4>1. j + 1 \in 1 .. n /\ (j + 1) - 1 = j /\ j + 1 \in 0 .. n
        BY <3>2
      <4>2. NextLine(m) = a[j + 1]
        BY <2>1, <4>1
      <4> QED
        BY <4>1, <4>2 DEF Visited
    <3> QED
      BY <3>1, <3>2
  <2> QED
    BY <2>2
<1>4. base \in Visited(a, n)
  BY DEF Visited
<1>5. step \in Steps(N, Visited(a, n))
  <2> HIDE DEF op, seq
  <2> QED
    BY <1>3 DEF Steps
<1>6. PICK g : FoldsBy(g, N, Visited(a, n), base, step)
  <2> HIDE DEF step, base, seq
  <2> QED
    BY <1>2, <1>4, <1>5, SubsetRecursion
<1>7. Steady(g)
  <2>1. g \in [SUBSET D -> Visited(a, n)]
    BY <1>2, <1>6 DEF FoldsBy
  <2>2. ASSUME NEW s \in SUBSET D
        PROVE  g[s] = IF s = {} THEN base ELSE op(g[s \ {Max(s)}], seq[Max(s)])
    <3>1. CASE s = {}
      BY <1>2, <1>6, <3>1 DEF FoldsBy
    <3>2. CASE s # {}
      <4>1. Max(s) \in 1 .. N
        BY <1>2, <3>2, MaxIn
      <4>2. g[s] = step[<<g[s \ {Max(s)}], Max(s)>>]
        BY <1>2, <1>6, <3>2, Zenon DEF FoldsBy
      <4>3. g[s \ {Max(s)}] \in Visited(a, n)
        BY <1>2, <1>6 DEF FoldsBy
      <4>4. step[<<g[s \ {Max(s)}], Max(s)>>] = op(g[s \ {Max(s)}], seq[Max(s)])
        <5> HIDE DEF op, seq
        <5> QED
          BY <4>1, <4>3
      <4> HIDE DEF step, op, seq
      <4> QED
        BY <3>2, <4>2, <4>4
    <3> QED
      BY <3>1, <3>2
  <2> HIDE DEF op, base, seq
  <2> QED
    BY <2>1, <2>2
<1>8. Steady(it)
  <2> HIDE DEF Steady
  <2> QED
    BY <1>7
<1>9. \A s \in SUBSET D : it[s] = IF s = {} THEN base ELSE op(it[s \ {Max(s)}], seq[Max(s)])
  <2> HIDE DEF it, op, base, seq
  <2> QED
    BY <1>8, Zenon
<1>e. \A i \in 1 .. N : seq[i] = i
  BY <1>2
<1> HIDE DEF it, Steady, op, base, step, seq
<1>10. it[{}] = base
  BY <1>9
<1>11. \A i \in 1 .. N : it[1 .. i] = op(it[1 .. i - 1], seq[i])
  <2> TAKE i \in 1 .. N
  <2>1. /\ 1 .. i # {} /\ 1 .. i \in SUBSET (1 .. N)
        /\ Max(1 .. i) = i /\ (1 .. i) \ {Max(1 .. i)} = 1 .. i - 1
    BY <1>2, FirstPositions
  <2> QED
    BY <1>2, <1>9, <2>1
<1> DEFINE f == [i \in 0 .. N |-> it[1 .. i]]
           E == { i \in 0 .. N : f[i] \in Visited(a, n) }
<1>12. f[0] = base /\ f[N] = it[D]
  <2>1. 1 .. 0 = {}
    OBVIOUS
  <2> QED
    BY <1>2, <1>10, <2>1
<1>13. \A i \in 1 .. N : f[i] = op(f[i - 1], seq[i])
  <2> TAKE i \in 1 .. N
  <2>1. i \in 0 .. N /\ i - 1 \in 0 .. N
    BY <1>2
  <2> QED
    BY <1>11, <2>1
<1> HIDE DEF f
<1>14. 0 .. N \subseteq E
  <2>1. 0 \in E
    BY <1>2, <1>4, <1>12
  <2>2. ASSUME NEW i \in 0 .. N - 1, i \in E PROVE i + 1 \in E
    <3>1. i + 1 \in 1 .. N /\ (i + 1) - 1 = i
      BY <1>2
    <3>2. f[i + 1] = op(f[i], seq[i + 1])
      BY <1>13, <3>1
    <3>3. f[i + 1] \in Visited(a, n)
      BY <1>3, <2>2, <3>1, <3>2
    <3> QED
      BY <1>2, <3>1, <3>3
  <2> HIDE DEF E
  <2> QED
    BY <1>2, <2>1, <2>2, UpTo
<1>15. \A i \in 1 .. N : f[i - 1] \in Visited(a, n) /\ f[i] \in Visited(a, n) /\ f[i] = op(f[i - 1], seq[i])
  <2> TAKE i \in 1 .. N
  <2>1. i \in 0 .. N /\ i - 1 \in 0 .. N
    BY <1>2
  <2> QED
    BY <1>13, <1>14, <2>1
<1>16. ReadHeader(raw) = f[N]
  BY <1>1, <1>12
<1> WITNESS f
<1> QED
  BY <1>12, <1>15, <1>16, <1>e DEF op, base

(* A state that was reached line by line, and that NextLine leaves as it   *)
(* is, is what is made of the header.                                      *)
LEMMA Settled ==
  ASSUME NEW raw \in Seq(Sign), NEW st, Reached(raw, st), NextLine(st) = st PROVE ReadHeader(raw) = st
<1>1. PICK a, n : Path(a, n, raw, st)
  BY DEF Reached
<1>2. /\ n \in Nat /\ a[0] = Start(raw) /\ (\A i \in 1 .. n : a[i] = NextLine(a[i - 1])) /\ a[n] = st
      /\ n <= Cardinality(EndsBefore(raw, st.cur))
  BY <1>1 DEF Path
<1>3. PICK N : N = Cardinality(LineEnds(raw, 1))
  OBVIOUS
<1>4. N \in Nat /\ n <= N
  <2>1. /\ Cardinality(EndsBefore(raw, st.cur)) \in Nat /\ Cardinality(LineEnds(raw, 1)) \in Nat
        /\ Cardinality(EndsBefore(raw, st.cur)) <= Cardinality(LineEnds(raw, 1))
    BY EndsFinite
  <2> QED
    BY <1>2, <1>3, <2>1
<1>5. PICK f : /\ f[0] = Start(raw)
               /\ \A i \in 1 .. N : f[i - 1] \in Visited(a, n) /\ f[i] \in Visited(a, n) /\ f[i] = NextLine(f[i - 1])
               /\ ReadHeader(raw) = f[N]
  BY <1>2, <1>3, <1>4, HeaderFold
<1> DEFINE at(i) == IF i <= n THEN i ELSE n
           E == { i \in 0 .. N : f[i] = a[at(i)] }
<1>6. 0 .. N \subseteq E
  <2>1. 0 \in E
    BY <1>2, <1>4, <1>5
  <2>2. ASSUME NEW i \in 0 .. N - 1, i \in E PROVE i + 1 \in E
    <3>1. i + 1 \in 1 .. N /\ (i + 1) - 1 = i /\ i + 1 \in 0 .. N
      BY <1>4
    <3>2. f[i + 1] = NextLine(f[i]) /\ f[i] = a[at(i)]
      BY <1>5, <2>2, <3>1
    <3>3. CASE i < n
      <4>1. at(i) = i /\ at(i + 1) = i + 1 /\ i + 1 \in 1 .. n
        BY <1>2, <3>1, <3>3
      <4> QED
        BY <1>2, <3>1, <3>2, <4>1
    <3>4. CASE ~(i < n)
      <4>1. at(i) = n /\ at(i + 1) = n
        BY <1>2, <3>1, <3>4
      <4> QED
        BY <1>2, <3>1, <3>2, <4>1
    <3> QED
      BY <3>3, <3>4
  <2> HIDE DEF E
  <2> QED
    BY <1>4, <2>1, <2>2, UpTo
<1>7. N \in E
  BY <1>4, <1>6
<1>8. at(N) = n
  BY <1>2, <1>4
<1> QED
  BY <1>2, <1>5, <1>7, <1>8

(* What was received begins with u.                                        *)
Opens(raw, u) == u \in Seq(Sign) /\ Len(u) <= Len(raw) /\ \A i \in 1 .. Len(u) : raw[i] = u[i]

(* The parser is in the header, and behind u.                              *)
After(raw, u, st) ==
  /\ Opens(raw, u) /\ IsParser(st) /\ st.ok /\ ~st.content /\ st.cur = Len(u) + 1
  /\ Memory(st.buf, raw, st.cur) /\ st.CookiePrm \in Seq(ItmType) /\ Reached(raw, st)

(* It begins with less, too.                                               *)
LEMMA OpensLess ==
  ASSUME NEW raw \in Seq(Sign), NEW u \in Seq(Sign), NEW v \in Seq(Sign), Opens(raw, u \o v) PROVE Opens(raw, u)
<1>1. /\ Len(u \o v) = Len(u) + Len(v)
      /\ \A i \in 1 .. Len(u) + Len(v) : (u \o v)[i] = IF i <= Len(u) THEN u[i] ELSE v[i - Len(u)]
  BY ConcatProperties
<1>2. Len(u) \in Nat /\ Len(v) \in Nat /\ Len(raw) \in Nat
  BY LenProperties
<1>3. Len(u) <= Len(raw)
  BY <1>1, <1>2 DEF Opens
<1>4. \A i \in 1 .. Len(u) : raw[i] = u[i]
  BY <1>1, <1>2 DEF Opens
<1> QED
  BY <1>3, <1>4 DEF Opens

(* The next line is s then, which ends where v does.                       *)
Ahead(raw, u, st, s, v) ==
  Reading(st, raw, s) /\ Next_(st, s) = Len(v) + 1 /\ (u # <<>> => st.cur # 1)

(* It is, if the text goes on with s and an end of line.                   *)
LEMMA LineBehind ==
  ASSUME NEW raw \in Seq(Sign), NEW u, NEW st, After(raw, u, st), NEW s \in Seq(Inline),
         NEW v, v = u \o (s \o CRLF), Opens(raw, v)
  PROVE  Ahead(raw, u, st, s, v)
<1>1. u \in Seq(Sign) /\ s \in Seq(Sign) /\ CRLF \in Seq(Sign) /\ Len(CRLF) = 2 /\ CRLF[1] = CR /\ CRLF[2] = LF
  <2>1. Inline \subseteq Sign /\ Sign \ {Length} \subseteq Sign
    BY DEF Inline
  <2>2. s \in Seq(Sign) /\ CRLF \in Seq(Sign)
    BY <2>1, CrlfType, SeqMonotonic
  <2> QED
    BY <2>2, CrlfType DEF After, Opens
<1>2. PICK t : t = s \o CRLF
  OBVIOUS
<1>3. /\ t \in Seq(Sign) /\ Len(t) = Len(s) + 2
      /\ \A i \in 1 .. Len(s) + 2 : t[i] = IF i <= Len(s) THEN s[i] ELSE CRLF[i - Len(s)]
  <2>1. /\ s \o CRLF \in Seq(Sign) /\ Len(s \o CRLF) = Len(s) + Len(CRLF)
        /\ \A i \in 1 .. Len(s) + Len(CRLF) : (s \o CRLF)[i] = IF i <= Len(s) THEN s[i] ELSE CRLF[i - Len(s)]
    BY <1>1, ConcatProperties
  <2> QED
    BY <1>1, <1>2, <2>1
<1>4. /\ v \in Seq(Sign) /\ Len(v) = Len(u) + Len(t)
      /\ \A i \in 1 .. Len(u) + Len(t) : v[i] = IF i <= Len(u) THEN u[i] ELSE t[i - Len(u)]
  BY <1>1, <1>2, <1>3, ConcatProperties
<1>5. Len(u) \in Nat /\ Len(s) \in Nat /\ Len(raw) \in Nat
  BY <1>1, LenProperties
<1>6. PICK p : p = st.cur
  OBVIOUS
<1>7. p = Len(u) + 1 /\ p \in Nat \ {0} /\ Len(v) = p + Len(s) + 1 /\ Len(v) <= Len(raw)
  BY <1>3, <1>4, <1>5, <1>6 DEF After, Opens
<1>8. \A i \in 1 .. Len(t) : raw[p + i - 1] = t[i]
  <2> TAKE i \in 1 .. Len(t)
  <2>1. p + i - 1 \in 1 .. Len(v) /\ ~(p + i - 1 <= Len(u)) /\ (p + i - 1) - Len(u) = i
    BY <1>3, <1>4, <1>5, <1>7
  <2> QED
    BY <1>4, <2>1 DEF Opens
<1>9. LineAt(raw, p, s)
  <2>1. \A i \in 1 .. Len(s) : raw[p + i - 1] = s[i]
    BY <1>3, <1>5, <1>8
  <2>2. raw[p + Len(s)] = CR
    <3>1. Len(s) + 1 \in 1 .. Len(t) /\ p + (Len(s) + 1) - 1 = p + Len(s)
          /\ ~(Len(s) + 1 <= Len(s)) /\ (Len(s) + 1) - Len(s) = 1
      BY <1>3, <1>5, <1>7
    <3> QED
      BY <1>1, <1>3, <1>8, <3>1
  <2>3. raw[p + Len(s) + 1] = LF
    <3>1. Len(s) + 2 \in 1 .. Len(t) /\ p + (Len(s) + 2) - 1 = p + Len(s) + 1
          /\ ~(Len(s) + 2 <= Len(s)) /\ (Len(s) + 2) - Len(s) = 2
      BY <1>3, <1>5, <1>7
    <3> QED
      BY <1>1, <1>3, <1>8, <3>1
  <2> QED
    BY <1>7, <2>1, <2>2, <2>3 DEF LineAt
<1>10. Reading(st, raw, s)
  BY <1>6, <1>9 DEF Reading, After
<1>11. Next_(st, s) = Len(v) + 1
  BY <1>5, <1>6, <1>7 DEF Next_
<1>12. u # <<>> => p # 1
  BY <1>1, <1>5, <1>7, EmptySeq
<1> QED
  BY <1>6, <1>10, <1>11, <1>12 DEF Ahead

(* And it is read, which neither fails nor ends the header.                *)
LEMMA LineOver ==
  ASSUME NEW raw \in Seq(Sign), NEW u, NEW st, After(raw, u, st), NEW s, Reading(st, raw, s),
         NEW v, Opens(raw, v), Next_(st, s) = Len(v) + 1, NEW new, new = NextLine(st),
         NEW c, Changes(st, new, raw, s, c), "ok" \notin c, "content" \notin c,
         "CookiePrm" \notin c \/ new.CookiePrm \in Seq(ItmType)
  PROVE  After(raw, v, new)
<1>1. Stepped(st, new, raw, s) /\ Kept(st, new, c)
  BY DEF Changes
<1>2. new.ok = st.ok /\ new.content = st.content
  BY <1>1 DEF Kept, Members
<1>3. new.CookiePrm \in Seq(ItmType)
  <2>1. CASE "CookiePrm" \notin c
    BY <1>1, <2>1 DEF Kept, Members, After
  <2> QED
    BY <2>1
<1>4. IsParser(new) /\ new.cur = Next_(st, s) /\ Memory(new.buf, raw, new.cur)
  BY <1>1 DEF Stepped
<1>5. Reached(raw, new)
  BY <1>4, ReachedNext DEF After
<1> QED
  BY <1>2, <1>3, <1>4, <1>5 DEF After

(* The parser starts before the first line.                                *)
LEMMA StartAfter ==
  ASSUME NEW raw \in Seq(Sign)
  PROVE  After(raw, <<>>, Start(raw)) /\ Start(raw).cur = 1
<1>1. PICK st : st = Start(raw)
  OBVIOUS
<1>2. st.cur = 1 /\ st.ok = TRUE /\ st.content = FALSE /\ st.buf = Append(raw, NUL) /\ st.CookiePrm = <<>>
  BY <1>1 DEF Start
<1>3. st.buf \in Seq(Mark) /\ Memory(st.buf, raw, 1)
  <2>1. raw \in Seq(Mark) /\ NUL \in Mark
    <3>1. Sign \subseteq Mark /\ NUL \in Mark
      BY DEF Mark
    <3> QED
      BY <3>1, SeqMonotonic
  <2>2. Append(raw, NUL) \in Seq(Mark) /\ Len(Append(raw, NUL)) = Len(raw) + 1
        /\ Append(raw, NUL)[Len(raw) + 1] = NUL /\ \A i \in 1 .. Len(raw) : Append(raw, NUL)[i] = raw[i]
    BY <2>1, AppendProperties
  <2> QED
    BY <1>2, <2>2 DEF Memory
<1>4. IsParser(st)
  <2>1. st = [k \in Members |-> st[k]]
    BY <1>1 DEF Start, Members
  <2> QED
    BY <1>3, <2>1, ParserIs
<1>5. Opens(raw, <<>>)
  BY LenProperties, EmptySeq DEF Opens
<1>6. Reached(raw, st)
  BY <1>1, ReachedStart
<1>7. st.CookiePrm \in Seq(ItmType) /\ Len(<<>>) + 1 = 1
  BY <1>2, EmptySeq
<1> QED
  BY <1>1, <1>2, <1>3, <1>4, <1>5, <1>6, <1>7 DEF After

(* A value is written without blanks.                                      *)
LEMMA EncodedIn ==
  ASSUME NEW S, Spelling \subseteq S, NEW v \in Seq(S \cup {Blank}) PROVE Encoded(v) \in Seq(S)
<1> DEFINE f == [i \in DOMAIN v |-> Escaped(v[i])]
<1>1. Len(v) \in Nat /\ DOMAIN v = 1 .. Len(v) /\ \A i \in 1 .. Len(v) : v[i] \in S \/ v[i] = Blank
  BY LenProperties, ElementOfSeq
<1>2. f \in [1 .. Len(v) -> Seq(S)]
  BY <1>1, EscapedIn
<1>3. f \in Seq(Seq(S))
  BY <1>1, <1>2
<1> HIDE DEF f
<1>4. FlattenSeq(f) \in Seq(S)
  BY <1>3, FlattenType
<1> QED
  BY <1>4 DEF Encoded, f

(* And a list of parameters.                                               *)
LEMMA PairsIn ==
  ASSUME NEW S, Spelling \subseteq S, NEW prm \in Seq(S \X Seq(S \cup {Blank})), NEW between \in Seq(S)
  PROVE  Pairs(prm, between) \in Seq(S)
<1> DEFINE P(i) == ((IF i = 1 THEN <<>> ELSE between) \o <<prm[i][1], "=">>) \o Encoded(prm[i][2])
           f == [i \in DOMAIN prm |-> P(i)]
<1>1. Len(prm) \in Nat /\ DOMAIN prm = 1 .. Len(prm)
  BY LenProperties
<1>2. ASSUME NEW i \in 1 .. Len(prm) PROVE P(i) \in Seq(S)
  <2>1. prm[i] \in S \X Seq(S \cup {Blank})
    BY ElementOfSeq
  <2>2. prm[i][1] \in S /\ prm[i][2] \in Seq(S \cup {Blank})
    BY <2>1
  <2>3. "=" \in S
    BY DEF Spelling
  <2>4. /\ (IF i = 1 THEN <<>> ELSE between) \in Seq(S)
        /\ <<prm[i][1], "=">> \in Seq(S) /\ Encoded(prm[i][2]) \in Seq(S)
    <3>1. <<prm[i][1], "=">> \in Seq(S)
      BY <2>2, <2>3, Tuples
    <3>2. Encoded(prm[i][2]) \in Seq(S)
      BY <2>2, EncodedIn
    <3> QED
      BY <3>1, <3>2, EmptySeq
  <2> QED
    BY <2>4, ConcatProperties
<1>3. f \in [1 .. Len(prm) -> Seq(S)]
  <2> HIDE DEF P
  <2> QED
    BY <1>1, <1>2
<1>4. f \in Seq(Seq(S))
  <2> HIDE DEF f, P
  <2> QED
    BY <1>1, <1>3, FunctionIsSeq
<1>5. FlattenSeq(f) \in Seq(S)
  <2> HIDE DEF f
  <2> QED
    BY <1>4, FlattenType
<1> QED
  BY <1>5, Zenon DEF Pairs

-----------------------------------------------------------------------------
(* What a decent client keeps to, with the blank and the "?" named.        *)
LEMMA DecentFields ==
  ASSUME NEW r, Decent(r)
  PROVE  /\ r.url # <<>> /\ r.url \in Seq(Ink \ {Blank, Question})
         /\ r.host \in Seq(Ink \ {Blank}) /\ r.key \in Ink \ {Blank}
         /\ r.get \in Seq((Ink \ {Blank}) \X Seq(Ink)) /\ r.cookies \in Seq(Ink \X Seq(Ink))
BY Zenon DEF Decent, Blank, Question

(* The fields are written in the signs of a line.                          *)
Worded(r) ==
  /\ r.url \in Seq(Inline \ {Blank}) /\ (\A i \in 1 .. Len(r.url) : r.url[i] # Question) /\ r.url # <<>>
  /\ r.host \in Seq(Inline \ {Blank}) /\ r.key \in Inline \ {Blank}
  /\ Pairs(r.get, <<Ampersand>>) \in Seq(Inline \ {Blank})
  /\ Pairs(r.cookies, <<";", " ">>) \in Seq(Inline)
  /\ r.post \in BOOLEAN

(* A sequence over two sets is one over what they share.                   *)
LEMMA InBoth ==
  ASSUME NEW A, NEW B, NEW C, A \cap B \subseteq C, NEW s, s \in Seq(A), s \in Seq(B) PROVE s \in Seq(C)
<1>1. Len(s) \in Nat /\ s \in [1 .. Len(s) -> A] /\ s \in [1 .. Len(s) -> B]
  BY LenProperties
<1>2. \A i \in 1 .. Len(s) : s[i] \in C
  BY <1>1
<1> QED
  BY <1>1, <1>2

(* Spelling is done with words of a line.                                  *)
LEMMA Spelled == Spelling \subseteq Inline \ {Blank} /\ Spelling \subseteq Inline
<1>1. \A w \in Spelling : w \in Letter
  BY DEF Spelling, Letter, Words, Digits, CR, LF, Length
<1>2. \A w \in Spelling : w # CR /\ w # LF /\ w # NUL
  BY DEF Spelling, CR, LF, NUL
<1>3. \A w \in Spelling : w # " "
  BY Zenon DEF Spelling
<1> QED
  BY <1>1, <1>2, <1>3, Zenon DEF Inline, Sign, Blank

(* A decent and proper request is.                                         *)
LEMMA DecentIsWorded == ASSUME NEW r, Proper(r), Decent(r) PROVE Worded(r)
<1>1. PICK W, B : W = Inline \ {Blank} /\ B = Inline
  OBVIOUS
<1>2. PICK V : V = W \cup {Blank}
  OBVIOUS
<1>3. Plain \cap Ink \subseteq B /\ Plain \cap (Ink \ {Blank}) \subseteq W /\ B \subseteq V
  <2>1. Plain \subseteq Sign \ {CR, LF}
    BY DEF Plain, Letter, Sign
  <2> QED
    BY <1>1, <1>2, <2>1, Zenon DEF Ink, Inline
<1>4. r.url \in Seq(W) /\ r.host \in Seq(W) /\ r.key \in W
  <2>1. r.url \in Seq(Plain) /\ r.host \in Seq(Plain) /\ r.key \in Plain
    BY DEF Proper
  <2>2. r.url \in Seq(Ink \ {Blank, Question}) /\ r.host \in Seq(Ink \ {Blank}) /\ r.key \in Ink \ {Blank}
    BY DecentFields
  <2>3. Plain \cap (Ink \ {Blank, Question}) \subseteq W
    BY <1>3
  <2> QED
    BY <1>3, <2>1, <2>2, <2>3, InBoth
<1>5. \A i \in 1 .. Len(r.url) : r.url[i] # Question
  <2>1. \A i \in 1 .. Len(r.url) : r.url[i] \in Ink \ {Blank, Question}
    BY ElementOfSeq, DecentFields
  <2> QED
    BY <2>1, Zenon
<1>6. Seq(Plain) \cap Seq(Ink) \subseteq Seq(B) /\ Seq(B) \subseteq Seq(V)
  BY <1>3, InBoth, SeqMonotonic
<1>7. Pairs(r.get, <<Ampersand>>) \in Seq(W)
  <2>1. (Plain \X Seq(Plain)) \cap ((Ink \ {Blank}) \X Seq(Ink)) \subseteq W \X Seq(V)
    BY <1>3, <1>6
  <2>2. r.get \in Seq(Plain \X Seq(Plain)) /\ r.get \in Seq((Ink \ {Blank}) \X Seq(Ink))
    BY DecentFields DEF Proper
  <2>3. r.get \in Seq(W \X Seq(V))
    BY <2>1, <2>2, InBoth
  <2>4. <<Ampersand>> \in Seq(W)
    <3>1. Ampersand \in W
      <4>1. "&" \in Letter /\ "&" # CR /\ "&" # LF /\ "&" # NUL
        BY DEF Letter, Words, CR, LF, NUL, Length
      <4>2. "&" # " "
        BY Zenon
      <4> QED
        BY <1>1, <4>1, <4>2, Zenon DEF Ampersand, Inline, Blank, Sign
    <3> QED
      BY <3>1
  <2> QED
    BY <1>1, <1>2, <2>3, <2>4, Spelled, PairsIn
<1>8. Pairs(r.cookies, <<";", " ">>) \in Seq(B)
  <2>0. ";" \in B /\ " " \in B
    <3>1. ";" \in Letter /\ ";" # CR /\ ";" # LF /\ ";" # NUL
      BY Zenon DEF Letter, Words, CR, LF, NUL, Length
    <3>2. " " \in Letter /\ " " # CR /\ " " # LF /\ " " # NUL
      BY Zenon DEF Letter, Words, CR, LF, NUL, Length
    <3> QED
      BY <1>1, <3>1, <3>2, Zenon DEF Inline, Sign
  <2>1. B \cup {Blank} = B
    <3>1. Blank \in B
      BY <2>0, Zenon DEF Blank
    <3> QED
      BY <3>1
  <2>2. (Plain \X Seq(Plain)) \cap (Ink \X Seq(Ink)) \subseteq B \X Seq(B \cup {Blank})
    BY <1>3, <1>6, <2>1
  <2>3. r.cookies \in Seq(Plain \X Seq(Plain)) /\ r.cookies \in Seq(Ink \X Seq(Ink))
    BY DecentFields DEF Proper
  <2>4. r.cookies \in Seq(B \X Seq(B \cup {Blank}))
    BY <2>2, <2>3, InBoth
  <2>5. <<";", " ">> \in Seq(B)
    BY <2>0, Tuples
  <2> QED
    BY <1>1, <2>4, <2>5, Spelled, PairsIn
<1> QED
  BY <1>1, <1>4, <1>5, <1>7, <1>8, DecentFields DEF Worded, Proper

(* What the parser has of the request r, its host, its upgrade and the     *)
(* kind of its body so far; and the key of the upgrade in its memory.      *)
Says(st, r, host, up, type) ==
  /\ st.POST = r.post /\ st.URL = r.url
  /\ st.Host = host /\ st.Upgrade = up /\ st.ContentType = type
  /\ st.PostPrm = <<>> /\ st.FilePrm = <<>>

KeyIn(st, r) == Holds(st.buf, st.Key, <<r.key>>) /\ st.Key \in Nat \ {0} /\ st.Key + 1 < st.cur

Noted == {"POST", "URL", "Host", "Upgrade", "ContentType", "PostPrm", "FilePrm", "Key"}

(* A string before the cuts stays.                                         *)
LEMMA HoldsOn ==
  ASSUME NEW b, NEW c, NEW p \in Nat, NEW z, Cuts(b, c, p, z), NEW x, NEW v, Holds(b, x, v), x + Len(v) < p
  PROVE  Holds(c, x, v)
<1>1. /\ v \in Seq(Mark) /\ x \in Nat /\ x > 0 /\ x + Len(v) <= Len(b) /\ b[x + Len(v)] = NUL /\ x <= x + Len(v)
      /\ (\A i \in x .. x + Len(v) - 1 : b[i] # NUL) /\ \A i \in 1 .. Len(v) : b[x + i - 1] = v[i]
  BY DEF Holds, StringAt
<1>2. Len(v) \in Nat
  BY <1>1, LenProperties
<1>3. Len(c) = Len(b) /\ \A i \in 1 .. Len(b) : i < p => c[i] = b[i]
  <2>1. \A i \in 1 .. Len(b) : c[i] = b[i] \/ (i \in p .. z - 1 /\ c[i] = NUL)
    BY DEF Cuts
  <2> QED
    BY <2>1 DEF Cuts
<1>4. \A i \in x .. x + Len(v) : i \in 1 .. Len(b) /\ i < p
  BY <1>1, <1>2
<1>5. \A i \in x .. x + Len(v) : c[i] = b[i]
  BY <1>3, <1>4
<1>6. StringAt(c, x, x + Len(v))
  <2>1. c[x + Len(v)] = NUL
    BY <1>1, <1>2, <1>5
  <2>2. \A i \in x .. x + Len(v) - 1 : c[i] # NUL
    <3> TAKE i \in x .. x + Len(v) - 1
    <3>1. i \in x .. x + Len(v)
      BY <1>1, <1>2
    <3> QED
      BY <1>1, <1>5, <3>1
  <2> QED
    BY <1>1, <1>2, <1>3, <2>1, <2>2 DEF StringAt
<1>7. \A i \in 1 .. Len(v) : c[x + i - 1] = v[i]
  <2> TAKE i \in 1 .. Len(v)
  <2>1. x + i - 1 \in x .. x + Len(v)
    BY <1>1, <1>2
  <2> QED
    BY <1>1, <1>5, <2>1
<1> QED
  BY <1>1, <1>6, <1>7 DEF Holds

(* A line keeps what is noted, and the key, if it does not change it.      *)
LEMMA SaysKept ==
  ASSUME NEW raw \in Seq(Sign), NEW u, NEW st, After(raw, u, st), NEW s, NEW new, NEW c, Changes(st, new, raw, s, c),
         c \cap Noted = {}, NEW r, NEW host, NEW up, NEW type, Says(st, r, host, up, type)
  PROVE  Says(new, r, host, up, type)
<1>1. \A k \in Noted : new[k] = st[k]
  BY DEF Changes, Kept, Members, Noted
<1> QED
  BY <1>1 DEF Says, Noted

(* The key stays where it is, too, in lines that do not speak of it.       *)
LEMMA KeyKept ==
  ASSUME NEW raw \in Seq(Sign), NEW u, NEW st, After(raw, u, st), NEW s, NEW new, NEW c, Changes(st, new, raw, s, c),
         c \cap Noted \subseteq {"ContentType"}, NEW v, After(raw, v, new), NEW r, KeyIn(st, r)
  PROVE  KeyIn(new, r)
<1>1. new.Key = st.Key
  BY DEF Changes, Kept, Members, Noted
<1>2. Cuts(st.buf, new.buf, st.cur, new.cur) /\ new.cur = Next_(st, s)
  BY DEF Changes, Stepped
<1>3. st.cur \in Nat /\ new.cur \in Nat
  <2>1. Len(u) \in Nat /\ Len(v) \in Nat
    BY LenProperties DEF After, Opens
  <2> QED
    BY <2>1 DEF After
<1>4. st.Key + Len(<<r.key>>) < st.cur /\ Holds(st.buf, st.Key, <<r.key>>)
  <2>1. Len(<<r.key>>) = 1
    OBVIOUS
  <2> QED
    BY <2>1 DEF KeyIn
<1>5. Holds(new.buf, st.Key, <<r.key>>)
  BY <1>2, <1>3, <1>4, HoldsOn
<1>6. st.Key + 1 < new.cur
  <2>1. new.cur >= st.cur
    <3>1. new.buf \in Seq(Mark) /\ Len(st.buf) \in Nat
      BY LenProperties DEF After, IsParser
    <3> QED
      BY <1>2, <1>3 DEF Next_
  <2> QED
    BY <1>3, <2>1 DEF KeyIn
<1> QED
  BY <1>1, <1>5, <1>6 DEF KeyIn

(* What is behind the line s, which begins behind u.                       *)
Behind(u, s) == u \o (s \o CRLF)

(* It is a text that is not empty.                                         *)
LEMMA BehindType ==
  ASSUME NEW u \in Seq(Sign), NEW s \in Seq(Inline) PROVE Behind(u, s) \in Seq(Sign) /\ Behind(u, s) # <<>>
<1>1. s \in Seq(Sign) /\ CRLF \in Seq(Sign) /\ CRLF # <<>>
  <2>1. Inline \subseteq Sign /\ Sign \ {Length} \subseteq Sign
    BY DEF Inline
  <2>2. s \in Seq(Sign) /\ CRLF \in Seq(Sign)
    BY <2>1, CrlfType, SeqMonotonic
  <2>3. CRLF # <<>>
    BY DEF CRLF
  <2> QED
    BY <2>2, <2>3
<1>2. s \o CRLF \in Seq(Sign) /\ s \o CRLF # <<>>
  BY <1>1, ConcatProperties, ConcatEqualIffEmpty
<1> QED
  BY <1>2, ConcatProperties, ConcatEqualIffEmpty DEF Behind

(* What stands before a character, if it is there.                         *)
LEMMA UntilNone ==
  ASSUME NEW S, NEW s \in Seq(S), NEW c, \A i \in 1 .. Len(s) : s[i] # c PROVE Until(s, c) = s
<1> DEFINE I == { i \in 1 .. Len(s) : s[i] = c }
<1>1. I = {}
  OBVIOUS
<1>2. Until(s, c) = LET i == IF I # {} THEN Min(I) ELSE 0 IN IF i = 0 THEN s ELSE SubSeq(s, 1, i - 1)
  BY Zenon DEF Until, SelectInSeq, SelectInSubSeq
<1> QED
  BY <1>1, <1>2

(* And what stands before it is what it is put behind.                     *)
LEMMA UntilThere ==
  ASSUME NEW S, NEW s \in Seq(S), NEW c \in S, \A i \in 1 .. Len(s) : s[i] # c, NEW t \in Seq(S)
  PROVE  Until(s \o (<<c>> \o t), c) = s
<1> DEFINE w == s \o (<<c>> \o t)
           I == { i \in 1 .. Len(w) : w[i] = c }
<1>1. PICK d : d = <<c>> \o t
  OBVIOUS
<1>2. d \in Seq(S) /\ Len(d) = 1 + Len(t) /\ d[1] = c /\ Len(t) \in Nat /\ Len(s) \in Nat
  <2>1. <<c>> \in Seq(S) /\ Len(<<c>>) = 1 /\ <<c>>[1] = c
    OBVIOUS
  <2>2. Len(t) \in Nat /\ Len(s) \in Nat
    BY LenProperties
  <2> QED
    BY <1>1, <2>1, <2>2, ConcatProperties
<1>3. /\ w \in Seq(S) /\ Len(w) = Len(s) + Len(d)
      /\ \A i \in 1 .. Len(s) + Len(d) : w[i] = IF i <= Len(s) THEN s[i] ELSE d[i - Len(s)]
  BY <1>1, <1>2, ConcatProperties
<1> HIDE DEF w
<1>4. Len(s) + 1 \in I /\ I \in SUBSET Nat
  <2>1. Len(s) + 1 \in 1 .. Len(w) /\ ~(Len(s) + 1 <= Len(s)) /\ (Len(s) + 1) - Len(s) = 1
    BY <1>2, <1>3
  <2> QED
    BY <1>2, <1>3, <2>1
<1>5. \A i \in I : i >= Len(s) + 1
  <2> SUFFICES ASSUME NEW i \in I, i <= Len(s) PROVE FALSE
    BY <1>2
  <2> QED
    BY <1>2, <1>3
<1>6. PICK n : n = Min(I)
  OBVIOUS
<1>7. n \in I /\ n <= Len(s) + 1
  <2> HIDE DEF I
  <2> QED
    BY <1>4, <1>6, MinOf
<1>8. n = Len(s) + 1 /\ I # {}
  BY <1>2, <1>4, <1>5, <1>7
<1>9. Until(w, c) = LET i == IF I # {} THEN Min(I) ELSE 0 IN IF i = 0 THEN w ELSE SubSeq(w, 1, i - 1)
  BY Zenon DEF Until, SelectInSeq, SelectInSubSeq
<1> HIDE DEF I
<1>10. Until(w, c) = SubSeq(w, 1, Len(s))
  <2>1. n # 0 /\ n - 1 = Len(s)
    BY <1>2, <1>8
  <2>2. Until(w, c) = IF n = 0 THEN w ELSE SubSeq(w, 1, n - 1)
    BY <1>6, <1>8, <1>9
  <2> QED
    BY <2>1, <2>2
<1>11. SubSeq(w, 1, Len(s)) \in Seq(S) /\ Len(SubSeq(w, 1, Len(s))) = Len(s)
       /\ \A i \in 1 .. Len(s) : SubSeq(w, 1, Len(s))[i] = s[i]
  BY <1>2, <1>3
<1>12. SubSeq(w, 1, Len(s)) = s
  BY <1>11, SeqEqual
<1> QED
  BY <1>10, <1>12 DEF w

-----------------------------------------------------------------------------
(* The request line.                                                       *)
LEMMA FirstLineSays ==
  ASSUME NEW raw \in Seq(Sign), NEW r, Worded(r), NEW v, v = Behind(<<>>, FirstLine(r)), Opens(raw, v)
  PROVE  \E st : After(raw, v, st) /\ Says(st, r, <<>>, FALSE, <<>>)
<1>1. PICK st : st = Start(raw)
  OBVIOUS
<1>2. PICK new : new = NextLine(st)
  OBVIOUS
<1>3. PICK a : a = IF r.post THEN "POST" ELSE "GET"
  OBVIOUS
<1>4. PICK q : q = IF r.get = <<>> THEN <<>> ELSE <<"?">> \o Pairs(r.get, <<"&">>)
  OBVIOUS
<1>5. PICK w, x : w = r.url \o q /\ x = <<"HTTP/1.1">>
  OBVIOUS
<1>6. PICK W : W = Inline \ {Blank}
  OBVIOUS
<1>7. a \in W /\ a \in {"POST", "GET"} /\ x \in Seq(W) /\ Question \in W /\ (a = "POST") = r.post
  <2>1. r.post \in BOOLEAN
    BY DEF Worded
  <2>2. "POST" \in W /\ "GET" \in W /\ "HTTP/1.1" \in W /\ "?" \in W
    BY <1>6, LabelInline DEF Label
  <2> QED
    BY <1>3, <1>5, <2>1, <2>2 DEF Question
<1>8. r.url \in Seq(W) /\ q \in Seq(W)
  <2>1. <<"?">> \in Seq(W) /\ Pairs(r.get, <<"&">>) \in Seq(W)
    BY <1>6, <1>7, Tuples DEF Question, Worded, Ampersand
  <2> QED
    BY <1>4, <1>6, <2>1, ConcatProperties, EmptySeq DEF Worded
<1>9. w \in Seq(W)
  BY <1>5, <1>8, ConcatProperties
<1>10. PICK s : s = FirstLine(r)
  OBVIOUS
<1>11. Three(s, a, Blank, w, x)
  <2>1. FirstLine(r) = ((<<a, Blank>> \o r.url) \o q) \o <<Blank, "HTTP/1.1">>
    BY <1>3, <1>4, Zenon DEF FirstLine, Blank
  <2>2. <<a, Blank>> \in Seq(Inline) /\ r.url \in Seq(Inline) /\ q \in Seq(Inline) /\ <<Blank>> \in Seq(Inline)
        /\ x \in Seq(Inline)
    <3>1. Blank \in Inline
      BY BlankIs
    <3>2. a \in Inline /\ W \subseteq Inline
      BY <1>6, <1>7
    <3> QED
      BY <1>7, <1>8, <3>1, <3>2, Tuples, SeqMonotonic
  <2>3. (<<a, Blank>> \o r.url) \o q = <<a, Blank>> \o w
    <3>1. PICK d, y : d = <<a, Blank>> /\ y = r.url
      OBVIOUS
    <3>2. d \in Seq(Inline) /\ y \in Seq(Inline) /\ q \in Seq(Inline)
      BY <2>2, <3>1
    <3>3. (d \o y) \o q = d \o (y \o q)
      BY <3>2, ConcatAssociative, SMTT(30)
    <3> QED
      BY <1>5, <3>1, <3>3
  <2>4. <<Blank, "HTTP/1.1">> = <<Blank>> \o x
    BY <1>5
  <2>5. (<<a, Blank>> \o w) \o (<<Blank>> \o x) = ((<<a, Blank>> \o w) \o <<Blank>>) \o x
    <3>1. w \in Seq(Inline)
      BY <1>5, <2>2, ConcatProperties
    <3>2. <<a, Blank>> \o w \in Seq(Inline)
      BY <2>2, <3>1, ConcatProperties
    <3>3. PICK A, B : A = <<a, Blank>> \o w /\ B = <<Blank>>
      OBVIOUS
    <3>4. A \in Seq(Inline) /\ B \in Seq(Inline) /\ x \in Seq(Inline)
      BY <2>2, <3>2, <3>3
    <3>5. (A \o B) \o x = A \o (B \o x)
      BY <3>4, ConcatAssociative
    <3> QED
      BY <3>3, <3>5, Zenon
  <2> QED
    BY <1>10, <2>1, <2>3, <2>4, <2>5 DEF Three
<1>12. s \in Seq(Inline)
  <2>1. Blank \in Inline /\ a \in Inline /\ W \subseteq Inline
    BY <1>6, <1>7, BlankIs
  <2>2. <<a, Blank>> \in Seq(Inline) /\ <<Blank>> \in Seq(Inline) /\ w \in Seq(Inline) /\ x \in Seq(Inline)
    BY <1>7, <1>9, <2>1, Tuples, SeqMonotonic
  <2>3. <<a, Blank>> \o w \in Seq(Inline)
    BY <2>2, ConcatProperties
  <2>4. (<<a, Blank>> \o w) \o <<Blank>> \in Seq(Inline)
    BY <2>2, <2>3, ConcatProperties
  <2> QED
    BY <1>11, <2>2, <2>4, ConcatProperties DEF Three
<1>13. PICK e : e = <<>>
  OBVIOUS
<1>14. After(raw, e, st) /\ st.cur = 1
  BY <1>1, <1>13, StartAfter
<1>15. v = e \o (s \o CRLF)
  BY <1>10, <1>13 DEF Behind
<1>16. Reading(st, raw, s) /\ Next_(st, s) = Len(v) + 1
  BY <1>12, <1>14, <1>15, LineBehind DEF Ahead
<1>17. Requested(st, new, raw, s, a, w)
  <2>1. w \in Seq(Inline \ {Blank}) /\ x \in Seq(Inline \ {Blank}) /\ a \in {"POST", "GET"}
    BY <1>6, <1>7, <1>9
  <2>2. Reading(st, raw, s) /\ st.cur = 1
    BY <1>14, <1>16
  <2> QED
    BY <1>2, <1>11, <2>1, <2>2, FirstLineRead
<1>18. PICK c : c = {"POST", "URL", "GetPrm"}
  OBVIOUS
<1>19. After(raw, v, new)
  <2>1. "ok" \notin c /\ "content" \notin c /\ "CookiePrm" \notin c
    BY <1>18
  <2> QED
    BY <1>2, <1>14, <1>16, <1>17, <1>18, <2>1, LineOver DEF Requested
<1>20. Until(w, Question) = r.url
  <2>1. \A i \in 1 .. Len(r.url) : r.url[i] # Question
    BY DEF Worded
  <2>2. q = <<>> \/ q = <<Question>> \o Pairs(r.get, <<"&">>)
    BY <1>4 DEF Question
  <2>3. CASE q = <<>>
    <3>1. w = r.url
      BY <1>5, <1>8, <2>3, ConcatEmptySeq
    <3> QED
      BY <1>8, <2>1, <3>1, UntilNone
  <2>4. CASE q = <<Question>> \o Pairs(r.get, <<"&">>)
    <3>1. Pairs(r.get, <<"&">>) \in Seq(W)
      BY <1>6 DEF Worded, Ampersand
    <3> QED
      BY <1>5, <1>7, <1>8, <2>1, <2>4, <3>1, UntilThere
  <2> QED
    BY <2>2, <2>3, <2>4
<1>21. /\ new.Host = <<>> /\ new.Upgrade = FALSE /\ new.ContentType = <<>>
       /\ new.PostPrm = <<>> /\ new.FilePrm = <<>>
  <2>1. \A k \in {"Host", "Upgrade", "ContentType", "PostPrm", "FilePrm"} : new[k] = st[k]
    BY <1>17 DEF Requested, Changes, Kept, Members
  <2>2. /\ st.Host = <<>> /\ st.Upgrade = FALSE /\ st.ContentType = <<>>
        /\ st.PostPrm = <<>> /\ st.FilePrm = <<>>
    BY <1>1 DEF Start
  <2> QED
    BY <2>1, <2>2
<1>22. Says(new, r, <<>>, FALSE, <<>>)
  BY <1>7, <1>17, <1>20, <1>21 DEF Says, Requested
<1> QED
  BY <1>19, <1>22

(* A field of the header is no line or a line of two pieces.               *)
IsField(u, a, value, v) ==
  /\ value = <<>> => v = u
  /\ value # <<>> => \E s \in Seq(Inline) : Two(s, a, Blank, value) /\ v = Behind(u, s)

(* Every field of the header is one of these.                              *)
LEMMA FieldLine ==
  ASSUME NEW u \in Seq(Sign), NEW a \in Inline, NEW value \in Seq(Inline), NEW v, v = u \o Field(<<a, Blank>>, value)
  PROVE  IsField(u, a, value, v)
<1>1. CASE value = <<>>
  <2>1. Field(<<a, Blank>>, value) = <<>>
    BY <1>1 DEF Field
  <2> QED
    BY <1>1, <2>1, ConcatEmptySeq DEF IsField
<1>2. CASE value # <<>>
  <2>1. PICK s : s = <<a, Blank>> \o value
    OBVIOUS
  <2>2. s \in Seq(Inline)
    <3>1. Blank \in Inline
      BY BlankIs
    <3>2. <<a, Blank>> \in Seq(Inline)
      BY <3>1, Tuples
    <3> QED
      BY <2>1, <3>2, ConcatProperties
  <2>3. Field(<<a, Blank>>, value) = s \o CRLF
    BY <1>2, <2>1 DEF Field
  <2> QED
    BY <1>2, <2>1, <2>2, <2>3 DEF Two, Behind, IsField
<1> QED
  BY <1>1, <1>2

(* The Host, without the port.                                             *)
LEMMA HostSays ==
  ASSUME NEW raw \in Seq(Sign), NEW r, Worded(r), NEW u \in Seq(Sign), u # <<>>, NEW st, After(raw, u, st),
         NEW up, NEW type, Says(st, r, <<>>, up, type), NEW v, v = u \o Field(<<"host:", Blank>>, r.host), Opens(raw, v)
  PROVE  \E new : After(raw, v, new) /\ Says(new, r, HostOf(r), up, type)
<1>1. HostOf(r) = Until(r.host, ":")
  BY Zenon DEF HostOf, Until
<1>2. "host:" \in Inline /\ r.host \in Seq(Inline) /\ r.host \in Seq(Inline \ {Blank})
  <2>1. "host:" \in Inline /\ r.host \in Seq(Inline \ {Blank}) /\ Inline \ {Blank} \subseteq Inline
    BY LabelInline DEF Label, Worded
  <2> QED
    BY <2>1, SeqMonotonic
<1>a. PICK a : a = "host:"
  OBVIOUS
<1>f. IsField(u, a, r.host, v)
  <2>1. a \in Inline /\ r.host \in Seq(Inline) /\ v = u \o Field(<<a, Blank>>, r.host)
    BY <1>2, <1>a
  <2> QED
    BY <2>1, FieldLine
<1>3. CASE r.host = <<>>
  <2>1. v = u
    BY <1>3, <1>f DEF IsField
  <2>2. HostOf(r) = <<>>
    <3>1. \A i \in 1 .. Len(r.host) : r.host[i] # ":"
      BY <1>3, EmptySeq
    <3> QED
      BY <1>1, <1>2, <1>3, <3>1, UntilNone
  <2> QED
    BY <2>1, <2>2
<1>4. CASE r.host # <<>>
  <2>1. PICK s \in Seq(Inline) : Two(s, "host:", Blank, r.host) /\ v = Behind(u, s)
    BY <1>4, <1>a, <1>f DEF IsField
  <2>2. Reading(st, raw, s) /\ Next_(st, s) = Len(v) + 1 /\ st.cur # 1
    <3>1. v = u \o (s \o CRLF)
      BY <2>1 DEF Behind
    <3>2. Ahead(raw, u, st, s, v)
      BY <3>1, LineBehind
    <3> QED
      BY <3>2 DEF Ahead
  <2>3. PICK new : new = NextLine(st)
    OBVIOUS
  <2>4. PICK c, h : c = {"Host"} /\ h = r.host
    OBVIOUS
  <2>5. Changes(st, new, raw, s, c) /\ new.Host = Until(h, ":")
    <3>1. h \in Seq(Inline \ {Blank}) /\ h # <<>> /\ Two(s, "host:", Blank, h)
      BY <1>2, <1>4, <2>1, <2>4
    <3> QED
      BY <2>2, <2>3, <2>4, <3>1, HostLine
  <2>6. After(raw, v, new)
    <3>1. "ok" \notin c /\ "content" \notin c /\ "CookiePrm" \notin c
      BY <2>4
    <3> QED
      BY <2>2, <2>3, <2>5, <3>1, LineOver
  <2>7. \A k \in Noted \ {"Host"} : new[k] = st[k]
    BY <2>4, <2>5 DEF Changes, Kept, Members, Noted
  <2>8. Says(new, r, HostOf(r), up, type)
    BY <1>1, <2>4, <2>5, <2>7 DEF Says, Noted
  <2> QED
    BY <2>6, <2>8
<1> QED
  BY <1>3, <1>4

(* The cookies.                                                            *)
LEMMA CookiesSay ==
  ASSUME NEW raw \in Seq(Sign), NEW r, Worded(r), NEW u \in Seq(Sign), u # <<>>, NEW st, After(raw, u, st),
         NEW host, NEW up, NEW type, Says(st, r, host, up, type),
         NEW pairs \in Seq(Inline), NEW v, v = u \o Field(<<"cookie:", Blank>>, pairs), Opens(raw, v)
  PROVE  \E new : After(raw, v, new) /\ Says(new, r, host, up, type)
<1>2. "cookie:" \in Inline
  BY LabelInline DEF Label
<1>a. PICK a : a = "cookie:"
  OBVIOUS
<1>f. IsField(u, a, pairs, v)
  <2>1. a \in Inline /\ pairs \in Seq(Inline) /\ v = u \o Field(<<a, Blank>>, pairs)
    BY <1>2, <1>a
  <2> QED
    BY <2>1, FieldLine
<1>3. CASE pairs = <<>>
  <2>1. v = u
    BY <1>3, <1>f DEF IsField
  <2> QED
    BY <2>1
<1>4. CASE pairs # <<>>
  <2>1. PICK s \in Seq(Inline) : Two(s, "cookie:", Blank, pairs) /\ v = Behind(u, s)
    BY <1>4, <1>a, <1>f DEF IsField
  <2>2. Reading(st, raw, s) /\ Next_(st, s) = Len(v) + 1 /\ st.cur # 1
    <3>1. v = u \o (s \o CRLF)
      BY <2>1 DEF Behind
    <3>2. Ahead(raw, u, st, s, v)
      BY <3>1, LineBehind
    <3> QED
      BY <3>2 DEF Ahead
  <2>3. PICK new : new = NextLine(st)
    OBVIOUS
  <2>4. PICK c : c = {"CookiePrm"}
    OBVIOUS
  <2>5. Changes(st, new, raw, s, c) /\ new.CookiePrm \in Seq(ItmType)
    BY <2>1, <2>2, <2>3, <2>4, CookieLine DEF After
  <2>6. After(raw, v, new)
    <3>1. "ok" \notin c /\ "content" \notin c
      BY <2>4
    <3> QED
      BY <2>2, <2>3, <2>5, <3>1, LineOver
  <2>7. c \cap Noted = {}
    BY <2>4 DEF Noted
  <2>8. Says(new, r, host, up, type)
    BY <2>5, <2>7, SaysKept
  <2> QED
    BY <2>6, <2>8
<1> QED
  BY <1>3, <1>4

(* The Content-Length, which the parser does not look at.                  *)
LEMMA LengthSays ==
  ASSUME NEW raw \in Seq(Sign), NEW r, Worded(r), NEW u \in Seq(Sign), u # <<>>, NEW st, After(raw, u, st),
         NEW host, NEW up, NEW type, Says(st, r, host, up, type), up => KeyIn(st, r),
         NEW digits \in Seq(Decimals), NEW v, v = u \o Field(<<Length>>, digits), Opens(raw, v)
  PROVE  \E new : After(raw, v, new) /\ Says(new, r, host, up, type) /\ (up => KeyIn(new, r))
<1>1. CASE digits = <<>>
  <2>1. v = u
    BY <1>1, ConcatEmptySeq DEF Field
  <2> QED
    BY <2>1
<1>2. CASE digits # <<>>
  <2>1. PICK s : s = <<Length>> \o digits
    OBVIOUS
  <2>2. Length \in Inline \ {Blank} /\ Decimals \subseteq Inline \ {Blank}
    <3>1. Length \in Sign /\ Length # CR /\ Length # LF /\ Length # NUL
      BY DEF Sign, Length, CR, LF, NUL
    <3>2. Length # " "
      BY Zenon DEF Length
    <3>3. ASSUME NEW d \in Decimals PROVE d \in Inline \ {Blank}
      <4>1. d \in {"0", "1", "2", "3", "4", "5", "6", "7", "8", "9"}
        <5>1. PICK i \in 1 .. 10 : d = Hex[i]
          BY DecimalShape DEF Decimals
        <5>2. i = 1 \/ i = 2 \/ i = 3 \/ i = 4 \/ i = 5 \/ i = 6 \/ i = 7 \/ i = 8 \/ i = 9 \/ i = 10
          OBVIOUS
        <5>3. \/ d = "0" \/ d = "1" \/ d = "2" \/ d = "3" \/ d = "4"
              \/ d = "5" \/ d = "6" \/ d = "7" \/ d = "8" \/ d = "9"
          BY <5>1, <5>2, HexShape, Zenon
        <5> QED
          BY <5>3, Zenon
      <4>2. d \in Letter /\ d # CR /\ d # LF /\ d # NUL
        BY <4>1 DEF Letter, Digits, CR, LF, NUL, Length
      <4>3. d # " "
        BY <4>1, Zenon
      <4> QED
        BY <4>2, <4>3, Zenon DEF Inline, Sign, Blank
    <3> QED
      BY <3>1, <3>2, <3>3, Zenon DEF Inline, Blank
  <2>3. s \in Seq(Inline \ {Blank}) /\ s # <<>>
    <3>1. <<Length>> \in Seq(Inline \ {Blank}) /\ digits \in Seq(Inline \ {Blank}) /\ <<Length>> # <<>>
      BY <2>2, SeqMonotonic, Tuples
    <3> QED
      BY <2>1, <3>1, ConcatProperties, ConcatEqualIffEmpty
  <2>4. s \in Seq(Inline) /\ \A i \in 1 .. Len(s) : s[i] # Blank
    <3>1. Inline \ {Blank} \subseteq Inline /\ \A i \in 1 .. Len(s) : s[i] \in Inline \ {Blank}
      BY <2>3, ElementOfSeq
    <3> QED
      BY <2>3, <3>1, SeqMonotonic
  <2>5. v = Behind(u, s)
    BY <1>2, <2>1 DEF Field, Behind
  <2>6. Reading(st, raw, s) /\ Next_(st, s) = Len(v) + 1 /\ st.cur # 1
    <3>1. v = u \o (s \o CRLF)
      BY <2>5 DEF Behind
    <3>2. Ahead(raw, u, st, s, v)
      BY <2>4, <3>1, LineBehind
    <3> QED
      BY <3>2 DEF Ahead
  <2>7. PICK new : new = NextLine(st)
    OBVIOUS
  <2>8. PICK c : c = {}
    OBVIOUS
  <2>9. Changes(st, new, raw, s, c)
    BY <2>3, <2>4, <2>6, <2>7, <2>8, PlainLine
  <2>10. After(raw, v, new)
    <3>1. "ok" \notin c /\ "content" \notin c /\ "CookiePrm" \notin c
      BY <2>8
    <3> QED
      BY <2>6, <2>7, <2>9, <3>1, LineOver
  <2>11. c \cap Noted = {} /\ c \cap Noted \subseteq {"ContentType"}
    BY <2>8
  <2>12. Says(new, r, host, up, type)
    BY <2>9, <2>11, SaysKept
  <2>13. up => KeyIn(new, r)
    BY <2>9, <2>10, <2>11, KeyKept
  <2> QED
    BY <2>10, <2>12, <2>13
<1> QED
  BY <1>1, <1>2

(* That the client will close, which the parser does not look at.          *)
LEMMA CloseSays ==
  ASSUME NEW raw \in Seq(Sign), NEW r, NEW u \in Seq(Sign), u # <<>>, NEW st, After(raw, u, st),
         NEW host, NEW up, NEW type, Says(st, r, host, up, type), up => KeyIn(st, r),
         NEW v, v = u \o CloseLine(r), Opens(raw, v)
  PROVE  \E new : After(raw, v, new) /\ Says(new, r, host, up, type) /\ (up => KeyIn(new, r))
<1>1. CASE ~r.close
  <2>1. v = u
    BY <1>1, ConcatEmptySeq DEF CloseLine
  <2> QED
    BY <2>1
<1>2. CASE r.close
  <2>1. PICK a, x : a = "connection:" /\ x = <<"close">>
    OBVIOUS
  <2>2. a \in Inline /\ Blank \in Inline /\ "close" \in Inline
    BY <2>1, LabelInline, BlankIs DEF Label
  <2>3. PICK s : s = <<a, Blank, "close">>
    OBVIOUS
  <2>4. s \in Seq(Inline) /\ Two(s, a, Blank, x)
    BY <2>1, <2>2, <2>3, Tuples DEF Two
  <2>5. v = u \o (s \o CRLF)
    BY <1>2, <2>1, <2>3, Zenon DEF CloseLine, Blank
  <2>6. Reading(st, raw, s) /\ Next_(st, s) = Len(v) + 1 /\ st.cur # 1
    <3>1. Ahead(raw, u, st, s, v)
      BY <2>4, <2>5, LineBehind
    <3> QED
      BY <3>1 DEF Ahead
  <2>7. PICK new : new = NextLine(st)
    OBVIOUS
  <2>8. PICK c : c = {}
    OBVIOUS
  <2>9. Changes(st, new, raw, s, c)
    BY <2>1, <2>4, <2>6, <2>7, <2>8, ClosingLine
  <2>10. After(raw, v, new)
    <3>1. "ok" \notin c /\ "content" \notin c /\ "CookiePrm" \notin c
      BY <2>8
    <3> QED
      BY <2>6, <2>7, <2>9, <3>1, LineOver
  <2>11. c \cap Noted = {} /\ c \cap Noted \subseteq {"ContentType"}
    BY <2>8
  <2>12. Says(new, r, host, up, type)
    BY <2>9, <2>11, SaysKept
  <2>13. up => KeyIn(new, r)
    BY <2>9, <2>10, <2>11, KeyKept
  <2> QED
    BY <2>10, <2>12, <2>13
<1> QED
  BY <1>1, <1>2

(* The upgrade, and the key.                                               *)
LEMMA UpgradeSays ==
  ASSUME NEW raw \in Seq(Sign), NEW r, Worded(r), NEW u \in Seq(Sign), u # <<>>, NEW st, After(raw, u, st),
         NEW host, NEW type, Says(st, r, host, FALSE, type), NEW v, v = u \o UpgradeLines(r), Opens(raw, v)
  PROVE  \E new : /\ After(raw, v, new) /\ Says(new, r, host, r.key # "", type)
                  /\ (r.key # "" => KeyIn(new, r))
<1>1. CASE r.key = ""
  <2>1. v = u
    BY <1>1, ConcatEmptySeq DEF UpgradeLines
  <2>2. (r.key # "") = FALSE
    BY <1>1
  <2> QED
    BY <2>1, <2>2
<1>2. CASE r.key # ""
  <2>1. PICK a, b : a = "upgrade:" /\ b = "sec-websocket-key:"
    OBVIOUS
  <2>2. PICK x, k : x = <<"websocket">> /\ k = <<r.key>>
    OBVIOUS
  <2>3. /\ a \in Inline /\ b \in Inline /\ Blank \in Inline /\ "websocket" \in Inline /\ r.key \in Inline
        /\ k \in Seq(Inline \ {Blank})
    <3>1. a \in Inline /\ b \in Inline /\ "websocket" \in Inline
      BY <2>1, LabelInline DEF Label
    <3>2. r.key \in Inline \ {Blank}
      BY DEF Worded
    <3> QED
      BY <2>2, <3>1, <3>2, BlankIs, Tuples
  <2>4. PICK s, t : s = <<a, Blank, "websocket">> /\ t = <<b, Blank, r.key>>
    OBVIOUS
  <2>5. s \in Seq(Inline) /\ t \in Seq(Inline) /\ Len(t) = 3
    BY <2>3, <2>4, Tuples
  <2>6. Two(s, a, Blank, x) /\ Two(t, b, Blank, k)
    BY <2>2, <2>4 DEF Two
  <2>7. PICK w : w = Behind(u, s)
    OBVIOUS
  <2>8. w \in Seq(Sign) /\ w # <<>>
    BY <2>5, <2>7, BehindType
  <2>9. v = w \o (t \o CRLF) /\ w = u \o (s \o CRLF) /\ t \o CRLF \in Seq(Sign)
    <3>1. UpgradeLines(r) = ((s \o CRLF) \o t) \o CRLF
      BY <1>2, <2>1, <2>4, Zenon DEF UpgradeLines, Blank
    <3>2. s \in Seq(Sign) /\ t \in Seq(Sign) /\ CRLF \in Seq(Sign)
      <4>1. Inline \subseteq Sign /\ Sign \ {Length} \subseteq Sign
        BY DEF Inline
      <4> QED
        BY <2>5, <4>1, CrlfType, SeqMonotonic
    <3>3. s \o CRLF \in Seq(Sign) /\ t \o CRLF \in Seq(Sign)
      BY <3>2, ConcatProperties
    <3>4. UpgradeLines(r) = (s \o CRLF) \o (t \o CRLF)
      <4>1. PICK A, C : A = s \o CRLF /\ C = CRLF
        OBVIOUS
      <4>2. A \in Seq(Sign) /\ C \in Seq(Sign)
        BY <3>2, <3>3, <4>1
      <4>3. (A \o t) \o C = A \o (t \o C)
        BY <3>2, <4>2, ConcatAssociative, SMTT(30)
      <4> QED
        BY <3>1, <4>1, <4>3, Zenon
    <3>5. (u \o (s \o CRLF)) \o (t \o CRLF) = u \o ((s \o CRLF) \o (t \o CRLF))
      <4>1. PICK A, B : A = s \o CRLF /\ B = t \o CRLF
        OBVIOUS
      <4>3. A \in Seq(Sign) /\ B \in Seq(Sign)
        BY <3>3, <4>1
      <4>2. (u \o A) \o B = u \o (A \o B)
        BY <4>3, ConcatAssociative
      <4> QED
        BY <4>1, <4>2
    <3> QED
      BY <2>7, <3>3, <3>4, <3>5 DEF Behind
  <2>10. Opens(raw, w)
    BY <2>8, <2>9, OpensLess
  <2>11. Ahead(raw, u, st, s, w)
    BY <2>5, <2>9, <2>10, LineBehind
  <2>12. Reading(st, raw, s) /\ Next_(st, s) = Len(w) + 1 /\ st.cur # 1
    BY <2>11 DEF Ahead
  <2>13. PICK m : m = NextLine(st)
    OBVIOUS
  <2>14. PICK c : c = {"Upgrade"}
    OBVIOUS
  <2>15. Changes(st, m, raw, s, c) /\ m.Upgrade = TRUE
    BY <2>1, <2>2, <2>6, <2>12, <2>13, <2>14, UpgradeLine
  <2>16. After(raw, w, m)
    <3>1. "ok" \notin c /\ "content" \notin c /\ "CookiePrm" \notin c
      BY <2>14
    <3> QED
      BY <2>10, <2>12, <2>13, <2>15, <3>1, LineOver
  <2>17. Says(m, r, host, TRUE, type)
    <3>1. \A j \in Noted \ {"Upgrade"} : m[j] = st[j]
      BY <2>14, <2>15 DEF Changes, Kept, Members, Noted
    <3> QED
      BY <2>15, <3>1 DEF Says, Noted
  <2>18. Ahead(raw, w, m, t, v)
    BY <2>5, <2>9, <2>16, LineBehind
  <2>19. Reading(m, raw, t) /\ Next_(m, t) = Len(v) + 1 /\ m.cur # 1
    BY <2>8, <2>18 DEF Ahead
  <2>20. PICK new : new = NextLine(m)
    OBVIOUS
  <2>21. PICK d : d = {"Key"}
    OBVIOUS
  <2>22. Changes(m, new, raw, t, d) /\ Holds(new.buf, new.Key, k) /\ new.Key = m.cur + 2
    BY <2>1, <2>3, <2>6, <2>19, <2>20, <2>21, KeyLine
  <2>23. After(raw, v, new)
    <3>1. "ok" \notin d /\ "content" \notin d /\ "CookiePrm" \notin d
      BY <2>21
    <3> QED
      BY <2>16, <2>19, <2>20, <2>22, <3>1, LineOver
  <2>24. Says(new, r, host, TRUE, type)
    <3>1. \A j \in Noted \ {"Key"} : new[j] = m[j]
      BY <2>21, <2>22 DEF Changes, Kept, Members, Noted
    <3> QED
      BY <2>17, <3>1 DEF Says, Noted
  <2>25. KeyIn(new, r)
    <3>1. new.cur = m.cur + 3 + 2
      BY <2>5, <2>22 DEF Changes, Stepped, Next_
    <3>2. m.cur \in Nat
      BY <2>16, LenProperties DEF After, Opens
    <3> QED
      BY <2>2, <2>22, <3>1, <3>2 DEF KeyIn
  <2>26. (r.key # "") = TRUE
    BY <1>2
  <2> QED
    BY <2>23, <2>24, <2>25, <2>26
<1> QED
  BY <1>1, <1>2

(* The kind of the body.                                                   *)
BodyType(r) == IF r.parts = <<>> THEN <<>> ELSE <<Multipart>> \o <<"boundary=", "B", "C">>

(* The parser has it behind the line that says so, if there is one.        *)
LEMMA TypeSays ==
  ASSUME NEW raw \in Seq(Sign), NEW r, Worded(r), NEW u \in Seq(Sign), u # <<>>, NEW st, After(raw, u, st),
         NEW host, NEW up, Says(st, r, host, up, <<>>), up => KeyIn(st, r),
         NEW v, v = u \o TypeLine(r), Opens(raw, v)
  PROVE  \E new : After(raw, v, new) /\ Says(new, r, host, up, BodyType(r)) /\ (up => KeyIn(new, r))
<1>1. CASE r.parts = <<>>
  <2>1. v = u
    BY <1>1, ConcatEmptySeq DEF TypeLine
  <2>2. BodyType(r) = <<>>
    BY <1>1 DEF BodyType
  <2> QED
    BY <2>1, <2>2
<1>2. CASE r.parts # <<>>
  <2>1. PICK a : a = "content-type:"
    OBVIOUS
  <2>2. PICK x, y : x = <<Multipart>> /\ y = <<"boundary=", "B", "C">>
    OBVIOUS
  <2>3. /\ a \in Inline /\ Blank \in Inline /\ Multipart \in Inline
        /\ "boundary=" \in Inline /\ "B" \in Inline /\ "C" \in Inline
    BY <2>1, LabelInline, MultipartIs, BlankIs DEF Label
  <2>4. PICK h, s : h = <<a, Blank, Multipart, Blank, "boundary=">> /\ s = h \o Boundary
    OBVIOUS
  <2>5. /\ s \in Seq(Inline) /\ h \in Seq(Inline) /\ Boundary \in Seq(Inline)
    <3>1. h \in Seq(Inline) /\ Boundary \in Seq(Inline)
      BY <2>3, <2>4, Tuples DEF Boundary
    <3> QED
      BY <2>4, <3>1, ConcatProperties
  <2>6. Three(s, a, Blank, x, y)
    BY <2>2, <2>4 DEF Three, Boundary
  <2>7. v = u \o (s \o CRLF)
    <3>1. TypeLine(r) = s \o CRLF
      BY <1>2, <2>1, <2>4, Zenon DEF TypeLine, Blank, Multipart
    <3> QED
      BY <3>1
  <2>8. Ahead(raw, u, st, s, v)
    BY <2>5, <2>7, LineBehind
  <2>9. Reading(st, raw, s) /\ Next_(st, s) = Len(v) + 1 /\ st.cur # 1
    BY <2>8 DEF Ahead
  <2>10. PICK new : new = NextLine(st)
    OBVIOUS
  <2>11. PICK c : c = {"ContentType"}
    OBVIOUS
  <2>12. st.ContentType = <<>>
    BY DEF Says
  <2>13. Typed(st, new, raw, s, x, y)
    <3>1. Three(s, "content-type:", Blank, x, y)
      BY <2>1, <2>6
    <3> QED
      BY <2>2, <2>9, <2>10, <2>12, <3>1, TypeLine_
  <2>14. After(raw, v, new)
    <3>1. "ok" \notin c /\ "content" \notin c /\ "CookiePrm" \notin c
      BY <2>11
    <3> QED
      BY <2>9, <2>10, <2>11, <2>13, <3>1, LineOver DEF Typed
  <2>15. Says(new, r, host, up, BodyType(r))
    <3>1. \A j \in Noted \ {"ContentType"} : new[j] = st[j]
      BY <2>11, <2>13 DEF Changes, Kept, Members, Noted, Typed
    <3>2. BodyType(r) = x \o y
      BY <1>2, <2>2 DEF BodyType
    <3> QED
      BY <2>13, <3>1, <3>2 DEF Says, Noted, Typed
  <2>16. up => KeyIn(new, r)
    <3>1. c \cap Noted \subseteq {"ContentType"}
      BY <2>11
    <3> QED
      BY <2>11, <2>13, <2>14, <3>1, KeyKept DEF Typed
  <2> QED
    BY <2>14, <2>15, <2>16
<1> QED
  BY <1>1, <1>2

(* The header as its lines, one behind the other.                          *)
HeaderParts(r, a, b, c, d, e, f, g) ==
  /\ a = FirstLine(r) \o CRLF
  /\ b = Field(<<"host:", Blank>>, r.host) /\ c = Field(<<"cookie:", Blank>>, Pairs(r.cookies, <<";", " ">>))
  /\ d = UpgradeLines(r) /\ e = TypeLine(r) /\ f = Field(<<Length>>, r.digits) /\ g = CloseLine(r)

(* Every header comes in these parts.                                      *)
LEMMA HeaderInParts ==
  ASSUME NEW r, Proper(r)
  PROVE  \E a, b, c, d, e, f, g \in Seq(Sign) :
           /\ HeaderParts(r, a, b, c, d, e, f, g) /\ a # <<>>
           /\ Header(r) = ((((((a \o b) \o c) \o d) \o e) \o f) \o g) \o CRLF
<1>1. PICK a, b, c, d, e, f, g : HeaderParts(r, a, b, c, d, e, f, g)
  BY DEF HeaderParts
<1>2. Free(a) /\ a # <<>> /\ Free(b) /\ Free(c) /\ Free(d) /\ Free(e) /\ Free(g)
  BY <1>1, LinesFree, CloseFree, Zenon DEF HeaderParts, Blank
<1>3. a \in Seq(Sign) /\ b \in Seq(Sign) /\ c \in Seq(Sign) /\ d \in Seq(Sign) /\ e \in Seq(Sign)
      /\ g \in Seq(Sign)
  BY <1>2 DEF Free, Lines
<1>4. f \in Seq(Sign)
  <2>1. CASE r.digits = <<>>
    BY <1>1, <2>1, EmptySeq DEF HeaderParts, Field
  <2>2. CASE r.digits # <<>>
    <3>1. Decimals \subseteq Sign /\ Length \in Sign /\ Sign \ {Length} \subseteq Sign
      BY DecimalShape DEF Sign
    <3>2. r.digits \in Seq(Decimals)
      BY DEF Proper, Decimals
    <3>3. r.digits \in Seq(Sign) /\ <<Length>> \in Seq(Sign) /\ CRLF \in Seq(Sign)
      BY <3>1, <3>2, SeqMonotonic, Tuples, CrlfType
    <3>4. f = (<<Length>> \o r.digits) \o CRLF
      BY <1>1, <2>2 DEF HeaderParts, Field
    <3>5. <<Length>> \o r.digits \in Seq(Sign)
      BY <3>3, ConcatProperties
    <3> QED
      BY <3>3, <3>4, <3>5, ConcatProperties
  <2> QED
    BY <2>1, <2>2
<1>5. Before(r) = (((a \o b) \o c) \o d) \o e
  BY <1>1, Zenon DEF HeaderParts, Before, Blank
<1>6. Header(r) = ((((((a \o b) \o c) \o d) \o e) \o f) \o g) \o CRLF
  BY <1>1, <1>5, HeaderShape, Zenon DEF HeaderParts
<1> QED
  BY <1>1, <1>2, <1>3, <1>4, <1>6

(* What ReadHeader makes of a text that begins with the header of r.       *)
HeaderDone(raw, r, h) ==
  /\ IsParser(h) /\ h.ok /\ h.content /\ Memory(h.buf, raw, h.cur) /\ h.cur = Len(Header(r)) + 1
  /\ Says(h, r, HostOf(r), r.key # "", BodyType(r)) /\ (r.key # "" => KeyIn(h, r))
  /\ Header(r) \in Seq(Sign) /\ Len(Header(r)) <= Len(raw)

(* ReadHeader reads the header of a decent client so, line by line, to the *)
(* empty line and no further.                                              *)
LEMMA HeaderRead ==
  ASSUME NEW r, Proper(r), Decent(r), NEW raw \in Seq(Sign), Opens(raw, Header(r))
  PROVE  HeaderDone(raw, r, ReadHeader(raw))
<1>1. PICK a, b, c, d, e, f, g \in Seq(Sign) :
           /\ HeaderParts(r, a, b, c, d, e, f, g) /\ a # <<>>
           /\ Header(r) = ((((((a \o b) \o c) \o d) \o e) \o f) \o g) \o CRLF
  BY HeaderInParts
<1>2. PICK v2, v3, v4, v5, v6, v7 : v2 = a \o b /\ v3 = v2 \o c /\ v4 = v3 \o d /\ v5 = v4 \o e /\ v6 = v5 \o f
                                     /\ v7 = v6 \o g
  OBVIOUS
<1>3. v2 \in Seq(Sign) /\ v2 # <<>>
  BY <1>1, <1>2, ConcatProperties, ConcatEqualIffEmpty
<1>4. v3 \in Seq(Sign) /\ v3 # <<>>
  BY <1>2, <1>3, ConcatProperties, ConcatEqualIffEmpty
<1>5. v4 \in Seq(Sign) /\ v4 # <<>>
  BY <1>2, <1>4, ConcatProperties, ConcatEqualIffEmpty
<1>6. v5 \in Seq(Sign) /\ v5 # <<>>
  BY <1>2, <1>5, ConcatProperties, ConcatEqualIffEmpty
<1>7. v6 \in Seq(Sign) /\ v6 # <<>>
  BY <1>2, <1>6, ConcatProperties, ConcatEqualIffEmpty
<1>7a. v7 \in Seq(Sign) /\ v7 # <<>>
  BY <1>1, <1>2, <1>7, ConcatProperties, ConcatEqualIffEmpty
<1>8. CRLF \in Seq(Sign)
  <2>1. Sign \ {Length} \subseteq Sign
    OBVIOUS
  <2> QED
    BY <2>1, CrlfType, SeqMonotonic
<1>9. PICK v8 : v8 = Header(r)
  OBVIOUS
<1>10. v8 = v7 \o CRLF /\ v8 \in Seq(Sign) /\ Opens(raw, v8)
  <2>1. v8 = v7 \o CRLF
    BY <1>1, <1>2, <1>9
  <2> QED
    BY <1>7a, <1>8, <1>9, <2>1, ConcatProperties
<1>11a. Opens(raw, v7)
  BY <1>7a, <1>8, <1>10, OpensLess
<1>11. Opens(raw, v6)
  BY <1>1, <1>2, <1>7, <1>11a, OpensLess
<1>12. Opens(raw, v5)
  BY <1>2, <1>6, <1>11, OpensLess
<1>13. Opens(raw, v4)
  BY <1>2, <1>5, <1>12, OpensLess
<1>14. Opens(raw, v3)
  BY <1>2, <1>4, <1>13, OpensLess
<1>15. Opens(raw, v2)
  BY <1>2, <1>3, <1>14, OpensLess
<1>16. Opens(raw, a)
  BY <1>2, <1>15, OpensLess
<1>17. Worded(r)
  BY DecentIsWorded
<1>18. PICK s1 : After(raw, a, s1) /\ Says(s1, r, <<>>, FALSE, <<>>)
  <2>1. a = Behind(<<>>, FirstLine(r))
    BY <1>1, ConcatEmptySeq DEF HeaderParts, Behind
  <2> QED
    BY <1>16, <1>17, <2>1, FirstLineSays
<1>19. PICK s2 : After(raw, v2, s2) /\ Says(s2, r, HostOf(r), FALSE, <<>>)
  <2>1. v2 = a \o Field(<<"host:", Blank>>, r.host)
    BY <1>1, <1>2 DEF HeaderParts
  <2> QED
    BY <1>1, <1>15, <1>17, <1>18, <2>1, HostSays
<1>20. PICK s3 : After(raw, v3, s3) /\ Says(s3, r, HostOf(r), FALSE, <<>>)
  <2>1. PICK pairs : pairs = Pairs(r.cookies, <<";", " ">>)
    OBVIOUS
  <2>2. v3 = v2 \o Field(<<"cookie:", Blank>>, pairs)
    BY <1>1, <1>2, <2>1, Zenon DEF HeaderParts
  <2>3. pairs \in Seq(Inline)
    BY <1>17, <2>1, Zenon DEF Worded
  <2>4. PICK host, type : host = HostOf(r) /\ type = <<>>
    OBVIOUS
  <2>5. Says(s2, r, host, FALSE, type)
    BY <1>19, <2>4
  <2>6. PICK new : After(raw, v3, new) /\ Says(new, r, host, FALSE, type)
    BY <1>3, <1>14, <1>17, <1>19, <2>2, <2>3, <2>5, CookiesSay
  <2> QED
    BY <2>4, <2>6
<1>21. PICK s4 : After(raw, v4, s4) /\ Says(s4, r, HostOf(r), r.key # "", <<>>) /\ (r.key # "" => KeyIn(s4, r))
  <2>1. v4 = v3 \o UpgradeLines(r)
    BY <1>1, <1>2 DEF HeaderParts
  <2> QED
    BY <1>4, <1>13, <1>17, <1>20, <2>1, UpgradeSays
<1>22. PICK s5 : After(raw, v5, s5) /\ Says(s5, r, HostOf(r), r.key # "", BodyType(r)) /\ (r.key # "" => KeyIn(s5, r))
  <2>1. v5 = v4 \o TypeLine(r)
    BY <1>1, <1>2 DEF HeaderParts
  <2> QED
    BY <1>5, <1>12, <1>17, <1>21, <2>1, TypeSays
<1>23. PICK s6 : After(raw, v6, s6) /\ Says(s6, r, HostOf(r), r.key # "", BodyType(r)) /\ (r.key # "" => KeyIn(s6, r))
  <2>1. PICK digits : digits = r.digits
    OBVIOUS
  <2>2. v6 = v5 \o Field(<<Length>>, digits) /\ digits \in Seq(Decimals)
    BY <1>1, <1>2, <2>1 DEF HeaderParts, Proper, Decimals
  <2>3. PICK host, up, type : host = HostOf(r) /\ up = (r.key # "") /\ type = BodyType(r)
    OBVIOUS
  <2>4. Says(s5, r, host, up, type) /\ (up => KeyIn(s5, r))
    BY <1>22, <2>3
  <2>5. PICK new : After(raw, v6, new) /\ Says(new, r, host, up, type) /\ (up => KeyIn(new, r))
    BY <1>6, <1>11, <1>17, <1>22, <2>2, <2>4, LengthSays
  <2> QED
    BY <2>3, <2>5
<1>23a. PICK s7 : After(raw, v7, s7) /\ Says(s7, r, HostOf(r), r.key # "", BodyType(r)) /\ (r.key # "" => KeyIn(s7, r))
  <2>1. PICK host, up, type : host = HostOf(r) /\ up = (r.key # "") /\ type = BodyType(r)
    OBVIOUS
  <2>2. v7 = v6 \o CloseLine(r)
    BY <1>1, <1>2 DEF HeaderParts
  <2>3. Says(s6, r, host, up, type) /\ (up => KeyIn(s6, r))
    BY <1>23, <2>1
  <2>4. PICK new : After(raw, v7, new) /\ Says(new, r, host, up, type) /\ (up => KeyIn(new, r))
    BY <1>7, <1>11a, <1>23, <2>2, <2>3, CloseSays
  <2> QED
    BY <2>1, <2>4
<1>24. PICK s : s = <<>>
  OBVIOUS
<1>25. s \in Seq(Inline) /\ v8 = v7 \o (s \o CRLF)
  BY <1>8, <1>10, <1>24, EmptySeq, ConcatEmptySeq
<1>26. Ahead(raw, v7, s7, s, v8)
  BY <1>10, <1>23a, <1>25, LineBehind
<1>27. Reading(s7, raw, s) /\ Next_(s7, s) = Len(v8) + 1
  BY <1>26 DEF Ahead
<1>28. PICK h : h = NextLine(s7)
  OBVIOUS
<1>29. PICK k : k = {"content"}
  OBVIOUS
<1>30. Changes(s7, h, raw, s, k) /\ h.content = TRUE
  BY <1>24, <1>27, <1>28, <1>29, EmptyLine
<1>31. h.ok /\ h.cur = Len(v8) + 1 /\ IsParser(h) /\ Memory(h.buf, raw, h.cur) /\ Cuts(s7.buf, h.buf, s7.cur, h.cur)
  <2>1. h.ok = s7.ok
    BY <1>29, <1>30 DEF Changes, Kept, Members
  <2>2. s7.ok
    BY <1>23a DEF After
  <2> QED
    BY <1>27, <1>30, <2>1, <2>2 DEF Changes, Stepped
<1>32. ReadHeader(raw) = h
  <2>1. Reached(raw, h)
    <3>1. Reached(raw, s7)
      BY <1>23a DEF After
    <3>2. h.cur = Next_(s7, s)
      BY <1>27, <1>31
    <3> QED
      BY <1>27, <1>28, <3>1, <3>2, ReachedNext
  <2>2. NextLine(h) = h
    BY <1>30, Zenon DEF NextLine
  <2> QED
    BY <2>1, <2>2, Settled
<1>33. Says(h, r, HostOf(r), r.key # "", BodyType(r))
  <2>1. k \cap Noted = {}
    BY <1>29 DEF Noted
  <2>2. \A j \in Noted : h[j] = s7[j]
    BY <1>30, <2>1 DEF Changes, Kept, Members, Noted
  <2> QED
    BY <1>23a, <2>2 DEF Says, Noted
<1>34. ASSUME r.key # "" PROVE KeyIn(h, r)
  <2>1. KeyIn(s7, r) /\ h.Key = s7.Key
    BY <1>34, <1>23a, <1>29, <1>30 DEF Changes, Kept, Members
  <2>2. s7.cur \in Nat /\ Len(v7) <= Len(v8) /\ s7.cur = Len(v7) + 1 /\ Len(v7) \in Nat /\ Len(v8) \in Nat
    <3>1. Len(v8) = Len(v7) + Len(CRLF) /\ Len(CRLF) = 2
      BY <1>7a, <1>8, <1>10, ConcatProperties, CrlfType
    <3>2. Len(v7) \in Nat /\ Len(v8) \in Nat
      BY <1>7a, <1>10, LenProperties
    <3>3. s7.cur = Len(v7) + 1
      BY <1>23a DEF After
    <3>4. PICK m, n, x : m = Len(v7) /\ n = Len(v8) /\ x = s7.cur
      OBVIOUS
    <3>5. n = m + 2 /\ m \in Nat /\ n \in Nat /\ x = m + 1
      BY <3>1, <3>2, <3>3, <3>4
    <3>6. x \in Nat /\ m <= n
      BY <3>5
    <3> QED
      BY <3>2, <3>3, <3>4, <3>6
  <2>3. s7.Key + Len(<<r.key>>) < s7.cur
    <3>1. Len(<<r.key>>) = 1
      OBVIOUS
    <3> QED
      BY <2>1, <3>1 DEF KeyIn
  <2>4. Holds(h.buf, s7.Key, <<r.key>>)
    <3>1. Holds(s7.buf, s7.Key, <<r.key>>)
      BY <2>1 DEF KeyIn
    <3> QED
      BY <1>31, <2>2, <2>3, <3>1, HoldsOn
  <2>5. h.Key \in Nat \ {0} /\ h.Key + 1 < s7.cur
    BY <2>1 DEF KeyIn
  <2>6. h.Key + 1 < h.cur
    <3>1. PICK k_, x, y : k_ = h.Key /\ x = s7.cur /\ y = h.cur
      OBVIOUS
    <3>2. k_ \in Nat /\ k_ + 1 < x /\ x \in Nat /\ y \in Nat /\ x <= y
      BY <1>31, <2>2, <2>5, <3>1
    <3>3. k_ + 1 < y
      BY <3>2
    <3> QED
      BY <3>1, <3>3
  <2> QED
    BY <2>1, <2>4, <2>5, <2>6 DEF KeyIn
<1>35. HeaderDone(raw, r, h)
  BY <1>9, <1>10, <1>30, <1>31, <1>33, <1>34 DEF HeaderDone, Opens
<1> QED
  BY <1>32, <1>35

(* A delimiter ends with its last character.                               *)
LEMMA EndsAre ==
  ASSUME NEW text, Len(text) \in Nat, DOMAIN text = 1 .. Len(text), NEW d, Len(d) \in Nat, Len(d) > 0
  PROVE  /\ Ends(text, d) \in Seq(Nat)
         /\ \A j \in 1 .. Len(Ends(text, d)) :
              Ends(text, d)[j] \in 1 .. Len(text) /\ text[Ends(text, d)[j]] = d[Len(d)]
<1>1. PICK f : /\ f[0] = [ok |-> 0, ends |-> <<>>]
               /\ \A i \in 1 .. Len(text) :
                    /\ f[i - 1] \in Matched(d)
                    /\ f[i] \in Matched(d)
                    /\ f[i] = Match(text, d, f[i - 1], i)
               /\ Ends(text, d) = f[Len(text)].ends
  BY EndsFold
<1> DEFINE P(m) == \A j \in 1 .. Len(m.ends) : m.ends[j] \in 1 .. Len(text) /\ text[m.ends[j]] = d[Len(d)]
           I == { i \in 0 .. Len(text) : f[i] \in Matched(d) /\ P(f[i]) }
<1>2. 0 \in I
  <2>1. f[0] \in Matched(d)
    BY <1>1, EmptySeq DEF Matched
  <2>2. Len(f[0].ends) = 0
    BY <1>1
  <2> QED
    BY <2>1, <2>2
<1>3. ASSUME NEW i \in 0 .. Len(text) - 1, i \in I PROVE i + 1 \in I
  <2>1. PICK n : n = i + 1
    OBVIOUS
  <2>2. n \in 1 .. Len(text) /\ n - 1 = i
    BY <2>1
  <2>3. PICK m, new : m = f[i] /\ new = f[n]
    OBVIOUS
  <2>4. m \in Matched(d) /\ new \in Matched(d) /\ new = Match(text, d, m, n) /\ P(m)
    BY <1>1, <1>3, <2>2, <2>3
  <2>5. m.ok \in 0 .. Len(d) - 1 /\ m.ends \in Seq(Nat) /\ m = [ok |-> m.ok, ends |-> m.ends]
    BY <2>4 DEF Matched
  <2>6. P(new)
    <3>1. CASE text[n] # d[m.ok + 1] \/ m.ok + 1 < Len(d)
      <4>1. new.ends = m.ends
        BY <2>4, <2>5, <3>1 DEF Match
      <4> QED
        BY <2>4, <4>1
    <3>2. CASE text[n] = d[m.ok + 1] /\ ~(m.ok + 1 < Len(d))
      <4>1. m.ok + 1 = Len(d) /\ new.ends = Append(m.ends, n)
        BY <2>4, <2>5, <3>2 DEF Match
      <4>2. text[n] = d[Len(d)]
        BY <3>2, <4>1
      <4>3. n \in Nat /\ Len(m.ends) \in Nat
        BY <2>2, <2>5, LenProperties
      <4>4. /\ Len(Append(m.ends, n)) = Len(m.ends) + 1 /\ Append(m.ends, n)[Len(m.ends) + 1] = n
            /\ \A j \in 1 .. Len(m.ends) : Append(m.ends, n)[j] = m.ends[j]
        BY <2>5, <4>3, AppendProperties
      <4> QED
        BY <2>2, <2>4, <4>1, <4>2, <4>3, <4>4
    <3> QED
      BY <3>1, <3>2
  <2> HIDE DEF P
  <2>7. f[n] \in Matched(d) /\ P(f[n])
    BY <2>3, <2>4, <2>6
  <2>8. n \in 0 .. Len(text)
    BY <2>2
  <2> QED
    BY <2>1, <2>7, <2>8
<1>4. 0 .. Len(text) \subseteq I
  <2> HIDE DEF I
  <2> QED
    BY <1>2, <1>3, UpTo
<1>5. Len(text) \in I
  BY <1>4
<1> QED
  BY <1>1, <1>5 DEF Matched

(* What is found ends with the last character of the text.                 *)
LEMMA FindIs ==
  ASSUME NEW buf \in Seq(Mark), NEW p \in 1 .. Len(buf) + 1, NEW text, Len(text) \in Nat, Len(text) > 0,
         NEW b, b = Find(buf, p, text), b # 0
  PROVE  b \in p .. Len(buf) /\ buf[b] = text[Len(text)]
<1>1. PICK rest : rest = SubSeq(buf, p, Len(buf))
  OBVIOUS
<1>2. Len(buf) \in Nat
  BY LenProperties
<1>3. rest \in Seq(Mark) /\ Len(rest) = Len(buf) - p + 1 /\ \A i \in 1 .. Len(rest) : rest[i] = buf[p + i - 1]
  BY <1>1, <1>2
<1>4. Len(rest) \in Nat /\ DOMAIN rest = 1 .. Len(rest)
  BY <1>3, LenProperties
<1>5. PICK e : e = Ends(rest, text)
  OBVIOUS
<1>6. e \in Seq(Nat) /\ \A j \in 1 .. Len(e) : e[j] \in 1 .. Len(rest) /\ rest[e[j]] = text[Len(text)]
  BY <1>4, <1>5, EndsAre
<1>7. b = IF e = <<>> THEN 0 ELSE p + e[1] - 1
  BY <1>1, <1>5 DEF Find, FirstEnd
<1>8. e # <<>> /\ b = p + e[1] - 1
  BY <1>7
<1>9. 1 \in 1 .. Len(e)
  BY <1>6, <1>8
<1>10. PICK x : x = e[1]
  OBVIOUS
<1>11. x \in 1 .. Len(rest) /\ rest[x] = text[Len(text)] /\ b = p + x - 1
  BY <1>6, <1>8, <1>9, <1>10
<1>12. rest[x] = buf[p + x - 1]
  BY <1>3, <1>11
<1> QED
  BY <1>2, <1>3, <1>11, <1>12

-----------------------------------------------------------------------------
(* A memory in which some of the old characters have become NULs.          *)
Blots(old, new) ==
  /\ new \in Seq(Mark) /\ Len(new) = Len(old)
  /\ \A i \in 1 .. Len(old) : new[i] = old[i] \/ new[i] = NUL

(* Its last one stays a NUL; and more can.                                 *)
LEMMA BlotsMore ==
  ASSUME NEW a \in Seq(Mark), NEW b, NEW c, Blots(a, b), Blots(b, c) PROVE Blots(a, c)
<1>1. Len(a) \in Nat
  BY LenProperties
<1> QED
  BY <1>1 DEF Blots

(* Zeroed blots, whatever it is given.                                     *)
LEMMA BlotsZeroed ==
  ASSUME NEW a \in Seq(Mark), NEW x, NEW y PROVE Blots(a, Zeroed(a, x, y))
<1>1. PICK z : z = Zeroed(a, x, y)
  OBVIOUS
<1>2. Len(a) \in Nat /\ DOMAIN a = 1 .. Len(a) /\ NUL \in Mark
  BY LenProperties DEF Mark
<1>3. z = [i \in 1 .. Len(a) |-> IF i \in x .. y THEN NUL ELSE a[i]]
  BY <1>1, <1>2 DEF Zeroed
<1>4. z \in [1 .. Len(a) -> Mark]
  BY <1>2, <1>3
<1>5. z \in Seq(Mark) /\ Len(z) = Len(a)
  BY <1>2, <1>4
<1> QED
  BY <1>1, <1>3, <1>5 DEF Blots

(* A split, at whatever it is, blots the memory, and its pieces begin in   *)
(* the string.                                                             *)
LEMMA SplitBlots ==
  ASSUME NEW buf \in Seq(Mark), buf # <<>>, buf[Len(buf)] = NUL, NEW p \in 1 .. Len(buf),
         NEW d, Len(d) \in Nat, Len(d) > 0, NEW w, w = Split(buf, p, d)
  PROVE  Blots(buf, w.buf) /\ w.at \in Seq(1 .. Len(buf)) /\ w.at # <<>>
<1>1. Len(buf) \in Nat /\ DOMAIN buf = 1 .. Len(buf) /\ Len(buf) \in 1 .. Len(buf) /\ NUL \in Mark
  BY LenProperties DEF Mark
<1>2. PICK e \in p .. Len(buf) : StringAt(buf, p, e)
  BY <1>1, SomeString
<1>3. PICK s : s = CStr(buf, p)
  OBVIOUS
<1>4. s \in Seq(Mark) /\ Len(s) = e - p
  BY <1>2, <1>3, StringRead
<1>5. Len(s) \in Nat /\ DOMAIN s = 1 .. Len(s)
  BY <1>4, LenProperties
<1>6. PICK ends : ends = Ends(s, d)
  OBVIOUS
<1>7. ends \in Seq(Nat) /\ \A j \in 1 .. Len(ends) : ends[j] \in 1 .. Len(s)
  BY <1>5, <1>6, EndsAre
<1>8. Len(ends) \in Nat /\ DOMAIN ends = 1 .. Len(ends)
  BY <1>7, LenProperties
<1>9. w = Cut(buf, p, Len(d), ends)
  BY <1>3, <1>6 DEF Split
<1>10. Blots(buf, w.buf)
  <2>1. w.buf = [i \in 1 .. Len(buf) |->
              IF \E j \in DOMAIN ends : i \in p + ends[j] - Len(d) .. p + ends[j] - 1 THEN NUL ELSE buf[i]]
    BY <1>1, <1>9 DEF Cut
  <2>2. w.buf \in [1 .. Len(buf) -> Mark]
    BY <1>1, <2>1
  <2>3. w.buf \in Seq(Mark) /\ Len(w.buf) = Len(buf)
    BY <1>1, <2>2
  <2> QED
    BY <2>1, <2>3 DEF Blots
<1>11. w.at \in Seq(1 .. Len(buf)) /\ w.at # <<>>
  <2>1. PICK t : t = [i \in 1 .. Len(ends) |-> p + ends[i]]
    OBVIOUS
  <2>2. \A i \in 1 .. Len(ends) : p + ends[i] \in 1 .. Len(buf)
    BY <1>2, <1>4, <1>7
  <2>3. t \in [1 .. Len(ends) -> 1 .. Len(buf)]
    BY <2>1, <2>2
  <2>4. t \in Seq(1 .. Len(buf))
    BY <1>8, <2>3, FunctionIsSeq
  <2>5. w.at = <<p>> \o t
    BY <1>8, <1>9, <2>1 DEF Cut
  <2>6. <<p>> \in Seq(1 .. Len(buf)) /\ <<p>> # <<>>
    OBVIOUS
  <2> QED
    BY <2>4, <2>5, <2>6, ConcatProperties, ConcatEqualIffEmpty
<1> QED
  BY <1>10, <1>11

(* What can become of the memory and the names of a part.                  *)
Naming(buf) == { a \in [buf : Seq(Mark), name : Nat, file : Nat] : Blots(buf, a.buf) }

Terminating(buf) == buf \in Seq(Mark) /\ buf # <<>> /\ buf[Len(buf)] = NUL

(* A memory that ends with a NUL does so when it is blotted.               *)
LEMMA BlotsEnd ==
  ASSUME NEW buf, Terminating(buf), NEW b, Blots(buf, b) PROVE Terminating(b) /\ Len(b) = Len(buf) /\ Len(buf) \in Nat
<1>1. Len(buf) \in Nat /\ Len(buf) # 0
  BY LenProperties, EmptySeq DEF Terminating
<1>2. Len(buf) \in 1 .. Len(buf) /\ Len(b) = Len(buf) /\ b \in Seq(Mark)
  BY <1>1 DEF Blots
<1>3. b[Len(buf)] = NUL
  BY <1>2 DEF Blots, Terminating
<1>4. b # <<>>
  BY <1>1, <1>2
<1> QED
  BY <1>1, <1>2, <1>3, <1>4 DEF Terminating

(* A word of the header of a part.                                         *)
LEMMA WordNames ==
  ASSUME NEW buf, Terminating(buf), NEW m \in Naming(buf), NEW x \in 1 .. Len(buf)
  PROVE  DispositionWord(m, x) \in Naming(buf)
<1>1. /\ m.buf \in Seq(Mark) /\ Blots(buf, m.buf) /\ m.name \in Nat /\ m.file \in Nat
      /\ m = [buf |-> m.buf, name |-> m.name, file |-> m.file]
  BY DEF Naming
<1>2. Terminating(m.buf) /\ Len(m.buf) = Len(buf) /\ Len(buf) \in Nat
  BY <1>1, BlotsEnd
<1>3. PICK n, f, b : n = "name=QUOTE" /\ f = "filename=QUOTE" /\ b = m.buf
  OBVIOUS
<1>4. PICK new, quoted : new = DispositionWord(m, x) /\ quoted = [m EXCEPT !.buf = Split(b, x + 1, <<QUOTE>>).buf]
  OBVIOUS
<1>5. \/ b[x] = n /\ new = [quoted EXCEPT !.name = x + 1]
      \/ b[x] # n /\ b[x] = f /\ new = [quoted EXCEPT !.file = x + 1]
      \/ b[x] # n /\ b[x] # f /\ new = m
  BY <1>3, <1>4, Zenon DEF DispositionWord
<1>6. CASE b[x] = n \/ b[x] = f
  <2>1. n # NUL /\ f # NUL
    BY <1>3 DEF NUL
  <2>2. x + 1 \in 1 .. Len(b)
    <3>1. x # Len(b)
      BY <1>2, <1>3, <1>6, <2>1 DEF Terminating
    <3> QED
      BY <1>2, <1>3, <3>1
  <2>3. PICK c : c = Split(b, x + 1, <<QUOTE>>).buf
    OBVIOUS
  <2>4. Blots(b, c)
    <3>1. PICK d : d = <<QUOTE>>
      OBVIOUS
    <3>2. Len(d) = 1
      BY <3>1
    <3>3. PICK w : w = Split(b, x + 1, d)
      OBVIOUS
    <3>4. Len(d) \in Nat /\ Len(d) > 0
      BY <3>2
    <3>5. b \in Seq(Mark) /\ b # <<>> /\ b[Len(b)] = NUL
      BY <1>2, <1>3 DEF Terminating
    <3>6. Blots(b, w.buf)
      BY <2>2, <3>3, <3>4, <3>5, SplitBlots
    <3> QED
      BY <2>3, <3>1, <3>3, <3>6
  <2>5. Blots(buf, c) /\ c \in Seq(Mark)
    BY <1>1, <1>3, <2>4, BlotsMore DEF Terminating, Blots
  <2>6. quoted = [buf |-> c, name |-> m.name, file |-> m.file]
    BY <1>1, <1>4, <2>3
  <2>7. new \in { [buf |-> c, name |-> x + 1, file |-> m.file], [buf |-> c, name |-> m.name, file |-> x + 1] }
    BY <1>5, <1>6, <2>6
  <2>8. x + 1 \in Nat
    OBVIOUS
  <2> QED
    BY <1>1, <1>4, <2>5, <2>7, <2>8 DEF Naming
<1>7. CASE b[x] # n /\ b[x] # f
  BY <1>4, <1>5, <1>7
<1> QED
  BY <1>6, <1>7

(* All words of a line, the first left out.                                *)
NamedBy(acc, words) == FoldLeft(DispositionWord, acc, words)

(* DispositionWords goes through the words one by one.                     *)
LEMMA WordsFold ==
  ASSUME NEW buf, Terminating(buf), NEW acc \in Naming(buf), NEW words \in Seq(1 .. Len(buf))
  PROVE  \E f : /\ f[0] = acc
                /\ \A i \in 1 .. Len(words) :
                     /\ f[i - 1] \in Naming(buf)
                     /\ f[i] \in Naming(buf)
                     /\ f[i] = DispositionWord(f[i - 1], words[i])
                /\ NamedBy(acc, words) = f[Len(words)]
<1> DEFINE op(m, i) == DispositionWord(m, i)
           seq == words
           D == DOMAIN seq
           base == acc
           Steady(g) == g = [s \in SUBSET D |-> IF s = {} THEN base ELSE op(g[s \ {Max(s)}], seq[Max(s)])]
           it == CHOOSE g : Steady(g)
           step == [e \in Naming(buf) \X (1 .. Len(words)) |-> op(e[1], seq[e[2]])]
<1>1. NamedBy(acc, words) = it[D]
  BY Zenon DEF NamedBy, FoldLeft, MapThenFoldSet
<1>2. Len(words) \in Nat /\ D = 1 .. Len(words)
  BY LenProperties
<1>3. \A m \in Naming(buf), i \in 1 .. Len(words) : op(m, seq[i]) \in Naming(buf)
  <2> HIDE DEF op, seq
  <2> TAKE m \in Naming(buf), i \in 1 .. Len(words)
  <2>1. seq[i] \in 1 .. Len(buf)
    BY ElementOfSeq DEF seq
  <2>2. op(m, seq[i]) \in Naming(buf)
    BY <2>1, WordNames DEF op
  <2> QED
    BY <2>2
<1>4. base \in Naming(buf)
  OBVIOUS
<1>5. step \in Steps(Len(words), Naming(buf))
  <2> HIDE DEF op, seq
  <2> QED
    BY <1>3 DEF Steps
<1>6. PICK g : FoldsBy(g, Len(words), Naming(buf), base, step)
  <2> HIDE DEF step, base, seq
  <2> QED
    BY <1>2, <1>4, <1>5, SubsetRecursion
<1>7. Steady(g)
  <2>1. g \in [SUBSET D -> Naming(buf)]
    BY <1>2, <1>6 DEF FoldsBy
  <2>2. ASSUME NEW s \in SUBSET D
        PROVE  g[s] = IF s = {} THEN base ELSE op(g[s \ {Max(s)}], seq[Max(s)])
    <3>1. CASE s = {}
      BY <1>2, <1>6, <3>1 DEF FoldsBy
    <3>2. CASE s # {}
      <4>1. Max(s) \in 1 .. Len(words)
        BY <1>2, <3>2, MaxIn
      <4>2. g[s] = step[<<g[s \ {Max(s)}], Max(s)>>]
        BY <1>2, <1>6, <3>2, Zenon DEF FoldsBy
      <4>3. g[s \ {Max(s)}] \in Naming(buf)
        BY <1>2, <1>6 DEF FoldsBy
      <4>4. step[<<g[s \ {Max(s)}], Max(s)>>] = op(g[s \ {Max(s)}], seq[Max(s)])
        <5> HIDE DEF op, seq
        <5> QED
          BY <4>1, <4>3
      <4> HIDE DEF step, op, seq
      <4> QED
        BY <3>2, <4>2, <4>4
    <3> QED
      BY <3>1, <3>2
  <2> HIDE DEF op, base, seq
  <2> QED
    BY <2>1, <2>2
<1>8. Steady(it)
  <2> HIDE DEF Steady
  <2> QED
    BY <1>7
<1>9. \A s \in SUBSET D : it[s] = IF s = {} THEN base ELSE op(it[s \ {Max(s)}], seq[Max(s)])
  <2> HIDE DEF it, op, base, seq
  <2> QED
    BY <1>8, Zenon
<1>e. \A i \in 1 .. Len(words) : seq[i] = words[i]
  BY <1>2
<1> HIDE DEF it, Steady, op, base, step, seq
<1>10. it[{}] = base
  BY <1>9
<1>11. \A i \in 1 .. Len(words) : it[1 .. i] = op(it[1 .. i - 1], seq[i])
  <2> TAKE i \in 1 .. Len(words)
  <2>1. /\ 1 .. i # {} /\ 1 .. i \in SUBSET (1 .. Len(words))
        /\ Max(1 .. i) = i /\ (1 .. i) \ {Max(1 .. i)} = 1 .. i - 1
    BY <1>2, FirstPositions
  <2> QED
    BY <1>2, <1>9, <2>1
<1> DEFINE f == [i \in 0 .. Len(words) |-> it[1 .. i]]
           E == { i \in 0 .. Len(words) : f[i] \in Naming(buf) }
<1>12. f[0] = base /\ f[Len(words)] = it[D]
  <2>1. 1 .. 0 = {}
    OBVIOUS
  <2> QED
    BY <1>2, <1>10, <2>1
<1>13. \A i \in 1 .. Len(words) : f[i] = op(f[i - 1], seq[i])
  <2> TAKE i \in 1 .. Len(words)
  <2>1. i \in 0 .. Len(words) /\ i - 1 \in 0 .. Len(words)
    BY <1>2
  <2> QED
    BY <1>11, <2>1
<1> HIDE DEF f
<1>14. 0 .. Len(words) \subseteq E
  <2>1. 0 \in E
    BY <1>2, <1>4, <1>12
  <2>2. ASSUME NEW i \in 0 .. Len(words) - 1, i \in E PROVE i + 1 \in E
    <3>1. i + 1 \in 1 .. Len(words) /\ (i + 1) - 1 = i
      BY <1>2
    <3>2. f[i + 1] = op(f[i], seq[i + 1])
      BY <1>13, <3>1
    <3>3. f[i + 1] \in Naming(buf)
      BY <1>3, <2>2, <3>1, <3>2
    <3> QED
      BY <1>2, <3>1, <3>3
  <2> HIDE DEF E
  <2> QED
    BY <1>2, <2>1, <2>2, UpTo
<1>15. \A i \in 1 .. Len(words) : f[i - 1] \in Naming(buf) /\ f[i] \in Naming(buf) /\ f[i] = op(f[i - 1], seq[i])
  <2> TAKE i \in 1 .. Len(words)
  <2>1. i \in 0 .. Len(words) /\ i - 1 \in 0 .. Len(words)
    BY <1>2
  <2> QED
    BY <1>13, <1>14, <2>1
<1>16. NamedBy(acc, words) = f[Len(words)]
  BY <1>1, <1>12
<1> WITNESS f
<1> QED
  BY <1>12, <1>15, <1>16, <1>e DEF op, base

(* A line of the header of a part, cut into words at w.at.                 *)
LEMMA LineNames ==
  ASSUME NEW buf, Terminating(buf), NEW m \in Naming(buf), NEW x \in 1 .. Len(buf)
  PROVE  DispositionLine(m, Split(m.buf, x, <<Blank>>)) \in Naming(buf)
<1>1. /\ m.buf \in Seq(Mark) /\ Blots(buf, m.buf) /\ m.name \in Nat /\ m.file \in Nat
      /\ m = [buf |-> m.buf, name |-> m.name, file |-> m.file]
  BY DEF Naming
<1>2. Terminating(m.buf) /\ Len(m.buf) = Len(buf) /\ Len(buf) \in Nat
  BY <1>1, BlotsEnd
<1>3. PICK w, d, b : d = <<Blank>> /\ b = m.buf /\ w = Split(b, x, d)
  OBVIOUS
<1>4. Blots(b, w.buf) /\ w.at \in Seq(1 .. Len(b)) /\ w.at # <<>>
  <2>1. b \in Seq(Mark) /\ b # <<>> /\ b[Len(b)] = NUL /\ x \in 1 .. Len(b)
    BY <1>2, <1>3 DEF Terminating
  <2>2. Len(d) \in Nat /\ Len(d) > 0
    <3>1. Len(d) = 1
      BY <1>3
    <3> QED
      BY <3>1
  <2> QED
    BY <1>3, <2>1, <2>2, SplitBlots
<1>5. PICK acc, at : acc = [m EXCEPT !.buf = w.buf] /\ at = w.at
  OBVIOUS
<1>6. acc \in Naming(buf)
  <2>1. Blots(buf, w.buf) /\ w.buf \in Seq(Mark)
    BY <1>1, <1>3, <1>4, BlotsMore DEF Terminating, Blots
  <2>2. acc = [buf |-> w.buf, name |-> m.name, file |-> m.file]
    BY <1>1, <1>5
  <2> QED
    BY <1>1, <2>1, <2>2 DEF Naming
<1>7. Tail(at) \in Seq(1 .. Len(buf))
  BY <1>2, <1>3, <1>4, <1>5, HeadTailProperties
<1>8. NamedBy(acc, Tail(at)) \in Naming(buf)
  <2>1. PICK words : words = Tail(at)
    OBVIOUS
  <2>2. PICK f : /\ f[0] = acc
                 /\ \A i \in 1 .. Len(words) :
                      /\ f[i - 1] \in Naming(buf)
                      /\ f[i] \in Naming(buf)
                      /\ f[i] = DispositionWord(f[i - 1], words[i])
                 /\ NamedBy(acc, words) = f[Len(words)]
    <3>1. words \in Seq(1 .. Len(buf))
      BY <1>7, <2>1
    <3> QED
      BY <1>6, <3>1, WordsFold
  <2>3. Len(words) \in Nat
    BY <1>7, <2>1, LenProperties
  <2>4. Len(words) = 0 \/ Len(words) \in 1 .. Len(words)
    BY <2>3
  <2>5. f[Len(words)] \in Naming(buf)
    BY <1>6, <2>2, <2>4
  <2> QED
    BY <2>1, <2>2, <2>5
<1>9. DispositionWords(acc, at) \in Naming(buf)
  <2>1. DispositionWords(acc, at) \in {NamedBy(acc, Tail(at)), acc}
    BY Zenon DEF DispositionWords, NamedBy
  <2> QED
    BY <1>6, <1>8, <2>1
<1>10. DispositionLine(m, w) = DispositionWords(acc, at)
  BY <1>5, Zenon DEF DispositionLine
<1> QED
  BY <1>3, <1>9, <1>10

(* DispositionLines goes through the lines one by one.                     *)
LEMMA LinesFold ==
  ASSUME NEW buf, Terminating(buf), NEW lines, Blots(buf, lines.buf), lines.at \in Seq(1 .. Len(buf))
  PROVE  \E f : /\ f[0] = [buf |-> lines.buf, name |-> 0, file |-> 0]
                /\ \A i \in 1 .. Len(lines.at) :
                     /\ f[i - 1] \in Naming(buf)
                     /\ f[i] \in Naming(buf)
                     /\ f[i] = DispositionLine(f[i - 1], Split(f[i - 1].buf, lines.at[i], <<Blank>>))
                /\ DispositionLines(lines) = f[Len(lines.at)]
<1> DEFINE op(m, i) == DispositionLine(m, Split(m.buf, i, <<Blank>>))
           seq == lines.at
           D == DOMAIN seq
           base == [buf |-> lines.buf, name |-> 0, file |-> 0]
           Steady(g) == g = [s \in SUBSET D |-> IF s = {} THEN base ELSE op(g[s \ {Max(s)}], seq[Max(s)])]
           it == CHOOSE g : Steady(g)
           step == [e \in Naming(buf) \X (1 .. Len(lines.at)) |-> op(e[1], seq[e[2]])]
<1>1. DispositionLines(lines) = it[D]
  BY Zenon DEF DispositionLines, FoldLeft, MapThenFoldSet, Blank
<1>2. Len(lines.at) \in Nat /\ D = 1 .. Len(lines.at)
  BY LenProperties
<1>3. \A m \in Naming(buf), i \in 1 .. Len(lines.at) : op(m, seq[i]) \in Naming(buf)
  <2> HIDE DEF op, seq
  <2> TAKE m \in Naming(buf), i \in 1 .. Len(lines.at)
  <2>1. seq[i] \in 1 .. Len(buf)
    BY ElementOfSeq DEF seq
  <2>2. op(m, seq[i]) \in Naming(buf)
    BY <2>1, LineNames DEF op
  <2> QED
    BY <2>2
<1>4. base \in Naming(buf)
  BY DEF Naming, Blots
<1>5. step \in Steps(Len(lines.at), Naming(buf))
  <2> HIDE DEF op, seq
  <2> QED
    BY <1>3 DEF Steps
<1>6. PICK g : FoldsBy(g, Len(lines.at), Naming(buf), base, step)
  <2> HIDE DEF step, base, seq
  <2> QED
    BY <1>2, <1>4, <1>5, SubsetRecursion
<1>7. Steady(g)
  <2>1. g \in [SUBSET D -> Naming(buf)]
    BY <1>2, <1>6 DEF FoldsBy
  <2>2. ASSUME NEW s \in SUBSET D
        PROVE  g[s] = IF s = {} THEN base ELSE op(g[s \ {Max(s)}], seq[Max(s)])
    <3>1. CASE s = {}
      BY <1>2, <1>6, <3>1 DEF FoldsBy
    <3>2. CASE s # {}
      <4>1. Max(s) \in 1 .. Len(lines.at)
        BY <1>2, <3>2, MaxIn
      <4>2. g[s] = step[<<g[s \ {Max(s)}], Max(s)>>]
        BY <1>2, <1>6, <3>2, Zenon DEF FoldsBy
      <4>3. g[s \ {Max(s)}] \in Naming(buf)
        BY <1>2, <1>6 DEF FoldsBy
      <4>4. step[<<g[s \ {Max(s)}], Max(s)>>] = op(g[s \ {Max(s)}], seq[Max(s)])
        <5> HIDE DEF op, seq
        <5> QED
          BY <4>1, <4>3
      <4> HIDE DEF step, op, seq
      <4> QED
        BY <3>2, <4>2, <4>4
    <3> QED
      BY <3>1, <3>2
  <2> HIDE DEF op, base, seq
  <2> QED
    BY <2>1, <2>2
<1>8. Steady(it)
  <2> HIDE DEF Steady
  <2> QED
    BY <1>7
<1>9. \A s \in SUBSET D : it[s] = IF s = {} THEN base ELSE op(it[s \ {Max(s)}], seq[Max(s)])
  <2> HIDE DEF it, op, base, seq
  <2> QED
    BY <1>8, Zenon
<1>e. \A i \in 1 .. Len(lines.at) : seq[i] = lines.at[i]
  BY <1>2
<1> HIDE DEF it, Steady, op, base, step, seq
<1>10. it[{}] = base
  BY <1>9
<1>11. \A i \in 1 .. Len(lines.at) : it[1 .. i] = op(it[1 .. i - 1], seq[i])
  <2> TAKE i \in 1 .. Len(lines.at)
  <2>1. /\ 1 .. i # {} /\ 1 .. i \in SUBSET (1 .. Len(lines.at))
        /\ Max(1 .. i) = i /\ (1 .. i) \ {Max(1 .. i)} = 1 .. i - 1
    BY <1>2, FirstPositions
  <2> QED
    BY <1>2, <1>9, <2>1
<1> DEFINE f == [i \in 0 .. Len(lines.at) |-> it[1 .. i]]
           E == { i \in 0 .. Len(lines.at) : f[i] \in Naming(buf) }
<1>12. f[0] = base /\ f[Len(lines.at)] = it[D]
  <2>1. 1 .. 0 = {}
    OBVIOUS
  <2> QED
    BY <1>2, <1>10, <2>1
<1>13. \A i \in 1 .. Len(lines.at) : f[i] = op(f[i - 1], seq[i])
  <2> TAKE i \in 1 .. Len(lines.at)
  <2>1. i \in 0 .. Len(lines.at) /\ i - 1 \in 0 .. Len(lines.at)
    BY <1>2
  <2> QED
    BY <1>11, <2>1
<1> HIDE DEF f
<1>14. 0 .. Len(lines.at) \subseteq E
  <2>1. 0 \in E
    BY <1>2, <1>4, <1>12
  <2>2. ASSUME NEW i \in 0 .. Len(lines.at) - 1, i \in E PROVE i + 1 \in E
    <3>1. i + 1 \in 1 .. Len(lines.at) /\ (i + 1) - 1 = i
      BY <1>2
    <3>2. f[i + 1] = op(f[i], seq[i + 1])
      BY <1>13, <3>1
    <3>3. f[i + 1] \in Naming(buf)
      BY <1>3, <2>2, <3>1, <3>2
    <3> QED
      BY <1>2, <3>1, <3>3
  <2> HIDE DEF E
  <2> QED
    BY <1>2, <2>1, <2>2, UpTo
<1>15. \A i \in 1 .. Len(lines.at) : f[i - 1] \in Naming(buf) /\ f[i] \in Naming(buf) /\ f[i] = op(f[i - 1], seq[i])
  <2> TAKE i \in 1 .. Len(lines.at)
  <2>1. i \in 0 .. Len(lines.at) /\ i - 1 \in 0 .. Len(lines.at)
    BY <1>2
  <2> QED
    BY <1>13, <1>14, <2>1
<1>16. DispositionLines(lines) = f[Len(lines.at)]
  BY <1>1, <1>12
<1> WITNESS f
<1> QED
  BY <1>12, <1>15, <1>16, <1>e DEF op, base

(* The header of a part.                                                   *)
LEMMA PartNames ==
  ASSUME NEW buf, Terminating(buf), NEW p \in 1 .. Len(buf)
  PROVE  Disposition(buf, p) \in Naming(buf)
<1>1. PICK lines : lines = Split(buf, p, CRLF)
  OBVIOUS
<1>2. Blots(buf, lines.buf) /\ lines.at \in Seq(1 .. Len(buf)) /\ lines.at # <<>>
  <2>1. Len(CRLF) \in Nat /\ Len(CRLF) > 0
    BY CrlfType
  <2> QED
    BY <1>1, <2>1, SplitBlots DEF Terminating
<1>3. PICK f : /\ f[0] = [buf |-> lines.buf, name |-> 0, file |-> 0]
               /\ \A i \in 1 .. Len(lines.at) :
                    /\ f[i - 1] \in Naming(buf)
                    /\ f[i] \in Naming(buf)
                    /\ f[i] = DispositionLine(f[i - 1], Split(f[i - 1].buf, lines.at[i], <<Blank>>))
               /\ DispositionLines(lines) = f[Len(lines.at)]
  BY <1>2, LinesFold
<1>4. Len(lines.at) \in 1 .. Len(lines.at)
  BY <1>2, LenProperties, EmptySeq
<1>5. DispositionLines(lines) \in Naming(buf)
  BY <1>3, <1>4
<1>6. Disposition(buf, p) = DispositionLines(lines)
  BY <1>1, Zenon DEF Disposition, CRLF, CR, LF
<1> QED
  BY <1>5, <1>6

(* What can become of the parser in a body in parts, and where it looks    *)
(* for the next one.                                                       *)
FileItm == [Name : Nat, Value : [Name : Nat, Data : Int, Size : Int]]

Parting(st) ==
  { s \in [Members -> { st[k] : k \in Members } \cup Seq(Mark) \cup Seq(ItmType) \cup Seq(FileItm)] :
      /\ Blots(st.buf, s.buf) /\ s.PostPrm \in Seq(ItmType) /\ s.FilePrm \in Seq(FileItm)
      /\ \A k \in Members \ {"buf", "PostPrm", "FilePrm"} : s[k] = st[k] }

Going(st) == [st : Parting(st), x : 0 .. Len(st.buf)]

(* The last boundary, which is there, and no "C" behind it.                *)
Bounded(st) == Terminating(st.buf) /\ \A i \in Len(st.buf) - 3 .. Len(st.buf) : st.buf[i] # "C"

(* Less memory and another list is still what it can become.               *)
LEMMA PartingMore ==
  ASSUME NEW st, Terminating(st.buf), NEW s \in Parting(st), NEW b, Blots(s.buf, b), NEW t,
         \/ t = [s EXCEPT !.buf = b]
         \/ \E it \in ItmType : t = [s EXCEPT !.buf = b, !.PostPrm = Append(@, it)]
         \/ \E it \in FileItm : t = [s EXCEPT !.buf = b, !.FilePrm = Append(@, it)]
  PROVE  t \in Parting(st)
<1> DEFINE D == { st[k] : k \in Members } \cup Seq(Mark) \cup Seq(ItmType) \cup Seq(FileItm)
<1>1. /\ s \in [Members -> D] /\ Blots(st.buf, s.buf) /\ s.PostPrm \in Seq(ItmType) /\ s.FilePrm \in Seq(FileItm)
      /\ \A k \in Members \ {"buf", "PostPrm", "FilePrm"} : s[k] = st[k]
  BY DEF Parting
<1>2. Blots(st.buf, b) /\ b \in Seq(Mark)
  BY <1>1, BlotsMore DEF Terminating, Blots
<1>3. Seq(Mark) \subseteq D /\ Seq(ItmType) \subseteq D /\ Seq(FileItm) \subseteq D
  OBVIOUS
<1> HIDE DEF D
<1>4. CASE t = [s EXCEPT !.buf = b]
  <2>1. t \in [Members -> D]
    BY <1>1, <1>2, <1>3, <1>4
  <2>2. t.buf = b /\ t.PostPrm = s.PostPrm /\ t.FilePrm = s.FilePrm
    BY <1>1, <1>4 DEF Members
  <2>3. \A k \in Members \ {"buf", "PostPrm", "FilePrm"} : t[k] = st[k]
    BY <1>1, <1>4
  <2> QED
    BY <1>1, <1>2, <2>1, <2>2, <2>3 DEF Parting, D
<1>5. ASSUME NEW it \in ItmType, t = [s EXCEPT !.buf = b, !.PostPrm = Append(@, it)] PROVE t \in Parting(st)
  <2>1. PICK q : q = Append(s.PostPrm, it)
    OBVIOUS
  <2>2. q \in Seq(ItmType)
    BY <1>1, <2>1, AppendProperties
  <2>3. t = [s EXCEPT !.buf = b, !.PostPrm = q]
    BY <1>1, <1>5, <2>1 DEF Members
  <2>4. t \in [Members -> D]
    BY <1>1, <1>2, <1>3, <2>2, <2>3
  <2>5. t.buf = b /\ t.PostPrm = q /\ t.FilePrm = s.FilePrm
    BY <1>1, <2>3 DEF Members
  <2>6. \A k \in Members \ {"buf", "PostPrm", "FilePrm"} : t[k] = st[k]
    BY <1>1, <2>3
  <2> QED
    BY <1>1, <1>2, <2>2, <2>4, <2>5, <2>6 DEF Parting, D
<1>6. ASSUME NEW it \in FileItm, t = [s EXCEPT !.buf = b, !.FilePrm = Append(@, it)] PROVE t \in Parting(st)
  <2>1. PICK q : q = Append(s.FilePrm, it)
    OBVIOUS
  <2>2. q \in Seq(FileItm)
    BY <1>1, <2>1, AppendProperties
  <2>3. t = [s EXCEPT !.buf = b, !.FilePrm = q]
    BY <1>1, <1>6, <2>1 DEF Members
  <2>4. t \in [Members -> D]
    BY <1>1, <1>2, <1>3, <2>2, <2>3
  <2>5. t.buf = b /\ t.PostPrm = s.PostPrm /\ t.FilePrm = q
    BY <1>1, <2>3 DEF Members
  <2>6. \A k \in Members \ {"buf", "PostPrm", "FilePrm"} : t[k] = st[k]
    BY <1>1, <2>3
  <2> QED
    BY <1>1, <1>2, <2>2, <2>4, <2>5, <2>6 DEF Parting, D
<1> QED
  BY <1>4, <1>5, <1>6

(* A part that has been read.                                              *)
LEMMA PartPushed ==
  ASSUME NEW st, Terminating(st.buf), NEW s \in Parting(st), NEW b, Terminating(b), Blots(s.buf, b),
         NEW part \in Naming(b), NEW from \in Nat, NEW end \in Int
  PROVE  PushPart(s, from, end, part) \in Parting(st)
<1>1. part.buf \in Seq(Mark) /\ Blots(b, part.buf) /\ part.name \in Nat /\ part.file \in Nat
  BY DEF Naming
<1>2. s.buf \in Seq(Mark)
  BY DEF Parting, Blots
<1>3. Blots(s.buf, part.buf)
  BY <1>1, <1>2, BlotsMore
<1>4. PICK c : c = Terminated(part.buf, end)
  OBVIOUS
<1>5. Blots(s.buf, c)
  <2>1. Blots(part.buf, Zeroed(part.buf, end - 2, end - 1))
    BY <1>1, BlotsZeroed
  <2>2. c = part.buf \/ c = Zeroed(part.buf, end - 2, end - 1)
    BY <1>4 DEF Terminated
  <2> QED
    BY <1>2, <1>3, <2>1, <2>2, BlotsMore
<1>6. PICK st1, t : st1 = [s EXCEPT !.buf = c] /\ t = PushPart(s, from, end, part)
  OBVIOUS
<1>7. \/ t = [s EXCEPT !.buf = part.buf]
      \/ t = [st1 EXCEPT !.PostPrm = Append(@, PrmItm(part.name, from))]
      \/ t = [st1 EXCEPT !.FilePrm = Append(@, PrmItm(part.name,
                [Name |-> part.file, Data |-> from, Size |-> end - from]))]
  BY <1>4, <1>6, Zenon DEF PushPart
<1>8. st1 \in Parting(st)
  BY <1>5, <1>6, PartingMore
<1>9. Blots(st1.buf, c) /\ st1.buf = c
  <2>1. st1.buf \in Seq(Mark)
    BY <1>8 DEF Parting, Blots
  <2>2. s \in [Members -> { st[k] : k \in Members } \cup Seq(Mark) \cup Seq(ItmType) \cup Seq(FileItm)]
    BY DEF Parting
  <2>3. st1.buf = c
    BY <1>6, <2>2 DEF Members
  <2> QED
    BY <2>1, <2>3 DEF Blots
<1>10. CASE t = [s EXCEPT !.buf = part.buf]
  BY <1>3, <1>6, <1>10, PartingMore
<1>11. CASE t = [st1 EXCEPT !.PostPrm = Append(@, PrmItm(part.name, from))]
  <2>1. PICK it : it = PrmItm(part.name, from)
    OBVIOUS
  <2>2. it \in ItmType
    BY <1>1, <2>1 DEF PrmItm, ItmType
  <2>3. t = [st1 EXCEPT !.buf = c, !.PostPrm = Append(@, it)]
    BY <1>8, <1>9, <1>11, <2>1 DEF Parting, Members
  <2>4. \E j \in ItmType : t = [st1 EXCEPT !.buf = c, !.PostPrm = Append(@, j)]
    BY <2>2, <2>3
  <2>5. t \in Parting(st)
    BY <1>8, <1>9, <2>4, PartingMore
  <2> QED
    BY <1>6, <2>5
<1>12. CASE t = [st1 EXCEPT !.FilePrm = Append(@, PrmItm(part.name,
                  [Name |-> part.file, Data |-> from, Size |-> end - from]))]
  <2>1. PICK it : it = PrmItm(part.name, [Name |-> part.file, Data |-> from, Size |-> end - from])
    OBVIOUS
  <2>2. it \in FileItm
    BY <1>1, <2>1 DEF PrmItm, FileItm
  <2>3. t = [st1 EXCEPT !.buf = c, !.FilePrm = Append(@, it)]
    BY <1>8, <1>9, <1>12, <2>1 DEF Parting, Members
  <2>4. \E j \in FileItm : t = [st1 EXCEPT !.buf = c, !.FilePrm = Append(@, j)]
    BY <2>2, <2>3
  <2>5. t \in Parting(st)
    BY <1>8, <1>9, <2>4, PartingMore
  <2> QED
    BY <1>6, <2>5
<1> QED
  BY <1>6, <1>7, <1>10, <1>11, <1>12

(* What a body in parts is written with.                                   *)
Script == STRING \cup {CR, LF, Quote, "-", "B", "C", " ", ";", "Content-Disposition:", "form-data;",
                       "name=QUOTE", "filename=QUOTE"}

(* A part, from a boundary that ends at b to the next.                     *)
LEMMA PartRead ==
  ASSUME NEW st, Terminating(st.buf), NEW s \in Parting(st), NEW b \in 1 .. Len(s.buf), NEW bound \in Seq(Script),
         Len(bound) = 4, NEW last, last = Min(HeaderEnds(s.buf, b)), HeaderEnds(s.buf, b) # {}
  PROVE  ReadPartHeader(s, b, last, bound) \in Going(st)
<1>1. Blots(st.buf, s.buf) /\ Terminating(s.buf) /\ Len(s.buf) = Len(st.buf) /\ Len(st.buf) \in Nat
  <2>1. Blots(st.buf, s.buf)
    BY DEF Parting
  <2> QED
    BY <2>1, BlotsEnd
<1>2. last \in HeaderEnds(s.buf, b)
  <2>1. HeaderEnds(s.buf, b) \in SUBSET Nat
    BY <1>1 DEF HeaderEnds
  <2> QED
    BY <2>1, MinOf
<1>3. last \in b + 4 .. Len(s.buf) /\ s.buf[last] = LF
  <2>1. last \in b + 4 .. Len(s.buf) /\ SubSeq(s.buf, last - 3, last) = <<"CR", "LF", "CR", "LF">>
    BY <1>2 DEF HeaderEnds
  <2>2. PICK y, u, n : y = last - 3 /\ u = s.buf /\ n = Len(u)
    OBVIOUS
  <2>3. n \in Nat /\ u \in Seq(Mark) /\ b \in 1 .. n /\ last \in b + 4 .. n
    BY <1>1, <2>1, <2>2 DEF Terminating
  <2>4. y \in 1 .. n /\ last \in 1 .. n /\ last = y + 3
    BY <2>2, <2>3
  <2>5. PICK v : v = SubSeq(u, y, last)
    OBVIOUS
  <2>6. v[4] = u[y + 3]
    <3>1. y \in 1 .. Len(u) + 1 /\ last \in y - 1 .. Len(u)
      BY <2>2, <2>3, <2>4
    <3>2. \A i \in 1 .. last - y + 1 : v[i] = u[y + i - 1]
      BY <2>3, <2>5, <3>1, SubSeqProperties
    <3>3. 4 \in 1 .. last - y + 1 /\ y + 4 - 1 = y + 3
      BY <2>3, <2>4
    <3> QED
      BY <3>2, <3>3
  <2>7. v[4] = LF
    <3>1. v = <<"CR", "LF", "CR", "LF">>
      BY <2>1, <2>2, <2>5
    <3> QED
      BY <3>1 DEF LF
  <2> QED
    BY <2>1, <2>2, <2>4, <2>6, <2>7
<1>4. last # Len(s.buf)
  BY <1>1, <1>3 DEF Terminating, LF, NUL
<1>5. PICK z, from, p : z = Zeroed(s.buf, last - 3, last) /\ from = last + 1 /\ p = b + 1
  OBVIOUS
<1>6. Blots(s.buf, z) /\ Terminating(z) /\ Len(z) = Len(st.buf)
  <2>1. Blots(s.buf, z)
    BY <1>1, <1>5, BlotsZeroed DEF Terminating
  <2> QED
    BY <1>1, <2>1, BlotsEnd
<1>7. from \in 6 .. Len(z) /\ p \in 1 .. Len(z)
  BY <1>1, <1>3, <1>4, <1>5, <1>6
<1>8. PICK part : part = Disposition(z, p)
  OBVIOUS
<1>9. part \in Naming(z)
  BY <1>6, <1>7, <1>8, PartNames
<1>10. part.buf \in Seq(Mark) /\ Len(part.buf) = Len(z)
  BY <1>9 DEF Naming, Blots
<1>11. PICK short : short = Front(bound)
  OBVIOUS
<1>12. Len(short) = 3
  BY <1>11 DEF Front
<1>13. PICK e, end : e = Find(part.buf, from, short) /\ end = DataEnd(part.buf, from, short)
  OBVIOUS
<1>14. end \in 1 .. Len(z)
  <2>1. end = IF e = 0 THEN Len(part.buf) ELSE e - Len(short) + 1
    BY <1>13 DEF DataEnd, BeginOf
  <2>2. Len(z) \in Nat
    BY <1>1, <1>6
  <2>3. CASE e = 0
    BY <1>7, <1>10, <2>1, <2>2, <2>3
  <2>4. CASE e # 0
    <3>1. from \in 1 .. Len(part.buf) + 1 /\ Len(short) \in Nat /\ Len(short) > 0
      BY <1>7, <1>10, <1>12, <2>2
    <3>2. e \in from .. Len(part.buf)
      BY <1>10, <1>13, <2>4, <3>1, FindIs
    <3>3. end = (e - 3) + 1
      BY <1>12, <2>1, <2>4
    <3> QED
      BY <1>7, <1>10, <2>2, <3>2, <3>3
  <2> QED
    BY <2>3, <2>4
<1>15. PushPart(s, from, end, part) \in Parting(st)
  <2>1. from \in Nat /\ end \in Int
    BY <1>7, <1>14
  <2> QED
    BY <1>6, <1>9, <2>1, PartPushed
<1>16. ReadPartHeader(s, b, last, bound) =
        [st |-> PushPart(s, from, end, part), x |-> IF part.name = 0 THEN from ELSE end]
  BY <1>5, <1>8, <1>11, <1>13, Zenon DEF ReadPartHeader, ReadPart, ReadData, Onward
<1>17. (IF part.name = 0 THEN from ELSE end) \in 0 .. Len(st.buf)
  BY <1>1, <1>6, <1>7, <1>14
<1> QED
  BY <1>15, <1>16, <1>17 DEF Going

(* Nothing fails at a boundary: there is more behind each.                 *)
Further(at, bound) == IF at.x = 0 THEN at ELSE ReadBoundary(at.st, Find(at.st.buf, at.x, bound), bound)

(* ReadBoundary goes on, or is over; it never finds that a part is         *)
(* missing.                                                                *)
LEMMA BoundaryRead ==
  ASSUME NEW st, Bounded(st), NEW at \in Going(st), NEW bound \in Seq(Script), Len(bound) = 4, bound[4] = "C"
  PROVE  Further(at, bound) \in Going(st)
<1>1. CASE at.x = 0
  BY <1>1 DEF Further
<1>2. CASE at.x # 0
  <2>1. PICK s, x, b : s = at.st /\ x = at.x /\ b = Find(s.buf, x, bound)
    OBVIOUS
  <2>2. s \in Parting(st) /\ x \in 1 .. Len(st.buf) /\ Terminating(st.buf)
    BY <1>2, <2>1 DEF Going, Bounded
  <2>3. Blots(st.buf, s.buf) /\ Terminating(s.buf) /\ Len(s.buf) = Len(st.buf) /\ Len(st.buf) \in Nat
    <3>1. Blots(st.buf, s.buf)
      BY <2>2 DEF Parting
    <3> QED
      BY <2>2, <3>1, BlotsEnd
  <2>4. Further(at, bound) = ReadBoundary(s, b, bound)
    BY <1>2, <2>1 DEF Further
  <2>5. [st |-> s, x |-> 0] \in Going(st)
    <3>1. 0 \in 0 .. Len(st.buf)
      BY <2>3
    <3> QED
      BY <2>2, <3>1 DEF Going
  <2>6. CASE b = 0
    <3>1. ReadBoundary(s, b, bound) = [st |-> s, x |-> 0]
      BY <2>6 DEF ReadBoundary, Over, Onward
    <3> QED
      BY <2>4, <2>5, <3>1
  <2>7. CASE b # 0
    <3>1. b \in x .. Len(s.buf) /\ s.buf[b] = "C"
      <4>1. s.buf \in Seq(Mark) /\ x \in 1 .. Len(s.buf) + 1 /\ Len(bound) \in Nat /\ Len(bound) > 0
        BY <2>2, <2>3 DEF Terminating
      <4>2. b \in x .. Len(s.buf) /\ s.buf[b] = bound[Len(bound)]
        BY <2>1, <2>7, <4>1, FindIs, ZenonT(30)
      <4> QED
        BY <4>2
    <3>2. b \in 1 .. Len(s.buf)
      BY <2>2, <2>3, <3>1
    <3>3. st.buf[b] = "C"
      BY <2>3, <3>1, <3>2 DEF Blots, NUL
    <3>4. ~(b + 1 >= Len(s.buf) - 2)
      <4> SUFFICES ASSUME b + 1 >= Len(s.buf) - 2 PROVE FALSE
        OBVIOUS
      <4>1. b \in Len(st.buf) - 3 .. Len(st.buf)
        BY <2>3, <3>2
      <4> QED
        BY <3>3, <4>1 DEF Bounded
    <3>5. CASE HeaderEnds(s.buf, b) = {}
      <4>1. ReadBoundary(s, b, bound) = [st |-> s, x |-> 0]
        BY <2>7, <3>4, <3>5 DEF ReadBoundary, Over, Onward
      <4> QED
        BY <2>4, <2>5, <4>1
    <3>6. CASE HeaderEnds(s.buf, b) # {}
      <4>1. PICK last : last = Min(HeaderEnds(s.buf, b))
        OBVIOUS
      <4>2. ReadBoundary(s, b, bound) = ReadPartHeader(s, b, last, bound)
        BY <2>7, <3>4, <3>6, <4>1 DEF ReadBoundary
      <4>3. ReadPartHeader(s, b, last, bound) \in Going(st)
        BY <2>2, <3>2, <3>6, <4>1, PartRead
      <4> QED
        BY <2>4, <4>2, <4>3
    <3> QED
      BY <3>5, <3>6
  <2> QED
    BY <2>6, <2>7
<1> QED
  BY <1>1, <1>2

(* The reading of the parts, as far as they go.                            *)
Parted(st, x, bound) ==
  LET next(at, i) == Further(at, bound)
  IN  FoldLeft(next, Onward(st, x), [i \in 1 .. Cardinality(HeaderEnds(st.buf, 0)) + 1 |-> i])

(* ReadParts goes from one boundary to the next.                           *)
LEMMA PartsFold ==
  ASSUME NEW st, Bounded(st), NEW x, Onward(st, x) \in Going(st),
         NEW bound \in Seq(Script), Len(bound) = 4, bound[4] = "C",
         NEW n \in Nat, n = Cardinality(HeaderEnds(st.buf, 0)) + 1
  PROVE  \E f : /\ f[0] = Onward(st, x)
                /\ \A i \in 1 .. n : f[i - 1] \in Going(st) /\ f[i] \in Going(st) /\ f[i] = Further(f[i - 1], bound)
                /\ Parted(st, x, bound) = f[n]
<1> DEFINE op(m, i) == Further(m, bound)
           seq == [i \in 1 .. n |-> i]
           D == DOMAIN seq
           base == Onward(st, x)
           Steady(g) == g = [s \in SUBSET D |-> IF s = {} THEN base ELSE op(g[s \ {Max(s)}], seq[Max(s)])]
           it == CHOOSE g : Steady(g)
           step == [e \in Going(st) \X (1 .. n) |-> op(e[1], seq[e[2]])]
<1>1. Parted(st, x, bound) = it[D]
  BY Zenon DEF Parted, FoldLeft, MapThenFoldSet
<1>2. n \in Nat /\ D = 1 .. n
  OBVIOUS
<1>3. \A m \in Going(st), i \in 1 .. n : op(m, seq[i]) \in Going(st)
  BY BoundaryRead
<1>4. base \in Going(st)
  OBVIOUS
<1>5. step \in Steps(n, Going(st))
  <2> HIDE DEF op, seq
  <2> QED
    BY <1>3 DEF Steps
<1>6. PICK g : FoldsBy(g, n, Going(st), base, step)
  <2> HIDE DEF step, base, seq
  <2> QED
    BY <1>2, <1>4, <1>5, SubsetRecursion
<1>7. Steady(g)
  <2>1. g \in [SUBSET D -> Going(st)]
    BY <1>2, <1>6 DEF FoldsBy
  <2>2. ASSUME NEW s \in SUBSET D
        PROVE  g[s] = IF s = {} THEN base ELSE op(g[s \ {Max(s)}], seq[Max(s)])
    <3>1. CASE s = {}
      BY <1>2, <1>6, <3>1 DEF FoldsBy
    <3>2. CASE s # {}
      <4>1. Max(s) \in 1 .. n
        BY <1>2, <3>2, MaxIn
      <4>2. g[s] = step[<<g[s \ {Max(s)}], Max(s)>>]
        BY <1>2, <1>6, <3>2, Zenon DEF FoldsBy
      <4>3. g[s \ {Max(s)}] \in Going(st)
        BY <1>2, <1>6 DEF FoldsBy
      <4>4. step[<<g[s \ {Max(s)}], Max(s)>>] = op(g[s \ {Max(s)}], seq[Max(s)])
        <5> HIDE DEF op, seq
        <5> QED
          BY <4>1, <4>3
      <4> HIDE DEF step, op, seq
      <4> QED
        BY <3>2, <4>2, <4>4
    <3> QED
      BY <3>1, <3>2
  <2> HIDE DEF op, base, seq
  <2> QED
    BY <2>1, <2>2
<1>8. Steady(it)
  <2> HIDE DEF Steady
  <2> QED
    BY <1>7
<1>9. \A s \in SUBSET D : it[s] = IF s = {} THEN base ELSE op(it[s \ {Max(s)}], seq[Max(s)])
  <2> HIDE DEF it, op, base, seq
  <2> QED
    BY <1>8, Zenon
<1>e. \A i \in 1 .. n : seq[i] = i
  BY <1>2
<1> HIDE DEF it, Steady, op, base, step, seq
<1>10. it[{}] = base
  BY <1>9
<1>11. \A i \in 1 .. n : it[1 .. i] = op(it[1 .. i - 1], seq[i])
  <2> TAKE i \in 1 .. n
  <2>1. /\ 1 .. i # {} /\ 1 .. i \in SUBSET (1 .. n)
        /\ Max(1 .. i) = i /\ (1 .. i) \ {Max(1 .. i)} = 1 .. i - 1
    BY <1>2, FirstPositions
  <2> QED
    BY <1>2, <1>9, <2>1
<1> DEFINE f == [i \in 0 .. n |-> it[1 .. i]]
           E == { i \in 0 .. n : f[i] \in Going(st) }
<1>12. f[0] = base /\ f[n] = it[D]
  <2>1. 1 .. 0 = {}
    OBVIOUS
  <2> QED
    BY <1>2, <1>10, <2>1
<1>13. \A i \in 1 .. n : f[i] = op(f[i - 1], seq[i])
  <2> TAKE i \in 1 .. n
  <2>1. i \in 0 .. n /\ i - 1 \in 0 .. n
    BY <1>2
  <2> QED
    BY <1>11, <2>1
<1> HIDE DEF f
<1>14. 0 .. n \subseteq E
  <2>1. 0 \in E
    BY <1>2, <1>4, <1>12
  <2>2. ASSUME NEW i \in 0 .. n - 1, i \in E PROVE i + 1 \in E
    <3>1. i + 1 \in 1 .. n /\ (i + 1) - 1 = i
      BY <1>2
    <3>2. f[i + 1] = op(f[i], seq[i + 1])
      BY <1>13, <3>1
    <3>3. f[i + 1] \in Going(st)
      BY <1>3, <2>2, <3>1, <3>2
    <3> QED
      BY <1>2, <3>1, <3>3
  <2> HIDE DEF E
  <2> QED
    BY <1>2, <2>1, <2>2, UpTo
<1>15. \A i \in 1 .. n : f[i - 1] \in Going(st) /\ f[i] \in Going(st) /\ f[i] = op(f[i - 1], seq[i])
  <2> TAKE i \in 1 .. n
  <2>1. i \in 0 .. n /\ i - 1 \in 0 .. n
    BY <1>2
  <2> QED
    BY <1>13, <1>14, <2>1
<1>16. Parted(st, x, bound) = f[n]
  BY <1>1, <1>12
<1> WITNESS f
<1> QED
  BY <1>12, <1>15, <1>16, <1>e DEF op, base

(* A body in parts that is there as a whole is read without a failure.     *)
LEMMA PartsRead ==
  ASSUME NEW st, IsParser(st), Bounded(st), st.PostPrm = <<>>, st.FilePrm = <<>>, NEW x \in 0 .. Len(st.buf),
         NEW bound \in Seq(Script), Len(bound) = 4, bound[4] = "C"
  PROVE  ReadParts(st, x, bound) \in Parting(st)
<1>1. PICK n : n = Cardinality(HeaderEnds(st.buf, 0)) + 1
  OBVIOUS
<1>2. n \in Nat /\ n \in 1 .. n
  <2>1. Len(st.buf) \in Nat
    BY LenProperties DEF IsParser
  <2>2. HeaderEnds(st.buf, 0) \subseteq 0 + 4 .. Len(st.buf)
    BY DEF HeaderEnds
  <2>3. IsFiniteSet(0 + 4 .. Len(st.buf))
    BY <2>1, FS_Interval
  <2>4. Cardinality(HeaderEnds(st.buf, 0)) \in Nat
    BY <2>2, <2>3, FS_Subset, FS_CardinalityType
  <2> QED
    BY <1>1, <2>4
<1>3. Onward(st, x) \in Going(st)
  <2>1. st \in Parting(st)
    <3>1. st.buf \in Seq(Mark) /\ st \in [Members -> { st[k] : k \in Members }]
      BY DEF IsParser
    <3>2. Blots(st.buf, st.buf)
      BY <3>1 DEF Blots
    <3>3. st.PostPrm \in Seq(ItmType) /\ st.FilePrm \in Seq(FileItm)
      BY EmptySeq
    <3> QED
      BY <3>1, <3>2, <3>3 DEF Parting
  <2> QED
    BY <2>1 DEF Onward, Going
<1>4. PICK f : /\ f[0] = Onward(st, x)
               /\ \A i \in 1 .. n : f[i - 1] \in Going(st) /\ f[i] \in Going(st) /\ f[i] = Further(f[i - 1], bound)
               /\ Parted(st, x, bound) = f[n]
  BY <1>1, <1>2, <1>3, PartsFold
<1>5. Parted(st, x, bound) \in Going(st)
  BY <1>2, <1>4
<1>6. ReadParts(st, x, bound) = Parted(st, x, bound).st
  BY Zenon DEF ReadParts, Parted, Further
<1> QED
  BY <1>5, <1>6 DEF Going

(* The boundary that a Content-Type names.                                 *)
LEMMA BoundaryNamed ==
  ASSUME NEW r, r.parts # <<>>
  PROVE  LET b == Strings(BodyType(r), <<"boundary=">>) IN Len(b) >= 2 /\ b[2] = <<"B", "C">>
<1>1. PICK a, c, v, s, q : /\ a = Multipart /\ c = "boundary=" /\ v = <<"B", "C">>
                           /\ s = <<a, c>> \o v /\ q = <<1, 3>>
  OBVIOUS
<1>2. a \in Mark /\ c \in Mark /\ "B" \in Mark /\ "C" \in Mark /\ c # "B" /\ c # "C" /\ c # NUL
      /\ "B" # NUL /\ "C" # NUL /\ a # NUL /\ a # c
  <2>1. Inline \subseteq Mark /\ NUL \notin Inline
    BY DEF Inline, Mark
  <2>2. a \in Inline
    BY <1>1, MultipartIs
  <2>3. "boundary=" \in Inline /\ "B" \in Inline /\ "C" \in Inline
    BY LabelInline, Zenon DEF Label
  <2>4. "boundary=" # "B" /\ "boundary=" # "C" /\ Multipart # "boundary="
    BY Zenon DEF Multipart
  <2> QED
    BY <1>1, <2>1, <2>2, <2>3, <2>4
<1>3. v \in Seq(Mark) /\ Len(v) = 2 /\ \A i \in 1 .. Len(v) : v[i] # c /\ v[i] # NUL
  BY <1>1, <1>2
<1>4. InTwo(s, q, a, c, v)
  BY <1>1, <1>2, <1>3, TwoPieces DEF Two
<1>5. s \in Seq(Mark) /\ s # <<>> /\ \A i \in 1 .. Len(s) : s[i] # NUL
  <2>1. <<a, c>> \in Seq(Mark) /\ Len(<<a, c>>) = 2 /\ <<a, c>>[1] = a /\ <<a, c>>[2] = c
    BY <1>2
  <2>2. /\ s \in Seq(Mark) /\ Len(s) = 4
        /\ \A i \in 1 .. 4 : s[i] = IF i <= 2 THEN <<a, c>>[i] ELSE v[i - 2]
    BY <1>1, <1>3, <2>1, ConcatProperties
  <2>3. \A i \in 1 .. 4 : s[i] # NUL
    BY <1>2, <1>3, <2>1, <2>2
  <2> QED
    BY <2>2, <2>3
<1>6. PICK b : b = Append(s, NUL)
  OBVIOUS
<1>7. b \in Seq(Mark) /\ Holds(b, 1, s)
  BY <1>5, <1>6, TextHolds
<1>8. PICK w : w = Split(b, 1, <<c>>)
  OBVIOUS
<1>9. CutAt(b, w, 1, s, q, c)
  <2>1. InOrder(q, PieceHeads(s, c))
    BY <1>4 DEF InTwo
  <2> QED
    BY <1>7, <1>8, <2>1, StringPieces
<1>10. w.buf \in Seq(Mark) /\ w.at \in Seq(Nat) /\ Len(w.at) = 2 /\ Holds(w.buf, w.at[2], v)
  <2>1. Len(q) = 2 /\ 2 \in 1 .. Len(q)
    BY <1>1
  <2>2. Piece(s, q, 2) = v
    BY <1>4 DEF InTwo
  <2> QED
    BY <1>9, <2>1, <2>2 DEF CutAt
<1>11. CStr(w.buf, w.at[2]) = v
  BY <1>10, StringIs
<1>12. Strings(s, <<c>>) = [i \in DOMAIN w.at |-> CStr(w.buf, w.at[i])]
  BY <1>5, <1>6, <1>8, Zenon DEF Strings, Pieces
<1>13. DOMAIN w.at = 1 .. 2
  BY <1>10
<1>14. Len(Strings(s, <<c>>)) = 2 /\ Strings(s, <<c>>)[2] = v
  BY <1>11, <1>12, <1>13
<1>15. BodyType(r) = s
  <2>1. BodyType(r) = <<Multipart>> \o <<"boundary=", "B", "C">>
    BY Zenon DEF BodyType
  <2>2. \A y : <<y>> \o <<"boundary=", "B", "C">> = <<y, "boundary=">> \o <<"B", "C">>
    OBVIOUS
  <2> QED
    BY <1>1, <2>1, <2>2
<1>16. PICK x : x = Strings(s, <<c>>)
  OBVIOUS
<1>17. Len(x) >= 2 /\ x[2] = v
  BY <1>14, <1>16
<1>18. Strings(BodyType(r), <<"boundary=">>) = x
  BY <1>1, <1>15, <1>16, Zenon
<1> QED
  BY <1>1, <1>17, <1>18, Zenon

(* What a body in parts ends with.                                         *)
Closing == <<"-", "-">> \o CRLF

(* A body in parts is something before this, and this.                     *)
LEMMA PartsClose ==
  ASSUME NEW r, Decent(r), r.parts # <<>>
  PROVE  \E s \in Seq(Script) : Body(r) = s \o Closing /\ Closing \in Seq(Script)
<1>1. PICK ps : ps = r.parts
  OBVIOUS
<1>2. ps \in Seq([name : STRING, file : STRING, data : Seq(STRING)])
  BY <1>1, Zenon DEF Decent
<1> DEFINE f == [i \in DOMAIN ps |-> Part(ps[i])]
<1>3. CRLF \in Seq(Script) /\ <<"-", "-">> \in Seq(Script) /\ Boundary \in Seq(Script) /\ Quote \in Script
  <2>1. CR \in Script /\ LF \in Script /\ Quote \in Script /\ "-" \in Script /\ "B" \in Script /\ "C" \in Script
    BY Zenon DEF Script
  <2> QED
    BY <2>1, Tuples DEF CRLF, Boundary
<1>4. ASSUME NEW p \in [name : STRING, file : STRING, data : Seq(STRING)] PROVE Part(p) \in Seq(Script)
  <2>1. \A a, b, c, d, e, g, h \in Script : <<a, b, c, d, e, g, h>> \in Seq(Script)
    OBVIOUS
  <2>2. \A a, b, c, d, e \in Script : <<a, b, c, d, e>> \in Seq(Script)
    OBVIOUS
  <2>3. p.name \in Script /\ p.file \in Script /\ p.data \in Seq(Script)
    <3>1. STRING \subseteq Script
      BY Zenon DEF Script
    <3>2. p.name \in STRING /\ p.file \in STRING /\ p.data \in Seq(STRING)
      OBVIOUS
    <3> QED
      BY <3>1, <3>2, SeqMonotonic
  <2>0. /\ " " \in Script /\ "Content-Disposition:" \in Script /\ "form-data;" \in Script
        /\ "name=QUOTE" \in Script /\ ";" \in Script /\ "filename=QUOTE" \in Script
    BY Zenon DEF Script
  <2>4. PICK u : u = <<"Content-Disposition:", " ", "form-data;", " ", "name=QUOTE", p.name, Quote>>
    BY Zenon
  <2>5. PICK w : w = IF p.file = "" THEN <<>> ELSE <<";", " ", "filename=QUOTE", p.file, Quote>>
    BY Zenon
  <2>6. u \in Seq(Script)
    BY <1>3, <2>0, <2>1, <2>3, <2>4, Zenon
  <2>7. w \in Seq(Script)
    <3>1. <<>> \in Seq(Script)
      BY EmptySeq
    <3>2. <<";", " ", "filename=QUOTE", p.file, Quote>> \in Seq(Script)
      BY <1>3, <2>0, <2>2, <2>3, Zenon
    <3> QED
      BY <2>5, <3>1, <3>2, Zenon
  <2>8. Part(p) = (((((((<<"-", "-">> \o Boundary) \o CRLF) \o u) \o w) \o CRLF) \o CRLF) \o p.data) \o CRLF
    BY <2>4, <2>5, Zenon DEF Part
  <2> QED
    BY <1>3, <2>3, <2>6, <2>7, <2>8, ConcatProperties
<1>5. FlattenSeq(f) \in Seq(Script)
  <2>1. Len(ps) \in Nat /\ DOMAIN ps = 1 .. Len(ps)
    BY <1>2, LenProperties
  <2>2. f \in [1 .. Len(ps) -> Seq(Script)]
    BY <1>2, <1>4, <2>1, ElementOfSeq
  <2> HIDE DEF f
  <2>3. f \in Seq(Seq(Script))
    BY <2>1, <2>2, FunctionIsSeq
  <2> QED
    BY <2>3, FlattenType
<1> HIDE DEF f
<1>6. PICK s : s = (FlattenSeq(f) \o <<"-", "-">>) \o Boundary
  OBVIOUS
<1>7. s \in Seq(Script)
  BY <1>3, <1>5, <1>6, ConcatProperties
<1>8. Body(r) = (s \o <<"-", "-">>) \o CRLF
  BY <1>1, <1>6, Zenon DEF Body, Parts, f
<1>9. (s \o <<"-", "-">>) \o CRLF = s \o Closing
  BY <1>3, <1>7, ConcatAssociative DEF Closing
<1>10. Closing \in Seq(Script)
  BY <1>3, ConcatProperties DEF Closing
<1> QED
  BY <1>7, <1>8, <1>9, <1>10

(* The memory then ends with the last boundary, whatever was cut before.   *)
LEMMA LastBoundary ==
  ASSUME NEW r, Decent(r), r.parts # <<>>, Header(r) \in Seq(Sign), NEW raw, raw = Bytes(r),
         NEW st, IsParser(st), st.cur = Len(Header(r)) + 1, Memory(st.buf, raw, st.cur)
  PROVE  Bounded(st) /\ st.cur \in 0 .. Len(st.buf)
<1>1. PICK s \in Seq(Script) : Body(r) = s \o Closing /\ Closing \in Seq(Script)
  BY PartsClose
<1>2. PICK S : S = Sign \cup Script
  OBVIOUS
<1>3. PICK u, v : u = Header(r) /\ v = Closing
  OBVIOUS
<1>4. u \in Seq(S) /\ s \in Seq(S) /\ v \in Seq(S)
  <2>1. Sign \subseteq S /\ Script \subseteq S
    BY <1>2
  <2> QED
    BY <1>1, <1>3, <2>1, SeqMonotonic
<1>5. Len(v) = 4 /\ v[2] = "-" /\ v[3] = CR /\ v[4] = LF
  <2>1. PICK d, e, T : d = <<"-", "-">> /\ e = CRLF /\ T = Sign \cup {"-"}
    OBVIOUS
  <2>2. d \in Seq(T) /\ e \in Seq(T) /\ Len(d) = 2 /\ Len(e) = 2 /\ d[2] = "-" /\ e[1] = CR /\ e[2] = LF
    <3>1. Sign \ {Length} \subseteq T /\ "-" \in T
      BY <2>1
    <3> QED
      BY <2>1, <3>1, CrlfType, SeqMonotonic
  <2>3. v = d \o e
    BY <1>3, <2>1 DEF Closing
  <2>4. /\ Len(v) = 2 + 2
        /\ \A i \in 1 .. 2 + 2 : v[i] = IF i <= 2 THEN d[i] ELSE e[i - 2]
    <3>1. /\ Len(d \o e) = Len(d) + Len(e)
          /\ \A i \in 1 .. Len(d) + Len(e) : (d \o e)[i] = IF i <= Len(d) THEN d[i] ELSE e[i - Len(d)]
      BY <2>2, ConcatProperties
    <3>2. Len(d) = 2 /\ Len(e) = 2
      BY <2>2
    <3> QED
      BY <2>3, <3>1, <3>2
  <2>5. Len(v) = 4 /\ v[2] = d[2] /\ v[3] = e[1] /\ v[4] = e[2]
    <3>1. 2 \in 1 .. 2 + 2 /\ 3 \in 1 .. 2 + 2 /\ 4 \in 1 .. 2 + 2 /\ 2 + 2 = 4 /\ 3 - 2 = 1 /\ 4 - 2 = 2
          /\ 2 <= 2 /\ ~(3 <= 2) /\ ~(4 <= 2)
      OBVIOUS
    <3> QED
      BY <2>4, <3>1
  <2> QED
    BY <2>2, <2>5
<1>6. PICK w : w = u \o s
  OBVIOUS
<1>7. raw = w \o v
  <2>1. raw = u \o (s \o v)
    BY <1>1, <1>3 DEF Bytes
  <2> QED
    BY <1>4, <1>6, <2>1, ConcatAssociative
<1>8. w \in Seq(S) /\ Len(w) = Len(u) + Len(s) /\ Len(u) \in Nat /\ Len(s) \in Nat
  BY <1>4, <1>6, ConcatProperties, LenProperties
<1>9. PICK n, m : n = Len(w) /\ m = Len(u)
  OBVIOUS
<1>10. n \in Nat /\ m \in Nat /\ m <= n
  BY <1>8, <1>9
<1>11. Len(raw) = n + 4 /\ \A i \in 1 .. n + 4 : raw[i] = IF i <= n THEN w[i] ELSE v[i - n]
  <2>1. /\ Len(w \o v) = Len(w) + Len(v)
        /\ \A i \in 1 .. Len(w) + Len(v) : (w \o v)[i] = IF i <= Len(w) THEN w[i] ELSE v[i - Len(w)]
    BY <1>4, <1>8, ConcatProperties
  <2>2. Len(w) + Len(v) = n + 4
    BY <1>5, <1>9
  <2> QED
    BY <1>7, <1>9, <2>1, <2>2
<1>12. raw[n + 2] = "-" /\ raw[n + 3] = CR /\ raw[n + 4] = LF
  <2>1. /\ n + 2 \in 1 .. n + 4 /\ ~(n + 2 <= n) /\ (n + 2) - n = 2
        /\ n + 3 \in 1 .. n + 4 /\ ~(n + 3 <= n) /\ (n + 3) - n = 3
        /\ n + 4 \in 1 .. n + 4 /\ ~(n + 4 <= n) /\ (n + 4) - n = 4
    BY <1>10
  <2>2. raw[n + 2] = v[2] /\ raw[n + 3] = v[3] /\ raw[n + 4] = v[4]
    BY <1>11, <2>1
  <2> QED
    BY <1>5, <2>2
<1>13. PICK buf : buf = st.buf
  OBVIOUS
<1>14. /\ buf \in Seq(Mark) /\ Len(buf) = n + 5 /\ buf[n + 5] = NUL
       /\ \A i \in m + 1 .. n + 4 : buf[i] = raw[i]
  BY <1>3, <1>9, <1>10, <1>11, <1>13 DEF Memory
<1>15. buf[n + 2] # "C" /\ buf[n + 3] # "C" /\ buf[n + 4] # "C" /\ buf[n + 5] # "C"
  <2>1. n + 2 \in m + 1 .. n + 4 /\ n + 3 \in m + 1 .. n + 4 /\ n + 4 \in m + 1 .. n + 4
    BY <1>10
  <2>2. buf[n + 2] = "-" /\ buf[n + 3] = CR /\ buf[n + 4] = LF /\ buf[n + 5] = NUL
    BY <1>12, <1>14, <2>1
  <2> QED
    BY <2>2 DEF CR, LF, NUL
<1>16. \A i \in Len(buf) - 3 .. Len(buf) : buf[i] # "C"
  <2>1. \A i \in Len(buf) - 3 .. Len(buf) : i \in {n + 2, n + 3, n + 4, n + 5}
    BY <1>10, <1>14
  <2> QED
    BY <1>15, <2>1
<1>17. buf # <<>> /\ buf[Len(buf)] = NUL
  BY <1>10, <1>14
<1>18. m + 1 \in 0 .. n + 5
  BY <1>10
<1> QED
  BY <1>3, <1>9, <1>13, <1>14, <1>16, <1>17, <1>18 DEF Bounded, Terminating

-----------------------------------------------------------------------------
(* The body changes nothing of what was read before.                       *)
Answered == {"ok", "URL", "Host", "Upgrade"}

(* ReadBody leaves these as they are, and everything if it is a GET.       *)
LEMMA ReadBodyKeeps ==
  ASSUME NEW r, Proper(r), Decent(r), NEW raw \in Seq(Sign), NEW st, HeaderDone(raw, r, st),
         r.post /\ r.parts # <<>> => raw = Bytes(r), NEW new, new = ReadBody(st)
  PROVE  /\ \A k \in Answered : new[k] = st[k]
         /\ ~r.post => new = st
         /\ DOMAIN new = Members
<1>1. /\ IsParser(st) /\ st.ok /\ st.content /\ Memory(st.buf, raw, st.cur) /\ st.cur = Len(Header(r)) + 1
      /\ Says(st, r, HostOf(r), r.key # "", BodyType(r)) /\ Header(r) \in Seq(Sign)
  BY DEF HeaderDone
<1>2. st \in [Members -> { st[k] : k \in Members }]
  BY <1>1 DEF IsParser
<1>3. st.POST = r.post /\ st.ContentType = BodyType(r) /\ st.PostPrm = <<>> /\ st.FilePrm = <<>>
  BY <1>1 DEF Says
<1>4. CASE ~r.post
  <2>1. new = st
    BY <1>3, <1>4, Zenon DEF ReadBody
  <2> QED
    BY <1>2, <2>1
<1>5. CASE r.post
  <2>1. new = Content(st)
    BY <1>1, <1>3, <1>5, Zenon DEF ReadBody
  <2>2. PICK b : b = Strings(st.ContentType, <<"boundary=">>)
    OBVIOUS
  <2>3. CASE r.parts = <<>>
    <3>1. st.ContentType = <<>>
      BY <1>3, <2>3, Zenon DEF BodyType
    <3>2. b = <<>>
      BY <2>2, <3>1, Zenon DEF Strings
    <3>3. Len(b) < 2
      BY <3>2
    <3>4. PICK post : post = Params(st.buf, st.cur, <<"&">>)
      OBVIOUS
    <3>5. new = Form(st, post)
      BY <2>1, <2>2, <3>3, <3>4, Zenon DEF Content
    <3>6. new = [st EXCEPT !.buf = post.buf, !.PostPrm = @ \o NonEmpty(post)]
      BY <3>5 DEF Form
    <3> QED
      BY <1>2, <1>5, <3>6 DEF Answered, Members
  <2>4. CASE r.parts # <<>>
    <3>1. Len(b) >= 2 /\ b[2] = <<"B", "C">>
      BY <1>3, <2>2, <2>4, BoundaryNamed
    <3>2. ~(Len(b) < 2)
      BY <3>1
    <3>3. PICK bound : bound = <<"-", "-">> \o b[2]
      OBVIOUS
    <3>4. new = ReadParts(st, st.cur, bound)
      BY <2>1, <2>2, <3>2, <3>3, Zenon DEF Content
    <3>5. bound \in Seq(Script) /\ Len(bound) = 4 /\ bound[4] = "C"
      <4>1. PICK d, e, f, D : d = "-" /\ e = "B" /\ f = "C" /\ D = Script
        OBVIOUS
      <4>2. d \in D /\ e \in D /\ f \in D
        BY <4>1, Zenon DEF Script
      <4>3. PICK s, t : s = <<d, d>> /\ t = <<e, f>>
        OBVIOUS
      <4>4. s \in Seq(D) /\ t \in Seq(D) /\ Len(s) = 2 /\ Len(t) = 2 /\ t[2] = f
        BY <4>2, <4>3
      <4>5. bound = s \o t
        BY <3>1, <3>3, <4>1, <4>3, Zenon
      <4>6. /\ s \o t \in Seq(D) /\ Len(s \o t) = Len(s) + Len(t)
            /\ \A i \in 1 .. Len(s) + Len(t) : (s \o t)[i] = IF i <= Len(s) THEN s[i] ELSE t[i - Len(s)]
        BY <4>4, ConcatProperties
      <4>7. 4 \in 1 .. Len(s) + Len(t) /\ ~(4 <= Len(s)) /\ 4 - Len(s) = 2 /\ Len(s) + Len(t) = 4
        BY <4>4
      <4>8. bound \in Seq(D) /\ Len(bound) = 4 /\ bound[4] = f
        BY <4>4, <4>5, <4>6, <4>7
      <4> QED
        BY <4>1, <4>8, Zenon
    <3>6. Bounded(st) /\ st.cur \in 0 .. Len(st.buf)
      BY <1>1, <1>5, <2>4, LastBoundary
    <3>7. new \in Parting(st)
      BY <1>1, <1>3, <3>4, <3>5, <3>6, PartsRead
    <3> QED
      BY <1>5, <3>7 DEF Parting, Answered, Members
  <2> QED
    BY <2>3, <2>4
<1> QED
  BY <1>4, <1>5

(* What the server has understood of a request when it acts on it.         *)
Understood(r, h) ==
  /\ h.ok = (HostOf(r) # <<>>) /\ h.URL = r.url /\ h.Host = HostOf(r) /\ h.Upgrade = (r.key # "")
  /\ r.key # "" => h.Key # 0 /\ CStr(h.buf, h.Key) = <<r.key>>

(* ParseHeader understands what the client meant, when it gets all of the  *)
(* header, and all of a body in parts: the path, the host without its port *)
(* and the key are what the client wrote, and the request fails only for   *)
(* want of a host.                                                         *)
THEOREM RequestRead ==
  ASSUME NEW r, Proper(r), Decent(r), NEW raw \in Seq(Sign), Opens(raw, Header(r)),
         r.post /\ r.parts # <<>> => raw = Bytes(r)
  PROVE  Understood(r, ParseHeader(raw))
<1>1. PICK st : st = ReadHeader(raw)
  OBVIOUS
<1>2. PICK new : new = ReadBody(st)
  OBVIOUS
<1>3. PICK h : h = Complete(new)
  OBVIOUS
<1>4. ParseHeader(raw) = h
  BY <1>1, <1>2, <1>3, Zenon DEF ParseHeader
<1>5. HeaderDone(raw, r, st)
  BY <1>1, HeaderRead
<1>6. /\ \A k \in Answered : new[k] = st[k]
      /\ ~r.post => new = st
      /\ DOMAIN new = Members
  BY <1>2, <1>5, ReadBodyKeeps
<1>7. /\ DOMAIN h = Members /\ h.ok = (new.ok /\ new.URL # <<>> /\ new.Host # <<>>)
      /\ \A k \in Members \ {"ok"} : h[k] = new[k]
  BY <1>3, <1>6 DEF Complete, Members
<1>8. st.ok /\ Says(st, r, HostOf(r), r.key # "", BodyType(r))
  BY <1>5, Zenon DEF HeaderDone
<1>9. new.ok = st.ok /\ new.URL = st.URL /\ new.Host = st.Host /\ new.Upgrade = st.Upgrade
  BY <1>6 DEF Answered
<1>10. r.url # <<>>
  BY DecentFields
<1>11. h.URL = r.url /\ h.Host = HostOf(r) /\ h.Upgrade = (r.key # "")
  <2>1. st.URL = r.url /\ st.Host = HostOf(r) /\ st.Upgrade = (r.key # "")
    BY <1>8, Zenon DEF Says
  <2>2. h.URL = new.URL /\ h.Host = new.Host /\ h.Upgrade = new.Upgrade
    BY <1>7 DEF Members
  <2> QED
    BY <1>9, <2>1, <2>2, Zenon
<1>12. h.ok = (HostOf(r) # <<>>)
  BY <1>7, <1>8, <1>9, <1>10 DEF Says
<1>13. ASSUME r.key # "" PROVE h.Key # 0 /\ CStr(h.buf, h.Key) = <<r.key>>
  <2>1. ~r.post
    BY <1>13, Zenon DEF Decent
  <2>2. h.Key = st.Key /\ h.buf = st.buf
    BY <1>6, <1>7, <2>1 DEF Members
  <2>3. KeyIn(st, r) /\ IsParser(st)
    BY <1>5, <1>13, Zenon DEF HeaderDone
  <2>4. st.buf \in Seq(Mark) /\ Holds(st.buf, st.Key, <<r.key>>) /\ st.Key # 0
    BY <2>3 DEF KeyIn, IsParser
  <2>5. CStr(st.buf, st.Key) = <<r.key>>
    BY <2>4, StringIs
  <2> QED
    BY <2>2, <2>4, <2>5
<1> QED
  BY <1>4, <1>11, <1>12, <1>13, Zenon DEF Understood

(* Pages answer it when it is all there.                                   *)
LEMMA ActedOn ==
  ASSUME LengthsFit, \A x \in All : Decent(x), FInv, FInv', OnConnect, verdict' = "request"
  PROVE  /\ Understood(req, ParseHeader(SubSeq(Text[req], 1, sent)))
         /\ req \in All /\ req' = req
<1>1. req \in All /\ req' = req /\ size' = sent /\ sent' = sent /\ sent > size
  BY DEF OnConnect, FInv
<1>2. PICK r : r = req
  OBVIOUS
<1>3. PICK t, n, k : t = Text[r] /\ n = HeaderLen[r] /\ k = sent
  OBVIOUS
<1>4. Proper(r) /\ Decent(r)
  BY <1>1, <1>2, FramingAssumption DEF All
<1>5. t \in Seq(Sign) /\ n <= Len(t) /\ n \in Nat /\ Len(t) \in Nat /\ Declared(r) \in Nat
      /\ BodyLen(r) = Len(t) - n
  BY <1>1, <1>2, <1>3, TextShape, Sizes
<1>6. k \in 1 .. Len(t) /\ (MaxFragments(r) = 1 => k = Len(t))
  <2>1. sent \in 0 .. Len(Text[req]) /\ size \in 0 .. sent /\ (MaxFragments(req) = 1 => sent \in {0, Len(Text[req])})
    BY DEF FInv
  <2> QED
    BY <1>1, <1>2, <1>3, <1>5, <2>1
<1>7. k - n >= Declared(r)
  <2>1. BodyComplete'
    BY DEF FInv
  <2>2. size' - HeaderLen[req'] >= Declared(req')
    BY <2>1 DEF BodyComplete
  <2> QED
    BY <1>1, <1>2, <1>3, <2>2
<1>8. n <= k
  BY <1>5, <1>6, <1>7
<1>9. PICK raw : raw = SubSeq(t, 1, k)
  OBVIOUS
<1>10. raw \in Seq(Sign) /\ Len(raw) = k /\ \A i \in 1 .. k : raw[i] = t[i]
  BY <1>5, <1>6, <1>9
<1>11. t = Bytes(r) /\ n = Len(Header(r))
  BY <1>1, <1>2, <1>3 DEF Text, HeaderLen
<1>12. Header(r) \in Seq(Sign) /\ Body(r) \in Seq(STRING \ {Length})
  <2>1. PICK a, b, c, d, e, f, g \in Seq(Sign) :
           /\ HeaderParts(r, a, b, c, d, e, f, g) /\ a # <<>>
           /\ Header(r) = ((((((a \o b) \o c) \o d) \o e) \o f) \o g) \o CRLF
    BY <1>4, HeaderInParts
  <2>2. CRLF \in Seq(Sign)
    BY CrlfType, SeqMonotonic
  <2> QED
    BY <1>4, <2>1, <2>2, ConcatProperties DEF Proper
<1>13. Opens(raw, Header(r))
  <2>1. PICK u, v, S : u = Header(r) /\ v = Body(r) /\ S = Sign \cup STRING
    OBVIOUS
  <2>2. u \in Seq(S) /\ v \in Seq(S)
    <3>1. Sign \subseteq S /\ STRING \ {Length} \subseteq S
      BY <2>1
    <3> QED
      BY <1>12, <2>1, <3>1, SeqMonotonic
  <2>3. /\ Len(u \o v) = Len(u) + Len(v)
        /\ \A i \in 1 .. Len(u) + Len(v) : (u \o v)[i] = IF i <= Len(u) THEN u[i] ELSE v[i - Len(u)]
    BY <2>2, ConcatProperties
  <2>4. t = u \o v /\ n = Len(u) /\ Len(v) \in Nat
    BY <1>11, <2>1, <2>2, LenProperties DEF Bytes
  <2>5. \A i \in 1 .. n : t[i] = u[i]
    BY <1>5, <2>3, <2>4
  <2>6. \A i \in 1 .. n : raw[i] = u[i]
    BY <1>5, <1>6, <1>8, <1>10, <2>5
  <2> QED
    BY <1>8, <1>10, <1>12, <2>1, <2>4, <2>6 DEF Opens
<1>14. ASSUME r.post, r.parts # <<>> PROVE raw = Bytes(r)
  <2>1. MaxFragments(r) = 1 \/ Declared(r) >= BodyLen(r)
    BY <1>4, <1>14, Zenon DEF Decent
  <2>2. k = Len(t)
    BY <1>5, <1>6, <1>7, <2>1
  <2> QED
    BY <1>5, <1>9, <1>11, <2>2
<1>15. Understood(r, ParseHeader(raw))
  BY <1>4, <1>10, <1>13, <1>14, RequestRead
<1> QED
  BY <1>1, <1>2, <1>3, <1>9, <1>15

-----------------------------------------------------------------------------
(* The framing keeps its invariant in a session, too.                      *)
LEMMA SessionKeepsFraming == ASSUME LengthsFit, FInv, [SessionNext]_allVars PROVE FInv'
<1>1. [Next]_vars
  <2>1. CASE Client
    BY <2>1, Zenon DEF Client, Next
  <2>2. CASE Request
    BY <2>2, Zenon DEF Request, Next
  <2>3. CASE SendFrame
    BY <2>3, Zenon DEF SendFrame
  <2>4. CASE ArriveFrame
    BY <2>4, Zenon DEF ArriveFrame
  <2>5. CASE FrameArrived
    BY <2>5, Zenon DEF FrameArrived
  <2>6. CASE UNCHANGED allVars
    BY <2>6, Zenon DEF allVars
  <2> QED
    BY <2>1, <2>2, <2>3, <2>4, <2>5, <2>6, Zenon DEF SessionNext
<1> QED
  BY <1>1, FramingStep

(* What a step does to the answers: a request is read and answered, or     *)
(* nothing is said, or nothing changes.                                    *)
LEMMA AnswersGiven ==
  ASSUME FInv, [SessionNext]_allVars
  PROVE  \/ /\ Request /\ OnConnect /\ verdict' = "request"
            /\ Process(ParseHeader(SubSeq(Text[req], 1, sent)))
         \/ answers' = <<>> /\ verdict' # "request"
         \/ UNCHANGED <<req, answers, ConnectedTo>> /\ (verdict' = "request" => verdict = "request")
<1>1. CASE Client
  <2>1. CASE Arrive /\ UNCHANGED pageVars
    BY <1>1, <2>1, Zenon DEF Client, Arrive, pageVars, connVars
  <2>2. CASE NextRequest /\ answers' = <<>> /\ seen' = <<>>
    BY <2>2, Zenon DEF NextRequest
  <2> QED
    BY <1>1, <2>1, <2>2, Zenon DEF Client
<1>2. CASE Request
  <2>1. CASE verdict' = "request"
    BY <1>2, <2>1, Zenon DEF Request
  <2>2. CASE verdict' # "request"
    BY <1>2, <2>2, Zenon DEF Request, Respond
  <2> QED
    BY <2>1, <2>2
<1>3. CASE SendFrame
  BY <1>3, Zenon DEF SendFrame, vars, connVars, pageVars
<1>4. CASE ArriveFrame
  BY <1>4, Zenon DEF ArriveFrame, vars, connVars, pageVars
<1>5. CASE FrameArrived
  BY <1>5, Zenon DEF FrameArrived, vars, connVars, pageVars
<1>6. CASE UNCHANGED allVars
  BY <1>6, Zenon DEF allVars, vars, connVars, pageVars
<1> QED
  BY <1>1, <1>2, <1>3, <1>4, <1>5, <1>6, Zenon DEF SessionNext

(* What the server sends itself is one answer, or none.                    *)
LEMMA ResultSent ==
  ASSUME NEW status, NEW from
  PROVE  /\ SendResult(TRUE, status, from) = <<Answer(status, from, "text/html", FALSE)>>
         /\ SendResult(FALSE, status, from) = <<>>
BY Zenon DEF SendResult

(* A bad request has one answer.                                           *)
LEMMA BadRequestSent ==
  ASSUME NEW site PROVE \E a : SendBadRequest(site) = <<a>> /\ a.status = "400"
<1>1. PICK from : from = IF site # 0 /\ Sites[site].Get400 THEN "page" ELSE "server"
  OBVIOUS
<1>2. PICK a : a = Answer("400", from, "text/html", FALSE)
  OBVIOUS
<1>3. SendBadRequest(site) = <<a>>
  BY <1>1, <1>2, ResultSent, Zenon DEF SendBadRequest
<1>4. a.status = "400"
  BY <1>2 DEF Answer
<1> QED
  BY <1>3, <1>4

(* Nothing behind an answer is no other answer.                            *)
LEMMA AndNothing == ASSUME NEW a PROVE <<a>> \o <<>> = <<a>>
<1>1. <<a>> \in Seq({a})
  OBVIOUS
<1> QED
  BY <1>1, ConcatEmptySeq

(* The answers there are, and when each of them is given: no site is site  *)
(* 0, and no page is page 0.                                               *)
Upgrades(r) == r.key # ""

Accepted(r) == Base64Encode(SHA1(<<r.key, GUID>>))

Given(r, a, site, page, to) ==
  \/ a.status = "400" /\ (Malformed(r) \/ Upgrades(r) \/ (page = 0 /\ Dots(r.url)))
  \/ a.status = "403" /\ to # 0 /\ to # site
  \/ a.status = "404" /\ (site = 0 \/ (page = 0 /\ ProcessFile(site, r.url) = <<>>))
  \/ a.status = "101" /\ Upgrades(r) /\ site # 0 /\ page # 0 /\ a.accept = Accepted(r)
  \/ a.status = "200" /\ a.from = "file" /\ site # 0 /\ page = 0 /\ ProcessFile(site, r.url) = <<a>>
  \/ a.status = "200" /\ a.from = "page" /\ site # 0 /\ page # 0 /\ ~Malformed(r)

(* Each answer in turn, as Process comes to it.                            *)
LEMMA FilesGiven ==
  ASSUME NEW r, NEW site, site # 0, NEW page, page = 0, NEW h, h.URL = r.url, Otherwise(h, site), NEW to
  PROVE  \E a : answers' = <<a>> /\ Given(r, a, site, page, to)
<1>1. CASE Dots(r.url)
  <2>1. answers' = SendBadRequest(site) \o <<>>
    BY <1>1, ResultSent, Zenon DEF Otherwise, Respond
  <2>2. PICK a : SendBadRequest(site) = <<a>> /\ a.status = "400"
    BY BadRequestSent
  <2>3. answers' = <<a>>
    BY <2>1, <2>2, AndNothing
  <2> QED
    BY <1>1, <2>2, <2>3, Zenon DEF Given
<1>2. CASE ~Dots(r.url) /\ ProcessFile(site, r.url) = <<>>
  <2>1. answers' = SendResult(TRUE, "404", "server")
    BY <1>2, Zenon DEF Otherwise, Respond
  <2>2. PICK a : a = Answer("404", "server", "text/html", FALSE)
    OBVIOUS
  <2>3. answers' = <<a>> /\ a.status = "404"
    <3>1. a.status = "404"
      BY <2>2 DEF Answer
    <3> QED
      BY <2>1, <2>2, <3>1, ResultSent, Zenon
  <2> QED
    BY <1>2, <2>3, Zenon DEF Given
<1>3. CASE ~Dots(r.url) /\ ProcessFile(site, r.url) # <<>>
  <2>1. answers' = ProcessFile(site, r.url)
    BY <1>3, Zenon DEF Otherwise, Respond
  <2>2. PICK a : a = Answer("200", "file", MediaType(r.url), Cached(site, r.url))
    OBVIOUS
  <2>3. ProcessFile(site, r.url) = <<a>>
    BY <1>3, <2>2, Zenon DEF ProcessFile
  <2>4. a.status = "200" /\ a.from = "file"
    BY <2>2 DEF Answer
  <2> QED
    BY <2>1, <2>3, <2>4, Zenon DEF Given
<1> QED
  BY <1>1, <1>2, <1>3, Zenon

(* Two tuples of one, joined.                                              *)
LEMMA JoinOne == ASSUME NEW a, NEW b PROVE <<a>> \o <<b>> = <<a, b>>
<1>1. PICK S, u, v, w : S = {a, b} /\ u = <<a>> /\ v = <<b>> /\ w = <<a, b>>
  OBVIOUS
<1>2. u \in Seq(S) /\ v \in Seq(S) /\ w \in Seq(S) /\ Len(u) = 1 /\ Len(v) = 1 /\ Len(w) = 2
      /\ u[1] = a /\ v[1] = b /\ w[1] = a /\ w[2] = b
  BY <1>1
<1>3. /\ u \o v \in Seq(S) /\ Len(u \o v) = Len(u) + Len(v)
      /\ \A i \in 1 .. Len(u) + Len(v) : (u \o v)[i] = IF i <= Len(u) THEN u[i] ELSE v[i - Len(u)]
  BY <1>2, ConcatProperties
<1>4. Len(u \o v) = 2 /\ (u \o v)[1] = a /\ (u \o v)[2] = b
  BY <1>2, <1>3
<1>5. u \o v = w
  BY <1>2, <1>3, <1>4, SeqEqual
<1> QED
  BY <1>1, <1>5

(* The answer to an upgrade.                                               *)
LEMMA SwitchGiven ==
  ASSUME NEW r, Upgrades(r), NEW site, site # 0, NEW page, page # 0, NEW h, Understood(r, h),
         SwitchToWebSocket(h, page), NEW to
  PROVE  \E a : answers' = <<a>> /\ Given(r, a, site, page, to)
<1>1. CStr(h.buf, h.Key) = <<r.key>>
  BY Zenon DEF Upgrades, Understood
<1>2. PICK x : x = Base64Encode(SHA1(CStr(h.buf, h.Key) \o <<GUID>>))
  OBVIOUS
<1>3. x = Accepted(r)
  BY <1>1, <1>2, JoinOne, Zenon DEF Accepted
<1>4. PICK a : a = [status |-> "101", accept |-> x]
  OBVIOUS
<1>5. answers' = <<a>>
  BY <1>2, <1>4, Zenon DEF SwitchToWebSocket
<1>6. a.status = "101" /\ a.accept = x
  BY <1>4
<1> QED
  BY <1>3, <1>5, <1>6, Zenon DEF Given

(* A request is given one answer, of these.                                *)
LEMMA OneGiven ==
  ASSUME NEW r, NEW h, Understood(r, h), Process(h), NEW site, site = FindSite(HostOf(r)),
         NEW page, page = FindPage(site, r.url)
  PROVE  \E a : answers' = <<a>> /\ Given(r, a, site, page, ConnectedTo')
<1>1. /\ h.ok <=> HostOf(r) # <<>>
      /\ h.URL = r.url /\ h.Host = HostOf(r) /\ (h.Upgrade <=> Upgrades(r))
      /\ Upgrades(r) => h.Key # 0
  BY Zenon DEF Understood, Upgrades
<1>2. /\ site = FindSite(h.Host) /\ page = FindPage(site, h.URL)
      /\ Malformed(r) <=> (~h.ok \/ Len(h.URL) >= MAX_URL)
  BY <1>1, Zenon DEF Malformed
<1>3. CASE Malformed(r)
  <2>1. answers' = SendBadRequest(ConnectedTo)
    BY <1>2, <1>3, Zenon DEF Process, Respond
  <2>2. PICK a : SendBadRequest(ConnectedTo) = <<a>> /\ a.status = "400"
    BY BadRequestSent
  <2> QED
    BY <1>3, <2>1, <2>2, Zenon DEF Given
<1>4. CASE ~Malformed(r) /\ ConnectedTo # 0 /\ ConnectedTo # site
  <2>1. answers' = SendResult(TRUE, "403", "server") /\ ConnectedTo' = ConnectedTo
    BY <1>2, <1>4, Zenon DEF Process, Respond
  <2>2. PICK a : a = Answer("403", "server", "text/html", FALSE)
    OBVIOUS
  <2>3. answers' = <<a>> /\ a.status = "403"
    <3>1. a.status = "403"
      BY <2>2 DEF Answer
    <3> QED
      BY <2>1, <2>2, <3>1, ResultSent, Zenon
  <2> QED
    BY <1>4, <2>1, <2>3, Zenon DEF Given
<1>5. CASE ~Malformed(r) /\ ~(ConnectedTo # 0 /\ ConnectedTo # site)
  <2>1. IF site = 0 THEN Respond(SendResult(TRUE, "404", "server"), TRUE)
        ELSE IF ~h.Upgrade THEN IF page # 0 THEN OnRequest(h) ELSE Otherwise(h, site)
        ELSE IF "WEBSOCKET" \in Sites[site].Protocols /\ h.Key # 0 /\ page # 0
        THEN SwitchToWebSocket(h, page) ELSE Respond(SendBadRequest(site), FALSE)
    BY <1>2, <1>5, Zenon DEF Process
  <2>2. CASE site = 0
    <3>1. answers' = SendResult(TRUE, "404", "server")
      BY <2>1, <2>2, Zenon DEF Respond
    <3>2. PICK a : a = Answer("404", "server", "text/html", FALSE)
      OBVIOUS
    <3>3. answers' = <<a>> /\ a.status = "404"
      <4>1. a.status = "404"
        BY <3>2 DEF Answer
      <4> QED
        BY <3>1, <3>2, <4>1, ResultSent, Zenon
    <3> QED
      BY <2>2, <3>3, Zenon DEF Given
  <2>3. CASE site # 0 /\ ~h.Upgrade /\ page # 0
    <3>1. answers' = SendResult(TRUE, "200", "page")
      BY <2>1, <2>3, Zenon DEF OnRequest
    <3>2. PICK a : a = Answer("200", "page", "text/html", FALSE)
      OBVIOUS
    <3>3. answers' = <<a>> /\ a.status = "200" /\ a.from = "page"
      <4>1. a.status = "200" /\ a.from = "page"
        BY <3>2 DEF Answer
      <4> QED
        BY <3>1, <3>2, <4>1, ResultSent, Zenon
    <3> QED
      BY <1>5, <2>3, <3>3, Zenon DEF Given
  <2>4. CASE site # 0 /\ ~h.Upgrade /\ page = 0
    <3>1. Otherwise(h, site)
      BY <2>1, <2>4, Zenon
    <3> QED
      BY <1>1, <2>4, <3>1, FilesGiven
  <2>5. CASE site # 0 /\ h.Upgrade /\ "WEBSOCKET" \in Sites[site].Protocols /\ page # 0
    <3>1. SwitchToWebSocket(h, page)
      BY <1>1, <2>1, <2>5, Zenon
    <3> QED
      BY <1>1, <2>5, <3>1, SwitchGiven, Zenon
  <2>6. CASE site # 0 /\ h.Upgrade /\ ~("WEBSOCKET" \in Sites[site].Protocols /\ page # 0)
    <3>1. answers' = SendBadRequest(site)
      BY <2>1, <2>6, Zenon DEF Respond
    <3>2. PICK a : SendBadRequest(site) = <<a>> /\ a.status = "400"
      BY BadRequestSent
    <3> QED
      BY <1>1, <2>6, <3>1, <3>2, Zenon DEF Given
  <2> QED
    BY <2>2, <2>3, <2>4, <2>5, <2>6, Zenon
<1> QED
  BY <1>3, <1>4, <1>5, Zenon

-----------------------------------------------------------------------------
(* Base64 loses nothing of the hash of a key, or of what it begins with.   *)
LEMMA HashSurvives ==
  ASSUME NEW r \in All, NEW hash, hash = SHA1(<<r.key, GUID>>)
  PROVE  /\ Base64Decode(Accepted(r)) = hash
         /\ \A n \in 0 .. Len(hash) : Base64Decode(Base64Encode(SubSeq(hash, 1, n))) = SubSeq(hash, 1, n)
<1>1. hash \in Seq(Byte)
  BY HashAssumption
<1>2. Base64Decode(Accepted(r)) = hash
  BY <1>1, Base64RoundTrip, Zenon DEF Accepted
<1>3. ASSUME NEW n \in 0 .. Len(hash)
      PROVE  Base64Decode(Base64Encode(SubSeq(hash, 1, n))) = SubSeq(hash, 1, n)
  <2>1. SubSeq(hash, 1, n) \in Seq(Byte)
    BY <1>1
  <2> QED
    BY <2>1, Base64RoundTrip, Zenon
<1> QED
  BY <1>2, <1>3

(* A tuple of one.                                                         *)
LEMMA OneIs == ASSUME NEW a PROVE Len(<<a>>) = 1 /\ <<a>>[1] = a /\ DOMAIN <<a>> = {1}
OBVIOUS

(* An answer to an upgrade holds what it should.                           *)
LEMMA HandshakeGiven ==
  ASSUME NEW r, NEW a, NEW site, NEW page, NEW to, Given(r, a, site, page, to), a.status = "101"
  PROVE  a.accept = Accepted(r)
BY DEF Given

(* Every step keeps what was sent for a key readable.                      *)
LEMMA HandshakeKept ==
  ASSUME LengthsFit, \A x \in All : Decent(x), FInv, FInv', [SessionNext]_allVars, HandshakeRead
  PROVE  HandshakeRead'
<1>1. CASE /\ Request /\ OnConnect /\ verdict' = "request"
           /\ Process(ParseHeader(SubSeq(Text[req], 1, sent)))
  <2>1. PICK h : h = ParseHeader(SubSeq(Text[req], 1, sent))
    OBVIOUS
  <2>2. Understood(req, h) /\ req \in All /\ req' = req
    BY <1>1, <2>1, ActedOn
  <2>3. PICK a : answers' = <<a>> /\ Given(req, a, FindSite(HostOf(req)),
                                          FindPage(FindSite(HostOf(req)), req.url), ConnectedTo')
    BY <1>1, <2>1, <2>2, OneGiven
  <2>4. a.status = "101" => a.accept = Accepted(req)
    BY <2>3, HandshakeGiven
  <2>5. PICK hash : hash = SHA1(<<req.key, GUID>>)
    OBVIOUS
  <2>6. /\ Base64Decode(Accepted(req)) = hash
        /\ \A n \in 0 .. Len(hash) : Base64Decode(Base64Encode(SubSeq(hash, 1, n))) = SubSeq(hash, 1, n)
    BY <2>2, <2>5, HashSurvives
  <2>7. \A i \in DOMAIN answers' : answers'[i] = a
    BY <2>3, OneIs
  <2> QED
    BY <2>2, <2>4, <2>5, <2>6, <2>7, Zenon DEF HandshakeRead
<1>2. CASE answers' = <<>>
  <2>1. DOMAIN <<>> = {}
    OBVIOUS
  <2> QED
    BY <1>2, <2>1 DEF HandshakeRead
<1>3. CASE UNCHANGED <<req, answers, ConnectedTo>>
  BY <1>3, Zenon DEF HandshakeRead
<1> QED
  BY <1>1, <1>2, <1>3, AnswersGiven, Zenon

(* A browser that sends the key of an upgrade can always check the answer: *)
(* what ParseHeader takes for the key is, however the request is cut and   *)
(* whatever else its header says, the key; and Base64 loses nothing of the *)
(* hash, whatever SHA1 makes of it.                                        *)
THEOREM SessionHandshakeRead ==
  ASSUME LengthsFit, \A r \in All : Decent(r) PROVE SessionSpec => []HandshakeRead
<1>1. SessionInit => FInv /\ HandshakeRead
  <2>1. SessionInit => FInv
    BY FramingInit, Zenon DEF SessionInit
  <2>2. SessionInit => HandshakeRead
    <3>1. DOMAIN <<>> = {}
      OBVIOUS
    <3> QED
      BY <3>1 DEF SessionInit, HandshakeRead
  <2> QED
    BY <2>1, <2>2
<1>2. FInv /\ [SessionNext]_allVars => FInv'
  BY SessionKeepsFraming
<1>3. FInv /\ FInv' /\ HandshakeRead /\ [SessionNext]_allVars => HandshakeRead'
  BY HandshakeKept
<1> QED
  BY <1>1, <1>2, <1>3, PTL DEF SessionSpec

-----------------------------------------------------------------------------
(* The site found is the one that serves the request, if any does.         *)
LEMMA SiteFound ==
  ASSUME NEW r, NEW site, site = FindSite(HostOf(r))
  PROVE  /\ site = 0 => Serving(r) = {}
         /\ site # 0 => site \in DOMAIN Sites /\ Serving(r) = {site}
<1> DEFINE I == { i \in 1 .. Len(Sites) : HostOf(r) \in Sites[i].Domains }
<1>1. site = IF I # {} THEN Min(I) ELSE 0
  BY Zenon DEF FindSite, SelectInSeq
<1>2. DOMAIN Sites = 1 .. Len(Sites) /\ Len(Sites) \in Nat
  BY RoutingAssumption, LenProperties
<1>3. Serving(r) = { s \in I : \A t \in 1 .. s - 1 : t \notin I }
  <2>1. \A s \in 1 .. Len(Sites) : \A t \in 1 .. s - 1 : t \in 1 .. Len(Sites)
    BY <1>2
  <2> QED
    BY <1>2, <2>1 DEF Serving
<1>4. CASE I = {}
  BY <1>1, <1>3, <1>4
<1>5. CASE I # {}
  <2>1. I \in SUBSET Nat
    BY <1>2
  <2>2. I \subseteq 1 .. Len(Sites)
    OBVIOUS
  <2> HIDE DEF I
  <2>3. site \in I /\ \A i \in I : site <= i
    BY <1>1, <1>5, <2>1, MinOf
  <2>4. site \in 1 .. Len(Sites) /\ site # 0
    BY <2>2, <2>3
  <2>5. \A t \in 1 .. site - 1 : t \notin I
    BY <1>2, <2>3, <2>4
  <2>6. \A s \in I : (\A t \in 1 .. s - 1 : t \notin I) => s = site
    <3> TAKE s \in I
    <3>1. s \in Nat /\ site \in Nat /\ site <= s
      BY <2>1, <2>3
    <3>2. s # site => site \in 1 .. s - 1
      BY <2>4, <3>1
    <3> QED
      BY <2>3, <3>2
  <2> QED
    BY <1>2, <1>3, <2>3, <2>4, <2>5, <2>6
<1> QED
  BY <1>4, <1>5

(* Its page is found exactly if one covers the URL.                        *)
LEMMA PageFound ==
  ASSUME NEW r, r.url \in Seq(STRING), NEW site \in DOMAIN Sites, Serving(r) = {site},
         NEW page, page = FindPage(site, r.url)
  PROVE  Covered(r) <=> page # 0
<1> DEFINE I == { i \in 1 .. Len(Sites[site].Pages) : CheckURL(Sites[site].Pages[i], r.url) }
<1>1. page = IF I # {} THEN Min(I) ELSE 0
  BY Zenon DEF FindPage, SelectInSeq
<1>2. PICK ps : ps = Sites[site].Pages
  OBVIOUS
<1>3. PICK P, D, O, F, C : /\ P = [URL : Seq(STRING), Dynamic : BOOLEAN]
                           /\ D = SUBSET Seq(STRING) /\ O = SUBSET STRING
                           /\ F = SUBSET [path : Seq(STRING), size : Nat] /\ C = SUBSET Seq(STRING)
  OBVIOUS
<1>4. DOMAIN ps = 1 .. Len(ps) /\ Len(ps) \in Nat /\ \A i \in 1 .. Len(ps) : ps[i].URL \in Seq(STRING)
  <2>1. PICK T : T = [Domains : D, Protocols : O, Get400 : BOOLEAN, Pages : Seq(P), Files : F, Cached : C]
    OBVIOUS
  <2>2. Sites \in Seq(T)
    BY <1>3, <2>1, RoutingAssumption, Zenon
  <2>3. Sites[site] \in T
    BY <2>2
  <2>4. ps \in Seq(P)
    BY <1>2, <2>1, <2>3
  <2>5. \A i \in 1 .. Len(ps) : ps[i] \in P
    BY <2>4
  <2>6. \A x \in P : x.URL \in Seq(STRING)
    BY <1>3
  <2>7. DOMAIN ps = 1 .. Len(ps) /\ Len(ps) \in Nat
    BY <2>4, LenProperties
  <2> QED
    BY <2>5, <2>6, <2>7, Zenon
<1>5. PICK url : url = r.url
  OBVIOUS
<1>6. ASSUME NEW i \in 1 .. Len(ps)
      PROVE  CheckURL(ps[i], url) <=> ps[i].URL = url \/ (ps[i].Dynamic /\ IsPrefix(ps[i].URL, url))
  <2>1. PICK u : u = ps[i].URL
    OBVIOUS
  <2>2. IsPrefix(u, url) <=> Len(u) <= Len(url) /\ SubSeq(url, 1, Len(u)) = u
    <3>1. u \in Seq(STRING) /\ SubSeq(u, 1, Len(u)) = u
      BY <1>4, <2>1
    <3> QED
      BY <3>1 DEF IsPrefix
  <2>3. u = url => Len(u) <= Len(url) /\ SubSeq(url, 1, Len(u)) = u
    BY <1>5
  <2> QED
    BY <2>1, <2>2, <2>3, Zenon DEF CheckURL
<1>7. Covered(r) <=> \E i \in 1 .. Len(ps) : ps[i].URL = url \/ (ps[i].Dynamic /\ IsPrefix(ps[i].URL, url))
  <2>1. Covered(r) <=> \E p \in { ps[i] : i \in 1 .. Len(ps) } : p.URL = url \/ (p.Dynamic /\ IsPrefix(p.URL, url))
    BY <1>2, <1>4, <1>5, Zenon DEF Covered
  <2> QED
    BY <2>1, Zenon
<1>8. Covered(r) <=> I # {}
  BY <1>2, <1>5, <1>6, <1>7, Zenon
<1>9. I \in SUBSET Nat /\ 0 \notin I
  BY <1>2, <1>4
<1> HIDE DEF I
<1>10. I # {} => Min(I) # 0
  BY <1>9, MinOf
<1> QED
  BY <1>1, <1>8, <1>10

(* A file is sent exactly if the site has one that is not empty, and with  *)
(* the mark of its directory.                                              *)
LEMMA FileFound ==
  ASSUME NEW r, r.url[1] = "/", NEW site, Serving(r) = {site}
  PROVE  /\ Stored(r) <=> ProcessFile(site, r.url) # <<>>
         /\ \A a : ProcessFile(site, r.url) = <<a>> =>
              (a.cached <=> \E s \in Serving(r) : Directory(r.url) \in Sites[s].Cached)
<1>1. PICK c : c = Cached(site, r.url)
  OBVIOUS
<1>2. c <=> Directory(r.url) \in Sites[site].Cached
  <2>1. r.url[1] # "cached_"
    OBVIOUS
  <2> QED
    BY <1>1, <2>1, Zenon DEF Cached
<1>3. PICK b : b = Answer("200", "file", MediaType(r.url), c)
  OBVIOUS
<1>4. b.cached = c
  BY <1>3 DEF Answer
<1>5. ProcessFile(site, r.url) = IF \E f \in Sites[site].Files : f.path = r.url /\ f.size > 0 THEN <<b>> ELSE <<>>
  BY <1>1, <1>3, Zenon DEF ProcessFile
<1>6. <<b>> # <<>>
  OBVIOUS
<1>7. Stored(r) <=> \E f \in Sites[site].Files : f.path = r.url /\ f.size > 0
  BY Zenon DEF Stored
<1>8. Stored(r) <=> ProcessFile(site, r.url) # <<>>
  BY <1>5, <1>6, <1>7, Zenon
<1>9. ASSUME NEW a, ProcessFile(site, r.url) = <<a>>
      PROVE  a.cached <=> \E s \in Serving(r) : Directory(r.url) \in Sites[s].Cached
  <2>1. <<b>> = <<a>>
    <3>1. <<>> # <<a>>
      OBVIOUS
    <3> QED
      BY <1>5, <1>9, <3>1, Zenon
  <2>2. a = b
    BY <2>1
  <2>3. (\E s \in Serving(r) : Directory(r.url) \in Sites[s].Cached) <=> Directory(r.url) \in Sites[site].Cached
    BY Zenon
  <2> QED
    BY <1>2, <1>4, <2>2, <2>3, Zenon
<1> QED
  BY <1>8, <1>9

(* What is given is due, whatever the sites, their pages and files are.    *)
Deserves(r, a, to) ==
  /\ a.status \in {"400", "403", "404", "101", "200"}
  /\ a.status = "403" => to # 0 /\ to \notin Serving(r)
  /\ a.status = "400" => Malformed(r) \/ r.key # "" \/ (~Covered(r) /\ Dots(r.url))
  /\ a.status = "404" => ~Covered(r) /\ ~Stored(r)
  /\ a.status = "101" => r.key # "" /\ Covered(r)
  /\ a.status = "200" =>
       IF a.from = "file"
       THEN /\ Stored(r) /\ ~Covered(r)
            /\ a.cached <=> \E s \in Serving(r) : Directory(r.url) \in Sites[s].Cached
       ELSE Covered(r) /\ ~Malformed(r)

(* So is every answer that is given.                                       *)
LEMMA GivenIsDeserved ==
  ASSUME NEW r, Proper(r), Decent(r), NEW site, site = FindSite(HostOf(r)), NEW page, page = FindPage(site, r.url),
         NEW a, NEW to, Given(r, a, site, page, to)
  PROVE  Deserves(r, a, to)
<1>1. r.url \in Seq(STRING) /\ r.url[1] = "/"
  <2>1. r.url \in Seq(Plain) /\ Plain \subseteq STRING
    BY DEF Proper, Plain
  <2> QED
    BY <2>1, SeqMonotonic DEF Decent
<1>2. site = 0 => ~Covered(r) /\ ~Stored(r) /\ Serving(r) = {}
  <2>1. site = 0 => Serving(r) = {}
    BY SiteFound
  <2> QED
    BY <2>1, Zenon DEF Covered, Stored
<1>3. site # 0 => /\ Serving(r) = {site}
                  /\ Covered(r) <=> page # 0
                  /\ Stored(r) <=> ProcessFile(site, r.url) # <<>>
                  /\ \A b : ProcessFile(site, r.url) = <<b>> =>
                       (b.cached <=> \E s \in Serving(r) : Directory(r.url) \in Sites[s].Cached)
  BY <1>1, SiteFound, PageFound, FileFound
<1>4. CASE a.status = "400" /\ (Malformed(r) \/ Upgrades(r) \/ (page = 0 /\ Dots(r.url)))
  BY <1>2, <1>3, <1>4, Zenon DEF Deserves, Upgrades
<1>5. CASE a.status = "403" /\ to # 0 /\ to # site
  BY <1>2, <1>3, <1>5 DEF Deserves
<1>6. CASE a.status = "404" /\ (site = 0 \/ (page = 0 /\ ProcessFile(site, r.url) = <<>>))
  BY <1>2, <1>3, <1>6, Zenon DEF Deserves
<1>7. CASE a.status = "101" /\ Upgrades(r) /\ site # 0 /\ page # 0 /\ a.accept = Accepted(r)
  BY <1>3, <1>7, Zenon DEF Deserves, Upgrades
<1>8. CASE a.status = "200" /\ a.from = "file" /\ site # 0 /\ page = 0 /\ ProcessFile(site, r.url) = <<a>>
  <2>1. <<a>> # <<>>
    OBVIOUS
  <2>2. Stored(r) /\ ~Covered(r)
    BY <1>3, <1>8, <2>1, Zenon
  <2>3. a.cached <=> \E s \in Serving(r) : Directory(r.url) \in Sites[s].Cached
    BY <1>3, <1>8, Zenon
  <2> QED
    BY <1>8, <2>2, <2>3, Zenon DEF Deserves
<1>9. CASE a.status = "200" /\ a.from = "page" /\ site # 0 /\ page # 0 /\ ~Malformed(r)
  BY <1>3, <1>9, Zenon DEF Deserves
<1> QED
  BY <1>4, <1>5, <1>6, <1>7, <1>8, <1>9, Zenon DEF Given

(* Every step keeps that there is one answer and it is due.                *)
LEMMA AnswerKept ==
  ASSUME LengthsFit, \A x \in All : Decent(x), FInv, FInv', [SessionNext]_allVars, OneAnswer
  PROVE  OneAnswer'
<1>1. CASE /\ Request /\ OnConnect /\ verdict' = "request"
           /\ Process(ParseHeader(SubSeq(Text[req], 1, sent)))
  <2>1. PICK h : h = ParseHeader(SubSeq(Text[req], 1, sent))
    OBVIOUS
  <2>2. Understood(req, h) /\ req \in All /\ req' = req
    BY <1>1, <2>1, ActedOn
  <2>3. PICK a : answers' = <<a>> /\ Given(req, a, FindSite(HostOf(req)),
                                          FindPage(FindSite(HostOf(req)), req.url), ConnectedTo')
    BY <1>1, <2>1, <2>2, OneGiven
  <2>4. Proper(req) /\ Decent(req)
    BY <2>2, FramingAssumption DEF All
  <2>5. Deserves(req, a, ConnectedTo')
    BY <2>3, <2>4, GivenIsDeserved
  <2>6. PICK r, to : r = req /\ to = ConnectedTo'
    OBVIOUS
  <2>7. Deserves(r, a, to) /\ req' = r /\ ConnectedTo' = to
    BY <2>2, <2>5, <2>6
  <2>8. Due(a)'
    <3>1. CASE a.status = "403"
      BY <2>7, <3>1, Zenon DEF Due, Deserves
    <3>2. CASE a.status = "400"
      BY <2>7, <3>2, Zenon DEF Due, Deserves
    <3>3. CASE a.status = "404"
      BY <2>7, <3>3, Zenon DEF Due, Deserves
    <3>4. CASE a.status = "101"
      BY <2>7, <3>4, Zenon DEF Due, Deserves
    <3>5. CASE a.status = "200" /\ a.from = "file"
      BY <2>7, <3>5, Zenon DEF Due, Deserves
    <3>6. CASE a.status = "200" /\ a.from # "file"
      BY <2>7, <3>6, Zenon DEF Due, Deserves
    <3>7. a.status \in {"400", "403", "404", "101", "200"}
      BY <2>7, Zenon DEF Deserves
    <3> QED
      BY <3>1, <3>2, <3>3, <3>4, <3>5, <3>6, <3>7, Zenon
  <2>9. Len(answers') = 1 /\ answers'[1] = a
    BY <2>3, OneIs
  <2> QED
    BY <2>8, <2>9, Zenon DEF OneAnswer
<1>2. CASE verdict' # "request"
  BY <1>2, Zenon DEF OneAnswer
<1>3. CASE UNCHANGED <<req, answers, ConnectedTo>> /\ (verdict' = "request" => verdict = "request")
  <2>1. req' = req /\ answers' = answers /\ ConnectedTo' = ConnectedTo
    BY <1>3
  <2>2. Due(answers[1]) => Due(answers[1])'
    BY <2>1, Zenon DEF Due
  <2> QED
    BY <1>3, <2>1, <2>2, Zenon DEF OneAnswer
<1> QED
  BY <1>1, <1>2, <1>3, AnswersGiven, Zenon

(* A request that is acted on gets one answer and from whom it should,     *)
(* for all requests of decent clients, and for all sites with all their    *)
(* pages and files: what the parser has understood when Process looks for  *)
(* the site, the page and the file is what the client meant.               *)
THEOREM SessionOneAnswer ==
  ASSUME LengthsFit, \A r \in All : Decent(r) PROVE SessionSpec => []OneAnswer
<1>1. SessionInit => FInv /\ OneAnswer
  <2>1. SessionInit => FInv
    BY FramingInit, Zenon DEF SessionInit
  <2>2. SessionInit => verdict # "request"
    BY DEF SessionInit, Init
  <2> QED
    BY <2>1, <2>2, Zenon DEF OneAnswer
<1>2. FInv /\ [SessionNext]_allVars => FInv'
  BY SessionKeepsFraming
<1>3. FInv /\ FInv' /\ OneAnswer /\ [SessionNext]_allVars => OneAnswer'
  BY AnswerKept
<1> QED
  BY <1>1, <1>2, <1>3, PTL DEF SessionSpec
===============================================================================
