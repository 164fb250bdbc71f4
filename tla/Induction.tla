------------------------------- MODULE Induction -------------------------------
(***************************************************************************)
(* Induction over data, for the other proofs.  An induction theorem that   *)
(* takes an operator cannot be applied by the provers, so all that follows *)
(* rests on one that takes a set: a set of naturals with 0 that is closed  *)
(* under successor has them all, because their order is well founded.      *)
(* What a definition steps with is handed over as a function for the same  *)
(* reason.                                                                 *)
(***************************************************************************)
EXTENDS Integers, SequenceTheorems, WellFoundedInduction, TLAPS, SequencesExt

(* Induction on the naturals.                                              *)
LEMMA NatSetInduction ==
  ASSUME NEW S, 0 \in S, \A n \in Nat : n \in S => n + 1 \in S
  PROVE  Nat \subseteq S
<1> DEFINE T == Nat \ S
           R == OpToRel(<, Nat)
<1> SUFFICES ASSUME T # {} PROVE FALSE
  OBVIOUS
<1>1. PICK x \in T : \A y \in T : ~(<<y, x>> \in R)
  <2>1. T \subseteq Nat
    OBVIOUS
  <2> HIDE DEF T, R
  <2>2. IsWellFoundedOn(R, Nat)
    BY NatLessThanWellFounded, Zenon DEF R
  <2> QED
    BY <2>1, <2>2, WFMin
<1>2. x \in Nat /\ x # 0
  OBVIOUS
<1>3. x - 1 \in Nat /\ x - 1 < x /\ x = (x - 1) + 1
  BY <1>2
<1>4. x - 1 \notin T
  BY <1>1, <1>2, <1>3, Zenon DEF OpToRel
<1> QED
  BY <1>2, <1>3, <1>4

(* The same up to a bound.                                                 *)
LEMMA UpTo ==
  ASSUME NEW n \in Nat, NEW S, 0 \in S, \A i \in 0 .. n - 1 : i \in S => i + 1 \in S
  PROVE  0 .. n \subseteq S
<1> DEFINE I == { k \in Nat : k <= n => k \in S }
<1>1. 0 \in I /\ \A k \in Nat : k \in I => k + 1 \in I
  OBVIOUS
<1> HIDE DEF I
<1>2. Nat \subseteq I
  BY <1>1, NatSetInduction
<1> QED
  BY <1>2 DEF I

-----------------------------------------------------------------------------
(* The least and the greatest element.                                     *)
LEMMA MinOf ==
  ASSUME NEW I \in SUBSET Nat, I # {}
  PROVE  Min(I) \in I /\ \A i \in I : Min(I) <= i
<1>1. \E m \in I : \A i \in I : m <= i
  <2> SUFFICES ASSUME \A m \in I : \E i \in I : ~(m <= i) PROVE FALSE
    OBVIOUS
  <2> DEFINE S == { n \in Nat : \A i \in I : n <= i }
  <2>1. 0 \in S
    OBVIOUS
  <2>2. ASSUME NEW n \in Nat, n \in S PROVE n + 1 \in S
    <3>1. n \notin I
      BY <2>2
    <3> QED
      BY <2>2, <3>1
  <2> HIDE DEF S
  <2>3. Nat \subseteq S
    BY <2>1, <2>2, NatSetInduction
  <2>4. PICK i : i \in I
    OBVIOUS
  <2>5. i + 1 \in S
    BY <2>3, <2>4
  <2> QED
    BY <2>4, <2>5 DEF S
<1> QED
  BY <1>1, Zenon DEF Min

(* The greatest member of a set of numbers up to k that has k is k.        *)
LEMMA MaxOf ==
  ASSUME NEW k \in Nat, NEW s \in SUBSET (1 .. k), k \in s
  PROVE  Max(s) = k
<1>1. \A x \in s : k >= x
  OBVIOUS
<1>2. \A x \in s : (\A y \in s : x >= y) => x = k
  OBVIOUS
<1> QED
  BY <1>1, <1>2, Zenon DEF Max

(* A set of numbers that is not empty has its greatest member.             *)
LEMMA MaxIn ==
  ASSUME NEW n \in Nat, NEW s \in SUBSET (1 .. n), s # {}
  PROVE  Max(s) \in s /\ \A i \in s : i <= Max(s)
<1> DEFINE I == { n - i : i \in s }
<1>1. I \in SUBSET Nat /\ I # {}
  <2>1. \A i \in s : n - i \in Nat
    OBVIOUS
  <2> QED
    BY <2>1
<1>2. PICK m \in I : \A i \in I : m <= i
  <2> HIDE DEF I
  <2> QED
    BY <1>1, MinOf
<1>3. PICK x \in s : m = n - x
  BY <1>2
<1>4. \A y \in s : x >= y
  <2>1. \A y \in s : m <= n - y
    BY <1>2
  <2> HIDE DEF I
  <2> QED
    BY <1>3, <2>1
<1>5. Max(s) \in s /\ \A y \in s : Max(s) >= y
  BY <1>4, Zenon DEF Max
<1> QED
  BY <1>5

-----------------------------------------------------------------------------
(* What goes from one value to the next, at each of n positions.           *)
Steps(n, S) == [S \X (1 .. n) -> S]

Iterates(f, n, S, base, step) ==
  /\ f \in [0 .. n -> S]
  /\ f[0] = base
  /\ \A i \in 1 .. n : f[i] = step[<<f[i - 1], i>>]

(* A function on 0 .. n can be defined from each value to the next.        *)
LEMMA Recursion ==
  ASSUME NEW n \in Nat, NEW S, NEW base \in S, NEW step \in Steps(n, S)
  PROVE  \E f : Iterates(f, n, S, base, step)
<1> USE DEF Steps, Iterates
<1> DEFINE Solves(f, k) == Iterates(f, k, S, base, step)
           I == { k \in Nat : k <= n => \E f : Solves(f, k) }
<1>1. 0 \in I
  <2> DEFINE f == [i \in 0 .. 0 |-> base]
  <2>1. Solves(f, 0)
    OBVIOUS
  <2> QED
    BY <2>1
<1>2. ASSUME NEW k \in Nat, k \in I PROVE k + 1 \in I
  <2>0. SUFFICES ASSUME k + 1 <= n PROVE \E h : Solves(h, k + 1)
    <3> HIDE DEF Solves, Iterates
    <3> QED
      OBVIOUS
  <2>1. PICK f : Solves(f, k)
    <3>1. k <= n
      BY <2>0
    <3> HIDE DEF Solves, Iterates
    <3> QED
      BY <1>2, <3>1
  <2> DEFINE h == [i \in 0 .. k + 1 |-> IF i = k + 1 THEN step[<<f[k], k + 1>>] ELSE f[i]]
  <2>2. k + 1 \in 1 .. n /\ f[k] \in S
    BY <2>0, <2>1
  <2>3. h \in [0 .. k + 1 -> S]
    BY <2>1, <2>2
  <2>4. h[0] = base
    BY <2>1
  <2>5. ASSUME NEW i \in 1 .. k + 1 PROVE h[i] = step[<<h[i - 1], i>>]
    <3>1. CASE i = k + 1
      <4>1. h[k] = f[k] /\ h[k + 1] = step[<<f[k], k + 1>>] /\ i - 1 = k
        BY <3>1
      <4> QED
        BY <3>1, <4>1
    <3>2. CASE i \in 1 .. k
      BY <2>1, <3>2
    <3> QED
      BY <3>1, <3>2
  <2> QED
    BY <2>3, <2>4, <2>5
<1> HIDE DEF I
<1>3. n \in I
  BY <1>1, <1>2, NatSetInduction
<1>4. PICK f : Solves(f, n)
  <2> HIDE DEF Solves, Iterates
  <2> QED
    BY <1>3 DEF I
<1> QED
  BY <1>4

(* The function on sets of positions behind a fold from the left: it takes *)
(* the greatest position away, and folds the rest first.                   *)
FoldsBy(g, n, S, base, step) ==
  /\ g \in [SUBSET (1 .. n) -> S]
  /\ \A s \in SUBSET (1 .. n) :
       g[s] = IF s = {} THEN base ELSE step[<<g[s \ {Max(s)}], Max(s)>>]

(* A fold over sets of numbers is a recursive function on those sets.      *)
LEMMA SubsetRecursion ==
  ASSUME NEW n \in Nat, NEW S, NEW base \in S, NEW step \in Steps(n, S)
  PROVE  \E g : FoldsBy(g, n, S, base, step)
<1> USE DEF Steps, FoldsBy
<1> DEFINE Solves(g, k) == FoldsBy(g, k, S, base, step)
           I == { k \in Nat : k <= n => \E g : Solves(g, k) }
<1>1. 0 \in I
  <2> DEFINE g0 == [s \in SUBSET (1 .. 0) |-> base]
  <2>1. \A s \in SUBSET (1 .. 0) : s = {}
    OBVIOUS
  <2>2. Solves(g0, 0)
    BY <2>1
  <2> QED
    BY <2>2
<1>2. ASSUME NEW k \in Nat, k \in I PROVE k + 1 \in I
  <2>0. SUFFICES ASSUME k + 1 <= n PROVE \E h : Solves(h, k + 1)
    <3> HIDE DEF Solves, FoldsBy
    <3> QED
      OBVIOUS
  <2>1. PICK g : Solves(g, k)
    <3>1. k <= n
      BY <2>0
    <3> HIDE DEF Solves, FoldsBy
    <3> QED
      BY <1>2, <3>1
  <2> DEFINE h == [s \in SUBSET (1 .. k + 1) |->
                     IF k + 1 \in s THEN step[<<g[s \ {k + 1}], k + 1>>] ELSE g[s]]
  <2>2. \A s \in SUBSET (1 .. k + 1) : /\ s \ {k + 1} \in SUBSET (1 .. k)
                                       /\ k + 1 \notin s => s \in SUBSET (1 .. k)
    OBVIOUS
  <2>3. h \in [SUBSET (1 .. k + 1) -> S]
    <3> SUFFICES ASSUME NEW s \in SUBSET (1 .. k + 1)
                 PROVE  (IF k + 1 \in s THEN step[<<g[s \ {k + 1}], k + 1>>] ELSE g[s]) \in S
      OBVIOUS
    <3>1. k + 1 \in 1 .. n
      BY <2>0
    <3> QED
      BY <2>1, <2>2, <3>1
  <2>4. ASSUME NEW s \in SUBSET (1 .. k + 1)
        PROVE  h[s] = IF s = {} THEN base ELSE step[<<h[s \ {Max(s)}], Max(s)>>]
    <3>1. CASE k + 1 \in s
      <4>1. Max(s) = k + 1
        BY <3>1, MaxOf
      <4>2. h[s] = step[<<g[s \ {k + 1}], k + 1>>]
        BY <3>1
      <4>3. h[s \ {k + 1}] = g[s \ {k + 1}]
        BY <2>2
      <4> QED
        BY <3>1, <4>1, <4>2, <4>3
    <3>2. CASE k + 1 \notin s
      <4>1. s \in SUBSET (1 .. k) /\ s \ {Max(s)} \in SUBSET (1 .. k)
        BY <2>2, <3>2
      <4>2. s \in SUBSET (1 .. k + 1) /\ s \ {Max(s)} \in SUBSET (1 .. k + 1) /\ k + 1 \notin s \ {Max(s)}
        BY <3>2
      <4>3. h[s] = g[s] /\ h[s \ {Max(s)}] = g[s \ {Max(s)}]
        BY <3>2, <4>2
      <4> QED
        BY <2>1, <4>1, <4>3
    <3> QED
      BY <3>1, <3>2
  <2> QED
    BY <2>3, <2>4
<1> HIDE DEF I
<1>3. n \in I
  BY <1>1, <1>2, NatSetInduction
<1>4. PICK g : Solves(g, n)
  <2> HIDE DEF Solves, FoldsBy
  <2> QED
    BY <1>3 DEF I
<1> QED
  BY <1>4

(* The positions up to i, seen from the last one.                          *)
LEMMA FirstPositions ==
  ASSUME NEW n \in Nat, NEW i \in 1 .. n
  PROVE  /\ 1 .. i # {} /\ 1 .. i \in SUBSET (1 .. n)
         /\ Max(1 .. i) = i /\ (1 .. i) \ {Max(1 .. i)} = 1 .. i - 1
<1>1. Max(1 .. i) = i
  BY MaxOf
<1>2. (1 .. i) \ {i} = 1 .. i - 1
  OBVIOUS
<1> QED
  BY <1>1, <1>2

(* So a fold over the positions of a sequence goes from one to the next.   *)
Follows(g, n, S, base, step) ==
  /\ g[{}] = base
  /\ \A i \in 1 .. n : g[1 .. i - 1] \in S => g[1 .. i] = step[<<g[1 .. i - 1], i>>]

(* That function, on the first i numbers, is the i-th step of the iteration. *)
LEMMA FoldSteps ==
  ASSUME NEW n \in Nat, NEW S, NEW base, NEW step,
         NEW g, Follows(g, n, S, base, step), NEW f, Iterates(f, n, S, base, step)
  PROVE  \A i \in 0 .. n : f[i] = g[1 .. i]
<1> USE DEF Iterates, Follows
<1> DEFINE E == { i \in Nat : f[i] = g[1 .. i] }
<1>1. 0 \in E
  <2>1. 1 .. 0 = {}
    OBVIOUS
  <2> QED
    BY <2>1
<1>2. ASSUME NEW i \in 0 .. n - 1, i \in E PROVE i + 1 \in E
  <2>1. i + 1 \in 1 .. n /\ (i + 1) - 1 = i
    OBVIOUS
  <2>2. f[i] = g[1 .. i] /\ f[i] \in S
    BY <1>2
  <2>3. g[1 .. i + 1] = step[<<g[1 .. i], i + 1>>]
    BY <2>1, <2>2
  <2>4. f[i + 1] = step[<<f[i], i + 1>>]
    BY <2>1
  <2> QED
    BY <2>2, <2>3, <2>4
<1> HIDE DEF E
<1>3. 0 .. n \subseteq E
  BY <1>1, <1>2, UpTo
<1> QED
  BY <1>3 DEF E

-----------------------------------------------------------------------------
(* FlattenSeq puts the sequences together one after the other.             *)
LEMMA FlattenSteps ==
  ASSUME NEW T, NEW s \in Seq(Seq(T))
  PROVE  \E f \in [0 .. Len(s) -> Seq(T)] :
           /\ f[0] = <<>>
           /\ \A i \in 1 .. Len(s) : f[i] = f[i - 1] \o s[i]
           /\ FlattenSeq(s) = f[Len(s)]
<1> DEFINE step == [p \in Seq(T) \X (1 .. Len(s)) |-> p[1] \o s[p[2]]]
<1>1. Len(s) \in Nat /\ s \in [1 .. Len(s) -> Seq(T)] /\ <<>> \in Seq(T)
  BY LenProperties, EmptySeq
<1>2. step \in Steps(Len(s), Seq(T))
  <2>1. ASSUME NEW p \in Seq(T) \X (1 .. Len(s)) PROVE p[1] \o s[p[2]] \in Seq(T)
    <3>1. p[1] \in Seq(T) /\ s[p[2]] \in Seq(T)
      BY <1>1
    <3> QED
      BY <3>1, ConcatProperties
  <2> QED
    BY <2>1 DEF Steps
<1>3. PICK f : Iterates(f, Len(s), Seq(T), <<>>, step)
  <2> HIDE DEF step
  <2> QED
    BY <1>1, <1>2, Recursion
<1> USE <1>3 DEF Iterates
<1>4. ASSUME NEW i \in 1 .. Len(s) PROVE f[i] = f[i - 1] \o s[i]
  <2>1. i - 1 \in 0 .. Len(s)
    BY <1>1
  <2>2. <<f[i - 1], i>> \in Seq(T) \X (1 .. Len(s))
    BY <2>1
  <2>3. step[<<f[i - 1], i>>] = f[i - 1] \o s[i]
    BY <2>2
  <2> QED
    BY <1>3, <2>3
<1>5. FlattenSeq(s) = f[Len(s)]
  <2>1. CASE Len(s) = 0
    <3>1. s = <<>>
      BY <1>1, <2>1
    <3> QED
      BY <1>3, <2>1, <3>1 DEF FlattenSeq
  <2>2. CASE Len(s) # 0
    <3> DEFINE Is(g) == g = [i \in 1 .. Len(s) |-> IF i = 1 THEN s[i] ELSE g[i - 1] \o s[i]]
               g0 == [i \in 1 .. Len(s) |-> f[i]]
               it == CHOOSE g : Is(g)
    <3>0. ASSUME NEW i \in 1 .. Len(s) PROVE f[i] = IF i = 1 THEN s[i] ELSE f[i - 1] \o s[i]
      <4>1. CASE i = 1
        <5>1. s[i] \in Seq(T) /\ i - 1 = 0
          BY <1>1, <4>1
        <5>2. f[i] = <<>> \o s[i]
          BY <1>4, <5>1
        <5> QED
          BY <4>1, <5>1, <5>2, ConcatEmptySeq
      <4> QED
        BY <1>4, <4>1
    <3>1. Is(g0)
      <4>1. ASSUME NEW i \in 1 .. Len(s)
            PROVE  g0[i] = IF i = 1 THEN s[i] ELSE g0[i - 1] \o s[i]
        <5>1. i # 1 => i - 1 \in 1 .. Len(s)
          BY <1>1
        <5> QED
          BY <3>0, <5>1
      <4> QED
        BY <4>1
    <3>2. Is(it)
      <4> HIDE DEF Is
      <4> QED
        BY <3>1
    <3>3. FlattenSeq(s) = it[Len(s)]
      BY <2>2, Zenon DEF FlattenSeq
    <3>4. \A i \in 0 .. Len(s) : i # 0 => it[i] = f[i]
      <4> DEFINE E == { i \in Nat : i # 0 => it[i] = f[i] }
      <4>1. 0 \in E
        OBVIOUS
      <4>2. ASSUME NEW i \in 0 .. Len(s) - 1, i \in E PROVE i + 1 \in E
        <5>1. i + 1 \in 1 .. Len(s) /\ (i + 1) - 1 = i
          BY <1>1
        <5>2. it[i + 1] = IF i + 1 = 1 THEN s[i + 1] ELSE it[i] \o s[i + 1]
          <6>1. \A k \in 1 .. Len(s) : it[k] = IF k = 1 THEN s[k] ELSE it[k - 1] \o s[k]
            <7> HIDE DEF it
            <7> QED
              BY <3>2
          <6> HIDE DEF it
          <6> QED
            BY <5>1, <6>1
        <5>3. f[i + 1] = IF i + 1 = 1 THEN s[i + 1] ELSE f[i] \o s[i + 1]
          <6> HIDE DEF it
          <6> QED
            BY <3>0, <5>1
        <5> HIDE DEF it
        <5> QED
          BY <4>2, <5>1, <5>2, <5>3
      <4> HIDE DEF E
      <4>3. 0 .. Len(s) \subseteq E
        BY <1>1, <4>1, <4>2, UpTo
      <4> QED
        BY <4>3 DEF E
    <3> HIDE DEF it
    <3> QED
      BY <1>1, <2>2, <3>3, <3>4
  <2> QED
    BY <2>1, <2>2
<1> QED
  BY <1>3, <1>4, <1>5

(* Sequences joined are a sequence of the same elements.                   *)
LEMMA FlattenType == ASSUME NEW T, NEW s \in Seq(Seq(T)) PROVE FlattenSeq(s) \in Seq(T)
<1>1. PICK f \in [0 .. Len(s) -> Seq(T)] : FlattenSeq(s) = f[Len(s)]
  BY FlattenSteps
<1>2. Len(s) \in 0 .. Len(s)
  BY LenProperties
<1> QED
  BY <1>1, <1>2

(* No sequences joined are the empty sequence.                             *)
LEMMA FlattenEmpty == FlattenSeq(<<>>) = <<>>
BY DEF FlattenSeq

(* One sequence more is joined at the end.                                 *)
LEMMA FlattenAppend ==
  ASSUME NEW T, NEW s \in Seq(Seq(T)), NEW x \in Seq(T)
  PROVE  FlattenSeq(Append(s, x)) = FlattenSeq(s) \o x
<1>1. /\ Append(s, x) \in Seq(Seq(T)) /\ Len(s) \in Nat /\ Len(Append(s, x)) = Len(s) + 1
      /\ \A i \in 1 .. Len(s) : Append(s, x)[i] = s[i]
      /\ Append(s, x)[Len(s) + 1] = x
  BY AppendProperties, LenProperties
<1>2. PICK f \in [0 .. Len(s) -> Seq(T)] :
        /\ f[0] = <<>>
        /\ \A i \in 1 .. Len(s) : f[i] = f[i - 1] \o s[i]
        /\ FlattenSeq(s) = f[Len(s)]
  BY FlattenSteps
<1>3. PICK g \in [0 .. Len(s) + 1 -> Seq(T)] :
        /\ g[0] = <<>>
        /\ \A i \in 1 .. Len(s) + 1 : g[i] = g[i - 1] \o Append(s, x)[i]
        /\ FlattenSeq(Append(s, x)) = g[Len(s) + 1]
  <2>1. \E h \in [0 .. Len(Append(s, x)) -> Seq(T)] :
          /\ h[0] = <<>>
          /\ \A i \in 1 .. Len(Append(s, x)) : h[i] = h[i - 1] \o Append(s, x)[i]
          /\ FlattenSeq(Append(s, x)) = h[Len(Append(s, x))]
    BY <1>1, FlattenSteps
  <2> QED
    BY <1>1, <2>1
<1> DEFINE E == { i \in Nat : f[i] = g[i] }
<1>4. 0 \in E
  BY <1>2, <1>3
<1>5. ASSUME NEW i \in 0 .. Len(s) - 1, i \in E PROVE i + 1 \in E
  <2>1. i + 1 \in 1 .. Len(s) /\ i + 1 \in 1 .. Len(s) + 1 /\ (i + 1) - 1 = i
    BY <1>1
  <2>2. f[i + 1] = f[i] \o s[i + 1] /\ g[i + 1] = g[i] \o s[i + 1]
    BY <1>1, <1>2, <1>3, <2>1
  <2>3. f[i] = g[i]
    BY <1>5
  <2>4. f[i + 1] = g[i + 1]
    BY <2>2, <2>3
  <2> QED
    BY <2>4
<1> HIDE DEF E
<1>6. f[Len(s)] = g[Len(s)]
  <2>1. 0 .. Len(s) \subseteq E
    BY <1>1, <1>4, <1>5, UpTo
  <2> QED
    BY <1>1, <2>1 DEF E
<1>7. g[Len(s) + 1] = g[Len(s)] \o x
  <2>1. Len(s) + 1 \in 1 .. Len(s) + 1 /\ (Len(s) + 1) - 1 = Len(s)
    BY <1>1
  <2>2. g[Len(s) + 1] = g[(Len(s) + 1) - 1] \o Append(s, x)[Len(s) + 1]
    BY <1>3, <2>1
  <2> QED
    BY <1>1, <2>1, <2>2
<1> QED
  BY <1>2, <1>3, <1>6, <1>7
================================================================================
