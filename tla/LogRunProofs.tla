------------------------------ MODULE LogRunProofs ------------------------------
(***************************************************************************)
(* What LogRun promises holds for files of any length with any lines, ids  *)
(* and prices: the updates of a file add up to its complete records, none  *)
(* is forgotten, only two kinds of id crash, and the files are taken in    *)
(* the order in which they were written.                                   *)
(*                                                                         *)
(* The folds of the model are defined by recursion over sets.  That such a *)
(* recursion reaches every element is proved here from the well-founded    *)
(* orders of the library.                                                  *)
(***************************************************************************)
EXTENDS LogRun, WellFoundedInduction, FiniteSetTheorems, TLAPS

\* Induction, over a set of numbers.
LEMMA NatSetInduction ==
  ASSUME NEW S, 0 \in S, \A n \in Nat : n \in S => n + 1 \in S
  PROVE  Nat \subseteq S
<1> DEFINE R == OpToRel(<, Nat)
<1>1. IsWellFoundedOn(R, Nat)
  BY NatLessThanWellFounded
<1>2. \A i, j \in Nat : i < j => <<i, j>> \in R
  BY DEF OpToRel
<1> HIDE DEF R
<1> DEFINE T == Nat \ S
<1>3. SUFFICES ASSUME T # {} PROVE FALSE
  OBVIOUS
<1>4. PICK n \in T : \A m \in T : ~(<<m, n>> \in R)
  BY <1>1, <1>3, WFMin
<1>5. n # 0 /\ n \in Nat
  OBVIOUS
<1>6. n - 1 \in Nat /\ n - 1 < n /\ (n - 1) + 1 = n
  BY <1>5
<1>7. n - 1 \notin T
  BY <1>4, <1>2, <1>5, <1>6
<1>8. QED BY <1>5, <1>6, <1>7

\* Induction over the parts of a finite set.
LEMMA SubsetInduction ==
  ASSUME NEW S, IsFiniteSet(S), NEW Good,
         \A s \in SUBSET S : (\A r \in SUBSET s : r # s => r \in Good) => s \in Good
  PROVE  SUBSET S \subseteq Good
<1> DEFINE R == StrictSubsetOrdering(S)
           U == SUBSET S
           T == U \ Good
<1>1. IsWellFoundedOn(R, U)
  BY FS_StrictSubsetOrderingWellFounded, FS_FiniteSubsetsOfFinite
<1>2. \A r, s \in U : r \subseteq s /\ r # s => <<r, s>> \in R
  BY DEF StrictSubsetOrdering
<1> HIDE DEF R
<1>3. SUFFICES ASSUME T # {} PROVE FALSE
  OBVIOUS
<1>4. \E s \in T : \A r \in T : ~(<<r, s>> \in R)
  <2>1. T \subseteq U
    OBVIOUS
  <2> HIDE DEF T, U
  <2> QED BY <1>1, <1>3, <2>1, WFMin
<1>5. PICK s \in T : \A r \in T : ~(<<r, s>> \in R)
  BY <1>4
<1>6. \A r \in SUBSET s : r # s => r \in U
  OBVIOUS
<1>7. ASSUME NEW r \in SUBSET s, r # s PROVE r \in Good
  <2>1. r \in U /\ s \in U
    BY <1>6, <1>7
  <2>2. <<r, s>> \in R
    BY <1>2, <1>7, <2>1
  <2> QED BY <1>5, <2>1, <2>2
<1> QED BY <1>5, <1>7

\* One step of a sum: an element of s, and what g says of the others.
SumStep(f, g, s) ==
  IF s = {} THEN 0 ELSE f[CHOOSE x \in s : TRUE] + g[s \ {CHOOSE x \in s : TRUE}]

\* g is the sum of f over each part of S.
Sums(g, f, S) == \A s \in SUBSET S : g[s] = SumStep(f, g, s)

\* The same, whatever element is taken.
SumsInAnyOrder(g, f, S) ==
  \A s \in SUBSET S : g[s] \in Int /\ \A x \in s : g[s] = f[x] + g[s \ {x}]

\* The sum of a function over a finite set is that of a recursion that takes the
\* elements one by one.
LEMMA SumRecursion ==
  ASSUME NEW S, IsFiniteSet(S), NEW f, DOMAIN f = S
  PROVE  \E g : g[S] = SumFunction(f) /\ Sums(g, f, S)
<1> DEFINE pick(s) == CHOOSE x \in s : TRUE
           Rhs(g, s) == IF s = {} THEN 0 ELSE f[pick(s)] + g[s \ {pick(s)}]
           It(g) == [s \in SUBSET S |-> Rhs(g, s)]
           UpTo(n) == \E g : /\ g = [s \in SUBSET S |-> g[s]]
                             /\ \A s \in SUBSET S : Cardinality(s) <= n => g[s] = Rhs(g, s)
           N == {n \in Nat : UpTo(n)}
<1>1. \A s \in SUBSET S : IsFiniteSet(s) /\ Cardinality(s) \in Nat
  BY FS_Subset, FS_CardinalityType
<1>2. \A s \in SUBSET S : s # {} => pick(s) \in s
  OBVIOUS
<1>3. \A s \in SUBSET S : s # {} =>
        s \ {pick(s)} \in SUBSET S /\ Cardinality(s \ {pick(s)}) = Cardinality(s) - 1
  BY <1>1, <1>2, FS_RemoveElement
<1>4. \A s \in SUBSET S : Cardinality(s) = 0 => s = {}
  BY <1>1, FS_EmptySet
<1> HIDE DEF pick
<1>6. 0 \in N
  <2> DEFINE g == [s \in SUBSET S |-> 0]
  <2>1. g = [s \in SUBSET S |-> g[s]]
    OBVIOUS
  <2>2. \A s \in SUBSET S : Cardinality(s) <= 0 => g[s] = Rhs(g, s)
    BY <1>1, <1>4
  <2>3. UpTo(0)
    <3> HIDE DEF g, Rhs
    <3> QED BY <2>1, <2>2
  <2> QED BY <2>3
<1>7. ASSUME NEW n \in Nat, n \in N PROVE n + 1 \in N
  <2>1. PICK g : /\ g = [s \in SUBSET S |-> g[s]]
                 /\ \A s \in SUBSET S : Cardinality(s) <= n => g[s] = Rhs(g, s)
    BY <1>7
  <2> DEFINE h == It(g)
  <2>2. h = [s \in SUBSET S |-> h[s]]
    OBVIOUS
  <2>3. ASSUME NEW s \in SUBSET S, Cardinality(s) <= n + 1 PROVE h[s] = Rhs(h, s)
    <3>1. CASE s = {}
      BY <3>1
    <3>2. CASE s # {}
      <4> DEFINE r == s \ {pick(s)}
      <4>1. r \in SUBSET S /\ Cardinality(r) = Cardinality(s) - 1
        BY <3>2, <1>3
      <4>2. Cardinality(r) <= n
        <5> HIDE DEF r
        <5>1. Cardinality(s) \in Nat
          BY <1>1
        <5> QED BY <4>1, <5>1, <2>3
      <4>3. h[r] = g[r]
        <5> HIDE DEF r, Rhs
        <5> QED BY <2>1, <4>1, <4>2
      <4>4. Rhs(h, s) = Rhs(g, s)
        <5> HIDE DEF h
        <5> QED BY <3>2, <4>3
      <4> QED
        <5> HIDE DEF Rhs
        <5> QED BY <4>4
    <3> QED BY <3>1, <3>2
  <2>4. UpTo(n + 1)
    <3> HIDE DEF h, Rhs
    <3> QED BY <2>2, <2>3
  <2> HIDE DEF UpTo
  <2> QED BY <2>4
<1>8. UpTo(Cardinality(S))
  <2> HIDE DEF UpTo
  <2>1. Nat \subseteq N
    <3> HIDE DEF N
    <3> QED BY <1>6, <1>7, NatSetInduction
  <2> QED BY <2>1, <1>1
<1>9. \E g : g = It(g)
  <2>1. PICK g : /\ g = [s \in SUBSET S |-> g[s]]
                 /\ \A s \in SUBSET S : Cardinality(s) <= Cardinality(S) => g[s] = Rhs(g, s)
    BY <1>8
  <2>2. \A s \in SUBSET S : Cardinality(s) <= Cardinality(S)
    BY FS_Subset
  <2>3. g = It(g)
    <3> HIDE DEF Rhs
    <3> QED BY <2>1, <2>2, Zenon
  <2> HIDE DEF It
  <2> QED BY <2>3
<1> DEFINE it == CHOOSE h : h = It(h)
<1>10. it = It(it)
  <2> HIDE DEF It
  <2> QED BY <1>9
<1>11. SumFunction(f) = it[S]
  BY Zenon DEF SumFunction, SumFunctionOnSet, FoldFunctionOnSet, MapThenFoldSet, pick
<1>12. \A s \in SUBSET S : it[s] = Rhs(it, s)
  <2> HIDE DEF it, Rhs
  <2> QED BY <1>10
<1> QED
  <2> HIDE DEF it
  <2> QED BY <1>11, <1>12 DEF pick, SumStep, Sums

\* Whatever element the recursion takes first, the sum is the same.
LEMMA SumInAnyOrder ==
  ASSUME NEW S, IsFiniteSet(S), NEW f, \A x \in S : f[x] \in Int, NEW g, Sums(g, f, S)
  PROVE  SumsInAnyOrder(g, f, S)
<1> DEFINE pick(s) == CHOOSE x \in s : TRUE
           Good == {s \in SUBSET S : g[s] \in Int /\ \A x \in s : g[s] = f[x] + g[s \ {x}]}
<1>1. \A s \in SUBSET S : s # {} => pick(s) \in s
  OBVIOUS
<1>2. g[{}] = 0 /\ \A s \in SUBSET S : s # {} => g[s] = f[pick(s)] + g[s \ {pick(s)}]
  BY DEF SumStep, Sums
<1> HIDE DEF pick
<1>3. ASSUME NEW s \in SUBSET S, \A r \in SUBSET s : r # s => r \in Good
      PROVE  s \in Good
  <2>1. CASE s = {}
    BY <2>1, <1>2
  <2>2. CASE s # {}
    <3> DEFINE p == pick(s)
    <3>1. p \in s /\ g[s] = f[p] + g[s \ {p}]
      BY <2>2, <1>1, <1>2
    <3> HIDE DEF p
    <3>2. g[s \ {p}] \in Int /\ \A x \in s \ {p} : g[s \ {p}] = f[x] + g[(s \ {p}) \ {x}]
      BY <1>3, <3>1
    <3>3. ASSUME NEW x \in s PROVE g[s] = f[x] + g[s \ {x}]
      <4>1. CASE x = p
        BY <4>1, <3>1
      <4>2. CASE x # p
        <5> DEFINE rest == (s \ {p}) \ {x}
        <5>1. g[s \ {x}] = f[p] + g[rest]
          <6>1. (s \ {x}) \ {p} = rest
            OBVIOUS
          <6>2. g[s \ {x}] = f[p] + g[(s \ {x}) \ {p}]
            BY <1>3, <3>1, <4>2
          <6> QED BY <6>1, <6>2
        <5>2. g[s \ {p}] = f[x] + g[rest]
          BY <3>2, <4>2
        <5>3. g[rest] \in Int
          <6>1. rest \in SUBSET s /\ rest # s
            BY <3>1
          <6> QED BY <6>1, <1>3
        <5>4. f[x] \in Int /\ f[p] \in Int
          BY <3>1
        <5> HIDE DEF rest
        <5> QED BY <3>1, <5>1, <5>2, <5>3, <5>4
      <4> QED BY <4>1, <4>2
    <3>4. g[s] \in Int
      BY <3>1, <3>2
    <3> QED BY <3>3, <3>4
  <2> QED BY <2>1, <2>2
<1>4. SUBSET S \subseteq Good
  <2> HIDE DEF Good
  <2> QED BY <1>3, SubsetInduction
<1> QED BY <1>4 DEF SumsInAnyOrder

\* The sum over nothing, and the sum with one element more.
LEMMA SumOfNothing ==
  ASSUME NEW f, DOMAIN f = {}
  PROVE  SumFunction(f) = 0
<1>1. PICK g : g[{}] = SumFunction(f) /\ Sums(g, f, {})
  BY FS_EmptySet, SumRecursion
<1> QED BY <1>1 DEF SumStep, Sums

\* A sum of integers is one.
LEMMA SumIsInt ==
  ASSUME NEW S, IsFiniteSet(S), NEW f \in [S -> Int]
  PROVE  SumFunction(f) \in Int
<1>1. PICK g : g[S] = SumFunction(f) /\ Sums(g, f, S)
  BY SumRecursion
<1>2. SumsInAnyOrder(g, f, S)
  BY <1>1, SumInAnyOrder
<1> QED BY <1>1, <1>2 DEF SumsInAnyOrder

\* An element more adds its value.
LEMMA SumWithOneMore ==
  ASSUME NEW S, IsFiniteSet(S), NEW x, x \notin S, NEW f \in [S \cup {x} -> Int]
  PROVE  SumFunction(f) = SumFunction([s \in S |-> f[s]]) + f[x]
<1> DEFINE pick(s) == CHOOSE y \in s : TRUE
           e == [s \in S |-> f[s]]
           W == S \cup {x}
<1>1. IsFiniteSet(W)
  BY FS_AddElement
<1>2. PICK g : g[S] = SumFunction(e) /\ Sums(g, e, S)
  <2>1. DOMAIN e = S
    OBVIOUS
  <2> HIDE DEF e
  <2> QED BY <2>1, SumRecursion
<1>3. PICK h : h[W] = SumFunction(f) /\ Sums(h, f, W)
  <2>1. DOMAIN f = W
    OBVIOUS
  <2> HIDE DEF W
  <2> QED BY <2>1, <1>1, SumRecursion
<1>4. e \in [S -> Int]
  OBVIOUS
<1>5. SumsInAnyOrder(g, e, S)
  <2> HIDE DEF e
  <2> QED BY <1>2, <1>4, SumInAnyOrder
<1>6. SumsInAnyOrder(h, f, W)
  <2> HIDE DEF W
  <2>1. \A y \in W : f[y] \in Int
    BY DEF W
  <2> QED BY <1>1, <1>3, <2>1, SumInAnyOrder
<1> DEFINE Same == {s \in SUBSET S : g[s] = h[s]}
<1>7. ASSUME NEW s \in SUBSET S, \A r \in SUBSET s : r # s => r \in Same
      PROVE  s \in Same
  <2>1. CASE s = {}
    <3>1. s \in SUBSET W
      BY <2>1
    <3> QED BY <2>1, <3>1, <1>2, <1>3 DEF SumStep, Sums
  <2>2. CASE s # {}
    <3>1. pick(s) \in s
      BY <2>2
    <3> HIDE DEF pick
    <3>2. s \in SUBSET W /\ e[pick(s)] = f[pick(s)] /\ s \ {pick(s)} \in Same
      BY <3>1, <1>7
    <3>3. g[s] = e[pick(s)] + g[s \ {pick(s)}] /\ h[s] = f[pick(s)] + h[s \ {pick(s)}]
      BY <2>2, <3>2, <1>2, <1>3 DEF SumStep, Sums, pick
    <3> QED BY <3>2, <3>3
  <2> QED BY <2>1, <2>2
<1>8. g[S] = h[S]
  <2>1. SUBSET S \subseteq Same
    <3> HIDE DEF Same
    <3> QED BY <1>7, SubsetInduction
  <2> QED BY <2>1
<1>9. W \ {x} = S /\ x \in W /\ W \in SUBSET W
  OBVIOUS
<1>10. h[W] = f[x] + h[S]
  <2> HIDE DEF W
  <2> QED BY <1>6, <1>9 DEF SumsInAnyOrder
<1>11. f[x] \in Int /\ g[S] \in Int
  BY <1>5 DEF SumsInAnyOrder
<1>12. SumFunction([s \in S |-> f[s]]) = g[S]
  BY <1>2
<1>13. SumFunction(f) = g[S] + f[x]
  <2> HIDE DEF W
  <2> QED BY <1>3, <1>8, <1>10, <1>11
<1> QED BY <1>11, <1>12, <1>13

-----------------------------------------------------------------------------
(***************************************************************************)
(* The fold over the lines of a file, and the lines the scanner delivers.  *)
(***************************************************************************)

\* The largest of the first numbers.
LEMMA MaxOfPrefix == \A n \in Nat : Max(1 .. n + 1) = n + 1
  BY DEF Max

\* c[i] is what has been counted after i lines of text.
CountedBy(c, coll, text) ==
  /\ c[0] = <<>>
  /\ c[Len(text)] = Counts(coll, text)
  /\ \A i \in 1 .. Len(text) : c[i] = CountLine(coll, c[i - 1], text[i])

\* The fold over the lines takes them one by one, from the first to the last: the
\* recursion behind FoldLeft is defined on every prefix of the text.
LEMMA FoldByLine ==
  ASSUME NEW coll, NEW text \in Seq(Seq(STRING))
  PROVE  \E c : CountedBy(c, coll, text)
<1> DEFINE D == DOMAIN text
           Rhs(g, s) == IF s = {} THEN <<>> ELSE CountLine(coll, g[s \ {Max(s)}], text[Max(s)])
           It(g) == [s \in SUBSET D |-> Rhs(g, s)]
           Upto(k) == \E g : /\ g = [s \in SUBSET D |-> g[s]]
                             /\ \A s \in SUBSET D : s \subseteq 1 .. k => g[s] = Rhs(g, s)
           K == {k \in Nat : Upto(k)}
<1>0. D = 1 .. Len(text) /\ Len(text) \in Nat
  OBVIOUS
<1>1. 0 \in K
  <2> DEFINE g == [s \in SUBSET D |-> <<>>]
  <2>1. g = [s \in SUBSET D |-> g[s]]
    OBVIOUS
  <2>2. \A s \in SUBSET D : s \subseteq 1 .. 0 => s = {}
    OBVIOUS
  <2>3. \A s \in SUBSET D : s \subseteq 1 .. 0 => g[s] = Rhs(g, s)
    BY <2>2
  <2>4. Upto(0)
    BY <2>1, <2>3
  <2> QED BY <2>4
<1>2. ASSUME NEW k \in Nat, k \in K PROVE k + 1 \in K
  <2>1. PICK g : /\ g = [s \in SUBSET D |-> g[s]]
                 /\ \A s \in SUBSET D : s \subseteq 1 .. k => g[s] = Rhs(g, s)
    BY <1>2
  <2> DEFINE h == It(g)
  <2>2. h = [s \in SUBSET D |-> h[s]]
    OBVIOUS
  <2>3. ASSUME NEW s \in SUBSET D, s \subseteq 1 .. k + 1 PROVE h[s] = Rhs(h, s)
    <3>1. CASE s = {}
      BY <3>1
    <3>2. CASE s # {}
      <4> DEFINE r == s \ {Max(s)}
      <4>1. r \subseteq 1 .. k /\ r \in SUBSET D
        <5>1. CASE k + 1 \in s
          <6>1. Max(s) = k + 1
            BY <5>1, <2>3, <1>0 DEF Max
          <6> QED BY <6>1, <2>3
        <5>2. CASE k + 1 \notin s
          BY <5>2, <2>3
        <5> QED BY <5>1, <5>2
      <4> HIDE DEF Rhs
      <4>2. h[r] = Rhs(g, r)
        BY <4>1
      <4>3. h[r] = g[r]
        BY <2>1, <4>1, <4>2
      <4> USE DEF Rhs
      <4>4. Rhs(h, s) = Rhs(g, s)
        <5> HIDE DEF h
        <5> QED BY <4>3, <3>2
      <4> QED BY <4>4
    <3> QED BY <3>1, <3>2
  <2>4. Upto(k + 1)
    <3> HIDE DEF h, Rhs
    <3> QED BY <2>2, <2>3
  <2> HIDE DEF Upto
  <2> QED BY <2>4
<1>3. Upto(Len(text))
  <2> HIDE DEF Upto
  <2>1. Nat \subseteq K
    <3> HIDE DEF K
    <3> QED BY <1>1, <1>2, NatSetInduction
  <2> QED BY <2>1, <1>0
<1> DEFINE it == CHOOSE g : g = It(g)
<1>4. it = It(it)
  <2>1. PICK g : /\ g = [s \in SUBSET D |-> g[s]]
                 /\ \A s \in SUBSET D : s \subseteq 1 .. Len(text) => g[s] = Rhs(g, s)
    BY <1>3
  <2>2. \A s \in SUBSET D : g[s] = Rhs(g, s)
    BY <2>1, <1>0
  <2>3. g = It(g)
    <3> HIDE DEF Rhs
    <3> QED BY <2>1, <2>2, Zenon
  <2> HIDE DEF It
  <2> QED BY <2>3
<1> DEFINE total == FoldLeft(LAMBDA counts, line : CountLine(coll, counts, line), <<>>, text)
<1>5. total = it[D]
  BY Zenon DEF FoldLeft, MapThenFoldSet
<1> HIDE DEF it, total
<1> DEFINE c == [i \in 0 .. Len(text) |-> it[1 .. i]]
<1>6. c[0] = <<>>
  <2>1. 1 .. 0 = {} /\ {} \in SUBSET D /\ 0 \in 0 .. Len(text)
    BY <1>0
  <2> QED BY <2>1, <1>4
<1>7. c[Len(text)] = total
  BY <1>0, <1>5
<1>8. ASSUME NEW i \in 1 .. Len(text) PROVE c[i] = CountLine(coll, c[i - 1], text[i])
  <2>1. 1 .. i \in SUBSET D /\ 1 .. i # {} /\ i \in 0 .. Len(text) /\ i - 1 \in 0 .. Len(text)
    <3>1. i \in 1 .. i /\ 1 .. i \subseteq 1 .. Len(text)
      OBVIOUS
    <3>2. i \in 0 .. Len(text) /\ i - 1 \in 0 .. Len(text)
      BY <1>0
    <3> QED BY <1>0, <3>1, <3>2
  <2>2. Max(1 .. i) = i /\ (1 .. i) \ {i} = 1 .. i - 1
    <3>1. i = (i - 1) + 1 /\ i - 1 \in Nat
      OBVIOUS
    <3>2. Max(1 .. i) = i
      BY <3>1, MaxOfPrefix
    <3> QED BY <3>2
  <2>3. it[1 .. i] = Rhs(it, 1 .. i)
    <3> HIDE DEF Rhs
    <3> QED BY <2>1, <1>4
  <2>4. it[1 .. i] = CountLine(coll, it[1 .. i - 1], text[i])
    BY <2>1, <2>2, <2>3
  <2> QED BY <2>1, <2>4
<1> QED
  <2>1. c[0] = <<>> /\ c[Len(text)] = total /\ \A i \in 1 .. Len(text) : c[i] = CountLine(coll, c[i - 1], text[i])
    BY <1>6, <1>7, <1>8
  <2> HIDE DEF c
  <2>2. total = Counts(coll, text)
    BY Zenon DEF total, Counts
  <2> HIDE DEF total
  <2> QED BY <2>1, <2>2 DEF CountedBy

\* The least element of a set of numbers.
LEMMA MinIsLeast ==
  ASSUME NEW I \in SUBSET Nat, I # {}
  PROVE  Min(I) \in I /\ \A i \in I : Min(I) <= i
<1> DEFINE R == OpToRel(<, Nat)
<1>1. IsWellFoundedOn(R, Nat)
  BY NatLessThanWellFounded
<1>2. \A i, j \in Nat : i < j => <<i, j>> \in R
  BY DEF OpToRel
<1> HIDE DEF R
<1>3. PICK n \in I : \A m \in I : ~(<<m, n>> \in R)
  BY <1>1, WFMin
<1>4. ASSUME NEW m \in I PROVE n <= m
  <2>1. m \in Nat /\ n \in Nat
    OBVIOUS
  <2>2. ~(m < n)
    BY <1>2, <1>3, <2>1
  <2> QED BY <2>1, <2>2
<1> QED BY <1>4 DEF Min

\* The lines before the first that is too long.
LEMMA ScannedIsPrefix ==
  ASSUME lines \in Seq(Seq(STRING))
  PROVE  /\ AggregateLog(lines) \in Seq(Seq(STRING))
         /\ Len(AggregateLog(lines)) <= Len(lines)
         /\ Scanned = 1 .. Len(AggregateLog(lines))
         /\ \A i \in Scanned : AggregateLog(lines)[i] = lines[i]
<1> DEFINE I == {i \in 1 .. Len(lines) : lines[i] = TooLong}
           end == IF I # {} THEN Min(I) ELSE 0
<1>1. AggregateLog(lines) = IF end = 0 THEN lines ELSE SubSeq(lines, 1, end - 1)
  <2>1. SelectInSeq(lines, LAMBDA line : line = TooLong) = end
    BY Zenon DEF SelectInSeq
  <2> HIDE DEF end
  <2> QED BY <2>1, Zenon DEF AggregateLog
<1>2. CASE I = {}
  <2>1. AggregateLog(lines) = lines
    BY <1>1, <1>2
  <2>2. Scanned = 1 .. Len(lines)
    <3>1. \A i \in 1 .. Len(lines) : lines[i] # TooLong
      BY <1>2
    <3>2. DOMAIN lines = 1 .. Len(lines) /\ \A i \in 1 .. Len(lines) : 1 .. i \subseteq 1 .. Len(lines)
      OBVIOUS
    <3> QED BY <3>1, <3>2 DEF Scanned
  <2> QED BY <2>1, <2>2
<1>3. CASE I # {}
  <2>1. end \in I /\ \A i \in I : end <= i
    <3>1. I \in SUBSET Nat
      OBVIOUS
    <3>2. end = Min(I)
      BY <1>3
    <3> HIDE DEF I, end
    <3> QED BY <1>3, <3>1, <3>2, MinIsLeast
  <2> HIDE DEF end
  <2>2. end \in 1 .. Len(lines) /\ lines[end] = TooLong
    BY <2>1
  <2>3. AggregateLog(lines) = SubSeq(lines, 1, end - 1)
    BY <1>1, <2>2
  <2>4. Scanned = 1 .. end - 1
    BY <2>1, <2>2 DEF Scanned
  <2> QED BY <2>2, <2>3, <2>4
<1> QED BY <1>2, <1>3

-----------------------------------------------------------------------------
\* The records of an id among the first i lines, and those of a type.
UpTo(id, i) == {j \in Records(id) : j <= i}
TypeUpTo(id, key, i) == {j \in UpTo(id, i) : lines[j][2] = key}

\* What has been counted for an id after i lines.
Amounts(fields, id, i) ==
  IF log \in SpendLogs
    THEN /\ Get(fields, SPEND) = Total(UpTo(id, i), 2)
         /\ Get(fields, "imps") = Cardinality(UpTo(id, i))
    ELSE \A key :
           Get(fields, key) = Cardinality(TypeUpTo(id, key, i))
                              + IF key = SPEND THEN Total(TypeUpTo(id, WINS, i), 3) ELSE 0

Tally(counts, i) ==
  /\ \A id : id \in DOMAIN counts <=> UpTo(id, i) # {}
  /\ \A id \in DOMAIN counts : Amounts(counts[id], id, i)

\* Adding to a field.
LEMMA GetPlus ==
  ASSUME NEW f, NEW key, NEW n, NEW k
  PROVE  Get(Plus(f, key, n), k) = IF k = key THEN Get(f, key) + n ELSE Get(f, k)
BY DEF Get, Plus, Put

\* Nothing is in no field.
LEMMA GetNothing == \A key : Get(<<>>, key) = 0
BY DEF Get

\* Totals are numbers, and grow by each record.
LEMMA TotalIsInt ==
  ASSUME NEW S, IsFiniteSet(S), NEW field, \A j \in S : Price[lines[j][field]] \in Int
  PROVE  Total(S, field) \in Int
<1> DEFINE f == [j \in S |-> Price[lines[j][field]]]
<1>1. f \in [S -> Int]
  OBVIOUS
<1> HIDE DEF f
<1>2. SumFunction(f) \in Int
  BY <1>1, SumIsInt
<1> QED BY <1>2 DEF Total, f

\* One record more adds its price.
LEMMA TotalWithOneMore ==
  ASSUME NEW S, IsFiniteSet(S), NEW i, i \notin S, NEW field,
         \A j \in S \cup {i} : Price[lines[j][field]] \in Int
  PROVE  Total(S \cup {i}, field) = Total(S, field) + Price[lines[i][field]]
<1> DEFINE f == [j \in S \cup {i} |-> Price[lines[j][field]]]
<1>1. f \in [S \cup {i} -> Int]
  OBVIOUS
<1>2. [s \in S |-> f[s]] = [j \in S |-> Price[lines[j][field]]] /\ f[i] = Price[lines[i][field]]
  OBVIOUS
<1>3. SumFunction(f) = SumFunction([s \in S |-> f[s]]) + f[i]
  <2> HIDE DEF f
  <2> QED BY <1>1, SumWithOneMore
<1>4. Total(S, field) = SumFunction([s \in S |-> f[s]]) /\ Total(S \cup {i}, field) = SumFunction(f)
  BY <1>2 DEF Total
<1> QED BY <1>2, <1>3, <1>4

\* No records come to nothing.
LEMMA TotalOfNothing == \A field : Total({}, field) = 0
BY SumOfNothing DEF Total

\* What line i does to the sets of records.
LEMMA RecordsWithOneMore ==
  ASSUME lines \in Seq(Seq(STRING)), NEW id, NEW i \in Nat \ {0}
  PROVE  /\ UpTo(id, i) = IF i \in Records(id) THEN UpTo(id, i - 1) \cup {i} ELSE UpTo(id, i - 1)
         /\ i \notin UpTo(id, i - 1)
         /\ IsFiniteSet(UpTo(id, i - 1))
         /\ UpTo(id, i - 1) \subseteq Records(id)
         /\ Cardinality(UpTo(id, i - 1)) \in Nat
         /\ Cardinality(UpTo(id, i - 1) \cup {i}) = Cardinality(UpTo(id, i - 1)) + 1
<1>1. Records(id) \subseteq Nat \ {0}
  BY DEF Records, Scanned
<1>2. UpTo(id, i) = IF i \in Records(id) THEN UpTo(id, i - 1) \cup {i} ELSE UpTo(id, i - 1)
  BY <1>1 DEF UpTo
<1>3. i \notin UpTo(id, i - 1) /\ UpTo(id, i - 1) \subseteq Records(id)
  BY DEF UpTo
<1>4. IsFiniteSet(UpTo(id, i - 1))
  <2>1. UpTo(id, i - 1) \in SUBSET (1 .. i - 1)
    BY <1>1 DEF UpTo
  <2>2. IsFiniteSet(1 .. i - 1)
    BY FS_Interval
  <2> QED BY <2>1, <2>2, FS_Subset
<1>5. Cardinality(UpTo(id, i - 1)) \in Nat
  BY <1>4, FS_CardinalityType
<1>6. Cardinality(UpTo(id, i - 1) \cup {i}) = Cardinality(UpTo(id, i - 1)) + 1
  BY <1>3, <1>4, FS_AddElement
<1> QED BY <1>2, <1>3, <1>4, <1>5, <1>6

\* Which records line i is one of.
LEMMA OneRecord ==
  ASSUME lines \in Seq(Seq(STRING)), NEW i \in Scanned, NEW id
  PROVE  i \in Records(id) <=>
           /\ Len(lines[i]) >= 2
           /\ lines[i][1] = id
           /\ IF log \in SpendLogs THEN lines[i][2] \in DOMAIN Price ELSE WholeRecord(lines[i])
BY DEF Records, WholeRecord

\* A line of the advertiser's or campaign's log keeps the tally.
LEMMA SpendTally ==
  ASSUME lines \in Seq(Seq(STRING)), log \in SpendLogs,
         NEW i \in Scanned, NEW counts, Tally(counts, i - 1)
  PROVE  Tally(AddSpend(counts, lines[i]), i)
<1> DEFINE line == lines[i]
           me == line[1]
           old == IF me \in DOMAIN counts THEN counts[me] ELSE <<>>
           new == Plus(Plus(old, SPEND, Price[line[2]]), "imps", 1)
<1>1. i \in Nat \ {0} /\ line \in Seq(STRING)
  BY DEF Scanned
<1>2. CASE Len(line) < 2 \/ line[2] \notin DOMAIN Price
  <2>1. \A id : i \notin Records(id)
    BY <1>1, <1>2, OneRecord
  <2>2. \A id : UpTo(id, i) = UpTo(id, i - 1)
    BY <1>1, <2>1, RecordsWithOneMore
  <2>3. AddSpend(counts, line) = counts
    BY <1>2 DEF AddSpend
  <2>4. Tally(counts, i)
    BY <2>2 DEF Tally, Amounts
  <2> QED BY <2>3, <2>4
<1>3. CASE ~(Len(line) < 2 \/ line[2] \notin DOMAIN Price)
  <2>1. AddSpend(counts, line) = Put(counts, me, new)
    BY <1>3 DEF AddSpend
  <2>2. Len(line) >= 2 /\ line[2] \in DOMAIN Price
    BY <1>1, <1>3
  <2>3. \A id : i \in Records(id) <=> id = me
    BY <2>2, OneRecord
  <2> HIDE DEF me
  <2>4. \A id : id # me => UpTo(id, i) = UpTo(id, i - 1)
    BY <1>1, <2>3, RecordsWithOneMore
  <2>5. /\ UpTo(me, i) = UpTo(me, i - 1) \cup {i}
        /\ i \notin UpTo(me, i - 1)
        /\ IsFiniteSet(UpTo(me, i - 1))
        /\ Cardinality(UpTo(me, i)) = Cardinality(UpTo(me, i - 1)) + 1
    <3>1. i \in Records(me)
      BY <2>3
    <3> QED BY <1>1, <3>1, RecordsWithOneMore
  <2>6. \A id : id \in DOMAIN Put(counts, me, new) <=> UpTo(id, i) # {}
    BY <2>2, <2>4, <2>5 DEF Put, Tally
  <2>7. /\ Get(old, SPEND) = Total(UpTo(me, i - 1), 2)
        /\ Get(old, "imps") = Cardinality(UpTo(me, i - 1))
    <3>1. CASE me \in DOMAIN counts
      BY <3>1 DEF Tally, Amounts
    <3>2. CASE me \notin DOMAIN counts
      <4>1. UpTo(me, i - 1) = {}
        BY <2>2, <3>2 DEF Tally
      <4>2. old = <<>>
        BY <3>2
      <4> HIDE DEF old
      <4> QED BY <4>1, <4>2, GetNothing, TotalOfNothing, FS_EmptySet
    <3> QED BY <3>1, <3>2
  <2>8. Total(UpTo(me, i), 2) = Total(UpTo(me, i - 1), 2) + Price[line[2]]
    <3>1. \A j \in Records(me) : Price[lines[j][2]] \in Int
      BY LogRunAssumption DEF Records
    <3>2. UpTo(me, i - 1) \cup {i} \subseteq Records(me)
      BY <2>3 DEF UpTo
    <3> DEFINE S == UpTo(me, i - 1)
    <3>3. IsFiniteSet(S) /\ i \notin S /\ \A j \in S \cup {i} : Price[lines[j][2]] \in Int
      BY <2>5, <3>1, <3>2
    <3> HIDE DEF S
    <3>4. Total(S \cup {i}, 2) = Total(S, 2) + Price[lines[i][2]]
      BY <3>3, TotalWithOneMore
    <3> QED BY <2>5, <3>4 DEF S
  <2>10. Get(new, SPEND) = Get(old, SPEND) + Price[line[2]] /\ Get(new, "imps") = Get(old, "imps") + 1
    <3> HIDE DEF old
    <3> QED BY GetPlus DEF SPEND
  <2>11. Amounts(new, me, i)
    <3> HIDE DEF old, new
    <3> QED BY <2>5, <2>7, <2>8, <2>10 DEF Amounts
  <2>12. ASSUME NEW id \in DOMAIN Put(counts, me, new)
         PROVE  Amounts(Put(counts, me, new)[id], id, i)
    <3> HIDE DEF old, new
    <3>1. CASE id = me
      BY <3>1, <2>11 DEF Put
    <3>2. CASE id # me
      <4>1. id \in DOMAIN counts /\ Put(counts, me, new)[id] = counts[id]
        BY <3>2, <2>12 DEF Put
      <4>2. Amounts(counts[id], id, i - 1)
        BY <4>1 DEF Tally
      <4> QED BY <3>2, <4>1, <4>2, <2>4 DEF Amounts
    <3> QED BY <3>1, <3>2
  <2> HIDE DEF new
  <2> QED BY <2>1, <2>6, <2>12 DEF Tally
<1> QED BY <1>2, <1>3

\* A line of the other logs keeps the tally.
LEMMA TypeTally ==
  ASSUME lines \in Seq(Seq(STRING)), log \notin SpendLogs,
         NEW i \in Scanned, NEW counts, Tally(counts, i - 1)
  PROVE  Tally(makeAggregator(counts, lines[i]), i)
<1> DEFINE line == lines[i]
           me == line[1]
           type == line[2]
           old == IF me \in DOMAIN counts THEN counts[me] ELSE <<>>
           paid == IF type = WINS THEN Plus(old, SPEND, Price[line[3]]) ELSE old
           new == Plus(paid, type, 1)
<1>1. i \in Nat \ {0} /\ line \in Seq(STRING)
  BY DEF Scanned
<1>2. CASE ~WholeRecord(line)
  <2>1. \A id : i \notin Records(id)
    BY <1>1, <1>2, OneRecord
  <2>2. \A id : UpTo(id, i) = UpTo(id, i - 1)
    BY <1>1, <2>1, RecordsWithOneMore
  <2>3. makeAggregator(counts, line) = counts
    BY <1>2 DEF makeAggregator
  <2>4. Tally(counts, i)
    BY <2>2 DEF Tally, Amounts, TypeUpTo
  <2> QED BY <2>3, <2>4
<1>3. CASE WholeRecord(line)
  <2>1. makeAggregator(counts, line) = Put(counts, me, new)
    BY <1>3 DEF makeAggregator
  <2>2. /\ Len(line) >= 2
        /\ type = WINS => Price[line[3]] \in Int
    BY <1>1, <1>3, LogRunAssumption DEF WholeRecord
  <2>3. \A id : i \in Records(id) <=> id = me
    BY <1>3, <2>2, OneRecord
  <2> HIDE DEF me
  <2>4. \A id : id # me => UpTo(id, i) = UpTo(id, i - 1)
    BY <1>1, <2>3, RecordsWithOneMore
  <2>5. /\ UpTo(me, i) = UpTo(me, i - 1) \cup {i}
        /\ i \notin UpTo(me, i - 1)
        /\ IsFiniteSet(UpTo(me, i - 1))
    <3>1. i \in Records(me)
      BY <2>3
    <3> QED BY <1>1, <3>1, RecordsWithOneMore
  <2>6. \A id : id \in DOMAIN Put(counts, me, new) <=> UpTo(id, i) # {}
    BY <2>2, <2>4, <2>5 DEF Put, Tally
  <2> DEFINE paidFor == Total(TypeUpTo(me, WINS, i - 1), 3)
  <2>7. ASSUME NEW key
        PROVE  Get(old, key) = Cardinality(TypeUpTo(me, key, i - 1)) + IF key = SPEND THEN paidFor ELSE 0
    <3>1. CASE me \in DOMAIN counts
      BY <3>1 DEF Tally, Amounts
    <3>2. CASE me \notin DOMAIN counts
      <4>1. UpTo(me, i - 1) = {}
        BY <2>2, <3>2 DEF Tally
      <4>2. \A k : TypeUpTo(me, k, i - 1) = {}
        BY <4>1 DEF TypeUpTo
      <4>3. Get(old, key) = 0
        <5>1. old = <<>>
          BY <3>2
        <5> HIDE DEF old
        <5> QED BY <5>1, GetNothing
      <4>4. Cardinality(TypeUpTo(me, key, i - 1)) = 0
        BY <4>2, FS_EmptySet
      <4>5. paidFor = 0
        BY <4>2, TotalOfNothing
      <4> HIDE DEF old, paidFor
      <4> QED BY <4>3, <4>4, <4>5
    <3> QED BY <3>1, <3>2
  <2>8. ASSUME NEW key
        PROVE  /\ IsFiniteSet(TypeUpTo(me, key, i - 1))
               /\ i \notin TypeUpTo(me, key, i - 1)
               /\ Cardinality(TypeUpTo(me, key, i - 1)) \in Nat
               /\ TypeUpTo(me, key, i) = IF key = type THEN TypeUpTo(me, key, i - 1) \cup {i}
                                         ELSE TypeUpTo(me, key, i - 1)
    <3>1. TypeUpTo(me, key, i - 1) \in SUBSET UpTo(me, i - 1)
      BY DEF TypeUpTo
    <3>2. IsFiniteSet(TypeUpTo(me, key, i - 1))
      BY <2>5, <3>1, FS_Subset
    <3> QED BY <2>5, <3>1, <3>2, FS_CardinalityType DEF TypeUpTo
  <2>9. ASSUME NEW key
        PROVE  Cardinality(TypeUpTo(me, key, i))
                 = Cardinality(TypeUpTo(me, key, i - 1)) + IF key = type THEN 1 ELSE 0
    <3> DEFINE S == TypeUpTo(me, key, i - 1)
    <3>1. IsFiniteSet(S) /\ i \notin S
      BY <2>8
    <3>2. Cardinality(S \cup {i}) = Cardinality(S) + 1
      <4> HIDE DEF S
      <4> QED BY <3>1, FS_AddElement
    <3>3. Cardinality(S) \in Nat
      BY <2>8
    <3>4. TypeUpTo(me, key, i) = IF key = type THEN S \cup {i} ELSE S
      BY <2>8
    <3> HIDE DEF type, me
    <3>5. Cardinality(TypeUpTo(me, key, i)) = Cardinality(S) + IF key = type THEN 1 ELSE 0
      <4> HIDE DEF S
      <4> QED BY <3>2, <3>3, <3>4
    <3> QED BY <3>5
  <2>10. /\ paidFor \in Int
         /\ Total(TypeUpTo(me, WINS, i), 3)
              = IF type = WINS THEN paidFor + Price[line[3]] ELSE paidFor
    <3> DEFINE S == TypeUpTo(me, WINS, i - 1)
    <3>1. IsFiniteSet(S) /\ i \notin S /\ \A j \in S : Price[lines[j][3]] \in Int
      BY <2>8, LogRunAssumption DEF TypeUpTo, UpTo, Records
    <3>2. paidFor \in Int
      <4> HIDE DEF S
      <4>1. Total(S, 3) \in Int
        BY <3>1, TotalIsInt
      <4> QED BY <4>1 DEF S
    <3>3. CASE type = WINS
      <4>1. \A j \in S \cup {i} : Price[lines[j][3]] \in Int
        BY <3>1, <3>3, <2>2
      <4>2. TypeUpTo(me, WINS, i) = S \cup {i}
        BY <2>8, <3>3
      <4> HIDE DEF S
      <4>3. Total(S \cup {i}, 3) = Total(S, 3) + Price[lines[i][3]]
        BY <3>1, <4>1, TotalWithOneMore
      <4> QED BY <4>2, <4>3, <3>2, <3>3 DEF S
    <3>4. CASE type # WINS
      <4>1. TypeUpTo(me, WINS, i) = TypeUpTo(me, WINS, i - 1)
        BY <2>8, <3>4
      <4>2. Total(TypeUpTo(me, WINS, i), 3) = paidFor
        BY <4>1
      <4> HIDE DEF type, paidFor
      <4> QED BY <4>2, <3>2, <3>4
    <3> QED BY <3>2, <3>3, <3>4
  <2>11. ASSUME NEW key
         PROVE  Get(new, key) = Cardinality(TypeUpTo(me, key, i))
                                + IF key = SPEND THEN Total(TypeUpTo(me, WINS, i), 3) ELSE 0
    <3> DEFINE one == IF key = type THEN 1 ELSE 0
               price == Price[line[3]]
               more == IF key = SPEND /\ type = WINS THEN price ELSE 0
               had == Cardinality(TypeUpTo(me, key, i - 1))
               was == Get(old, key)
               total == Total(TypeUpTo(me, WINS, i), 3)
    <3>1. was = had + IF key = SPEND THEN paidFor ELSE 0
      BY <2>7
    <3>2. had \in Nat /\ paidFor \in Int /\ (type = WINS => price \in Int)
      BY <2>2, <2>8, <2>10
    <3>3. Cardinality(TypeUpTo(me, key, i)) = had + one
      BY <2>9
    <3>4. total = IF type = WINS THEN paidFor + price ELSE paidFor
      BY <2>10
    <3>5. one \in Nat /\ more \in Int /\ was \in Int
      <4> HIDE DEF had, was, paidFor, price, type
      <4> QED BY <3>1, <3>2
    <3>6. Get(paid, key) = was + more
      <4>1. CASE type = WINS /\ key = SPEND
        <5>1. paid = Plus(old, SPEND, price)
          BY <4>1
        <5>2. more = price
          BY <4>1
        <5> HIDE DEF paid, price, more, old
        <5> QED BY <4>1, <5>1, <5>2, GetPlus
      <4>2. CASE ~(type = WINS /\ key = SPEND)
        <5>1. more = 0
          BY <4>2
        <5>2. paid = Plus(old, SPEND, price) \/ paid = old
          OBVIOUS
        <5>3. Get(paid, key) = was
          <6>1. CASE type = WINS
            <7>1. paid = Plus(old, SPEND, price) /\ key # SPEND
              BY <4>2, <6>1
            <7> HIDE DEF paid, price, old
            <7> QED BY <7>1, GetPlus
          <6>2. CASE type # WINS
            BY <6>2
          <6> QED BY <6>1, <6>2
        <5> HIDE DEF paid, more, was
        <5> QED BY <5>1, <5>3, <3>5
      <4> QED BY <4>1, <4>2
    <3>7. Get(new, key) = Get(paid, key) + one
      <4>1. CASE key = type
        <5>1. one = 1
          BY <4>1
        <5> HIDE DEF paid, type, one
        <5> QED BY <4>1, <5>1, GetPlus
      <4>2. CASE key # type
        <5>1. one = 0
          BY <4>2
        <5>2. Get(new, key) = Get(paid, key)
          <6> HIDE DEF paid, type
          <6> QED BY <4>2, GetPlus
        <5>3. Get(paid, key) \in Int
          <6> HIDE DEF paid, was, more
          <6> QED BY <3>5, <3>6
        <5> HIDE DEF new, paid, one
        <5> QED BY <5>1, <5>2, <5>3
      <4> QED BY <4>1, <4>2
    <3>8. Get(new, key) = (had + one) + IF key = SPEND THEN total ELSE 0
      <4> HIDE DEF new, paid, one, was, had, paidFor, total, price, type
      <4> QED BY <3>1, <3>2, <3>4, <3>5, <3>6, <3>7
    <3> HIDE DEF new, had, one, me, type
    <3> QED BY <3>3, <3>8
  <2>12. Amounts(new, me, i)
    <3> HIDE DEF new
    <3> QED BY <2>11 DEF Amounts
  <2>13. ASSUME NEW id \in DOMAIN Put(counts, me, new)
         PROVE  Amounts(Put(counts, me, new)[id], id, i)
    <3> HIDE DEF new
    <3>1. CASE id = me
      BY <3>1, <2>12 DEF Put
    <3>2. CASE id # me
      <4>1. id \in DOMAIN counts /\ Put(counts, me, new)[id] = counts[id]
        BY <3>2, <2>13 DEF Put
      <4>2. Amounts(counts[id], id, i - 1)
        BY <4>1 DEF Tally
      <4> QED BY <3>2, <4>1, <4>2, <2>4 DEF Amounts, TypeUpTo
    <3> QED BY <3>1, <3>2
  <2> HIDE DEF new
  <2> QED BY <2>1, <2>6, <2>13 DEF Tally
<1> QED BY <1>2, <1>3

\* After all the lines, the tally is that of the file.
LEMMA CountsTally ==
  ASSUME lines \in Seq(Seq(STRING))
  PROVE  Tally(Counts(log, AggregateLog(lines)), Len(AggregateLog(lines)))
<1> DEFINE text == AggregateLog(lines)
           counted == Counts(log, text)
<1>1. /\ text \in Seq(Seq(STRING)) /\ Scanned = 1 .. Len(text)
      /\ \A i \in Scanned : text[i] = lines[i]
  BY ScannedIsPrefix
<1> HIDE DEF text
<1>3. PICK c : CountedBy(c, log, text)
  BY <1>1, FoldByLine
<1>4. /\ c[0] = <<>>
      /\ c[Len(text)] = counted
      /\ \A i \in 1 .. Len(text) : c[i] = CountLine(log, c[i - 1], text[i])
  BY <1>3 DEF CountedBy
<1> DEFINE I == {i \in Nat : i <= Len(text) => Tally(c[i], i)}
<1>5. 0 \in I
  <2>1. \A id : Records(id) \subseteq Nat \ {0}
    BY <1>1 DEF Records
  <2>2. \A id : UpTo(id, 0) = {}
    BY <2>1 DEF UpTo
  <2>3. Tally(c[0], 0)
    BY <1>4, <2>2 DEF Tally
  <2> QED BY <2>3
<1>6. ASSUME NEW n \in Nat, n \in I PROVE n + 1 \in I
  <2>1. SUFFICES ASSUME n + 1 <= Len(text) PROVE Tally(c[n + 1], n + 1)
    OBVIOUS
  <2>2. n + 1 \in Scanned /\ n + 1 \in 1 .. Len(text) /\ (n + 1) - 1 = n
    BY <1>1, <2>1
  <2>3. Tally(c[n], n)
    BY <1>1, <1>6, <2>1
  <2>4. c[n + 1] = CountLine(log, c[n], lines[n + 1])
    BY <1>1, <1>4, <2>2
  <2> DEFINE i == n + 1
  <2>5. i \in Scanned /\ i - 1 = n
    BY <2>2
  <2> HIDE DEF i
  <2>6. Tally(CountLine(log, c[n], lines[i]), i)
    <3>1. CASE log \in SpendLogs
      BY <2>3, <2>5, <3>1, SpendTally DEF CountLine
    <3>2. CASE log \notin SpendLogs
      BY <2>3, <2>5, <3>2, TypeTally DEF CountLine
    <3> QED BY <3>1, <3>2
  <2> QED BY <2>4, <2>6 DEF i
<1>7. Tally(c[Len(text)], Len(text))
  <2>1. Nat \subseteq I
    <3> HIDE DEF I
    <3> QED BY <1>5, <1>6, NatSetInduction
  <2>2. Len(text) \in Nat
    BY <1>1
  <2> QED BY <2>1, <2>2
<1> QED BY <1>4, <1>7 DEF text, counted

\* What a log function has counted when it has read its file: the ids that have a
\* complete record, and for each of them the increments that are due.
Counted(counts) ==
  /\ \A id : id \in DOMAIN counts <=> Records(id) # {}
  /\ \A id \in DOMAIN counts : Increments(counts[id]) = Due(id)

\* AggregateLog and the log's function leave just that, whatever the file.
LEMMA FileCounted ==
  ASSUME lines \in Seq(Seq(STRING)), log \in Logs
  PROVE  Counted(Counts(log, AggregateLog(lines)))
<1> DEFINE counts == Counts(log, AggregateLog(lines))
           n == Len(AggregateLog(lines))
<1>1. Tally(counts, n)
  BY CountsTally
<1>2. \A id : UpTo(id, n) = Records(id)
  <2>1. n \in Nat /\ Scanned = 1 .. n
    BY ScannedIsPrefix
  <2>2. \A id : Records(id) \subseteq Scanned
    BY DEF Records
  <2> HIDE DEF n
  <2> QED BY <2>1, <2>2 DEF UpTo
<1>3. \A id, key : TypeUpTo(id, key, n) = OfType(id, key)
  BY <1>2 DEF TypeUpTo, OfType
<1> HIDE DEF counts, n
<1>4. ASSUME NEW id \in DOMAIN counts PROVE Increments(counts[id]) = Due(id)
  <2>1. Amounts(counts[id], id, n)
    BY <1>1 DEF Tally
  <2> DEFINE fields == counts[id]
  <2>2. CASE log = AdvertiserColl
    <3>1. Get(fields, SPEND) = Total(Records(id), 2)
      BY <2>1, <2>2, <1>2 DEF Amounts, SpendLogs
    <3>2. Increments(fields) = [funds |-> -Get(fields, SPEND)]
      BY <2>2 DEF Increments, AdvertiserInc, AdvertiserColl, CampaignColl
    <3>3. Due(id) = [funds |-> -Total(Records(id), 2)]
      BY <2>2 DEF Due, AdvertiserColl, CampaignColl
    <3> HIDE DEF fields
    <3> QED BY <3>1, <3>2, <3>3 DEF fields
  <2>3. CASE log = CampaignColl
    <3>1. Get(fields, SPEND) = Total(Records(id), 2) /\ Get(fields, "imps") = Cardinality(Records(id))
      BY <2>1, <2>3, <1>2 DEF Amounts, SpendLogs
    <3>2. Increments(fields) = [spend |-> Get(fields, SPEND), imps |-> Get(fields, "imps")]
      BY <2>3 DEF Increments, CampaignInc, AdvertiserColl, CampaignColl
    <3>3. Due(id) = [spend |-> Total(Records(id), 2), imps |-> Cardinality(Records(id))]
      BY <2>3 DEF Due, AdvertiserColl, CampaignColl
    <3> HIDE DEF fields
    <3> QED BY <3>1, <3>2, <3>3 DEF fields
  <2>4. CASE log \notin SpendLogs
    <3> DEFINE Keys == {WINS, CLIENT_SIDE_LOAD, BIDS, CLICKS, SPEND}
               Amount(key) == Cardinality(OfType(id, key))
                              + IF key = SPEND THEN Total(OfType(id, WINS), 3) ELSE 0
    <3>1. \A key : Get(fields, key) = Amount(key)
      BY <2>1, <2>4, <1>3 DEF Amounts
    <3>2. Increments(fields) = [key \in Keys |-> Get(fields, key)]
      BY <2>4 DEF Increments, DetailsInc, SpendLogs
    <3>3. Due(id) = [key \in Keys |-> Amount(key)]
      BY <2>4 DEF Due, SpendLogs
    <3> HIDE DEF Amount, Keys, fields
    <3>4. Increments(fields) = Due(id)
      BY <3>1, <3>2, <3>3
    <3> QED BY <3>4 DEF fields
  <2> QED BY <2>2, <2>3, <2>4 DEF SpendLogs
<1>5. \A id : id \in DOMAIN counts <=> Records(id) # {}
  BY <1>1, <1>2 DEF Tally
<1> QED BY <1>4, <1>5 DEF Counted, counts

-----------------------------------------------------------------------------
(***************************************************************************)
(* Glob: the static files of a log in the order of their times.            *)
(***************************************************************************)

\* LogOrder has every collection.
LEMMA TheLogs == Logs = {TdColl, LocColl, DeviceColl, AdvertiserColl, CampaignColl}
<1>1. LogOrder \in [1 .. 5 -> {TdColl, LocColl, DeviceColl, AdvertiserColl, CampaignColl}] /\ DOMAIN LogOrder = 1 .. 5
  BY DEF LogOrder
<1>2. /\ LogOrder[1] = AdvertiserColl /\ LogOrder[2] = DeviceColl /\ LogOrder[3] = LocColl
      /\ LogOrder[4] = CampaignColl /\ LogOrder[5] = TdColl
  BY DEF LogOrder
<1>3. Range(LogOrder) = {LogOrder[i] : i \in 1 .. 5}
  BY <1>1 DEF Range
<1>4. 1 .. 5 = {1, 2, 3, 4, 5}
  OBVIOUS
<1> QED BY <1>2, <1>3, <1>4 DEF Logs

\* The static files of a log.
StaticFiles(coll) == {name \in AssetNames : Match(coll, name)}

\* The rotations from first to last are static files between the two.
LEMMA RotatedBetween ==
  ASSUME NEW coll \in Logs, NEW first \in Nat, NEW last \in Nat, first <= last
  PROVE  \A name \in Rotated(coll, first, last) : name = Static(coll, name.at) /\ name.at \in first .. last
<1>1. SUFFICES ASSUME NEW i \in 0 .. (last - first) \div LogRotation[coll]
               PROVE  first + i * LogRotation[coll] \in first .. last
  BY DEF Rotated, Static
<1>2. LogRotation[coll] \in {10, 60, 300}
  BY DEF LogRotation
<1>3. CASE LogRotation[coll] = 10
  BY <1>3, SMT
<1>4. CASE LogRotation[coll] = 60
  BY <1>4, SMT
<1>5. CASE LogRotation[coll] = 300
  BY <1>5, SMT
<1> QED BY <1>2, <1>3, <1>4, <1>5

\* The end of the day of all rotations.
Midnight == At(24, 0, 0)

\* The times of the tables are times of that day, and in order.
LEMMA RotationTimes ==
  /\ Midnight \in Nat
  /\ At(21, 42, 30) \in 1 .. Midnight /\ At(21, 44, 10) \in 1 .. Midnight
  /\ At(21, 41, 20) \in 1 .. Midnight /\ At(21, 46, 0) \in 1 .. Midnight
  /\ At(8, 1, 25) \in 1 .. Midnight /\ At(21, 36, 25) \in 1 .. Midnight
  /\ At(6, 6, 25) \in 1 .. Midnight /\ At(13, 12, 25) \in 1 .. Midnight
  /\ At(21, 40, 25) \in 1 .. Midnight /\ At(21, 42, 10) \in 1 .. Midnight
  /\ At(21, 45, 10) \in 1 .. Midnight /\ At(21, 46, 12) \in 1 .. Midnight
  /\ At(21, 42, 30) <= At(21, 44, 10) /\ At(21, 41, 20) <= At(21, 46, 0)
  /\ At(8, 1, 25) <= At(21, 36, 25) /\ At(6, 6, 25) <= At(21, 36, 25)
  /\ At(13, 12, 25) <= At(21, 40, 25) /\ At(21, 42, 10) <= At(21, 45, 10)
BY SMT DEF At, Midnight

\* A static file was rotated on that day.
LEMMA StaticAt ==
  ASSUME NEW coll \in Logs, NEW name \in StaticFiles(coll)
  PROVE  name = Static(coll, name.at) /\ name.at \in 1 .. Midnight /\ name.at \in Nat
<1>1. name \in AssetNames /\ name.coll = coll /\ name.kind = "static"
  BY DEF StaticFiles, Match
<1>3. \/ \E c \in Logs : name = Current(c)
      \/ name = AdvertiserByHand \/ name = CampaignByHand
      \/ \E c \in Logs : \E first, last \in 1 .. Midnight : first <= last /\ name \in Rotated(c, first, last)
  BY <1>1, RotationTimes, TheLogs, SMT DEF AssetNames, AdvertiserFiles, CampaignFiles, DeviceFiles, OtherDataFiles
<1>4. CASE \E c \in Logs : name = Current(c)
  BY <1>1, <1>4 DEF Current
<1>5. CASE name = AdvertiserByHand \/ name = CampaignByHand
  BY <1>1, RotationTimes, <1>5 DEF AdvertiserByHand, CampaignByHand, Static
<1>6. CASE \E c \in Logs : \E first, last \in 1 .. Midnight : first <= last /\ name \in Rotated(c, first, last)
  <2>1. PICK c \in Logs, first \in 1 .. Midnight, last \in 1 .. Midnight : first <= last /\ name \in Rotated(c, first, last)
    BY <1>6
  <2>2. name = Static(c, name.at) /\ name.at \in first .. last
    BY <2>1, RotatedBetween
  <2>3. c = coll
    BY <2>2, <1>1 DEF Static
  <2> QED BY <2>1, <2>2, <2>3, RotationTimes
<1> QED BY <1>3, <1>4, <1>5, <1>6, RotationTimes

\* Among the static files of a log the order of the names is that of the times.
LEMMA NameOrder ==
  ASSUME NEW coll \in Logs, NEW m \in StaticFiles(coll), NEW n \in StaticFiles(coll)
  PROVE  NameLess(m, n) <=> m.at < n.at
<1>1. /\ m = Static(coll, m.at) /\ n = Static(coll, n.at)
  BY StaticAt
<1>2. m.coll = coll /\ n.coll = coll /\ m.kind = "static" /\ n.kind = "static"
  BY <1>1 DEF Static
<1>3. Rank[coll] \in Nat
  BY TheLogs DEF Rank, TdColl, LocColl, DeviceColl, AdvertiserColl, CampaignColl
<1>4. ~(Rank[coll] < Rank[coll])
  BY <1>3
<1> QED BY <1>2, <1>4 DEF NameLess

\* How many of the static files of a log were written before one of them.
Earlier(coll, name) == Cardinality({n \in StaticFiles(coll) : n.at < name.at})

\* A log has finitely many files.
LEMMA StaticFinite == ASSUME NEW coll \in Logs PROVE IsFiniteSet(StaticFiles(coll))
<1> DEFINE S == StaticFiles(coll)
           f == [name \in S |-> name.at]
<1>1. \A name \in S : name.at \in 1 .. Midnight
  BY StaticAt
<1>2. \A m, n \in S : m.at = n.at => m = n
  BY StaticAt
<1>3. f \in Injection(S, 1 .. Midnight)
  <2> HIDE DEF S
  <2> QED BY <1>1, <1>2 DEF Injection, IsInjective
<1>4. IsFiniteSet(1 .. Midnight)
  BY RotationTimes, FS_Interval
<1> QED
  <2> HIDE DEF f, S
  <2>1. IsFiniteSet(S)
    BY <1>3, <1>4, FS_Injection
  <2> QED BY <2>1 DEF S

\* The later a file was written, the more were written before it.
LEMMA EarlierGrows ==
  ASSUME NEW coll \in Logs
  PROVE  /\ \A n \in StaticFiles(coll) :
              Earlier(coll, n) \in Nat /\ Earlier(coll, n) \in 0 .. Cardinality(StaticFiles(coll)) - 1
         /\ \A m, n \in StaticFiles(coll) : m.at < n.at => Earlier(coll, m) < Earlier(coll, n)
<1> DEFINE S == StaticFiles(coll)
           Before(n) == {k \in S : k.at < n.at}
<1>1. IsFiniteSet(S) /\ \A n \in S : n.at \in Nat
  BY StaticFinite, StaticAt
<1>2. \A n \in S : Earlier(coll, n) = Cardinality(Before(n))
  BY DEF Earlier
<1> HIDE DEF S
<1>3. ASSUME NEW n \in S
      PROVE  Cardinality(Before(n)) \in Nat /\ Cardinality(Before(n)) \in 0 .. Cardinality(S) - 1
  <2>1. Before(n) \in SUBSET (S \ {n})
    BY <1>1
  <2>2. IsFiniteSet(S \ {n}) /\ Cardinality(S \ {n}) = Cardinality(S) - 1
    BY <1>1, FS_RemoveElement
  <2> HIDE DEF Before
  <2>3. IsFiniteSet(Before(n)) /\ Cardinality(Before(n)) <= Cardinality(S) - 1
    BY <2>1, <2>2, FS_Subset
  <2>4. Cardinality(Before(n)) \in Nat /\ Cardinality(S) \in Nat
    BY <1>1, <2>3, FS_CardinalityType
  <2> QED BY <2>3, <2>4
<1>4. ASSUME NEW m \in S, NEW n \in S, m.at < n.at PROVE Cardinality(Before(m)) < Cardinality(Before(n))
  <2>1. Before(m) \cup {m} \in SUBSET Before(n) /\ m \notin Before(m) /\ Before(m) \in SUBSET S /\ Before(n) \in SUBSET S
    BY <1>1, <1>4
  <2> HIDE DEF Before
  <2>2. IsFiniteSet(Before(m)) /\ IsFiniteSet(Before(n))
    BY <1>1, <2>1, FS_Subset
  <2>3. Cardinality(Before(m) \cup {m}) = Cardinality(Before(m)) + 1
    BY <2>1, <2>2, FS_AddElement
  <2>4. Cardinality(Before(m) \cup {m}) <= Cardinality(Before(n))
    BY <2>1, <2>2, FS_Subset
  <2>5. Cardinality(Before(m)) \in Nat /\ Cardinality(Before(n)) \in Nat
    BY <2>2, FS_CardinalityType
  <2> QED BY <2>3, <2>4, <2>5
<1> QED
  <2> HIDE DEF Before
  <2>1. /\ \A n \in S : Earlier(coll, n) \in Nat /\ Earlier(coll, n) \in 0 .. Cardinality(S) - 1
        /\ \A m, n \in S : m.at < n.at => Earlier(coll, m) < Earlier(coll, n)
    BY <1>2, <1>3, <1>4
  <2> QED BY <2>1 DEF S

\* Every number of files is that of the files before one of them.
LEMMA EarlierTakesAll ==
  ASSUME NEW coll \in Logs, NEW k \in 0 .. Cardinality(StaticFiles(coll)) - 1
  PROVE  \E n \in StaticFiles(coll) : Earlier(coll, n) = k
<1> DEFINE S == StaticFiles(coll)
           N == Cardinality(S)
           f == [n \in S |-> Earlier(coll, n)]
<1>1. IsFiniteSet(S) /\ \A n \in S : n.at \in Nat
  BY StaticFinite, StaticAt
<1>2. \A m, n \in S : m.at = n.at => m = n
  BY StaticAt
<1>3. \A n \in S : Earlier(coll, n) \in 0 .. N - 1
  BY EarlierGrows
<1>4. \A m, n \in S : Earlier(coll, m) = Earlier(coll, n) => m = n
  <2>1. \A m, n \in S : m.at < n.at => Earlier(coll, m) < Earlier(coll, n)
    BY EarlierGrows
  <2> HIDE DEF S, N
  <2> QED BY <2>1, <1>1, <1>2, <1>3
<1>5. N \in Nat
  BY <1>1, FS_CardinalityType
<1>6. IsFiniteSet(0 .. N - 1) /\ Cardinality(0 .. N - 1) = N
  <2> HIDE DEF N
  <2> QED BY <1>5, FS_Interval
<1>7. f \in Injection(S, 0 .. N - 1)
  <2> HIDE DEF S, N
  <2> QED BY <1>3, <1>4 DEF Injection, IsInjective
<1>8. f \in Surjection(S, 0 .. N - 1)
  <2>1. Cardinality(S) = N
    OBVIOUS
  <2> HIDE DEF f, S, N
  <2> QED BY <2>1, <1>6, <1>7, FS_Injection
<1>9. \A j \in 0 .. N - 1 : \E n \in S : f[n] = j
  <2> HIDE DEF f, S, N
  <2> QED BY <1>8 DEF Surjection
<1> QED BY <1>9

\* Glob finds the static files of a log, the oldest first, and each of them once.
LEMMA GlobInOrder ==
  ASSUME NEW coll \in Logs
  PROVE  /\ Len(Glob[coll]) = Cardinality(StaticFiles(coll))
         /\ Len(Glob[coll]) \in Nat
         /\ \A i \in 1 .. Len(Glob[coll]) :
              Glob[coll][i] \in StaticFiles(coll) /\ Earlier(coll, Glob[coll][i]) = i - 1
<1> DEFINE S == StaticFiles(coll)
           P == {[place |-> Earlier(coll, name), name |-> name] : name \in S}
           N == Cardinality(S)
           G == [i \in 1 .. N |-> (CHOOSE p \in P : p.place = i - 1).name]
<1>1. \A name \in S : Cardinality({n \in S : NameLess(n, name)}) = Earlier(coll, name)
  <2>1. ASSUME NEW name \in S PROVE {n \in S : NameLess(n, name)} = {n \in S : n.at < name.at}
    BY NameOrder
  <2> QED BY <2>1 DEF Earlier
<1>2. Placed(S) = P
  <2> HIDE DEF S
  <2> QED BY <1>1 DEF Placed
<1>3. Glob[coll] = G
  <2>1. Glob[coll] = SortedNames(S)
    BY DEF Glob, Matches, StaticFiles
  <2> HIDE DEF S, P
  <2> QED BY <2>1, <1>2 DEF SortedNames
<1>4. N \in Nat
  BY StaticFinite, FS_CardinalityType
<1>5. Len(G) = N
  <2> HIDE DEF P, N
  <2> QED BY <1>4
<1>6. ASSUME NEW i \in 1 .. N PROVE G[i] \in S /\ Earlier(coll, G[i]) = i - 1
  <2>1. i - 1 \in 0 .. N - 1
    <3> HIDE DEF N
    <3> QED BY <1>4
  <2>2. PICK n \in S : Earlier(coll, n) = i - 1
    BY <2>1, EarlierTakesAll
  <2> DEFINE p == CHOOSE p \in P : p.place = i - 1
  <2>3. p \in P /\ p.place = i - 1
    <3>1. \E q \in P : q.place = i - 1
      <4>1. [place |-> Earlier(coll, n), name |-> n] \in P
        OBVIOUS
      <4> HIDE DEF P
      <4> QED BY <2>2, <4>1
    <3> HIDE DEF P
    <3> QED BY <3>1
  <2> HIDE DEF p
  <2>4. p.name \in S /\ Earlier(coll, p.name) = i - 1
    <3> HIDE DEF S
    <3> QED BY <2>3
  <2>5. G[i] = p.name
    <3> HIDE DEF P, N
    <3> QED BY DEF p
  <2> QED BY <2>4, <2>5
<1> QED
  <2> HIDE DEF G
  <2>1. Len(Glob[coll]) = N /\ N \in Nat /\ \A i \in 1 .. N : Glob[coll][i] \in S /\ Earlier(coll, Glob[coll][i]) = i - 1
    BY <1>3, <1>4, <1>5, <1>6
  <2> QED BY <2>1

-----------------------------------------------------------------------------
(***************************************************************************)
(* The inductive invariant.  Nothing is remembered between two files; with  *)
(* a file in hand, agg is what its lines count up to, and what is known of  *)
(* an id that the range has passed is that it was skipped or had its        *)
(* update, with the increments agg gives.                                   *)
(***************************************************************************)
PositionInv ==
  /\ pc \in WorkerPC
  /\ log \in Logs
  /\ file \in 0 .. Len(Glob[log])
  /\ lines \in Contents \cup {<<>>}

AggInv ==
  IF pc \in {"update", "crashed"}
    THEN agg = Counts(log, AggregateLog(lines))
    ELSE lines = <<>> /\ agg = <<>> /\ left = {} /\ sent = {} /\ lost = {}

UpdatesInv ==
  /\ left \cup lost \subseteq DOMAIN agg
  /\ \A u \in sent :
        u.id \in DOMAIN agg /\ Decoded(u.id) = "ok" /\ u.inc = Increments(agg[u.id])
  /\ \A id \in lost : Decoded(id) = "ok"
  /\ \A id \in DOMAIN agg \ left :
        Decoded(id) = "skip" \/ id \in lost \/ \E u \in sent : u.id = id

CrashInv == pc = "crashed" => \E id \in left : Decoded(id) = "panic"

IInv == PositionInv /\ AggInv /\ UpdatesInv /\ CrashInv

\* What becomes of an id does not change while the worker stays with a log.
LEMMA SameLog ==
  ASSUME log' = log
  PROVE  /\ \A id : Decoded(id)' = Decoded(id)
         /\ \A fields : Increments(fields)' = Increments(fields)
<1>1. RecordKeys' = RecordKeys
  BY DEF RecordKeys
<1>2. \A form : DetailsLog(form)' = DetailsLog(form)
  BY <1>1 DEF DetailsLog
<1> QED BY <1>2 DEF Decoded, Increments

\* The worker starts without a file.
LEMMA InitOK == Init => IInv
<1> SUFFICES ASSUME Init PROVE IInv
  OBVIOUS
<1>1. PositionInv
  BY TheLogs, GlobInOrder DEF Init, PositionInv, WorkerPC
<1>2. AggInv /\ UpdatesInv /\ CrashInv
  BY DEF Init, AggInv, UpdatesInv, CrashInv
<1> QED BY <1>1, <1>2 DEF IInv

\* Between two files there is nothing to say.
LEMMA NoFileOK ==
  ASSUME NoFile, pc' \notin {"update", "crashed"}
  PROVE  AggInv' /\ UpdatesInv' /\ CrashInv'
BY DEF NoFile, AggInv, UpdatesInv, CrashInv

\* TakeTask: the files of the new task have not been begun.
LEMMA TakeTaskOK == IInv /\ TakeTask => IInv'
<1> SUFFICES ASSUME IInv, TakeTask PROVE IInv'
  OBVIOUS
<1>1. pc' \in {"recv", "next", "gone"} /\ log' \in Logs /\ file' = 0 /\ lines' = <<>>
  BY DEF TakeTask, NoFile, IInv, PositionInv
<1>2. PositionInv'
  BY <1>1, GlobInOrder DEF PositionInv, WorkerPC
<1> QED BY <1>1, <1>2, NoFileOK DEF TakeTask, IInv

\* BeginFile: the next file is one of Glob's, as the last of them ends the task.
LEMMA BeginFileOK == IInv /\ BeginFile => IInv'
<1> SUFFICES ASSUME IInv, BeginFile PROVE IInv'
  OBVIOUS
<1>1. /\ pc' \in {"recv", "gone", "open"} /\ log' = log /\ lines' = <<>>
      /\ file' \in {0, file} \/ (file # Len(Glob[log]) /\ file' = file + 1)
  <2>1. pc' \in {"recv", "gone", "open"} /\ log' = log /\ lines' = <<>>
    BY DEF BeginFile, NoFile
  <2>2. file' \in {0, file} \/ (file # Len(Glob[log]) /\ file' = NextFile)
    BY DEF BeginFile
  <2> QED BY <2>1, <2>2 DEF NextFile
<1>2. log \in Logs /\ Len(Glob[log]) \in Nat /\ file \in 0 .. Len(Glob[log])
  BY GlobInOrder DEF IInv, PositionInv
<1>3. file' \in 0 .. Len(Glob[log])
  BY <1>1, <1>2
<1>4. PositionInv'
  BY <1>1, <1>2, <1>3 DEF PositionInv, WorkerPC
<1> QED BY <1>1, <1>4, NoFileOK DEF BeginFile, IInv

\* ReadFile: what is counted is what the lines count up to.
LEMMA ReadFileOK == IInv /\ ReadFile => IInv'
<1> SUFFICES ASSUME IInv, ReadFile PROVE IInv'
  OBVIOUS
<1>1. /\ pc' = "update" /\ log' = log /\ file' = file /\ sent' = sent /\ lost' = lost
      /\ agg' = Counts(log, AggregateLog(lines')) /\ left' = DOMAIN agg'
      /\ sent = {} /\ lost = {}
  BY DEF ReadFile, IInv, AggInv
<1>2. lines' \in Contents \cup {<<>>}
  <2>1. PICK text \in Contents, corrupt \in {{}, {Glob[log][file]}} :
          LET bytes == Asset(text, Glob[log][file], corrupt)
          IN  lines' = IF bytes = NoAsset THEN <<>> ELSE bytes
    BY DEF ReadFile
  <2>2. Asset(text, Glob[log][file], corrupt) \in {text, NoAsset}
    BY DEF Asset, AssetOf, bindataRead
  <2> QED BY <2>1, <2>2
<1>3. PositionInv'
  BY <1>1, <1>2 DEF IInv, PositionInv, WorkerPC
<1>4. AggInv'
  <2> QED BY <1>1 DEF AggInv
<1>5. UpdatesInv' /\ CrashInv'
  BY <1>1 DEF UpdatesInv, CrashInv
<1> QED BY <1>3, <1>4, <1>5 DEF IInv

\* EndFile: the file is forgotten.
LEMMA EndFileOK == IInv /\ EndFile => IInv'
<1> SUFFICES ASSUME IInv, EndFile PROVE IInv'
  OBVIOUS
<1>1. pc' = "next" /\ log' = log /\ file' = file /\ lines' = <<>>
  BY DEF EndFile, NoFile
<1>2. PositionInv'
  BY <1>1 DEF IInv, PositionInv, WorkerPC
<1> QED BY <1>1, <1>2, NoFileOK DEF EndFile, IInv

\* RangeOver: an id that is passed was skipped, given up, or sent with what agg has.
LEMMA RangeOverOK ==
  ASSUME IInv, NEW id \in left, RangeOver(id)
  PROVE  IInv'
<1>1. log' = log /\ file' = file /\ pc = "update"
  BY DEF RangeOver
<1>2. /\ \A i : Decoded(i)' = Decoded(i)
      /\ \A fields : Increments(fields)' = Increments(fields)
  BY <1>1, SameLog
<1>3. CASE SkipId(id)
  <2>1. Decoded(id) = "skip" /\ left' = left \ {id} /\ UNCHANGED <<pc, lines, agg, sent, lost>>
    BY <1>3 DEF SkipId
  <2>2. PositionInv' /\ AggInv' /\ CrashInv'
    BY <1>1, <2>1 DEF IInv, PositionInv, AggInv, CrashInv
  <2>3. UpdatesInv'
    BY <1>2, <2>1 DEF IInv, UpdatesInv
  <2> QED BY <2>2, <2>3 DEF IInv
<1>4. CASE Crash(id)
  <2>1. Decoded(id) = "panic" /\ pc' = "crashed" /\ UNCHANGED <<lines, agg, left, sent, lost>>
    BY <1>4 DEF Crash
  <2>2. PositionInv' /\ AggInv'
    BY <1>1, <2>1 DEF IInv, PositionInv, AggInv, WorkerPC
  <2>3. UpdatesInv' /\ CrashInv'
    BY <1>2, <2>1 DEF IInv, UpdatesInv, CrashInv
  <2> QED BY <2>2, <2>3 DEF IInv
<1>5. CASE Update(id)
  <2>1. /\ Decoded(id) = "ok" /\ left' = left \ {id} /\ UNCHANGED <<pc, lines, agg>>
        /\ \/ sent' = sent \cup {[id |-> id, inc |-> Increments(agg[id])]} /\ lost' = lost
           \/ lost' = lost \cup {id} /\ sent' = sent
    BY <1>5 DEF Update
  <2>2. PositionInv' /\ AggInv' /\ CrashInv'
    BY <1>1, <2>1 DEF IInv, PositionInv, AggInv, CrashInv
  <2>3. UpdatesInv'
    <3>1. id \in DOMAIN agg /\ left' \cup lost' \subseteq DOMAIN agg'
      BY <2>1 DEF IInv, UpdatesInv
    <3>2. ASSUME NEW u \in sent'
          PROVE  u.id \in DOMAIN agg' /\ Decoded(u.id)' = "ok" /\ u.inc = Increments(agg[u.id])'
      <4>1. u \in sent \/ u = [id |-> id, inc |-> Increments(agg[id])]
        BY <2>1
      <4>2. u.id \in DOMAIN agg /\ Decoded(u.id) = "ok" /\ u.inc = Increments(agg[u.id])
        BY <2>1, <3>1, <4>1 DEF IInv, UpdatesInv
      <4>3. agg[u.id]' = agg[u.id]
        BY <2>1
      <4> QED BY <1>2, <2>1, <4>2, <4>3
    <3>3. \A i \in lost' : Decoded(i)' = "ok"
      BY <1>2, <2>1 DEF IInv, UpdatesInv
    <3>4. ASSUME NEW i \in DOMAIN agg' \ left'
          PROVE  Decoded(i)' = "skip" \/ i \in lost' \/ \E u \in sent' : u.id = i
      <4>1. CASE i = id
        <5>1. i \in lost' \/ [id |-> id, inc |-> Increments(agg[id])] \in sent'
          BY <2>1, <4>1
        <5> QED BY <4>1, <5>1
      <4>2. CASE i # id
        <5>1. i \in DOMAIN agg \ left
          BY <2>1, <4>2
        <5>2. lost \subseteq lost' /\ sent \subseteq sent'
          BY <2>1
        <5> QED BY <1>2, <5>1, <5>2 DEF IInv, UpdatesInv
      <4> QED BY <4>1, <4>2
    <3> QED BY <3>1, <3>2, <3>3, <3>4 DEF UpdatesInv
  <2> QED BY <2>2, <2>3 DEF IInv
<1>6. CASE Return(id)
  <2>1. pc' \in {"next", "gone"} /\ lines' = <<>> /\ NoFile
    BY <1>6 DEF Return, NoFile
  <2>2. PositionInv'
    BY <1>1, <2>1 DEF IInv, PositionInv, WorkerPC
  <2> QED BY <2>1, <2>2, NoFileOK DEF IInv
<1> QED BY <1>3, <1>4, <1>5, <1>6 DEF RangeOver

\* Nothing changes by itself.
LEMMA StutterOK == IInv /\ UNCHANGED vars => IInv'
<1> SUFFICES ASSUME IInv, UNCHANGED vars PROVE IInv'
  OBVIOUS
<1>1. \A id : Decoded(id)' = Decoded(id) /\ \A fields : Increments(fields)' = Increments(fields)
  BY SameLog DEF vars
<1>2. PositionInv' /\ AggInv' /\ CrashInv'
  BY <1>1 DEF vars, IInv, PositionInv, AggInv, CrashInv
<1>3. UpdatesInv'
  BY <1>1 DEF vars, IInv, UpdatesInv
<1> QED BY <1>2, <1>3 DEF IInv

\* The invariant holds: no action, whatever file it reads, breaks it.
THEOREM Inductive == Spec => []IInv
<1>1. IInv /\ [Next]_vars => IInv'
  BY TakeTaskOK, BeginFileOK, ReadFileOK, EndFileOK, RangeOverOK, StutterOK DEF Next
<1> QED BY InitOK, <1>1, PTL DEF Spec

-----------------------------------------------------------------------------
\* An id that is counted is one of those whose form is known.
LEMMA IdsHaveForms ==
  ASSUME lines \in Contents \cup {<<>>}, NEW id, Records(id) # {}
  PROVE  id \in DOMAIN Form
<1>1. PICK i \in DOMAIN lines : Len(lines[i]) >= 2 /\ lines[i][1] = id
  BY DEF Records, Scanned
<1>2. lines \in Contents
  BY <1>1
<1> QED BY <1>1, <1>2, LogRunAssumption

\* With a file in hand, agg says what is due.
LEMMA AggIsDue ==
  ASSUME IInv
  PROVE  /\ \A id \in DOMAIN agg : Records(id) # {} /\ Increments(agg[id]) = Due(id)
         /\ pc \in {"update", "crashed"} => \A id : Records(id) # {} => id \in DOMAIN agg
<1>1. lines \in Seq(Seq(STRING)) /\ log \in Logs
  <2>1. <<>> \in Seq(Seq(STRING))
    OBVIOUS
  <2> QED BY <2>1, LogRunAssumption DEF IInv, PositionInv
<1>2. Counted(Counts(log, AggregateLog(lines)))
  BY <1>1, FileCounted
<1> QED BY <1>2 DEF Counted, IInv, AggInv

\* The variables have their types, whatever the contents, prices and ids: what is
\* counted, left to do, sent or given up is always about ids of the file in hand.
THEOREM TypeCorrect == Spec => []TypeOK
<1>1. IInv => TypeOK
  <2> SUFFICES ASSUME IInv PROVE TypeOK
    OBVIOUS
  <2>1. DOMAIN agg \subseteq DOMAIN Form
    BY AggIsDue, IdsHaveForms DEF IInv, PositionInv
  <2>2. left \cup lost \cup {u.id : u \in sent} \subseteq DOMAIN agg
    BY DEF IInv, UpdatesInv
  <2> QED BY <2>1, <2>2 DEF TypeOK, IInv, PositionInv
<1> QED BY <1>1, Inductive, PTL

\* Every update carries exactly what the complete records of its id add up to, for
\* files of any length, scanned to the end or to a line that is too long.
THEOREM UpdatesAddUpCorrect == Spec => []UpdatesAddUp
<1>1. IInv => UpdatesAddUp
  <2> SUFFICES ASSUME IInv, NEW u \in sent PROVE u.inc = Due(u.id)
    BY DEF UpdatesAddUp
  <2>1. u.id \in DOMAIN agg /\ u.inc = Increments(agg[u.id])
    BY DEF IInv, UpdatesInv
  <2> QED BY <2>1, AggIsDue
<1> QED BY <1>1, Inductive, PTL

\* A finished file has had an update, sent or given up, for every id that has a
\* complete record and can be decoded, and for no other.
THEOREM NothingForgottenCorrect == Spec => []NothingForgotten
<1>1. IInv => NothingForgotten
  <2> SUFFICES ASSUME IInv, pc = "update", left = {}
               PROVE  {u.id : u \in sent} \cup lost
                        = {id \in DOMAIN Form : Records(id) # {} /\ Decoded(id) = "ok"}
    BY DEF NothingForgotten
  <2>1. \A id : id \in DOMAIN agg <=> Records(id) # {}
    BY AggIsDue
  <2>2. \A id \in DOMAIN agg : id \in DOMAIN Form
    BY <2>1, IdsHaveForms DEF IInv, PositionInv
  <2>3. \A id : id \in {u.id : u \in sent} \cup lost <=> id \in DOMAIN agg /\ Decoded(id) = "ok"
    BY DEF IInv, UpdatesInv
  <2> QED BY <2>1, <2>2, <2>3
<1> QED BY <1>1, Inductive, PTL

\* Only two kinds of id can end the process, whatever else is wrong with a file.
THEOREM FewIdsCrashCorrect == Spec => []FewIdsCrash
<1>1. IInv => FewIdsCrash
  <2> SUFFICES ASSUME IInv, pc = "crashed"
               PROVE  \E id \in left :
                        \/ log \in {TdColl, CampaignColl} /\ ~Form[id].objectId
                        \/ /\ log \in {LocColl, DeviceColl} /\ Form[id].json
                           /\ Form[id].items < 3 \/ ~Form[id].dateIsString
    BY DEF FewIdsCrash
  <2>1. PICK id \in left : Decoded(id) = "panic"
    BY DEF IInv, CrashInv
  <2> DEFINE form == Form[id]
  <2>2. log \in {TdColl, LocColl, DeviceColl, AdvertiserColl, CampaignColl}
    BY TheLogs DEF IInv, PositionInv
  <2>3. CASE log = TdColl
    <3>1. TotalDataLog(form) = "panic"
      BY <2>1, <2>3 DEF Decoded, TdColl, LocColl, DeviceColl, AdvertiserColl, CampaignColl
    <3> QED BY <2>3, <3>1 DEF TotalDataLog, ObjectIdHex, UnpackEncodedID
  <2>4. CASE log \in {LocColl, DeviceColl}
    <3>1. DetailsLog(form) = "panic"
      BY <2>1, <2>4 DEF Decoded, TdColl, LocColl, DeviceColl, AdvertiserColl, CampaignColl
    <3> QED BY <2>4, <3>1 DEF DetailsLog
  <2>5. CASE log = CampaignColl
    <3>1. ObjectIdHex(form) = "panic"
      BY <2>1, <2>5 DEF Decoded, TdColl, LocColl, DeviceColl, AdvertiserColl, CampaignColl
    <3> QED BY <2>5, <3>1 DEF ObjectIdHex
  <2>6. log # AdvertiserColl
    BY <2>1 DEF Decoded, TdColl, LocColl, DeviceColl, AdvertiserColl, CampaignColl
  <2> QED BY <2>2, <2>3, <2>4, <2>5, <2>6
<1> QED BY <1>1, Inductive, PTL

\* A worker takes the static files of its collection in the order in which they
\* were written, none of them left out and none taken twice.
THEOREM OldestFileFirstCorrect == Spec => OldestFileFirst
<1> DEFINE now == Glob[log][file']
           before == IF file = 0 THEN 0 ELSE Glob[log][file].at
           InOrder == file' > file =>
                        /\ now.coll = log /\ now.kind = "static" /\ before < now.at
                        /\ \A name \in AssetNames :
                              name.coll = log /\ name.kind = "static" =>
                                name.at <= before \/ now.at <= name.at
<1>1. IInv /\ Next => InOrder
  <2> SUFFICES ASSUME IInv, Next, file' > file PROVE InOrder
    OBVIOUS
  <2> DEFINE S == StaticFiles(log)
  <2>1. log \in Logs /\ file \in Nat /\ Len(Glob[log]) \in Nat /\ file <= Len(Glob[log])
    BY GlobInOrder DEF IInv, PositionInv
  <2>2. file' = file + 1 /\ file # Len(Glob[log])
    BY <2>1 DEF Next, TakeTask, BeginFile, NextFile, ReadFile, EndFile, RangeOver
  <2>3. file + 1 \in 1 .. Len(Glob[log])
    BY <2>1, <2>2
  <2>4. now \in S /\ Earlier(log, now) = file
    BY <2>1, <2>2, <2>3, GlobInOrder
  <2>5. /\ \A n \in S : n.at \in Nat \ {0} /\ Earlier(log, n) \in Nat
        /\ \A m, n \in S : m.at < n.at => Earlier(log, m) < Earlier(log, n)
        /\ \A m, n \in S : m.at = n.at => m = n
    <3>1. \A n \in S : n = Static(log, n.at) /\ n.at \in 1 .. Midnight /\ n.at \in Nat
      BY <2>1, StaticAt
    <3>2. \A n \in S : Earlier(log, n) \in Nat
      BY <2>1, EarlierGrows
    <3>3. \A m, n \in S : m.at < n.at => Earlier(log, m) < Earlier(log, n)
      BY <2>1, EarlierGrows
    <3> HIDE DEF S
    <3>4. \A m, n \in S : m.at = n.at => m = n
      BY <3>1
    <3> QED BY <3>1, <3>2, <3>3, <3>4, RotationTimes
  <2>6. file # 0 => Glob[log][file] \in S /\ Earlier(log, Glob[log][file]) = file - 1
    BY <2>1, GlobInOrder
  <2>7. now.coll = log /\ now.kind = "static"
    BY <2>4 DEF StaticFiles, Match
  <2>8. \A name \in AssetNames : name.coll = log /\ name.kind = "static" => name \in S
    BY DEF StaticFiles, Match
  <2> HIDE DEF S, now
  <2>9. before < now.at
    <3>1. CASE file = 0
      BY <3>1, <2>4, <2>5
    <3>2. CASE file # 0
      <4> DEFINE last == Glob[log][file]
      <4>1. last \in S /\ Earlier(log, last) = file - 1
        BY <3>2, <2>6
      <4> HIDE DEF last
      <4>2. last.at < now.at
        BY <4>1, <2>1, <2>4, <2>5
      <4> QED BY <3>2, <4>2 DEF last
    <3> QED BY <3>1, <3>2
  <2>10. ASSUME NEW name \in S PROVE name.at <= before \/ now.at <= name.at
    <3>1. CASE Earlier(log, name) >= file
      <4>1. ~(name.at < now.at)
        BY <3>1, <2>1, <2>4, <2>5
      <4> QED BY <4>1, <2>4, <2>5
    <3>2. CASE Earlier(log, name) < file
      <4> DEFINE last == Glob[log][file]
      <4>1. file # 0 /\ last \in S /\ Earlier(log, last) = file - 1
        BY <3>2, <2>1, <2>5, <2>6
      <4> HIDE DEF last
      <4>2. ~(last.at < name.at)
        BY <3>2, <4>1, <2>1, <2>5
      <4>3. name.at <= last.at
        BY <4>1, <4>2, <2>5
      <4> QED BY <4>1, <4>3 DEF last
    <3>3. Earlier(log, name) >= file \/ Earlier(log, name) < file
      BY <2>1, <2>5
    <3> QED BY <3>1, <3>2, <3>3
  <2> QED BY <2>7, <2>8, <2>9, <2>10
<1>2. IInv /\ UNCHANGED vars => InOrder
  BY GlobInOrder DEF vars, IInv, PositionInv
<1> QED BY <1>1, <1>2, Inductive, PTL DEF Spec, OldestFileFirst

=================================================================================
