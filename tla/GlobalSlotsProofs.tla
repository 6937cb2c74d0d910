------------------------- MODULE GlobalSlotsProofs --------------------------
(***************************************************************************)
(* Proofs about GlobalSlots, for any names, any bounds and any number of   *)
(* compilations.  The hypothesis is that scripts and hosts keep to all     *)
(* rules.                                                                  *)
(***************************************************************************)
EXTENDS GlobalSlots, SequenceTheorems, FiniteSetTheorems, FunctionTheorems,
        WellFoundedInduction, TLAPS

(* A set of numbers has a first one.                                       *)
LEMMA Least == ASSUME NEW S \in SUBSET Nat, S # {} PROVE \E m \in S : \A k \in S : m <= k
<1> DEFINE R == {r \in Nat \X Nat : r[1] < r[2]}
<1>1. IsWellFoundedOn(R, Nat) BY NatLessThanWellFounded DEF OpToRel
<1> HIDE DEF R
<1>2. PICK m \in S : \A k \in S : ~ (<<k, m>> \in R) BY <1>1, WFMin
<1>3. \A k \in S : ~ (k < m) BY <1>2 DEF R
<1> QED BY <1>3

LEMMA MinIs == ASSUME NEW S \in SUBSET Nat, S # {} PROVE Min(S) \in S
BY Least DEF Min

(* A sequence as it is, in the type of its elements.                       *)
LEMMA SeqIs ==
  ASSUME NEW T, NEW s \in Seq(T)
  PROVE  /\ Len(s) \in Nat /\ DOMAIN s = 1 .. Len(s)
         /\ \A i \in 1 .. Len(s) : s[i] \in T
         /\ Range(s) = {s[i] : i \in 1 .. Len(s)}
BY LenProperties, ElementOfSeq, RangeEquality

LEMMA FirstIs ==
  ASSUME NEW T, NEW s \in Seq(T), NEW n \in 0 .. Len(s)
  PROVE  /\ SubSeq(s, 1, n) \in Seq(T) /\ Len(SubSeq(s, 1, n)) = n
         /\ \A i \in 1 .. n : SubSeq(s, 1, n)[i] = s[i]
<1>1. Len(s) \in Nat BY LenProperties
<1>2. \A i \in 1 .. n : s[i] \in T BY <1>1, ElementOfSeq
<1>3. /\ SubSeq(s, 1, n) \in Seq(T)
      /\ Len(SubSeq(s, 1, n)) = IF 1 <= n THEN n - 1 + 1 ELSE 0
      /\ \A i \in 1 .. n - 1 + 1 : SubSeq(s, 1, n)[i] = s[1 + i - 1]
  BY <1>2, SubSeqProperties
<1>4. n - 1 + 1 = n /\ (IF 1 <= n THEN n ELSE 0) = n /\ \A i \in Int : 1 + i - 1 = i OBVIOUS
<1> QED BY <1>3, <1>4

LEMMA FirstOfFew ==
  ASSUME NEW T, NEW s \in Seq(T), NEW n \in 0 .. Len(s) PROVE First(s, n) = SubSeq(s, 1, n)
<1>1. Len(s) \in Nat BY LenProperties
<1>2. (IF n < Len(s) THEN n ELSE Len(s)) = n BY <1>1
<1> QED BY <1>2 DEF First

LEMMA OneMore ==
  ASSUME NEW T, NEW s \in Seq(T), IsInjective(s), NEW e \in T, \A i \in 1 .. Len(s) : s[i] # e
  PROVE  IsInjective(Append(s, e))
<1>1. /\ Append(s, e) \in Seq(T) /\ Len(Append(s, e)) = Len(s) + 1
      /\ \A i \in 1 .. Len(s) : Append(s, e)[i] = s[i]
      /\ Append(s, e)[Len(s) + 1] = e
  BY AppendProperties
<1>2. Len(s) \in Nat /\ DOMAIN s = 1 .. Len(s) BY LenProperties
<1>3. DOMAIN Append(s, e) = 1 .. Len(s) + 1 BY <1>1, LenProperties
<1>4. \A a, b \in 1 .. Len(s) : s[a] = s[b] => a = b BY <1>2 DEF IsInjective
<1>5. \A a \in 1 .. Len(s) + 1 : a \in 1 .. Len(s) \/ a = Len(s) + 1 BY <1>2
<1> QED BY <1>1, <1>3, <1>4, <1>5 DEF IsInjective

LEMMA FewerInjective ==
  ASSUME NEW T, NEW s \in Seq(T), IsInjective(s), NEW n \in 0 .. Len(s)
  PROVE  IsInjective(SubSeq(s, 1, n))
<1>1. Len(SubSeq(s, 1, n)) = n /\ SubSeq(s, 1, n) \in Seq(T)
      /\ \A i \in 1 .. n : SubSeq(s, 1, n)[i] = s[i]
  BY FirstIs
<1>2. Len(s) \in Nat /\ DOMAIN s = 1 .. Len(s) BY LenProperties
<1>3. DOMAIN SubSeq(s, 1, n) = 1 .. n BY <1>1, LenProperties
<1>4. \A i \in 1 .. n : i \in DOMAIN s BY <1>2
<1> QED BY <1>1, <1>3, <1>4 DEF IsInjective

(* As many different entries as places.                                    *)
LEMMA EntriesCounted ==
  ASSUME NEW T, NEW s \in Seq(T), IsInjective(s)
  PROVE  IsFiniteSet(Range(s)) /\ Cardinality(Range(s)) = Len(s)
<1>1. Len(s) \in Nat /\ s \in [1 .. Len(s) -> T] /\ DOMAIN s = 1 .. Len(s) BY LenProperties
<1>2. Range(s) = {s[i] : i \in 1 .. Len(s)} BY RangeEquality
<1>3. s \in [1 .. Len(s) -> Range(s)] BY <1>1, <1>2
<1>4. s \in Injection(1 .. Len(s), Range(s)) BY <1>3 DEF Injection
<1>5. s \in Surjection(1 .. Len(s), Range(s)) BY <1>2, <1>3 DEF Surjection
<1>6. ExistsBijection(1 .. Len(s), Range(s)) BY <1>4, <1>5 DEF ExistsBijection, Bijection
<1>7. IsFiniteSet(1 .. Len(s)) /\ Cardinality(1 .. Len(s)) = Len(s)
  <2>1. 1 \in Int /\ Len(s) \in Int BY <1>1
  <2>2. IsFiniteSet(1 .. Len(s))
        /\ Cardinality(1 .. Len(s)) = IF 1 > Len(s) THEN 0 ELSE Len(s) - 1 + 1
    BY <2>1, FS_Interval
  <2> QED BY <1>1, <2>2
<1> QED BY <1>6, <1>7, FS_Bijection
-----------------------------------------------------------------------------
(* A table without some entries.  The recursion adds entry by entry.       *)
Steps(f, n, b, g) == f = [i \in 0 .. n |-> IF i = 0 THEN b ELSE g[i][f[i - 1]]]

LEMMA StepsExist ==
  ASSUME NEW n \in Nat, NEW X, NEW b \in X, NEW g \in [1 .. n -> [X -> X]]
  PROVE  \E f \in [0 .. n -> X] : Steps(f, n, b, g)
<1> USE DEF Steps
<1> DEFINE Defined(m) == \E f \in [0 .. m -> X] : f = [i \in 0 .. m |-> IF i = 0 THEN b ELSE g[i][f[i - 1]]]
           S == {m \in 0 .. n : ~ Defined(m)}
<1> SUFFICES ASSUME S # {} PROVE FALSE
  <2> HIDE DEF Defined
  <2>1. n \in 0 .. n OBVIOUS
  <2>2. S = {} => Defined(n) BY <2>1
  <2> QED BY <2>2 DEF Defined
<1>1. S \in SUBSET Nat OBVIOUS
<1>2. PICK m \in S : \A k \in S : m <= k BY <1>1, Least
<1>3. CASE m = 0
  <2> DEFINE d == [i \in 0 .. 0 |-> b]
  <2>1. d \in [0 .. 0 -> X] OBVIOUS
  <2>2. \A i \in 0 .. 0 : (IF i = 0 THEN b ELSE g[i][d[i - 1]]) = b OBVIOUS
  <2>3. d = [i \in 0 .. 0 |-> IF i = 0 THEN b ELSE g[i][d[i - 1]]] BY <2>2
  <2> HIDE DEF d
  <2>4. Defined(0) BY <2>1, <2>3
  <2> HIDE DEF Defined
  <2> QED BY <1>3, <2>4
<1>4. CASE m # 0
  <2>1. m - 1 \in 0 .. n /\ ~ (m <= m - 1) BY <1>4
  <2>2. Defined(m - 1)
    <3> HIDE DEF Defined
    <3> QED BY <1>2, <2>1
  <2>3. PICK c \in [0 .. m - 1 -> X] : c = [i \in 0 .. m - 1 |-> IF i = 0 THEN b ELSE g[i][c[i - 1]]] BY <2>2
  <2> DEFINE d == [i \in 0 .. m |-> IF i < m THEN c[i] ELSE g[m][c[m - 1]]]
  <2>4. c[m - 1] \in X /\ g[m] \in [X -> X] BY <1>4
  <2>5. d \in [0 .. m -> X] BY <2>4
  <2>6. \A i \in 0 .. m : d[i] = IF i = 0 THEN b ELSE g[i][d[i - 1]]
    <3> SUFFICES ASSUME NEW i \in 0 .. m PROVE d[i] = IF i = 0 THEN b ELSE g[i][d[i - 1]] OBVIOUS
    <3>1. CASE i = 0
      <4>1. i < m /\ i \in 0 .. m - 1 BY <1>4, <3>1
      <4>2. c[i] = b BY Zenon, <2>3, <3>1, <4>1
      <4> QED BY <3>1, <4>1, <4>2
    <3>2. CASE i # 0 /\ i < m
      <4>1. i \in 0 .. m - 1 /\ i - 1 \in 0 .. m /\ i - 1 < m BY <3>2
      <4>2. c[i] = g[i][c[i - 1]] BY Zenon, <2>3, <3>2, <4>1
      <4>3. d[i] = c[i] /\ d[i - 1] = c[i - 1] BY <3>2, <4>1
      <4> QED BY <3>2, <4>2, <4>3
    <3>3. CASE i = m
      <4>1. i - 1 \in 0 .. m /\ i - 1 < m /\ i # 0 /\ ~ (i < m) BY <1>4, <3>3
      <4>2. d[i] = g[m][c[m - 1]] /\ d[i - 1] = c[i - 1] BY <4>1
      <4> QED BY <3>3, <4>1, <4>2
    <3> QED BY <3>1, <3>2, <3>3
  <2>7. d = [i \in 0 .. m |-> d[i]] OBVIOUS
  <2> HIDE DEF d
  <2>8. d = [i \in 0 .. m |-> IF i = 0 THEN b ELSE g[i][d[i - 1]]] BY <2>6, <2>7
  <2>9. Defined(m) BY <2>5, <2>8
  <2> HIDE DEF Defined
  <2> QED BY <1>2, <2>9
<1> QED BY <1>3, <1>4

(* What stays keeps its order, and the first entries their place when none *)
(* of them goes.                                                           *)
LEMMA WithoutIs ==
  ASSUME NEW T, NEW table \in Seq(T), IsInjective(table), NEW gone,
         NEW m \in 0 .. Len(table), \A i \in 1 .. m : table[i] \notin gone
  PROVE  /\ Without(table, gone) \in Seq(T)
         /\ IsInjective(Without(table, gone))
         /\ Range(Without(table, gone)) = Range(table) \ gone
         /\ m <= Len(Without(table, gone))
         /\ \A i \in 1 .. m : Without(table, gone)[i] = table[i]
<1> DEFINE n == Len(table)
<1>1. n \in Nat /\ DOMAIN table = 1 .. n BY LenProperties
<1>2. \A i \in 1 .. n : table[i] \in T BY ElementOfSeq
<1> DEFINE g == [i \in 1 .. n |-> [t \in Seq(T) |-> IF table[i] \in gone THEN t ELSE Append(t, table[i])]]
           Row(f, i) == IF i = 0 THEN <<>> ELSE IF table[i] \in gone THEN f[i - 1] ELSE Append(f[i - 1], table[i])
           from == CHOOSE f : f = [i \in 0 .. n |-> Row(f, i)]
<1>3. g \in [1 .. n -> [Seq(T) -> Seq(T)]]
  <2> SUFFICES ASSUME NEW i \in 1 .. n, NEW t \in Seq(T)
               PROVE (IF table[i] \in gone THEN t ELSE Append(t, table[i])) \in Seq(T) OBVIOUS
  <2>1. table[i] \in T BY <1>2
  <2> QED BY <2>1, AppendProperties
<1>4. <<>> \in Seq(T) BY EmptySeq
<1>5. PICK h \in [0 .. n -> Seq(T)] : Steps(h, n, <<>>, g)
  <2> HIDE DEF g, n
  <2> QED BY <1>1, <1>3, <1>4, StepsExist
<1>6. h = [i \in 0 .. n |-> Row(h, i)]
  <2>1. h = [i \in 0 .. n |-> IF i = 0 THEN <<>> ELSE g[i][h[i - 1]]] BY Zenon, <1>5 DEF Steps
  <2>2. \A i \in 0 .. n : i # 0 => i \in 1 .. n /\ h[i - 1] \in Seq(T) BY <1>1
  <2>3. \A i \in 0 .. n : (IF i = 0 THEN <<>> ELSE g[i][h[i - 1]]) = Row(h, i) BY Zenon, <2>2
  <2> HIDE DEF g, Row
  <2> QED BY <2>1, <2>3
<1>7. from = [i \in 0 .. n |-> Row(from, i)]
  <2> HIDE DEF Row
  <2> QED BY Zenon, <1>6
<1> HIDE DEF from
<1> DEFINE Right(i) == /\ from[i] \in Seq(T) /\ IsInjective(from[i])
                       /\ \A y : (\E j \in 1 .. Len(from[i]) : from[i][j] = y)
                                 <=> (\E j \in 1 .. i : table[j] = y) /\ y \notin gone
                       /\ i <= m => Len(from[i]) = i
                       /\ i >= m => m <= Len(from[i])
                       /\ \A j \in 1 .. m : j <= i => from[i][j] = table[j]
           S == {i \in 0 .. n : ~ Right(i)}
<1>8. S = {}
  <2> SUFFICES ASSUME S # {} PROVE FALSE OBVIOUS
  <2>1. S \in SUBSET Nat OBVIOUS
  <2>2. PICK i \in S : \A k \in S : i <= k BY <2>1, Least
  <2>3. CASE i = 0
    <3>1. from[0] = <<>> BY <1>1, <1>7
    <3>2. Len(<<>>) = 0 /\ DOMAIN <<>> = {} OBVIOUS
    <3>3. Right(0) BY <1>4, <3>1, <3>2 DEF IsInjective
    <3> HIDE DEF Right
    <3> QED BY <2>2, <2>3, <3>3
  <2>4. CASE i # 0
    <3>1. i - 1 \in 0 .. n /\ ~ (i <= i - 1) /\ i \in 1 .. n /\ i \in Nat BY <1>1, <2>4
    <3>2. Right(i - 1)
      <4> HIDE DEF Right
      <4> QED BY <2>2, <3>1
    <3>3. from[i] = IF table[i] \in gone THEN from[i - 1] ELSE Append(from[i - 1], table[i])
      BY <1>7, <2>4
    <3>4. PICK c \in Seq(T) : c = from[i - 1] BY <3>2
    <3>5. Len(c) \in Nat BY <3>4, LenProperties
    <3>6. m \in Nat /\ n \in Nat /\ m <= n BY <1>1
    <3>7. \A j \in 1 .. i : j \in 1 .. i - 1 \/ j = i BY <3>1
    <3>8. 1 .. i - 1 \subseteq 1 .. i /\ i \in 1 .. i BY <3>1
    <3>9. CASE table[i] \in gone
      <4>1. from[i] = c BY <3>3, <3>4, <3>9
      <4>2. ~ (i <= m) BY <3>1, <3>9
      <4>3. \A y : (\E j \in 1 .. Len(c) : c[j] = y) <=> (\E j \in 1 .. i - 1 : table[j] = y) /\ y \notin gone
        BY <3>2, <3>4
      <4>4. \A y : (\E j \in 1 .. Len(c) : c[j] = y) <=> (\E j \in 1 .. i : table[j] = y) /\ y \notin gone
        BY <3>7, <3>8, <3>9, <4>3
      <4>5. m <= Len(c) BY <3>1, <3>2, <3>4, <3>6, <4>2
      <4>6. \A j \in 1 .. m : c[j] = table[j] BY <3>1, <3>2, <3>4, <3>6, <4>2
      <4>7. IsInjective(c) BY <3>2, <3>4
      <4>8. Right(i) BY <4>1, <4>2, <4>4, <4>5, <4>6, <4>7
      <4> HIDE DEF Right
      <4> QED BY <2>2, <4>8
    <3>10. CASE table[i] \notin gone
      <4>1. PICK d : d = Append(c, table[i]) OBVIOUS
      <4>2. from[i] = d BY <3>3, <3>4, <3>10, <4>1
      <4>3. table[i] \in T BY <1>2, <3>1
      <4>4. d \in Seq(T) /\ Len(d) = Len(c) + 1 /\ d[Len(c) + 1] = table[i]
            /\ \A j \in 1 .. Len(c) : d[j] = c[j]
        BY <4>1, <4>3, AppendProperties
      <4>5. \A y : (\E j \in 1 .. Len(c) : c[j] = y) <=> (\E j \in 1 .. i - 1 : table[j] = y) /\ y \notin gone
        BY <3>2, <3>4
      <4>6. \A j \in 1 .. Len(c) + 1 : j \in 1 .. Len(c) \/ j = Len(c) + 1 BY <3>5
      <4>7. 1 .. Len(c) \subseteq 1 .. Len(c) + 1 /\ Len(c) + 1 \in 1 .. Len(c) + 1 BY <3>5
      <4>8. \A y : (\E j \in 1 .. Len(d) : d[j] = y) <=> (\E j \in 1 .. i : table[j] = y) /\ y \notin gone
        <5> TAKE y
        <5>1. ASSUME NEW j \in 1 .. Len(d), d[j] = y PROVE (\E k \in 1 .. i : table[k] = y) /\ y \notin gone
          <6>1. CASE j \in 1 .. Len(c) BY <3>8, <4>4, <4>5, <5>1, <6>1
          <6>2. CASE j = Len(c) + 1 BY <3>8, <3>10, <4>4, <5>1, <6>2
          <6> QED BY <4>4, <4>6, <6>1, <6>2
        <5>2. ASSUME NEW k \in 1 .. i, table[k] = y, y \notin gone PROVE \E j \in 1 .. Len(d) : d[j] = y
          <6>1. CASE k = i BY <4>4, <4>7, <5>2, <6>1
          <6>2. CASE k \in 1 .. i - 1
            <7>1. PICK j \in 1 .. Len(c) : c[j] = y BY <4>5, <5>2, <6>2
            <7> QED BY <4>4, <4>7, <7>1
          <6> QED BY <3>7, <6>1, <6>2
        <5> QED BY <5>1, <5>2
      <4>9. \A j \in 1 .. Len(c) : c[j] # table[i]
        <5> SUFFICES ASSUME NEW j \in 1 .. Len(c), c[j] = table[i] PROVE FALSE OBVIOUS
        <5>1. PICK k \in 1 .. i - 1 : table[k] = table[i] BY <4>5
        <5>2. k \in DOMAIN table /\ i \in DOMAIN table /\ k # i BY <1>1, <3>1
        <5> QED BY <5>1, <5>2 DEF IsInjective
      <4>10. IsInjective(c) BY <3>2, <3>4
      <4>11. IsInjective(d) BY <4>1, <4>3, <4>9, <4>10, OneMore
      <4>12. i <= m => Len(d) = i
        <5>1. i <= m => i - 1 <= m BY <3>1, <3>6
        <5>2. i - 1 <= m => Len(c) = i - 1 BY <3>2, <3>4
        <5> QED BY <3>1, <4>4, <5>1, <5>2
      <4>13. i >= m => m <= Len(d)
        <5>1. CASE i - 1 >= m
          <6>1. m <= Len(c) BY <3>2, <3>4, <5>1
          <6> QED BY <3>5, <3>6, <4>4, <6>1
        <5>2. CASE ~ (i - 1 >= m)
          <6>1. i >= m => i <= m BY <3>1, <3>6, <5>2
          <6> QED BY <3>1, <3>6, <4>12, <6>1
        <5> QED BY <5>1, <5>2
      <4>14. \A j \in 1 .. m : j <= i => d[j] = table[j]
        <5> SUFFICES ASSUME NEW j \in 1 .. m, j <= i PROVE d[j] = table[j] OBVIOUS
        <5>1. CASE j = i
          <6>1. Len(d) = i /\ Len(c) + 1 = i BY <4>4, <4>12, <3>6, <5>1
          <6> QED BY <4>4, <5>1, <6>1
        <5>2. CASE j # i
          <6>1. j <= i - 1 /\ c[j] = table[j] BY <3>1, <3>2, <3>4, <5>2
          <6>2. j <= Len(c)
            <7>1. CASE i - 1 >= m
              <8>1. m <= Len(c) BY <3>2, <3>4, <7>1
              <8> QED BY <3>5, <3>6, <8>1
            <7>2. CASE ~ (i - 1 >= m)
              <8>1. i - 1 <= m BY <3>1, <3>6, <7>2
              <8>2. Len(c) = i - 1 BY <3>2, <3>4, <8>1
              <8> QED BY <6>1, <8>2
            <7> QED BY <7>1, <7>2
          <6>3. j \in 1 .. Len(c) BY <3>5, <6>2
          <6> QED BY <4>4, <6>1, <6>3
        <5> QED BY <5>1, <5>2
      <4>15. Right(i) BY <4>2, <4>4, <4>8, <4>11, <4>12, <4>13, <4>14
      <4> HIDE DEF Right
      <4> QED BY <2>2, <4>15
    <3> QED BY <3>9, <3>10
  <2> QED BY <2>3, <2>4
<1>9. Right(n)
  <2> HIDE DEF Right
  <2>1. n \in 0 .. n BY <1>1
  <2> QED BY <1>8, <2>1
<1>10. Without(table, gone) = from[n] BY Zenon DEF Without, from, n
<1>11. Range(from[n]) = Range(table) \ gone
  <2>1. Range(from[n]) = {from[n][j] : j \in 1 .. Len(from[n])}
    <3>1. from[n] \in Seq(T) BY <1>9
    <3> HIDE DEF Right, from, n
    <3> QED BY <3>1, RangeEquality
  <2>2. Range(table) = {table[j] : j \in 1 .. n} BY RangeEquality
  <2>3. \A y : (\E j \in 1 .. Len(from[n]) : from[n][j] = y) <=> (\E j \in 1 .. n : table[j] = y) /\ y \notin gone
    BY <1>9
  <2> HIDE DEF n
  <2> QED BY <2>1, <2>2, <2>3
<1>12. m <= Len(from[n]) /\ \A j \in 1 .. m : from[n][j] = table[j]
  <2>1. n >= m /\ \A j \in 1 .. m : j <= n BY <1>1
  <2> HIDE DEF n
  <2> QED BY <1>9, <2>1
<1> QED BY <1>9, <1>10, <1>11, <1>12
-----------------------------------------------------------------------------
(* The order of the blocks: outer before inner, then as they were opened.  *)
Step == {"main", "function", "type"} \cup Nat
Scope == Seq(Step)
IsPath(s) == s \in Scope /\ Len(s) > 0 /\ s[1] = "main" /\ \A k \in 2 .. Len(s) : s[k] \in Nat

(* They differ first at place i, after which nothing counts.               *)
BeforeAt(s, t, i) ==
  /\ i <= Len(t) /\ i <= Len(s) + 1 /\ i > 1
  /\ \A j \in 1 .. i - 1 : s[j] = t[j]
  /\ i <= Len(s) => s[i] < t[i]

LEMMA BeforeIs ==
  ASSUME NEW s, NEW t, IsPath(s), IsPath(t)
  PROVE  Before(s, t) <=> \E i \in Nat : BeforeAt(s, t, i)
<1>1. /\ Len(s) \in Nat \ {0} /\ DOMAIN s = 1 .. Len(s) /\ s \in Seq(Step)
      /\ Len(t) \in Nat \ {0} /\ DOMAIN t = 1 .. Len(t) /\ t \in Seq(Step)
  BY LenProperties DEF IsPath, Scope
<1>2. /\ s[1] = t[1] /\ (\A k \in 2 .. Len(s) : s[k] \in Nat) /\ \A k \in 2 .. Len(t) : t[k] \in Nat
  BY DEF IsPath
<1>3. \A n \in 0 .. Len(s) : /\ SubSeq(s, 1, n) \in Seq(Step) /\ Len(SubSeq(s, 1, n)) = n
                             /\ \A i \in 1 .. n : SubSeq(s, 1, n)[i] = s[i]
  BY <1>1, FirstIs
<1>4. \A n \in 0 .. Len(t) : /\ SubSeq(t, 1, n) \in Seq(Step) /\ Len(SubSeq(t, 1, n)) = n
                             /\ \A i \in 1 .. n : SubSeq(t, 1, n)[i] = t[i]
  BY <1>1, FirstIs
<1>5. SubSeq(s, 1, Len(s)) = s BY <1>1, SubSeqFull
<1>6. ASSUME IsStrictPrefix(s, t) PROVE BeforeAt(s, t, Len(s) + 1)
  <2>1. Len(s) <= Len(t) /\ s = SubSeq(t, 1, Len(s)) /\ s # t BY <1>5, <1>6 DEF IsStrictPrefix, IsPrefix
  <2>2. Len(s) # Len(t) BY <1>1, <2>1, SubSeqFull
  <2>3. \A j \in 1 .. Len(s) : s[j] = t[j] BY <1>1, <1>4, <2>1
  <2>4. Len(s) + 1 <= Len(t) /\ Len(s) + 1 > 1 /\ Len(s) + 1 - 1 = Len(s) /\ ~ (Len(s) + 1 <= Len(s))
    <3>1. PICK a \in Nat, b \in Nat : a = Len(s) /\ b = Len(t) /\ a # 0 BY <1>1
    <3>2. a <= b /\ a # b BY <2>1, <2>2, <3>1
    <3>3. a + 1 <= b /\ a + 1 > 1 /\ a + 1 - 1 = a /\ ~ (a + 1 <= a) BY <3>1, <3>2
    <3> QED BY <3>1, <3>3
  <2> QED BY <2>3, <2>4 DEF BeforeAt
<1>7. ASSUME NEW i \in DOMAIN s \cap DOMAIN t,
             SubSeq(s, 1, i - 1) = SubSeq(t, 1, i - 1) /\ i > 1 /\ s[i] < t[i]
      PROVE  BeforeAt(s, t, i) /\ i \in Nat
  <2>1. i \in Nat /\ i <= Len(s) /\ i <= Len(t) /\ i - 1 \in 0 .. Len(s) /\ i - 1 \in 0 .. Len(t)
        /\ i <= Len(s) + 1
    BY <1>1, <1>7
  <2>2. \A j \in 1 .. i - 1 : s[j] = t[j] BY <1>3, <1>4, <1>7, <2>1
  <2> QED BY <1>7, <2>1, <2>2 DEF BeforeAt
<1>8. ASSUME NEW i \in Nat, BeforeAt(s, t, i), i > Len(s) PROVE IsStrictPrefix(s, t)
  <2>1. i = Len(s) + 1 /\ i - 1 = Len(s) /\ Len(s) < Len(t) BY <1>1, <1>8 DEF BeforeAt
  <2>2. \A j \in 1 .. Len(s) : s[j] = t[j] BY <1>8, <2>1 DEF BeforeAt
  <2>3. Len(s) \in 0 .. Len(t) BY <1>1, <2>1
  <2>4. SubSeq(t, 1, Len(s)) = s BY <1>1, <1>4, <2>2, <2>3, SeqEqual
  <2> QED BY <1>1, <1>5, <2>1, <2>4 DEF IsStrictPrefix, IsPrefix
<1>9. ASSUME NEW i \in Nat, BeforeAt(s, t, i), i <= Len(s) PROVE Before(s, t)
  <2>1. i \in DOMAIN s \cap DOMAIN t /\ i - 1 \in 0 .. Len(s) /\ i - 1 \in 0 .. Len(t)
        /\ i > 1 /\ s[i] < t[i]
    BY <1>1, <1>9 DEF BeforeAt
  <2>2. \A j \in 1 .. i - 1 : s[j] = t[j] BY <1>9 DEF BeforeAt
  <2>3. \A j \in 1 .. i - 1 : SubSeq(s, 1, i - 1)[j] = SubSeq(t, 1, i - 1)[j] BY <1>3, <1>4, <2>1, <2>2
  <2>4. SubSeq(s, 1, i - 1) = SubSeq(t, 1, i - 1) BY <1>3, <1>4, <2>1, <2>3, SeqEqual
  <2> QED BY <2>1, <2>4 DEF Before
<1>10. ASSUME NEW i \in Nat, BeforeAt(s, t, i) PROVE Before(s, t)
  <2>1. i > Len(s) \/ i <= Len(s) BY <1>1
  <2> QED BY <1>8, <1>9, <1>10, <2>1 DEF Before
<1>11. Len(s) + 1 \in Nat BY <1>1
<1> QED BY <1>6, <1>7, <1>10, <1>11 DEF Before

LEMMA BeforeIrreflexive == ASSUME NEW s, IsPath(s) PROVE ~ Before(s, s)
<1> SUFFICES ASSUME NEW i \in Nat, BeforeAt(s, s, i) PROVE FALSE BY BeforeIs
<1>1. Len(s) \in Nat BY LenProperties DEF IsPath, Scope
<1>2. i \in 2 .. Len(s) /\ s[i] < s[i] BY <1>1 DEF BeforeAt
<1>3. s[i] \in Nat BY <1>2 DEF IsPath
<1> QED BY <1>2, <1>3

LEMMA BeforeTransitive ==
  ASSUME NEW s, NEW t, NEW u, IsPath(s), IsPath(t), IsPath(u), Before(s, t), Before(t, u)
  PROVE  Before(s, u)
<1>1. PICK i \in Nat : BeforeAt(s, t, i) BY BeforeIs
<1>2. PICK k \in Nat : BeforeAt(t, u, k) BY BeforeIs
<1>3. Len(s) \in Nat /\ Len(t) \in Nat /\ Len(u) \in Nat BY LenProperties DEF IsPath, Scope
<1>4. /\ \A j \in 2 .. Len(s) : s[j] \in Nat
      /\ \A j \in 2 .. Len(t) : t[j] \in Nat
      /\ \A j \in 2 .. Len(u) : u[j] \in Nat
  BY DEF IsPath
<1>5. CASE i < k
  <2>1. i <= Len(u) /\ i <= Len(s) + 1 /\ i > 1 BY <1>1, <1>2, <1>3, <1>5 DEF BeforeAt
  <2>2. i \in 1 .. k - 1 BY <1>5, <2>1
  <2>3. t[i] = u[i] BY <1>2, <2>2 DEF BeforeAt
  <2>4. i <= Len(s) => s[i] < u[i] BY <1>1, <2>3 DEF BeforeAt
  <2>5. \A j \in 1 .. i - 1 : j \in 1 .. k - 1 BY <1>5
  <2>6. \A j \in 1 .. i - 1 : s[j] = u[j] BY <1>1, <1>2, <2>5 DEF BeforeAt
  <2>7. BeforeAt(s, u, i) BY <2>1, <2>4, <2>6 DEF BeforeAt
  <2> QED BY <2>7, BeforeIs
<1>6. CASE k <= i
  <2>1. k <= Len(u) /\ k <= Len(s) + 1 /\ k > 1 /\ k <= Len(t)
    BY <1>1, <1>2, <1>3, <1>6 DEF BeforeAt
  <2>2. \A j \in 1 .. k - 1 : j \in 1 .. i - 1 BY <1>6
  <2>3. \A j \in 1 .. k - 1 : s[j] = u[j] BY <1>1, <1>2, <2>2 DEF BeforeAt
  <2>4. t[k] < u[k] BY <1>2, <2>1 DEF BeforeAt
  <2>5. k <= Len(s) => s[k] < u[k]
    <3> HAVE k <= Len(s)
    <3>1. k \in 2 .. Len(s) /\ k \in 2 .. Len(t) /\ k \in 2 .. Len(u) BY <1>3, <2>1
    <3>2. s[k] \in Nat /\ t[k] \in Nat /\ u[k] \in Nat BY <1>4, <3>1
    <3>3. CASE k = i
      <4>1. s[k] < t[k] BY <1>1, <3>1, <3>3 DEF BeforeAt
      <4> QED BY <2>4, <3>2, <4>1
    <3>4. CASE k < i
      <4>1. k \in 1 .. i - 1 BY <2>1, <3>4
      <4>2. s[k] = t[k] BY <1>1, <4>1 DEF BeforeAt
      <4> QED BY <2>4, <4>2
    <3> QED BY <1>6, <3>3, <3>4
  <2>6. BeforeAt(s, u, k) BY <2>1, <2>3, <2>5 DEF BeforeAt
  <2> QED BY <2>6, BeforeIs
<1> QED BY <1>5, <1>6

LEMMA BeforeTotal ==
  ASSUME NEW s, NEW t, IsPath(s), IsPath(t), s # t
  PROVE  Before(s, t) \/ Before(t, s)
<1>1. /\ s \in Seq(Step) /\ t \in Seq(Step)
      /\ Len(s) \in Nat \ {0} /\ Len(t) \in Nat \ {0}
      /\ DOMAIN s = 1 .. Len(s) /\ DOMAIN t = 1 .. Len(t)
  BY LenProperties DEF IsPath, Scope
<1>2. /\ s[1] = t[1] /\ (\A k \in 2 .. Len(s) : s[k] \in Nat) /\ \A k \in 2 .. Len(t) : t[k] \in Nat
  BY DEF IsPath
<1> DEFINE Differs(i) == i > Len(s) \/ i > Len(t) \/ s[i] # t[i]
           S == {i \in 1 .. Len(s) + Len(t) + 1 : Differs(i)}
<1>3. Len(s) + Len(t) + 1 \in S BY <1>1
<1>4. S \in SUBSET Nat /\ S # {} BY <1>3
<1>5. PICK i \in S : \A k \in S : i <= k BY <1>4, Least
<1>6. i \in Nat /\ i >= 1 /\ i <= Len(s) + Len(t) + 1 /\ Differs(i) BY <1>1
<1>7. \A j \in 1 .. i - 1 : j <= Len(s) /\ j <= Len(t) /\ s[j] = t[j]
  <2> TAKE j \in 1 .. i - 1
  <2>1. j \in Nat /\ j \in 1 .. Len(s) + Len(t) + 1 /\ ~ (i <= j) BY <1>1, <1>6
  <2>2. j \notin S BY <1>5, <2>1
  <2>3. ~ Differs(j)
    <3> HIDE DEF Differs
    <3> QED BY <2>1, <2>2
  <2> QED BY <1>1, <2>1, <2>3
<1> HIDE DEF S
<1>8. i # 1 BY <1>1, <1>2, <1>6
<1>9. i > 1 /\ i - 1 \in 1 .. i - 1 BY <1>6, <1>8
<1>10. i - 1 <= Len(s) /\ i - 1 <= Len(t) BY <1>7, <1>9
<1>11. i <= Len(s) + 1 /\ i <= Len(t) + 1 BY <1>1, <1>6, <1>10
<1>12. CASE i <= Len(s) /\ i <= Len(t)
  <2>1. s[i] \in Nat /\ t[i] \in Nat /\ s[i] # t[i] BY <1>1, <1>2, <1>6, <1>9, <1>12
  <2>2. s[i] < t[i] \/ t[i] < s[i] BY <2>1
  <2>3. BeforeAt(s, t, i) \/ BeforeAt(t, s, i) BY <1>7, <1>9, <1>11, <1>12, <2>2 DEF BeforeAt
  <2> QED BY <1>6, <2>3, BeforeIs
<1>13. CASE i > Len(s) /\ i <= Len(t)
  <2>1. ~ (i <= Len(s)) BY <1>1, <1>6, <1>13
  <2>2. BeforeAt(s, t, i) BY <1>7, <1>9, <1>11, <1>13, <2>1 DEF BeforeAt
  <2> QED BY <1>6, <2>2, BeforeIs
<1>14. CASE i <= Len(s) /\ i > Len(t)
  <2>1. ~ (i <= Len(t)) BY <1>1, <1>6, <1>14
  <2>2. BeforeAt(t, s, i) BY <1>7, <1>9, <1>11, <1>14, <2>1 DEF BeforeAt
  <2> QED BY <1>6, <2>2, BeforeIs
<1>15. CASE i > Len(s) /\ i > Len(t)
  <2>1. Len(s) = i - 1 /\ Len(t) = i - 1 BY <1>1, <1>6, <1>10, <1>15
  <2>2. s = t BY <1>1, <1>7, <2>1, SeqEqual
  <2> QED BY <2>2
<1>16. (i <= Len(s) \/ i > Len(s)) /\ (i <= Len(t) \/ i > Len(t)) BY <1>1, <1>6
<1> QED BY <1>12, <1>13, <1>14, <1>15, <1>16

(* Nothing comes before the main scope.                                    *)
LEMMA MainIsPath == IsPath(Main)
BY DEF IsPath, Scope, Step, Main

LEMMA MainIsFirst == ASSUME NEW s, IsPath(s) PROVE ~ Before(s, Main)
<1> SUFFICES ASSUME NEW i \in Nat, BeforeAt(s, Main, i) PROVE FALSE BY BeforeIs, MainIsPath
<1>1. Len(Main) = 1 BY DEF Main
<1> QED BY <1>1 DEF BeforeAt
-----------------------------------------------------------------------------
(* The ranks of a finite ordered set are the numbers from 1.               *)
LEMMA RanksAre ==
  ASSUME NEW S, IsFiniteSet(S), NEW R,
         \A x \in S : <<x, x>> \notin R,
         \A x, y, z \in S : <<x, y>> \in R /\ <<y, z>> \in R => <<x, z>> \in R,
         \A x, y \in S : x # y => <<x, y>> \in R \/ <<y, x>> \in R,
         NEW rank, rank = [x \in S |-> 1 + Cardinality({y \in S : <<y, x>> \in R})]
  PROVE  /\ Cardinality(S) \in Nat
         /\ rank \in Bijection(S, 1 .. Cardinality(S))
<1> DEFINE n == Cardinality(S)
           Below(x) == {y \in S : <<y, x>> \in R}
<1>1. n \in Nat BY FS_CardinalityType
<1>2. \A x \in S : IsFiniteSet(Below(x)) /\ Cardinality(Below(x)) \in Nat /\ Cardinality(Below(x)) < n
  <2> TAKE x \in S
  <2>1. Below(x) \in SUBSET S /\ Below(x) # S OBVIOUS
  <2>2. /\ IsFiniteSet(Below(x)) /\ Cardinality(Below(x)) <= n
        /\ Cardinality(S) = Cardinality(Below(x)) => S = Below(x)
    BY <2>1, FS_Subset
  <2>3. Cardinality(Below(x)) \in Nat BY <2>2, FS_CardinalityType
  <2> HIDE DEF Below
  <2> QED BY <1>1, <2>1, <2>2, <2>3
<1>3. \A x, y \in S : <<x, y>> \in R => Cardinality(Below(x)) < Cardinality(Below(y))
  <2> TAKE x, y \in S
  <2> HAVE <<x, y>> \in R
  <2>1. Below(x) \in SUBSET Below(y) /\ x \in Below(y) /\ x \notin Below(x) OBVIOUS
  <2>2. IsFiniteSet(Below(y)) BY <1>2
  <2>3. /\ Cardinality(Below(x)) <= Cardinality(Below(y))
        /\ Cardinality(Below(y)) = Cardinality(Below(x)) => Below(y) = Below(x)
    BY <2>1, <2>2, FS_Subset
  <2>4. Cardinality(Below(x)) \in Nat /\ Cardinality(Below(y)) \in Nat BY <1>2
  <2> HIDE DEF Below
  <2> QED BY <2>1, <2>3, <2>4
<1>4. \A x \in S : rank[x] = 1 + Cardinality(Below(x)) OBVIOUS
<1> HIDE DEF Below, n
<1>5. rank \in [S -> 1 .. n]
  <2>1. \A x \in S : rank[x] \in 1 .. n BY <1>1, <1>2, <1>4
  <2> QED BY <2>1
<1>6. \A x, y \in S : rank[x] = rank[y] => x = y
  <2> SUFFICES ASSUME NEW x \in S, NEW y \in S, rank[x] = rank[y], x # y PROVE FALSE OBVIOUS
  <2>1. Cardinality(Below(x)) \in Nat /\ Cardinality(Below(y)) \in Nat BY <1>2
  <2>2. Cardinality(Below(x)) = Cardinality(Below(y)) BY <1>4, <2>1
  <2>3. <<x, y>> \in R \/ <<y, x>> \in R OBVIOUS
  <2> QED BY <1>3, <2>1, <2>2, <2>3
<1>7. rank \in Injection(S, 1 .. n)
  <2>1. DOMAIN rank = S BY <1>5
  <2> QED BY <1>5, <1>6, <2>1 DEF Injection, IsInjective
<1>8. IsFiniteSet(1 .. n) /\ Cardinality(1 .. n) = n
  <2>1. 1 \in Int /\ n \in Int BY <1>1
  <2>2. IsFiniteSet(1 .. n) /\ Cardinality(1 .. n) = IF 1 > n THEN 0 ELSE n - 1 + 1 BY <2>1, FS_Interval
  <2> QED BY <1>1, <2>2
<1>9. rank \in Surjection(S, 1 .. n) BY <1>7, <1>8, FS_Injection DEF n
<1> QED BY <1>1, <1>7, <1>9 DEF n, Bijection
-----------------------------------------------------------------------------
(* The inductive invariant.  Scripts and hosts keep to all the rules.      *)
KeepsRules ==
  {"import", "link", "const", "save", "late", "override", "extend", "rerun", "body"} \subseteq Rules

Declarable == Variables \cup ClassNames
GlobalCount == Len(declared[Main])
Global(i) == Symbol(Main, declared[Main][i])

(* The table of scopes names each scope once, the main scope first.        *)
ScopesAre ==
  /\ scopes \in Seq(Scope) /\ scopes # <<>> /\ scopes[1] = Main /\ IsInjective(scopes)
  /\ \A i \in DOMAIN scopes :
       IsBlock(scopes[i]) => \A k \in 2 .. Len(scopes[i]) : scopes[i][k] \in Nat

(* A scope declares a name once.                                           *)
DeclaredAre ==
  /\ declared \in [{Main} \cup Blocks -> Seq(Declarable)]
  /\ \A s \in DOMAIN declared : IsInjective(declared[s])

(* The main function's variables are those of the scopes, and each symbol  *)
(* knows its place.                                                        *)
LocalsAre ==
  /\ locals \in Seq(Symbols) /\ Len(locals) <= MaxLocals
  /\ position \in [Symbols -> 1 .. Len(locals)]
  /\ \A i \in 1 .. Len(locals) : position[locals[i]] = i
  /\ \A x \in Symbols : locals[position[x]] = x

(* Between units they are sorted.                                          *)
InOrder == Idle => \A x \in Symbols : position[x] = Rank(x)

(* The globals come first between units, in an imported unit, and until a  *)
(* block declares a variable.                                              *)
Settled == Idle \/ units > 1 \/ InMainOrder
GlobalsFirst ==
  Settled => GlobalCount <= Len(locals) /\ \A i \in 1 .. GlobalCount : locals[i] = Global(i)

(* What names a slot: the main function's code follows the sort, its       *)
(* constants, and members and functions name globals at their final place, *)
(* or wait for the link.                                                   *)
IsGlobalAt(symbol, slot) == slot \in 1 .. GlobalCount /\ symbol = Global(slot)
RefIs(r) ==
  \/ /\ r.by = <<"local">>
     /\ phase # "cleared" => r.symbol \in Symbols /\ r.slot = position[r.symbol]
  \/ /\ r.by = <<"const">>
     /\ phase # "cleared" => IsGlobalAt(r.symbol, r.slot)
  \/ \E t \in 1 .. Len(types) : r.by = <<"type", t>> /\ IsGlobalAt(r.symbol, r.slot)
  \/ \E f \in 1 .. Len(functions) :
       /\ r.by = <<"function", f>>
       /\ IsGlobalAt(r.symbol, r.slot) \/ (r.slot = Unresolved /\ f \in pending)
RefsAre == \A r \in refs : RefIs(r)

(* What saved types and functions name is saved.                           *)
SavedRefsAre ==
  \A r \in refs :
    /\ \A f \in 1 .. saved.functions : r.by = <<"function", f>> => r.slot \in 1 .. saved.locals
    /\ \A t \in 1 .. saved.types : r.by = <<"type", t>> => r.slot \in 1 .. saved.locals

(* Slots of variables hold no other variable's value.                      *)
ValuesAre ==
  /\ value \in [1 .. MaxLocals -> Declarable \cup {Undefined, "operand"}]
  /\ \A i \in 1 .. Len(locals) :
       value[i] = Undefined \/ (i <= GlobalCount /\ value[i] = declared[Main][i])

TypedTables ==
  /\ functions \in Seq([name : FunctionNames \cup ClassNames, owner : Nat, scope : Scope, hasCode : BOOLEAN])
  /\ funSymbols \in Seq([name : FunctionNames, fun : Nat])
  /\ types \in Seq([name : ClassNames, members : SUBSET Nat])
  /\ typeSymbols \in Seq([name : ClassNames, type : Nat])
  /\ pending \subseteq 1 .. Len(functions)

(* The tables agree with each other.                                       *)
FunctionsAre ==
  \A f \in 1 .. Len(functions) :
    /\ functions[f].owner <= Len(types)
    /\ functions[f].scope \in Range(scopes) /\ ~ IsBlock(functions[f].scope)
FunSymbolsAre ==
  \A i \in 1 .. Len(funSymbols) :
    /\ funSymbols[i].fun \in 1 .. Len(functions)
    /\ functions[funSymbols[i].fun].owner = 0
    /\ functions[funSymbols[i].fun].name = funSymbols[i].name
TypeSymbolsAre ==
  \A i \in 1 .. Len(typeSymbols) :
    typeSymbols[i].type \in 1 .. Len(types) /\ types[typeSymbols[i].type].name = typeSymbols[i].name
MembersAre ==
  \A t \in 1 .. Len(types) : \A f \in types[t].members :
    f \in 1 .. Len(functions) /\ functions[f].owner = t
TablesAre == TypedTables /\ FunctionsAre /\ FunSymbolsAre /\ TypeSymbolsAre /\ MembersAre

(* What was saved is still there and names nothing else.                   *)
SavedCounts ==
  /\ saved \in [locals : Nat, funSymbols : Nat, typeSymbols : Nat, scopes : Nat,
                functions : Nat, types : Nat]
  /\ saved.locals <= GlobalCount
  /\ saved.funSymbols <= Len(funSymbols) /\ saved.typeSymbols <= Len(typeSymbols)
  /\ saved.functions <= Len(functions) /\ saved.types <= Len(types)
  /\ 1 <= saved.scopes /\ saved.scopes <= Len(scopes)
SavedScopes == \A i \in 1 .. saved.scopes : ~IsBlock(scopes[i])
SavedFunctions ==
  \A f \in 1 .. saved.functions :
    /\ functions[f].owner <= saved.types
    /\ \E i \in 1 .. saved.scopes : functions[f].scope = scopes[i]
SavedSymbols ==
  /\ \A i \in 1 .. saved.funSymbols : funSymbols[i].fun <= saved.functions
  /\ \A i \in 1 .. saved.typeSymbols : typeSymbols[i].type <= saved.types
SavedTypes == \A t \in 1 .. saved.types : \A f \in types[t].members : f <= saved.functions
SavedAre == SavedCounts /\ SavedScopes /\ SavedFunctions /\ SavedSymbols /\ SavedTypes

(* Its names are those that saveState was to keep; clear leaves no others. *)
CheckpointIs ==
  /\ atSave.globals = {declared[Main][i] : i \in 1 .. saved.locals}
  /\ atSave.functions = {funSymbols[i].name : i \in 1 .. saved.funSymbols}
  /\ atSave.types = {typeSymbols[i].name : i \in 1 .. saved.typeSymbols}
  /\ phase = "cleared" => /\ GlobalCount = saved.locals
                          /\ Len(funSymbols) = saved.funSymbols
                          /\ Len(typeSymbols) = saved.typeSymbols

(* The blocks around the code being compiled are open; none is pushed yet. *)
Opened ==
  Compiling =>
    /\ open \in Scope /\ open # <<>>
    /\ \A k \in 1 .. Len(open) : SubSeq(open, 1, k) \in DOMAIN declared \ pushed
    /\ \A s \in Blocks : s[Len(s)] <= opened
UnitsAre ==
  /\ phase \in {"cleared", "compiling", "breaking", "compiled", "failed"}
  /\ units \in 0 .. 2 /\ opened \in 0 .. MaxOpened
  /\ phase \in {"compiling", "compiled"} => HaveCode
  /\ phase # "cleared" => pushed \subseteq Range(scopes)

IInv == /\ ScopesAre /\ DeclaredAre /\ LocalsAre /\ InOrder /\ GlobalsFirst
        /\ RefsAre /\ SavedRefsAre /\ ValuesAre /\ TablesAre /\ SavedAre /\ CheckpointIs
        /\ Opened /\ UnitsAre /\ AllLinked
-----------------------------------------------------------------------------
(* The symbols and their order.                                            *)
LEMMA SymbolsKnown ==
  DeclaredAre =>
    /\ \A x \in Symbols :
         /\ x.scope \in DOMAIN declared /\ x = Symbol(x.scope, x.name)
         /\ x.name \in Declarable
         /\ \E i \in 1 .. Len(declared[x.scope]) : declared[x.scope][i] = x.name
    /\ \A s \in DOMAIN declared : \A i \in 1 .. Len(declared[s]) : Symbol(s, declared[s][i]) \in Symbols
    /\ \A s \in DOMAIN declared :
         declared[s] \in Seq(Declarable) /\ Len(declared[s]) \in Nat
         /\ DOMAIN declared[s] = 1 .. Len(declared[s])
<1> SUFFICES ASSUME DeclaredAre
             PROVE  /\ \A x \in Symbols :
                         /\ x.scope \in DOMAIN declared /\ x = Symbol(x.scope, x.name)
                         /\ x.name \in Declarable
                         /\ \E i \in 1 .. Len(declared[x.scope]) : declared[x.scope][i] = x.name
                    /\ \A s \in DOMAIN declared : \A i \in 1 .. Len(declared[s]) :
                         Symbol(s, declared[s][i]) \in Symbols
                    /\ \A s \in DOMAIN declared :
                         declared[s] \in Seq(Declarable) /\ Len(declared[s]) \in Nat
                         /\ DOMAIN declared[s] = 1 .. Len(declared[s])
  OBVIOUS
<1>1. \A s \in DOMAIN declared : declared[s] \in Seq(Declarable) BY DEF DeclaredAre
<1>2. \A s \in DOMAIN declared :
        /\ Len(declared[s]) \in Nat /\ DOMAIN declared[s] = 1 .. Len(declared[s])
        /\ \A i \in 1 .. Len(declared[s]) : declared[s][i] \in Declarable
        /\ Range(declared[s]) = {declared[s][i] : i \in 1 .. Len(declared[s])}
  BY <1>1, SeqIs
<1>3. ASSUME NEW x \in Symbols
      PROVE  /\ x.scope \in DOMAIN declared /\ x = Symbol(x.scope, x.name)
             /\ x.name \in Declarable
             /\ \E i \in 1 .. Len(declared[x.scope]) : declared[x.scope][i] = x.name
  <2>1. PICK s \in DOMAIN declared : \E n \in Range(declared[s]) : x = Symbol(s, n) BY DEF Symbols
  <2>2. PICK i \in 1 .. Len(declared[s]) : x = Symbol(s, declared[s][i]) BY <1>2, <2>1
  <2>3. x.scope = s /\ x.name = declared[s][i] BY <2>2 DEF Symbol
  <2> QED BY <1>2, <2>2, <2>3
<1>4. ASSUME NEW s \in DOMAIN declared, NEW i \in 1 .. Len(declared[s])
      PROVE  Symbol(s, declared[s][i]) \in Symbols
  <2>1. declared[s][i] \in Range(declared[s]) BY <1>2
  <2> QED BY <2>1 DEF Symbols
<1> QED BY <1>1, <1>2, <1>3, <1>4

(* The same of the next state.                                             *)
LEMMA SymbolsKnownNext ==
  ASSUME DeclaredAre'
  PROVE  /\ \A x \in Symbols' :
              /\ x.scope \in DOMAIN declared' /\ x = Symbol(x.scope, x.name)
              /\ x.name \in Declarable
              /\ \E i \in 1 .. Len(declared'[x.scope]) : declared'[x.scope][i] = x.name
         /\ \A s \in DOMAIN declared' : \A i \in 1 .. Len(declared'[s]) :
              Symbol(s, declared'[s][i]) \in Symbols'
         /\ \A s \in DOMAIN declared' :
              declared'[s] \in Seq(Declarable) /\ Len(declared'[s]) \in Nat
              /\ DOMAIN declared'[s] = 1 .. Len(declared'[s])
<1>1. (DeclaredAre =>
         /\ \A x \in Symbols :
              /\ x.scope \in DOMAIN declared /\ x = Symbol(x.scope, x.name)
              /\ x.name \in Declarable
              /\ \E i \in 1 .. Len(declared[x.scope]) : declared[x.scope][i] = x.name
         /\ \A s \in DOMAIN declared : \A i \in 1 .. Len(declared[s]) : Symbol(s, declared[s][i]) \in Symbols
         /\ \A s \in DOMAIN declared :
              declared[s] \in Seq(Declarable) /\ Len(declared[s]) \in Nat
              /\ DOMAIN declared[s] = 1 .. Len(declared[s]))'
  BY SymbolsKnown, PTL
<1> QED BY <1>1 DEF Symbol, Declarable

LEMMA GlobalsKnown ==
  DeclaredAre =>
    /\ Main \in DOMAIN declared /\ GlobalCount \in Nat /\ declared[Main] \in Seq(Declarable)
    /\ \A i \in 1 .. GlobalCount : Global(i) \in Symbols /\ declared[Main][i] \in Declarable
    /\ \A i, j \in 1 .. GlobalCount : declared[Main][i] = declared[Main][j] => i = j
    /\ \A i \in 1 .. GlobalCount : Global(i).scope = Main /\ Global(i).name = declared[Main][i]
    /\ \A x \in Symbols : x.scope = Main => \E i \in 1 .. GlobalCount : x = Global(i)
<1> SUFFICES ASSUME DeclaredAre
             PROVE  /\ Main \in DOMAIN declared /\ GlobalCount \in Nat /\ declared[Main] \in Seq(Declarable)
                    /\ \A i \in 1 .. GlobalCount : Global(i) \in Symbols /\ declared[Main][i] \in Declarable
                    /\ \A i, j \in 1 .. GlobalCount : declared[Main][i] = declared[Main][j] => i = j
                    /\ \A i \in 1 .. GlobalCount : Global(i).scope = Main /\ Global(i).name = declared[Main][i]
                    /\ \A x \in Symbols : x.scope = Main => \E i \in 1 .. GlobalCount : x = Global(i)
  OBVIOUS
<1>1. Main \in DOMAIN declared /\ IsInjective(declared[Main]) BY DEF DeclaredAre
<1>2. GlobalCount \in Nat /\ declared[Main] \in Seq(Declarable) /\ DOMAIN declared[Main] = 1 .. GlobalCount
  BY <1>1, SymbolsKnown DEF GlobalCount
<1>3. \A i \in 1 .. GlobalCount : Global(i) \in Symbols BY <1>1, SymbolsKnown DEF Global, GlobalCount
<1>4. \A i \in 1 .. GlobalCount : Global(i).scope = Main /\ Global(i).name = declared[Main][i]
  BY DEF Global, Symbol
<1>5. \A i, j \in 1 .. GlobalCount : declared[Main][i] = declared[Main][j] => i = j
  BY <1>1, <1>2 DEF IsInjective
<1>6. \A x \in Symbols : x.scope = Main => \E i \in 1 .. GlobalCount : x = Global(i)
  BY SymbolsKnown DEF Global, GlobalCount
<1>7. \A i \in 1 .. GlobalCount : declared[Main][i] \in Declarable BY <1>2, ElementOfSeq DEF GlobalCount
<1> QED BY <1>1, <1>2, <1>3, <1>4, <1>5, <1>6, <1>7

LEMMA GlobalsKnownNext ==
  ASSUME DeclaredAre'
  PROVE  /\ Main \in DOMAIN declared' /\ GlobalCount' \in Nat /\ declared'[Main] \in Seq(Declarable)
         /\ \A i \in 1 .. GlobalCount' : Global(i)' \in Symbols' /\ declared'[Main][i] \in Declarable
         /\ \A i, j \in 1 .. GlobalCount' : declared'[Main][i] = declared'[Main][j] => i = j
         /\ \A i \in 1 .. GlobalCount' : Global(i)' = Symbol(Main, declared'[Main][i])
         /\ \A x \in Symbols' : x.scope = Main => \E i \in 1 .. GlobalCount' : x = Global(i)'
<1>1. (DeclaredAre =>
         /\ Main \in DOMAIN declared /\ GlobalCount \in Nat /\ declared[Main] \in Seq(Declarable)
         /\ \A i \in 1 .. GlobalCount : Global(i) \in Symbols /\ declared[Main][i] \in Declarable
         /\ \A i, j \in 1 .. GlobalCount : declared[Main][i] = declared[Main][j] => i = j
         /\ \A i \in 1 .. GlobalCount : Global(i).scope = Main /\ Global(i).name = declared[Main][i]
         /\ \A x \in Symbols : x.scope = Main => \E i \in 1 .. GlobalCount : x = Global(i))'
  BY GlobalsKnown, PTL
<1>2. \A i : Global(i)' = Symbol(Main, declared'[Main][i]) BY DEF Global, Symbol, Main
<1> QED BY <1>1, <1>2 DEF Main, Declarable

LEMMA ScopesOfSymbols ==
  ScopesAre /\ DeclaredAre =>
    /\ \A s \in DOMAIN declared : IsPath(s)
    /\ \A s \in DOMAIN declared : s # Main => IsBlock(s) /\ s \in Range(scopes)
    /\ \A s \in Range(scopes) : IsBlock(s) => s \in DOMAIN declared
    /\ Main \in Range(scopes) /\ ~ IsBlock(Main)
<1> SUFFICES ASSUME ScopesAre, DeclaredAre
             PROVE  /\ \A s \in DOMAIN declared : IsPath(s)
                    /\ \A s \in DOMAIN declared : s # Main => IsBlock(s) /\ s \in Range(scopes)
                    /\ \A s \in Range(scopes) : IsBlock(s) => s \in DOMAIN declared
                    /\ Main \in Range(scopes) /\ ~ IsBlock(Main)
  OBVIOUS
<1>1. Len(scopes) \in Nat \ {0} /\ DOMAIN scopes = 1 .. Len(scopes)
      /\ Range(scopes) = {scopes[i] : i \in 1 .. Len(scopes)}
      /\ \A i \in 1 .. Len(scopes) : scopes[i] \in Scope
  BY SeqIs, EmptySeq DEF ScopesAre
<1>2. DOMAIN declared = {Main} \cup Blocks BY DEF DeclaredAre
<1>3. \A s \in Blocks : IsPath(s)
  <2> SUFFICES ASSUME NEW s \in Blocks PROVE IsPath(s) OBVIOUS
  <2>1. PICK i \in 1 .. Len(scopes) : s = scopes[i] /\ IsBlock(s) BY <1>1 DEF Blocks
  <2>2. s \in Scope /\ \A k \in 2 .. Len(s) : s[k] \in Nat BY <1>1, <2>1 DEF ScopesAre
  <2>3. s[1] = "main" /\ Len(s) > 1 BY <2>1 DEF IsBlock
  <2>4. Len(s) \in Nat BY <2>2, LenProperties DEF Scope
  <2> QED BY <2>2, <2>3, <2>4 DEF IsPath
<1>4. Main \in Range(scopes) /\ ~ IsBlock(Main)
  <2>1. 1 \in 1 .. Len(scopes) /\ scopes[1] = Main BY <1>1 DEF ScopesAre
  <2>2. Len(Main) = 1 BY DEF Main
  <2> QED BY <1>1, <2>1, <2>2 DEF IsBlock
<1> QED BY <1>2, <1>3, <1>4, MainIsPath DEF Blocks

LEMMA PlacesAre ==
  DeclaredAre =>
    \A s \in DOMAIN declared : \A i \in 1 .. Len(declared[s]) :
      PlaceInScope(Symbol(s, declared[s][i])) = i
<1> SUFFICES ASSUME DeclaredAre, NEW s \in DOMAIN declared, NEW i \in 1 .. Len(declared[s])
             PROVE  PlaceInScope(Symbol(s, declared[s][i])) = i
  OBVIOUS
<1>1. DOMAIN declared[s] = 1 .. Len(declared[s]) /\ IsInjective(declared[s])
  BY SymbolsKnown DEF DeclaredAre
<1>2. Symbol(s, declared[s][i]).scope = s /\ Symbol(s, declared[s][i]).name = declared[s][i] BY DEF Symbol
<1>3. \A j \in DOMAIN declared[s] : declared[s][j] = declared[s][i] => j = i BY <1>1 DEF IsInjective
<1> QED BY <1>1, <1>2, <1>3 DEF PlaceInScope

(* Precedes orders the symbols, and the rank counts the ones before.       *)
LEMMA PrecedesOrders ==
  ScopesAre /\ DeclaredAre =>
    /\ \A x \in Symbols : ~ Precedes(x, x)
    /\ \A x, y, z \in Symbols : Precedes(x, y) /\ Precedes(y, z) => Precedes(x, z)
    /\ \A x, y \in Symbols : x # y => Precedes(x, y) \/ Precedes(y, x)
<1> SUFFICES ASSUME ScopesAre, DeclaredAre
             PROVE  /\ \A x \in Symbols : ~ Precedes(x, x)
                    /\ \A x, y, z \in Symbols : Precedes(x, y) /\ Precedes(y, z) => Precedes(x, z)
                    /\ \A x, y \in Symbols : x # y => Precedes(x, y) \/ Precedes(y, x)
  OBVIOUS
<1>1. \A x \in Symbols : IsPath(x.scope) BY SymbolsKnown, ScopesOfSymbols
<1>2. \A x \in Symbols : /\ PlaceInScope(x) \in Nat
                         /\ x = Symbol(x.scope, declared[x.scope][PlaceInScope(x)])
  <2> TAKE x \in Symbols
  <2>1. PICK i \in 1 .. Len(declared[x.scope]) : declared[x.scope][i] = x.name BY SymbolsKnown
  <2>2. x.scope \in DOMAIN declared /\ x = Symbol(x.scope, declared[x.scope][i]) BY <2>1, SymbolsKnown
  <2>3. PlaceInScope(x) = i BY <2>2, PlacesAre
  <2>4. i \in Nat OBVIOUS
  <2> QED BY <2>2, <2>3, <2>4
<1>3. ASSUME NEW x \in Symbols PROVE ~ Precedes(x, x)
  <2>1. ~ Before(x.scope, x.scope) BY <1>1, BeforeIrreflexive
  <2>2. ~ (PlaceInScope(x) < PlaceInScope(x)) BY <1>2
  <2> QED BY <2>1, <2>2 DEF Precedes
<1>4. ASSUME NEW x \in Symbols, NEW y \in Symbols, NEW z \in Symbols, Precedes(x, y), Precedes(y, z)
      PROVE  Precedes(x, z)
  <2>1. Before(x.scope, y.scope) /\ Before(y.scope, z.scope) => Before(x.scope, z.scope)
    BY <1>1, BeforeTransitive
  <2>2. PlaceInScope(x) < PlaceInScope(y) /\ PlaceInScope(y) < PlaceInScope(z) =>
          PlaceInScope(x) < PlaceInScope(z)
    BY <1>2
  <2>3. CASE Before(x.scope, y.scope) BY <1>4, <2>1, <2>3 DEF Precedes
  <2>4. CASE x.scope = y.scope /\ PlaceInScope(x) < PlaceInScope(y) BY <1>4, <2>2, <2>4 DEF Precedes
  <2> QED BY <1>4, <2>3, <2>4 DEF Precedes
<1>5. ASSUME NEW x \in Symbols, NEW y \in Symbols, x # y PROVE Precedes(x, y) \/ Precedes(y, x)
  <2>1. CASE x.scope = y.scope
    <3>1. PlaceInScope(x) # PlaceInScope(y) BY <1>2, <1>5, <2>1
    <3>2. PlaceInScope(x) < PlaceInScope(y) \/ PlaceInScope(y) < PlaceInScope(x) BY <1>2, <3>1
    <3> QED BY <2>1, <3>2 DEF Precedes
  <2>2. CASE x.scope # y.scope
    <3>1. Before(x.scope, y.scope) \/ Before(y.scope, x.scope) BY <1>1, <2>2, BeforeTotal
    <3> QED BY <3>1 DEF Precedes
  <2> QED BY <2>1, <2>2
<1> QED BY <1>3, <1>4, <1>5

LEMMA SymbolsCounted ==
  ScopesAre /\ DeclaredAre /\ LocalsAre =>
    /\ IsFiniteSet(Symbols) /\ Sorts /\ Len(locals) \in Nat /\ DOMAIN locals = 1 .. Len(locals)
    /\ \A i \in 1 .. Len(locals) : locals[i] \in Symbols
<1> SUFFICES ASSUME ScopesAre, DeclaredAre, LocalsAre
             PROVE  /\ IsFiniteSet(Symbols) /\ Sorts /\ Len(locals) \in Nat /\ DOMAIN locals = 1 .. Len(locals)
                    /\ \A i \in 1 .. Len(locals) : locals[i] \in Symbols
  OBVIOUS
<1>1. /\ locals \in Seq(Symbols) /\ Len(locals) \in Nat /\ DOMAIN locals = 1 .. Len(locals)
      /\ Range(locals) = {locals[i] : i \in 1 .. Len(locals)}
      /\ \A i \in 1 .. Len(locals) : locals[i] \in Symbols
  BY SeqIs DEF LocalsAre
<1>2. IsInjective(locals)
  <2>1. \A i \in 1 .. Len(locals) : position[locals[i]] = i BY DEF LocalsAre
  <2> QED BY <1>1, <2>1 DEF IsInjective
<1>3. Range(locals) = Symbols
  <2>1. \A x \in Symbols : position[x] \in 1 .. Len(locals) /\ locals[position[x]] = x BY DEF LocalsAre
  <2> QED BY <1>1, <2>1
<1>4. IsFiniteSet(Symbols) /\ Cardinality(Symbols) = Len(locals) BY <1>1, <1>2, <1>3, EntriesCounted
<1> QED BY <1>1, <1>4 DEF Sorts

LEMMA RanksKnown ==
  ScopesAre /\ DeclaredAre /\ LocalsAre =>
    /\ \A x \in Symbols : Rank(x) \in 1 .. Len(locals)
    /\ \A x, y \in Symbols : Rank(x) = Rank(y) => x = y
    /\ \A i \in 1 .. Len(locals) : \E x \in Symbols : Rank(x) = i
<1> SUFFICES ASSUME ScopesAre, DeclaredAre, LocalsAre
             PROVE  /\ \A x \in Symbols : Rank(x) \in 1 .. Len(locals)
                    /\ \A x, y \in Symbols : Rank(x) = Rank(y) => x = y
                    /\ \A i \in 1 .. Len(locals) : \E x \in Symbols : Rank(x) = i
  OBVIOUS
<1> DEFINE R == {p \in Symbols \X Symbols : Precedes(p[1], p[2])}
           rank == [x \in Symbols |-> 1 + Cardinality({y \in Symbols : <<y, x>> \in R})]
<1>1. \A x, y \in Symbols : <<x, y>> \in R <=> Precedes(x, y) OBVIOUS
<1>2. IsFiniteSet(Symbols) /\ Cardinality(Symbols) = Len(locals) /\ Sorts BY SymbolsCounted DEF Sorts
<1>3. \A x \in Symbols : rank[x] = Rank(x)
  <2> TAKE x \in Symbols
  <2>1. {y \in Symbols : <<y, x>> \in R} = {y \in Symbols : Precedes(y, x)} BY <1>1
  <2> QED BY <1>2, <2>1 DEF Rank
<1>4. /\ \A x \in Symbols : <<x, x>> \notin R
      /\ \A x, y, z \in Symbols : <<x, y>> \in R /\ <<y, z>> \in R => <<x, z>> \in R
      /\ \A x, y \in Symbols : x # y => <<x, y>> \in R \/ <<y, x>> \in R
  <2> HIDE DEF R
  <2> QED BY <1>1, PrecedesOrders
<1>5. rank \in Bijection(Symbols, 1 .. Len(locals))
  <2> HIDE DEF R
  <2>1. PICK S : S = Symbols OBVIOUS
  <2>2. PICK Q : Q = R OBVIOUS
  <2>3. PICK g : g = [x \in S |-> 1 + Cardinality({y \in S : <<y, x>> \in Q})] OBVIOUS
  <2>4. /\ IsFiniteSet(S) /\ \A x \in S : <<x, x>> \notin Q
        /\ \A x, y, z \in S : <<x, y>> \in Q /\ <<y, z>> \in Q => <<x, z>> \in Q
        /\ \A x, y \in S : x # y => <<x, y>> \in Q \/ <<y, x>> \in Q
    BY <1>2, <1>4, <2>1, <2>2
  <2>5. g \in Bijection(S, 1 .. Cardinality(S)) BY <2>3, <2>4, RanksAre
  <2>6. g = rank BY <2>1, <2>2, <2>3
  <2> HIDE DEF rank
  <2> QED BY <1>2, <2>1, <2>5, <2>6
<1> HIDE DEF rank
<1>6. /\ rank \in [Symbols -> 1 .. Len(locals)] /\ IsInjective(rank) /\ DOMAIN rank = Symbols
      /\ \A i \in 1 .. Len(locals) : \E x \in Symbols : rank[x] = i
  BY <1>5 DEF Bijection, Injection, Surjection
<1>7. \A x, y \in Symbols : rank[x] = rank[y] => x = y BY <1>6 DEF IsInjective
<1> QED BY <1>3, <1>6, <1>7

LEMMA GlobalsRank ==
  ScopesAre /\ DeclaredAre /\ LocalsAre => \A i \in 1 .. GlobalCount : Rank(Global(i)) = i
<1> SUFFICES ASSUME ScopesAre, DeclaredAre, LocalsAre, NEW i \in 1 .. GlobalCount
             PROVE  Rank(Global(i)) = i
  OBVIOUS
<1>1. Sorts BY SymbolsCounted
<1>2. GlobalCount \in Nat /\ \A j \in 1 .. GlobalCount : Global(j) \in Symbols /\ Global(j).scope = Main
  BY GlobalsKnown
<1>3. \A j \in 1 .. GlobalCount : PlaceInScope(Global(j)) = j
  BY GlobalsKnown, PlacesAre DEF Global, GlobalCount
<1>4. \A y \in Symbols : Precedes(y, Global(i)) <=> \E j \in 1 .. i - 1 : y = Global(j)
  <2> TAKE y \in Symbols
  <2>1. ~ Before(y.scope, Main) BY SymbolsKnown, ScopesOfSymbols, MainIsFirst
  <2>2. Precedes(y, Global(i)) <=> y.scope = Main /\ PlaceInScope(y) < i BY <1>2, <1>3, <2>1 DEF Precedes
  <2>3. ASSUME y.scope = Main, PlaceInScope(y) < i PROVE \E j \in 1 .. i - 1 : y = Global(j)
    <3>1. PICK j \in 1 .. GlobalCount : y = Global(j) BY <2>3, GlobalsKnown
    <3>2. j < i BY <1>3, <2>3, <3>1
    <3>3. j \in 1 .. i - 1 BY <1>2, <3>2
    <3> QED BY <3>1, <3>3
  <2>4. ASSUME NEW j \in 1 .. i - 1, y = Global(j) PROVE y.scope = Main /\ PlaceInScope(y) < i
    <3>1. j \in 1 .. GlobalCount /\ j < i BY <1>2
    <3> QED BY <1>2, <1>3, <2>4, <3>1
  <2> QED BY <2>2, <2>3, <2>4
<1>5. {y \in Symbols : Precedes(y, Global(i))} = {Global(j) : j \in 1 .. i - 1}
  <2>1. \A j \in 1 .. i - 1 : Global(j) \in Symbols BY <1>2
  <2> QED BY <1>4, <2>1
<1>6. Cardinality({Global(j) : j \in 1 .. i - 1}) = i - 1
  <2> DEFINE g == [j \in 1 .. i - 1 |-> Global(j)]
  <2>1. i - 1 \in Nat OBVIOUS
  <2>2. g \in Seq(Symbols) /\ Len(g) = i - 1 /\ DOMAIN g = 1 .. i - 1
    <3>1. \A j \in 1 .. i - 1 : Global(j) \in Symbols BY <1>2
    <3>2. g \in [1 .. i - 1 -> Symbols] BY <3>1
    <3>3. g \in Seq(Symbols) BY <2>1, <3>2, SeqDef
    <3>4. DOMAIN g = 1 .. Len(g) /\ Len(g) \in Nat BY <3>3, LenProperties
    <3> HIDE DEF g
    <3> QED BY <2>1, <3>2, <3>3, <3>4
  <2>3. IsInjective(g)
    <3> SUFFICES ASSUME NEW a \in 1 .. i - 1, NEW b \in 1 .. i - 1, Global(a) = Global(b) PROVE a = b
      BY <2>2 DEF IsInjective
    <3>1. a \in 1 .. GlobalCount /\ b \in 1 .. GlobalCount BY <1>2
    <3> QED BY <3>1, GlobalsKnown
  <2>4. Range(g) = {Global(j) : j \in 1 .. i - 1} BY <2>2 DEF Range
  <2> HIDE DEF g
  <2> QED BY <2>2, <2>3, <2>4, EntriesCounted
<1>7. 1 + (i - 1) = i OBVIOUS
<1> QED BY <1>1, <1>5, <1>6, <1>7 DEF Rank
-----------------------------------------------------------------------------
(* What most steps leave.                                                  *)
LEMMA TablesKnown ==
  TypedTables =>
    /\ Len(functions) \in Nat /\ DOMAIN functions = 1 .. Len(functions)
    /\ Len(funSymbols) \in Nat /\ DOMAIN funSymbols = 1 .. Len(funSymbols)
    /\ Len(types) \in Nat /\ DOMAIN types = 1 .. Len(types)
    /\ Len(typeSymbols) \in Nat /\ DOMAIN typeSymbols = 1 .. Len(typeSymbols)
    /\ \A i \in 1 .. Len(funSymbols) : funSymbols[i].fun \in Nat
    /\ \A i \in 1 .. Len(typeSymbols) : typeSymbols[i].type \in Nat
    /\ \A t \in 1 .. Len(types) : types[t].members \subseteq Nat
    /\ \A f \in 1 .. Len(functions) : functions[f].owner \in Nat
<1> SUFFICES ASSUME TypedTables
             PROVE  /\ Len(functions) \in Nat /\ DOMAIN functions = 1 .. Len(functions)
                    /\ Len(funSymbols) \in Nat /\ DOMAIN funSymbols = 1 .. Len(funSymbols)
                    /\ Len(types) \in Nat /\ DOMAIN types = 1 .. Len(types)
                    /\ Len(typeSymbols) \in Nat /\ DOMAIN typeSymbols = 1 .. Len(typeSymbols)
                    /\ \A i \in 1 .. Len(funSymbols) : funSymbols[i].fun \in Nat
                    /\ \A i \in 1 .. Len(typeSymbols) : typeSymbols[i].type \in Nat
                    /\ \A t \in 1 .. Len(types) : types[t].members \subseteq Nat
                    /\ \A f \in 1 .. Len(functions) : functions[f].owner \in Nat
  OBVIOUS
<1>1. /\ Len(functions) \in Nat /\ DOMAIN functions = 1 .. Len(functions)
      /\ \A f \in 1 .. Len(functions) : functions[f].owner \in Nat
  <2>1. \A f \in 1 .. Len(functions) :
          functions[f] \in [name : FunctionNames \cup ClassNames, owner : Nat, scope : Scope, hasCode : BOOLEAN]
    BY SeqIs DEF TypedTables
  <2> QED BY <2>1, SeqIs DEF TypedTables
<1>2. /\ Len(funSymbols) \in Nat /\ DOMAIN funSymbols = 1 .. Len(funSymbols)
      /\ \A i \in 1 .. Len(funSymbols) : funSymbols[i].fun \in Nat
  <2>1. \A i \in 1 .. Len(funSymbols) : funSymbols[i] \in [name : FunctionNames, fun : Nat]
    BY SeqIs DEF TypedTables
  <2> QED BY <2>1, SeqIs DEF TypedTables
<1>3. /\ Len(types) \in Nat /\ DOMAIN types = 1 .. Len(types)
      /\ \A t \in 1 .. Len(types) : types[t].members \subseteq Nat
  <2>1. \A t \in 1 .. Len(types) : types[t] \in [name : ClassNames, members : SUBSET Nat]
    BY SeqIs DEF TypedTables
  <2> QED BY <2>1, SeqIs DEF TypedTables
<1>4. /\ Len(typeSymbols) \in Nat /\ DOMAIN typeSymbols = 1 .. Len(typeSymbols)
      /\ \A i \in 1 .. Len(typeSymbols) : typeSymbols[i].type \in Nat
  <2>1. \A i \in 1 .. Len(typeSymbols) : typeSymbols[i] \in [name : ClassNames, type : Nat]
    BY SeqIs DEF TypedTables
  <2> QED BY <2>1, SeqIs DEF TypedTables
<1> QED BY <1>1, <1>2, <1>3, <1>4

LEMMA ScopesKnown ==
  ScopesAre =>
    /\ Len(scopes) \in Nat \ {0} /\ DOMAIN scopes = 1 .. Len(scopes)
    /\ Range(scopes) = {scopes[i] : i \in 1 .. Len(scopes)}
    /\ \A i \in 1 .. Len(scopes) : scopes[i] \in Scope
BY SeqIs, EmptySeq DEF ScopesAre

(* Globals and slots that were there are still there.                      *)
GlobalsStay == GlobalCount <= GlobalCount' /\ \A i \in 1 .. GlobalCount : declared'[Main][i] = declared[Main][i]
SlotsStay == \A x \in Symbols : x \in Symbols' /\ position'[x] = position[x]
TablesGrow ==
  /\ Len(functions) <= Len(functions') /\ Len(funSymbols) <= Len(funSymbols')
  /\ Len(types) <= Len(types') /\ Len(typeSymbols) <= Len(typeSymbols')
  /\ pending \subseteq pending'
SavedStays ==
  /\ saved' = saved /\ atSave' = atSave
  /\ \A f \in 1 .. saved.functions : functions'[f] = functions[f]
  /\ \A i \in 1 .. saved.funSymbols : funSymbols'[i] = funSymbols[i]
  /\ \A t \in 1 .. saved.types : types'[t] = types[t]
  /\ \A i \in 1 .. saved.typeSymbols : typeSymbols'[i] = typeSymbols[i]
  /\ \A i \in 1 .. saved.scopes : scopes'[i] = scopes[i]
  /\ saved.scopes <= Len(scopes') /\ Len(scopes') \in Nat

LEMMA SavedKept ==
  ASSUME SavedAre, CheckpointIs, DeclaredAre, DeclaredAre', TypedTables, TypedTables', GlobalsStay,
         SavedStays, TablesGrow, phase' # "cleared"
  PROVE  SavedAre' /\ CheckpointIs'
<1>1. /\ saved.locals \in Nat /\ saved.funSymbols \in Nat /\ saved.typeSymbols \in Nat
      /\ saved.scopes \in Nat /\ saved.functions \in Nat /\ saved.types \in Nat
  BY DEF SavedAre, SavedCounts
<1>2. GlobalCount \in Nat /\ GlobalCount' \in Nat BY GlobalsKnown, GlobalsKnownNext
<1>3. /\ Len(functions) \in Nat /\ Len(funSymbols) \in Nat /\ Len(types) \in Nat /\ Len(typeSymbols) \in Nat
  BY TablesKnown
<1>4. /\ Len(functions') \in Nat /\ Len(funSymbols') \in Nat /\ Len(types') \in Nat /\ Len(typeSymbols') \in Nat
  <2>1. (TypedTables => /\ Len(functions) \in Nat /\ Len(funSymbols) \in Nat
                        /\ Len(types) \in Nat /\ Len(typeSymbols) \in Nat)'
    BY TablesKnown, PTL
  <2> QED BY <2>1
<1>5. saved.locals <= GlobalCount' BY <1>1, <1>2 DEF SavedAre, SavedCounts, GlobalsStay
<1>6. /\ saved.functions <= Len(functions') /\ saved.funSymbols <= Len(funSymbols')
      /\ saved.types <= Len(types') /\ saved.typeSymbols <= Len(typeSymbols')
  <2>1. /\ saved.functions <= Len(functions) /\ saved.funSymbols <= Len(funSymbols)
        /\ saved.types <= Len(types) /\ saved.typeSymbols <= Len(typeSymbols)
    BY DEF SavedAre, SavedCounts
  <2>2. /\ Len(functions) <= Len(functions') /\ Len(funSymbols) <= Len(funSymbols')
        /\ Len(types) <= Len(types') /\ Len(typeSymbols) <= Len(typeSymbols')
    BY DEF TablesGrow
  <2>3. \A m, n, k \in Nat : m <= n /\ n <= k => m <= k OBVIOUS
  <2>4. saved.functions <= Len(functions') BY <1>1, <1>3, <1>4, <2>1, <2>2, <2>3, Zenon
  <2>5. saved.funSymbols <= Len(funSymbols') BY <1>1, <1>3, <1>4, <2>1, <2>2, <2>3, Zenon
  <2>6. saved.types <= Len(types') BY <1>1, <1>3, <1>4, <2>1, <2>2, <2>3, Zenon
  <2>7. saved.typeSymbols <= Len(typeSymbols') BY <1>1, <1>3, <1>4, <2>1, <2>2, <2>3, Zenon
  <2> QED BY <2>4, <2>5, <2>6, <2>7
<1>7. SavedCounts' BY <1>1, <1>5, <1>6 DEF SavedStays, SavedAre, SavedCounts
<1>8. SavedScopes' BY DEF SavedStays, SavedAre, SavedScopes
<1>9. SavedFunctions' BY DEF SavedStays, SavedAre, SavedFunctions
<1>10. SavedSymbols' BY DEF SavedStays, SavedAre, SavedSymbols
<1>11. SavedTypes' BY DEF SavedStays, SavedAre, SavedTypes
<1>12. \A i \in 1 .. saved.locals : declared'[Main][i] = declared[Main][i]
  <2>1. \A i \in 1 .. saved.locals : i \in 1 .. GlobalCount BY <1>1, <1>2 DEF SavedAre, SavedCounts
  <2> QED BY <2>1 DEF GlobalsStay
<1>13. CheckpointIs'
  <2>1. {declared'[Main][i] : i \in 1 .. saved.locals} = {declared[Main][i] : i \in 1 .. saved.locals}
    BY <1>12
  <2>2. {funSymbols'[i].name : i \in 1 .. saved.funSymbols} = {funSymbols[i].name : i \in 1 .. saved.funSymbols}
    BY DEF SavedStays
  <2>3. {typeSymbols'[i].name : i \in 1 .. saved.typeSymbols} = {typeSymbols[i].name : i \in 1 .. saved.typeSymbols}
    BY DEF SavedStays
  <2> QED BY <2>1, <2>2, <2>3 DEF CheckpointIs, SavedStays
<1> QED BY <1>7, <1>8, <1>9, <1>10, <1>11, <1>13 DEF SavedAre

(* The references that follow, whichever refer to what stays.              *)
LEMMA GlobalStays ==
  ASSUME DeclaredAre, DeclaredAre', GlobalsStay, NEW x, NEW s, IsGlobalAt(x, s)
  PROVE  IsGlobalAt(x, s)'
<1>1. GlobalCount \in Nat /\ GlobalCount' \in Nat BY GlobalsKnown, GlobalsKnownNext
<1>2. s \in 1 .. GlobalCount /\ x = Symbol(Main, declared[Main][s]) BY DEF IsGlobalAt, Global
<1>3. s \in 1 .. GlobalCount' BY <1>1, <1>2 DEF GlobalsStay
<1> QED BY <1>2, <1>3 DEF GlobalsStay, IsGlobalAt, Global, Symbol

LEMMA RefStays ==
  ASSUME NEW r, RefIs(r), TypedTables, TypedTables', DeclaredAre, DeclaredAre', GlobalsStay, TablesGrow,
         r.by \in OfMain => SlotsStay /\ phase # "cleared"
  PROVE  RefIs(r)'
<1>1. \A x, s : IsGlobalAt(x, s) => IsGlobalAt(x, s)' BY GlobalStays
<1>2. 1 .. Len(functions) \subseteq 1 .. Len(functions') /\ 1 .. Len(types) \subseteq 1 .. Len(types')
  <2>1. (TypedTables => Len(functions) \in Nat /\ Len(types) \in Nat)' BY TablesKnown, PTL
  <2>2. Len(functions) \in Nat /\ Len(types) \in Nat BY TablesKnown
  <2> QED BY <2>1, <2>2 DEF TablesGrow
<1>3. pending \subseteq pending' BY DEF TablesGrow
<1>4. CASE r.by = <<"local">>
  <2>1. SlotsStay /\ phase # "cleared" BY <1>4 DEF OfMain
  <2>2. r.symbol \in Symbols /\ r.slot = position[r.symbol] BY <1>4, <2>1 DEF RefIs
  <2> QED BY <1>4, <2>1, <2>2 DEF RefIs, SlotsStay
<1>5. CASE r.by = <<"const">>
  <2>1. phase # "cleared" BY <1>5 DEF OfMain
  <2>2. IsGlobalAt(r.symbol, r.slot) BY <1>5, <2>1 DEF RefIs
  <2> QED BY <1>1, <1>5, <2>2 DEF RefIs
<1>6. ASSUME NEW t \in 1 .. Len(types), r.by = <<"type", t>>, IsGlobalAt(r.symbol, r.slot) PROVE RefIs(r)'
  <2>1. t \in 1 .. Len(types') BY <1>2
  <2> QED BY <1>1, <1>6, <2>1 DEF RefIs
<1>7. ASSUME NEW f \in 1 .. Len(functions), r.by = <<"function", f>>,
             IsGlobalAt(r.symbol, r.slot) \/ (r.slot = Unresolved /\ f \in pending)
      PROVE  RefIs(r)'
  <2>1. f \in 1 .. Len(functions') BY <1>2
  <2> QED BY <1>1, <1>3, <1>7, <2>1 DEF RefIs
<1> QED BY <1>4, <1>5, <1>6, <1>7 DEF RefIs
-----------------------------------------------------------------------------
(* Registering a variable.                                                 *)
LEMMA MainOnly ==
  ASSUME ScopesAre, DeclaredAre, LocalsAre, GlobalsFirst, InMainOrder
  PROVE  Len(locals) = GlobalCount
<1>1. GlobalCount \in Nat /\ Len(locals) \in Nat BY GlobalsKnown, SymbolsCounted
<1>2. GlobalCount <= Len(locals) /\ \A i \in 1 .. GlobalCount : locals[i] = Global(i)
  BY DEF GlobalsFirst, Settled
<1> SUFFICES ASSUME GlobalCount < Len(locals) PROVE FALSE BY <1>1, <1>2
<1>3. PICK k \in 1 .. Len(locals) : k = GlobalCount + 1 BY <1>1
<1>4. PICK x \in Symbols : x = locals[k] BY SymbolsCounted
<1>5. x.scope \in DOMAIN declared /\ \E i \in 1 .. Len(declared[x.scope]) : declared[x.scope][i] = x.name
  BY SymbolsKnown
<1>6. CASE x.scope = Main
  <2>1. PICK i \in 1 .. GlobalCount : x = Global(i) BY <1>6, GlobalsKnown
  <2>2. locals[i] = locals[k] /\ i \in 1 .. Len(locals) BY <1>1, <1>2, <1>4, <2>1
  <2>3. i = k BY <2>2 DEF LocalsAre
  <2> QED BY <1>1, <1>3, <2>3
<1>7. CASE x.scope # Main
  <2>1. IsBlock(x.scope) BY <1>5, <1>7, ScopesOfSymbols
  <2>2. declared[x.scope] = <<>> BY <1>5, <2>1 DEF InMainOrder
  <2>3. Len(declared[x.scope]) = 0 BY <2>2
  <2> QED BY <1>5, <2>3
<1> QED BY <1>6, <1>7

LEMMA Registered ==
  ASSUME ScopesAre, DeclaredAre, LocalsAre, ValuesAre, NEW s \in DOMAIN declared, NEW n \in Declarable,
         Register(s, n), scopes' = scopes
  PROVE  /\ DeclaredAre' /\ LocalsAre' /\ ValuesAre' /\ GlobalsStay /\ SlotsStay
         /\ Len(locals') = Len(locals) + 1 /\ locals'[Len(locals) + 1] = Symbol(s, n)
         /\ \A i \in 1 .. Len(locals) : locals'[i] = locals[i]
         /\ Symbol(s, n) \in Symbols' /\ position'[Symbol(s, n)] = Len(locals) + 1
         /\ DOMAIN declared' = DOMAIN declared /\ declared'[s] # <<>>
         /\ \A t \in DOMAIN declared : t # s => declared'[t] = declared[t]
         /\ s = Main => GlobalCount' = GlobalCount + 1 /\ declared'[Main][GlobalCount + 1] = n
<1> DEFINE new == Symbol(s, n)
           l == Len(locals)
<1>1. /\ declared[s] \in Seq(Declarable) /\ Len(declared[s]) \in Nat
      /\ DOMAIN declared[s] = 1 .. Len(declared[s])
  BY SymbolsKnown
<1>2. l \in Nat /\ DOMAIN locals = 1 .. l /\ locals \in Seq(Symbols)
      /\ \A i \in 1 .. l : locals[i] \in Symbols
  BY SymbolsCounted DEF LocalsAre
<1>3. MaxLocals \in Nat BY BoundsAssumption
<1>4. l + 1 <= MaxLocals /\ l + 1 \in 1 .. MaxLocals
  <2>1. l < MaxLocals BY DEF Register
  <2> QED BY <1>2, <1>3, <2>1
<1>5. \A i \in 1 .. Len(declared[s]) : declared[s][i] # n
  <2> SUFFICES ASSUME NEW i \in 1 .. Len(declared[s]), declared[s][i] = n PROVE Taken(s, n)
    BY DEF Register
  <2>1. new \in Symbols BY SymbolsKnown
  <2>2. new.name = n /\ new.scope = s BY DEF Symbol
  <2>3. s # Main => IsPrefix(s, s)
    <3>1. s \in Seq(Step) BY ScopesOfSymbols DEF IsPath, Scope
    <3>2. Len(s) \in Nat BY <3>1, LenProperties
    <3> QED BY <3>2 DEF IsPrefix
  <2> QED BY <2>1, <2>2, <2>3 DEF Taken
<1>6. new \notin Symbols
  <2> SUFFICES ASSUME new \in Symbols PROVE FALSE OBVIOUS
  <2>1. new.name = n /\ new.scope = s BY DEF Symbol
  <2> QED BY <1>5, <2>1, SymbolsKnown
<1>7. PICK d : d = Append(declared[s], n) OBVIOUS
<1>8. /\ d \in Seq(Declarable) /\ Len(d) = Len(declared[s]) + 1 /\ d # <<>>
      /\ d[Len(declared[s]) + 1] = n /\ \A i \in 1 .. Len(declared[s]) : d[i] = declared[s][i]
  BY <1>1, <1>7, AppendProperties
<1>9. IsInjective(d) BY <1>1, <1>5, <1>7, OneMore DEF DeclaredAre
<1>10. declared' = [declared EXCEPT ![s] = d] BY <1>7 DEF Register
<1>11. /\ DOMAIN declared' = DOMAIN declared /\ declared'[s] = d
       /\ \A t \in DOMAIN declared : t # s => declared'[t] = declared[t]
  BY <1>10 DEF DeclaredAre
<1>12. DeclaredAre'
  <2>1. Blocks' = Blocks BY DEF Blocks, IsBlock
  <2>2. declared' \in [{Main} \cup Blocks -> Seq(Declarable)] BY <1>8, <1>10 DEF DeclaredAre
  <2>3. \A t \in DOMAIN declared' : IsInjective(declared'[t]) BY <1>9, <1>11 DEF DeclaredAre
  <2> QED BY <2>1, <2>2, <2>3 DEF DeclaredAre, Declarable
<1>13. GlobalCount \in Nat /\ Main \in DOMAIN declared BY GlobalsKnown
<1>14. s = Main => GlobalCount' = GlobalCount + 1 /\ declared'[Main][GlobalCount + 1] = n
  BY <1>8, <1>11 DEF GlobalCount
<1>15. GlobalsStay
  <2>1. CASE s = Main BY <1>8, <1>11, <1>13, <1>14, <2>1 DEF GlobalsStay, GlobalCount
  <2>2. CASE s # Main BY <1>11, <1>13, <2>2 DEF GlobalsStay, GlobalCount
  <2> QED BY <2>1, <2>2
<1>16. Symbols' = Symbols \cup {new}
  <2>1. \A x \in Symbols : x \in Symbols'
    <3> TAKE x \in Symbols
    <3>1. PICK i \in 1 .. Len(declared[x.scope]) : declared[x.scope][i] = x.name BY SymbolsKnown
    <3>2. x.scope \in DOMAIN declared /\ x = Symbol(x.scope, x.name) BY SymbolsKnown
    <3>3. Len(declared[x.scope]) \in Nat BY <3>2, SymbolsKnown
    <3>4. i \in 1 .. Len(declared'[x.scope]) /\ declared'[x.scope][i] = x.name
      BY <1>8, <1>11, <3>1, <3>2, <3>3
    <3>5. Symbol(x.scope, declared'[x.scope][i]) \in Symbols' BY <1>11, <1>12, <3>2, <3>4, SymbolsKnownNext
    <3> QED BY <3>2, <3>4, <3>5
  <2>2. new \in Symbols'
    <3>1. Len(declared[s]) + 1 \in 1 .. Len(declared'[s]) BY <1>1, <1>8, <1>11
    <3>2. Symbol(s, declared'[s][Len(declared[s]) + 1]) \in Symbols' BY <1>11, <1>12, <3>1, SymbolsKnownNext
    <3> QED BY <1>8, <1>11, <3>2
  <2>3. \A x \in Symbols' : x \in Symbols \/ x = new
    <3> TAKE x \in Symbols'
    <3>2. x.scope \in DOMAIN declared /\ x = Symbol(x.scope, x.name) BY <1>11, <1>12, SymbolsKnownNext
    <3>3. PICK i \in 1 .. Len(declared'[x.scope]) : declared'[x.scope][i] = x.name BY <1>12, SymbolsKnownNext
    <3>4. CASE x.scope = s
      <4>1. CASE i \in 1 .. Len(declared[s])
        <5>1. x = Symbol(s, declared[s][i]) BY <1>8, <1>11, <3>2, <3>3, <3>4, <4>1
        <5> QED BY <4>1, <5>1, SymbolsKnown
      <4>2. CASE i \notin 1 .. Len(declared[s])
        <5>1. i = Len(declared[s]) + 1 BY <1>1, <1>8, <1>11, <3>3, <3>4, <4>2
        <5> QED BY <1>8, <1>11, <3>2, <3>3, <3>4, <5>1
      <4> QED BY <4>1, <4>2
    <3>5. CASE x.scope # s
      <4>1. i \in 1 .. Len(declared[x.scope]) /\ x = Symbol(x.scope, declared[x.scope][i])
        BY <1>11, <3>2, <3>3, <3>5
      <4> QED BY <3>2, <4>1, SymbolsKnown
    <3> QED BY <3>4, <3>5
  <2> QED BY <2>1, <2>2, <2>3
<1> HIDE DEF new
<1>17. locals' = Append(locals, new) /\ position' = With(position, new, l + 1)
       /\ value' = [value EXCEPT ![l + 1] = Undefined]
  BY DEF Register, new
<1>18. /\ locals' \in Seq(Symbols') /\ Len(locals') = l + 1 /\ locals'[l + 1] = new
       /\ \A i \in 1 .. l : locals'[i] = locals[i]
  <2>1. Symbols \subseteq Symbols' /\ new \in Symbols' BY <1>16
  <2>2. locals \in Seq(Symbols') BY <1>2, <2>1, SeqMonotonic
  <2> QED BY <1>17, <2>1, <2>2, AppendProperties
<1>19. DOMAIN position = Symbols /\ \A x \in Symbols : position[x] \in 1 .. l BY DEF LocalsAre
<1>20. position' = [x \in Symbols' |-> IF x = new THEN l + 1 ELSE position[x]]
  BY <1>16, <1>17, <1>19 DEF With
<1>21. (\A x \in Symbols : position'[x] = position[x]) /\ position'[new] = l + 1 BY <1>6, <1>16, <1>20
<1>22. LocalsAre'
  <2>1. position' \in [Symbols' -> 1 .. l + 1]
    <3>1. \A x \in Symbols' : (IF x = new THEN l + 1 ELSE position[x]) \in 1 .. l + 1
      BY <1>2, <1>16, <1>19
    <3> QED BY <1>20, <3>1
  <2>2. \A i \in 1 .. l + 1 : position'[locals'[i]] = i
    <3> TAKE i \in 1 .. l + 1
    <3>1. CASE i = l + 1 BY <1>18, <1>21, <3>1
    <3>2. CASE i # l + 1
      <4>1. i \in 1 .. l BY <1>2, <3>2
      <4>2. position[locals[i]] = i BY <4>1 DEF LocalsAre
      <4> QED BY <1>2, <1>18, <1>21, <4>1, <4>2
    <3> QED BY <3>1, <3>2
  <2>3. \A x \in Symbols' : locals'[position'[x]] = x
    <3> TAKE x \in Symbols'
    <3>1. CASE x = new BY <1>18, <1>21, <3>1
    <3>2. CASE x \in Symbols
      <4>1. position[x] \in 1 .. l /\ locals[position[x]] = x BY <3>2 DEF LocalsAre
      <4> QED BY <1>18, <1>21, <3>2, <4>1
    <3> QED BY <1>16, <3>1, <3>2
  <2> QED BY <1>4, <1>18, <2>1, <2>2, <2>3 DEF LocalsAre
<1>23. ValuesAre'
  <2>1. value \in [1 .. MaxLocals -> Declarable \cup {Undefined, "operand"}] BY DEF ValuesAre
  <2>2. value' \in [1 .. MaxLocals -> Declarable \cup {Undefined, "operand"}] BY <1>17, <2>1
  <2>3. \A i \in 1 .. l + 1 :
          value'[i] = Undefined \/ (i <= GlobalCount' /\ value'[i] = declared'[Main][i])
    <3> TAKE i \in 1 .. l + 1
    <3>1. CASE i = l + 1 BY <1>4, <1>17, <2>1, <3>1
    <3>2. CASE i # l + 1
      <4>1. i \in 1 .. l /\ value'[i] = value[i]
        <5>1. i \in 1 .. l /\ i \in 1 .. MaxLocals BY <1>2, <1>3, <1>4, <3>2
        <5> QED BY <1>17, <2>1, <3>2, <5>1
      <4>2. value[i] = Undefined \/ (i <= GlobalCount /\ value[i] = declared[Main][i])
        BY <4>1 DEF ValuesAre
      <4>3. i <= GlobalCount => i <= GlobalCount' /\ declared'[Main][i] = declared[Main][i]
        <5> HAVE i <= GlobalCount
        <5>1. i \in 1 .. GlobalCount BY <1>2, <1>13, <4>1
        <5>2. GlobalCount' \in Nat BY <1>12, GlobalsKnownNext
        <5> QED BY <1>13, <1>15, <5>1, <5>2 DEF GlobalsStay
      <4> QED BY <4>1, <4>2, <4>3
    <3> QED BY <3>1, <3>2
  <2> QED BY <1>18, <2>2, <2>3 DEF ValuesAre, Declarable
<1>24. SlotsStay BY <1>16, <1>21 DEF SlotsStay
<1> QED BY <1>8, <1>11, <1>12, <1>14, <1>15, <1>16, <1>18, <1>21, <1>22, <1>23, <1>24 DEF new
-----------------------------------------------------------------------------
(* The steps that declare or name variables.                               *)
LEMMA TablesStay ==
  ASSUME ScopesAre, TablesAre, SavedAre, UNCHANGED <<tables, pending, checkpoint>>
  PROVE  ScopesAre' /\ TablesAre' /\ TypedTables' /\ SavedStays /\ TablesGrow
<1>1. /\ scopes' = scopes /\ functions' = functions /\ funSymbols' = funSymbols /\ types' = types
      /\ typeSymbols' = typeSymbols /\ pending' = pending /\ saved' = saved /\ atSave' = atSave
  BY DEF tables, checkpoint
<1>2. ScopesAre' BY <1>1 DEF ScopesAre, IsBlock
<1>3. TypedTables' BY <1>1 DEF TablesAre, TypedTables
<1>4. TablesAre'
  BY <1>1, <1>3 DEF TablesAre, FunctionsAre, FunSymbolsAre, TypeSymbolsAre, MembersAre, IsBlock
<1>5. /\ Len(functions) \in Nat /\ Len(funSymbols) \in Nat
      /\ Len(types) \in Nat /\ Len(typeSymbols) \in Nat /\ Len(scopes) \in Nat
  BY TablesKnown, ScopesKnown DEF TablesAre
<1>6. TablesGrow BY <1>1, <1>5 DEF TablesGrow
<1>7. SavedStays BY <1>1, <1>5 DEF SavedStays, SavedAre, SavedCounts
<1> QED BY <1>2, <1>3, <1>4, <1>6, <1>7

LEMMA OpenIsDeclared ==
  ASSUME DeclaredAre, Opened, Compiling PROVE open \in DOMAIN declared /\ open \notin pushed
<1>1. open \in Seq(Step) /\ open # <<>> /\ \A k \in 1 .. Len(open) : SubSeq(open, 1, k) \in DOMAIN declared \ pushed
  BY DEF Opened, Scope
<1>2. Len(open) \in Nat \ {0} BY <1>1, EmptySeq
<1>3. SubSeq(open, 1, Len(open)) = open BY <1>1, SubSeqFull
<1>4. Len(open) \in 1 .. Len(open) BY <1>2
<1>5. SubSeq(open, 1, Len(open)) \in DOMAIN declared \ pushed BY Zenon, <1>1, <1>4
<1> QED BY <1>3, <1>5

(* What saved types and functions name does not change.                    *)
NotSaved(r) ==
  /\ \A f \in 1 .. saved.functions : r.by # <<"function", f>>
  /\ \A t \in 1 .. saved.types : r.by # <<"type", t>>

LEMMA SavedRefsKept ==
  ASSUME SavedRefsAre, saved' = saved, \A r \in refs' : r \in refs \/ NotSaved(r)
  PROVE  SavedRefsAre'
BY DEF SavedRefsAre, NotSaved

LEMMA KindsDiffer ==
  /\ \A x : <<"local">> # <<"function", x>> /\ <<"local">> # <<"type", x>>
  /\ \A x : <<"const">> # <<"function", x>> /\ <<"const">> # <<"type", x>>
  /\ \A x, y : <<"function", x>> # <<"type", y>>
  /\ \A x, y : <<"function", x>> = <<"function", y>> => x = y
  /\ \A x, y : <<"type", x>> = <<"type", y>> => x = y
OBVIOUS

(* The references that registering name in the main scope adds.            *)
NamesNew(r, name) ==
  /\ r.slot = Len(locals) + 1 /\ r.symbol = Symbol(open, name)
  /\ \/ r.by = <<"local">>
     \/ /\ open = Main /\ InMainOrder
        /\ r.by = <<"const">> \/ \E t \in 1 .. Len(types) : t > saved.types /\ r.by = <<"type", t>>

LEMMA RegisterHolds ==
  ASSUME IInv, Compiling, NEW n \in Declarable, Register(open, n),
         open = Main /\ units > 1 => InMainOrder,
         UNCHANGED <<tables, pending, pushed, checkpoint, phase, open, units, opened>>,
         \A r \in refs' : r \in refs \/ NamesNew(r, n)
  PROVE  IInv'
<1>1. /\ scopes' = scopes /\ pushed' = pushed /\ phase' = phase /\ open' = open /\ units' = units
      /\ opened' = opened /\ functions' = functions /\ types' = types /\ saved' = saved
      /\ UNCHANGED <<tables, pending, checkpoint>>
  BY DEF tables, checkpoint
<1>2. /\ ScopesAre /\ DeclaredAre /\ LocalsAre /\ GlobalsFirst /\ RefsAre /\ SavedRefsAre /\ ValuesAre
      /\ TablesAre /\ TypedTables /\ SavedAre /\ CheckpointIs /\ Opened /\ UnitsAre
  BY DEF IInv, TablesAre
<1>3. open \in DOMAIN declared BY <1>2, OpenIsDeclared
<1>4. /\ DeclaredAre' /\ LocalsAre' /\ ValuesAre' /\ GlobalsStay /\ SlotsStay
      /\ Len(locals') = Len(locals) + 1 /\ locals'[Len(locals) + 1] = Symbol(open, n)
      /\ \A i \in 1 .. Len(locals) : locals'[i] = locals[i]
      /\ Symbol(open, n) \in Symbols' /\ position'[Symbol(open, n)] = Len(locals) + 1
      /\ DOMAIN declared' = DOMAIN declared /\ declared'[open] # <<>>
      /\ \A t \in DOMAIN declared : t # open => declared'[t] = declared[t]
      /\ open = Main => GlobalCount' = GlobalCount + 1 /\ declared'[Main][GlobalCount + 1] = n
  BY <1>1, <1>2, <1>3, Registered
<1>5. /\ ScopesAre' /\ TablesAre' /\ TypedTables' /\ SavedStays /\ TablesGrow BY <1>1, <1>2, TablesStay
<1>6. phase' = "compiling" /\ phase = "compiling" BY <1>1 DEF Compiling
<1>7. SavedAre' /\ CheckpointIs' BY <1>2, <1>4, <1>5, <1>6, SavedKept
<1>8. InOrder' BY <1>6 DEF InOrder, Idle
<1>9. ~ Idle /\ ~ Idle' BY <1>6 DEF Idle
<1>10. GlobalCount \in Nat /\ Len(locals) \in Nat /\ Main \in DOMAIN declared BY <1>2, GlobalsKnown, SymbolsCounted
<1>11. open # Main => IsBlock(open) BY <1>2, <1>3, ScopesOfSymbols
<1>12. InMainOrder' => open = Main /\ InMainOrder
  <2> HAVE InMainOrder'
  <2>1. open = Main BY <1>3, <1>4, <1>11 DEF InMainOrder, IsBlock
  <2>2. ~ IsBlock(Main) BY <1>2, ScopesOfSymbols
  <2>3. \A t \in DOMAIN declared : IsBlock(t) => declared[t] = <<>>
    BY <1>4, <2>1, <2>2 DEF InMainOrder, IsBlock
  <2> QED BY <2>1, <2>3 DEF InMainOrder
<1>13. GlobalsFirst'
  <2> SUFFICES ASSUME Settled'
               PROVE  GlobalCount' <= Len(locals') /\ \A i \in 1 .. GlobalCount' : locals'[i] = Global(i)'
    BY DEF GlobalsFirst
  <2>1. units > 1 \/ InMainOrder' BY <1>1, <1>9 DEF Settled
  <2>2. \A i : Global(i)' = Symbol(Main, declared'[Main][i]) BY DEF Global, Symbol, Main
  <2>3. CASE open = Main
    <3>1. InMainOrder BY <1>12, <2>1, <2>3
    <3>2. Len(locals) = GlobalCount BY <1>2, <3>1, MainOnly
    <3>3. \A i \in 1 .. GlobalCount : locals[i] = Global(i) BY <1>2, <3>1 DEF GlobalsFirst, Settled
    <3>4. GlobalCount' = GlobalCount + 1 /\ locals'[GlobalCount + 1] = Symbol(Main, declared'[Main][GlobalCount + 1])
      BY <1>4, <2>3, <3>2
    <3>5. \A i \in 1 .. GlobalCount : locals'[i] = Symbol(Main, declared'[Main][i])
      BY <1>4, <3>2, <3>3 DEF GlobalsStay, Global
    <3>6. \A i \in 1 .. GlobalCount' : i \in 1 .. GlobalCount \/ i = GlobalCount + 1 BY <1>10, <3>4
    <3>7. GlobalCount' <= Len(locals') BY <1>4, <1>10, <3>2, <3>4
    <3> QED BY <2>2, <3>4, <3>5, <3>6, <3>7
  <2>4. CASE open # Main
    <3>1. Settled BY <1>12, <2>1, <2>4 DEF Settled
    <3>2. declared'[Main] = declared[Main] BY <1>4, <1>10, <2>4
    <3>3. GlobalCount <= Len(locals) /\ \A i \in 1 .. GlobalCount : locals[i] = Global(i)
      BY <1>2, <3>1 DEF GlobalsFirst
    <3>4. GlobalCount' = GlobalCount BY <3>2 DEF GlobalCount
    <3>5. GlobalCount' <= Len(locals') BY <1>4, <1>10, <3>3, <3>4
    <3>6. \A i \in 1 .. GlobalCount' : locals'[i] = Global(i)
      BY <1>4, <1>10, <3>3, <3>4
    <3> QED BY <2>2, <3>2, <3>5, <3>6 DEF Global
  <2> QED BY <2>3, <2>4
<1>14. RefsAre'
  <2> SUFFICES ASSUME NEW r \in refs' PROVE RefIs(r)' BY DEF RefsAre
  <2>1. CASE r \in refs
    <3>1. RefIs(r) BY <1>2, <2>1 DEF RefsAre
    <3> QED BY <1>2, <1>4, <1>5, <1>6, <3>1, RefStays
  <2>2. CASE NamesNew(r, n)
    <3>1. r.by = <<"local">> => RefIs(r)' BY <1>4, <2>2 DEF NamesNew, RefIs
    <3>2. ASSUME open = Main, InMainOrder PROVE IsGlobalAt(r.symbol, r.slot)'
      <4>1. Len(locals) = GlobalCount BY <1>2, <3>2, MainOnly
      <4>2. r.slot = GlobalCount' /\ r.symbol = Symbol(Main, declared'[Main][GlobalCount'])
        BY <1>4, <2>2, <3>2, <4>1 DEF NamesNew
      <4>3. GlobalCount' \in 1 .. GlobalCount' BY <1>4, <1>10, <3>2
      <4>4. Global(r.slot)' = Symbol(Main, declared'[Main][r.slot]) BY DEF Global, Symbol, Main
      <4> QED BY <4>2, <4>3, <4>4 DEF IsGlobalAt
    <3>3. ASSUME open = Main, InMainOrder, r.by = <<"const">> PROVE RefIs(r)' BY <3>2, <3>3 DEF RefIs
    <3>4. ASSUME open = Main, InMainOrder, NEW t \in 1 .. Len(types), r.by = <<"type", t>> PROVE RefIs(r)'
      BY <1>1, <3>2, <3>4 DEF RefIs
    <3> QED BY <2>2, <3>1, <3>3, <3>4 DEF NamesNew
  <2> QED BY <2>1, <2>2
<1>15. SavedRefsAre'
  <2>1. \A r \in refs' : r \in refs \/ NotSaved(r)
    <3> SUFFICES ASSUME NEW r \in refs', NamesNew(r, n) PROVE NotSaved(r) OBVIOUS
    <3>1. saved.types \in Nat BY <1>2 DEF SavedAre, SavedCounts
    <3>2. \A t, u \in Nat : t > saved.types /\ u \in 1 .. saved.types => t # u BY <3>1
    <3> QED BY <3>1, <3>2, KindsDiffer DEF NamesNew, NotSaved
  <2> QED BY <1>1, <1>2, <2>1, SavedRefsKept
<1>16. Opened' BY <1>1, <1>2, <1>4 DEF Opened, Blocks, IsBlock, Compiling
<1>17. UnitsAre' BY <1>1, <1>2 DEF UnitsAre, HaveCode
<1>18. AllLinked' BY <1>6 DEF AllLinked
<1> QED BY <1>4, <1>5, <1>7, <1>8, <1>13, <1>14, <1>15, <1>16, <1>17, <1>18 DEF IInv

LEMMA VarDeclared == ASSUME KeepsRules, IInv, NEW v \in Variables, DeclareVar(v) PROVE IInv'
<1>1. v \in Declarable BY DEF Declarable
<1>2. Compiling /\ Register(open, v) /\ (open = Main /\ units > 1 => InMainOrder)
  BY DEF DeclareVar, Rule, KeepsRules
<1>3. UNCHANGED <<tables, pending, pushed, checkpoint, phase, open, units, opened>> BY DEF DeclareVar
<1>4. \A r \in refs' : r \in refs \/ NamesNew(r, v) BY DEF DeclareVar, NamesNew, Ref
<1> QED BY <1>1, <1>2, <1>3, <1>4, RegisterHolds

LEMMA ConstDeclared == ASSUME KeepsRules, IInv, NEW v \in Variables, DeclareConst(v) PROVE IInv'
<1>1. v \in Declarable BY DEF Declarable
<1>2. Compiling /\ Register(open, v) /\ (open = Main => InMainOrder)
  BY DEF DeclareConst, Rule, KeepsRules
<1>3. UNCHANGED <<tables, pending, pushed, checkpoint, phase, open, units, opened>> BY DEF DeclareConst
<1>4. \A r \in refs' : r \in refs \/ NamesNew(r, v) BY <1>2 DEF DeclareConst, NamesNew, Ref
<1> QED BY <1>1, <1>2, <1>3, <1>4, RegisterHolds

LEMMA MemberConstDeclared ==
  ASSUME KeepsRules, IInv, NEW t \in DOMAIN types, DeclareMemberConst(t) PROVE IInv'
<1>1. t \in 1 .. Len(types) /\ types[t].name \in Declarable
  <2>1. types \in Seq([name : ClassNames, members : SUBSET Nat]) BY DEF IInv, TablesAre, TypedTables
  <2>2. DOMAIN types = 1 .. Len(types) BY <2>1, SeqIs
  <2>3. t \in 1 .. Len(types) BY <2>2
  <2>4. types[t] \in [name : ClassNames, members : SUBSET Nat] BY <2>1, <2>3, ElementOfSeq
  <2> QED BY <2>3, <2>4 DEF Declarable
<1>2. /\ Compiling /\ open = Main /\ t > saved.types /\ InMainOrder
      /\ Register(open, types[t].name)
  BY DEF DeclareMemberConst, Rule, KeepsRules
<1>3. UNCHANGED <<tables, pending, pushed, checkpoint, phase, open, units, opened>> BY DEF DeclareMemberConst
<1>4. \A r \in refs' : r \in refs \/ NamesNew(r, types[t].name)
  <2> SUFFICES ASSUME NEW by \in {<<"const">>, <<"type", t>>}
               PROVE  NamesNew(Ref(by, Symbol(Main, types[t].name), Len(locals) + 1), types[t].name)
    BY DEF DeclareMemberConst
  <2> QED BY <1>1, <1>2 DEF NamesNew, Ref
<1> QED BY <1>1, <1>2, <1>3, <1>4, RegisterHolds
-----------------------------------------------------------------------------
(* The steps that change neither variables nor values.                     *)
LEMMA QuietHolds ==
  ASSUME IInv, phase = "compiling", phase' \in {"compiling", "breaking"},
         Symbols' = Symbols, declared'[Main] = declared[Main],
         UNCHANGED <<locals, position, value, units>>, InMainOrder' => InMainOrder,
         ScopesAre', DeclaredAre', TablesAre', SavedStays, TablesGrow,
         \A r \in refs' : r \in refs \/ (RefIs(r)' /\ NotSaved(r)), Opened', UnitsAre'
  PROVE  IInv'
<1>1. /\ DeclaredAre /\ LocalsAre /\ GlobalsFirst /\ RefsAre /\ SavedRefsAre /\ ValuesAre
      /\ TypedTables /\ SavedAre /\ CheckpointIs /\ TypedTables'
  BY DEF IInv, TablesAre
<1>2. locals' = locals /\ position' = position /\ value' = value /\ units' = units OBVIOUS
<1>3. GlobalCount' = GlobalCount BY DEF GlobalCount, Main
<1>4. \A i : Global(i)' = Global(i) BY DEF Global, Symbol, Main
<1>5. LocalsAre' BY <1>1, <1>2 DEF LocalsAre
<1>6. ValuesAre' BY <1>1, <1>2, <1>3 DEF ValuesAre, Declarable, Main
<1>7. GlobalCount \in Nat BY <1>1, GlobalsKnown
<1>8. GlobalsStay BY <1>3, <1>7 DEF GlobalsStay
<1>9. SlotsStay BY <1>2 DEF SlotsStay
<1>10. ~ Idle /\ ~ Idle' BY DEF Idle
<1>11. GlobalsFirst' BY <1>1, <1>2, <1>3, <1>4, <1>10 DEF GlobalsFirst, Settled
<1>12. SavedAre' /\ CheckpointIs' BY <1>1, <1>8, SavedKept
<1>13. RefsAre'
  <2> SUFFICES ASSUME NEW r \in refs' PROVE RefIs(r)' BY DEF RefsAre
  <2>1. r \in refs => RefIs(r) BY <1>1 DEF RefsAre
  <2> QED BY <1>1, <1>8, <1>9, <2>1, RefStays
<1>14. SavedRefsAre' BY <1>1, SavedRefsKept DEF SavedStays
<1>15. InOrder' BY <1>10 DEF InOrder
<1>16. AllLinked' BY DEF AllLinked
<1> QED BY <1>5, <1>6, <1>11, <1>12, <1>13, <1>14, <1>15, <1>16 DEF IInv

LEMMA SymbolsFrom ==
  ASSUME NEW s \in DOMAIN declared', NEW n \in Range(declared'[s]) PROVE Symbol(s, n) \in Symbols'
BY DEF Symbols, Symbol

LEMMA VarUsed == ASSUME IInv, NEW v \in Variables, UseVar(v) PROVE IInv'
<1>1. /\ UNCHANGED <<tables, declared, locals, position, pending, pushed, value, checkpoint,
                     phase, open, units, opened>>
      /\ phase = "compiling" /\ Symbol(Main, v) \in Symbols
      /\ refs' = refs \cup {Ref(<<"local">>, Symbol(Main, v), position[Symbol(Main, v)])}
  BY DEF UseVar, Compiling
<1>2. /\ declared' = declared /\ position' = position /\ phase' = phase /\ scopes' = scopes
      /\ functions' = functions /\ pushed' = pushed /\ open' = open /\ opened' = opened /\ units' = units
  BY <1>1 DEF tables
<1>3. ScopesAre /\ DeclaredAre /\ TablesAre /\ SavedAre /\ Opened /\ UnitsAre BY DEF IInv
<1>4. ScopesAre' /\ TablesAre' /\ SavedStays /\ TablesGrow BY <1>1, <1>3, TablesStay
<1>5. DeclaredAre' BY <1>2, <1>3 DEF DeclaredAre, Blocks, IsBlock, Declarable
<1>6. Symbols' = Symbols /\ (InMainOrder' => InMainOrder) BY <1>2 DEF Symbols, Symbol, InMainOrder, IsBlock
<1>7. \A r \in refs' : r \in refs \/ (RefIs(r)' /\ NotSaved(r))
  <2> SUFFICES ASSUME NEW r, r = Ref(<<"local">>, Symbol(Main, v), position[Symbol(Main, v)])
               PROVE  RefIs(r)' /\ NotSaved(r)
    BY <1>1
  <2>1. r.by = <<"local">> /\ r.symbol \in Symbols' /\ r.slot = position'[r.symbol]
    BY <1>1, <1>2, <1>6 DEF Ref
  <2> QED BY <2>1, KindsDiffer DEF RefIs, NotSaved
<1>8. Opened' BY <1>2, <1>3 DEF Opened, Compiling, Blocks, IsBlock
<1>9. UnitsAre' BY <1>2, <1>3 DEF UnitsAre, HaveCode
<1> QED BY <1>1, <1>2, <1>4, <1>5, <1>6, <1>7, <1>8, <1>9, QuietHolds

(* An entry more in the table of scopes.                                   *)
LEMMA ScopeAdded ==
  ASSUME ScopesAre, SavedAre, NEW s \in Scope, s \notin Range(scopes), scopes' = Append(scopes, s),
         IsBlock(s) => \A k \in 2 .. Len(s) : s[k] \in Nat
  PROVE  /\ ScopesAre' /\ Range(scopes') = Range(scopes) \cup {s}
         /\ Blocks' = Blocks \cup (IF IsBlock(s) THEN {s} ELSE {})
         /\ \A i \in 1 .. saved.scopes : scopes'[i] = scopes[i]
         /\ saved.scopes <= Len(scopes') /\ Len(scopes') \in Nat
<1>1. /\ scopes \in Seq(Scope) /\ Len(scopes) \in Nat \ {0} /\ DOMAIN scopes = 1 .. Len(scopes)
      /\ Range(scopes) = {scopes[i] : i \in 1 .. Len(scopes)}
  BY ScopesKnown DEF ScopesAre
<1>2. /\ scopes' \in Seq(Scope) /\ Len(scopes') = Len(scopes) + 1 /\ scopes'[Len(scopes) + 1] = s
      /\ \A i \in 1 .. Len(scopes) : scopes'[i] = scopes[i]
      /\ scopes' # <<>>
  BY <1>1, AppendProperties
<1>3. IsInjective(scopes') BY <1>1, OneMore DEF ScopesAre
<1>4. DOMAIN scopes' = 1 .. Len(scopes) + 1 /\ Range(scopes') = {scopes'[i] : i \in 1 .. Len(scopes) + 1}
  <2>1. DOMAIN scopes' = 1 .. Len(scopes') BY <1>2, LenProperties
  <2> QED BY <1>2, <2>1 DEF Range
<1>5. \A i \in 1 .. Len(scopes) + 1 : i \in 1 .. Len(scopes) \/ i = Len(scopes) + 1 BY <1>1
<1>6. 1 .. Len(scopes) \subseteq 1 .. Len(scopes) + 1 /\ Len(scopes) + 1 \in 1 .. Len(scopes) + 1
      /\ 1 \in 1 .. Len(scopes)
  BY <1>1
<1>7. Range(scopes') = Range(scopes) \cup {s} BY <1>1, <1>2, <1>4, <1>5, <1>6
<1>8. \A i \in DOMAIN scopes' :
        IsBlock(scopes'[i]) => \A k \in 2 .. Len(scopes'[i]) : scopes'[i][k] \in Nat
  BY <1>1, <1>2, <1>4, <1>5 DEF ScopesAre
<1>9. ScopesAre'
  <2>1. \A x : IsBlock(x)' = IsBlock(x) BY DEF IsBlock
  <2> QED BY <1>2, <1>3, <1>6, <1>8, <2>1 DEF ScopesAre, Scope, Step, Main, IsBlock
<1>10. Blocks' = Blocks \cup (IF IsBlock(s) THEN {s} ELSE {}) BY <1>7 DEF Blocks, IsBlock
<1>11. saved.scopes \in Nat /\ saved.scopes <= Len(scopes) BY DEF SavedAre, SavedCounts
<1>12. \A i \in 1 .. saved.scopes : i \in 1 .. Len(scopes) BY <1>1, <1>11
<1>13. saved.scopes <= Len(scopes) + 1 /\ Len(scopes) + 1 \in Nat BY <1>1, <1>11
<1> QED BY <1>2, <1>7, <1>9, <1>10, <1>12, <1>13

LEMMA BlockOpened == ASSUME IInv, OpenBlock PROVE IInv'
<1>1. /\ UNCHANGED <<functions, funSymbols, types, typeSymbols, locals, position, refs,
                     pending, pushed, value, checkpoint, phase, units>>
      /\ phase = "compiling" /\ opened < MaxOpened /\ opened' = opened + 1
      /\ open' = Append(open, opened + 1) /\ scopes' = Append(scopes, open')
      /\ declared' = With(declared, open', <<>>)
  BY DEF OpenBlock, Compiling, Block
<1>2. functions' = functions /\ funSymbols' = funSymbols /\ types' = types /\ typeSymbols' = typeSymbols
      /\ pending' = pending /\ saved' = saved /\ atSave' = atSave /\ refs' = refs /\ pushed' = pushed
      /\ phase' = phase /\ units' = units
  BY <1>1 DEF checkpoint
<1>3. ScopesAre /\ DeclaredAre /\ TablesAre /\ TypedTables /\ SavedAre /\ Opened /\ UnitsAre
  BY DEF IInv, TablesAre
<1>4. opened \in Nat /\ MaxOpened \in Nat /\ opened + 1 \in 0 .. MaxOpened
  <2>1. opened \in 0 .. MaxOpened /\ MaxOpened \in Nat BY <1>3, BoundsAssumption DEF UnitsAre
  <2> QED BY <1>1, <2>1
<1>5. open \in DOMAIN declared /\ open \notin pushed BY <1>1, <1>3, OpenIsDeclared DEF Compiling
<1>6. /\ open \in Seq(Step) /\ Len(open) \in Nat \ {0} /\ open[1] = "main"
      /\ \A k \in 2 .. Len(open) : open[k] \in Nat
  <2>1. IsPath(open) BY <1>3, <1>5, ScopesOfSymbols
  <2>2. open \in Seq(Step) BY <2>1 DEF IsPath, Scope
  <2> QED BY <2>1, <2>2, LenProperties DEF IsPath
<1>7. PICK b : b = open' OBVIOUS
<1>8. /\ b \in Seq(Step) /\ Len(b) = Len(open) + 1 /\ b[Len(open) + 1] = opened + 1 /\ b # <<>>
      /\ \A i \in 1 .. Len(open) : b[i] = open[i]
  <2>1. opened + 1 \in Step BY <1>4 DEF Step
  <2> QED BY <1>1, <1>6, <1>7, <2>1, AppendProperties
<1>9. b \in Scope /\ IsBlock(b) /\ \A k \in 2 .. Len(b) : b[k] \in Nat
  <2>1. b[1] = "main" /\ Len(b) > 1 BY <1>6, <1>8
  <2>2. \A k \in 2 .. Len(open) + 1 : k \in 2 .. Len(open) \/ k = Len(open) + 1 BY <1>6
  <2>3. 2 .. Len(open) \subseteq 1 .. Len(open) /\ opened + 1 \in Nat BY <1>4, <1>6
  <2> QED BY <1>6, <1>8, <2>1, <2>2, <2>3 DEF Scope, IsBlock
<1>10. b \notin Range(scopes)
  <2> SUFFICES ASSUME b \in Range(scopes) PROVE FALSE OBVIOUS
  <2>1. b \in Blocks BY <1>9 DEF Blocks
  <2>2. b[Len(b)] <= opened BY <1>1, <1>3, <2>1 DEF Opened, Compiling
  <2> QED BY <1>4, <1>8, <2>2
<1>11. scopes' = Append(scopes, b) BY <1>1, <1>7
<1>12. /\ ScopesAre' /\ Range(scopes') = Range(scopes) \cup {b} /\ Blocks' = Blocks \cup {b}
       /\ \A i \in 1 .. saved.scopes : scopes'[i] = scopes[i]
       /\ saved.scopes <= Len(scopes') /\ Len(scopes') \in Nat
  BY <1>3, <1>9, <1>10, <1>11, ScopeAdded
<1>13. DOMAIN declared = {Main} \cup Blocks /\ b \notin DOMAIN declared /\ Main \in DOMAIN declared
  BY <1>3, <1>9, <1>10, ScopesOfSymbols DEF DeclaredAre, Blocks
<1>14. /\ DOMAIN declared' = DOMAIN declared \cup {b} /\ declared'[b] = <<>>
       /\ \A s \in DOMAIN declared : declared'[s] = declared[s]
       /\ declared' = [s \in {Main} \cup Blocks' |-> declared'[s]]
  <2>1. declared' = [s \in DOMAIN declared \cup {b} |-> IF s = b THEN <<>> ELSE declared[s]]
    BY <1>1, <1>7 DEF With
  <2>2. DOMAIN declared \cup {b} = {Main} \cup Blocks' BY <1>12, <1>13
  <2> QED BY <1>13, <2>1, <2>2
<1>15. DeclaredAre'
  <2>1. <<>> \in Seq(Declarable) /\ IsInjective(<<>>) BY EmptySeq DEF IsInjective
  <2>2. \A s \in {Main} \cup Blocks' : declared'[s] \in Seq(Declarable) /\ IsInjective(declared'[s])
    BY <1>3, <1>12, <1>13, <1>14, <2>1 DEF DeclaredAre
  <2>3. DOMAIN declared' = {Main} \cup Blocks' BY <1>12, <1>13, <1>14
  <2> QED BY <1>14, <2>2, <2>3 DEF DeclaredAre, Declarable, Main
<1>16. Symbols' = Symbols
  <2>1. \A s \in DOMAIN declared' : s \in DOMAIN declared \/ s = b BY <1>14
  <2>2. Range(declared'[b]) = {} BY <1>14 DEF Range
  <2>3. \A x \in Symbols' : x \in Symbols
    <3> TAKE x \in Symbols'
    <3>1. PICK s \in DOMAIN declared' : \E n \in Range(declared'[s]) : x = Symbol(s, n) BY DEF Symbols, Symbol
    <3>2. s \in DOMAIN declared BY <2>1, <2>2, <3>1
    <3> QED BY <1>14, <3>1, <3>2 DEF Symbols
  <2>4. \A x \in Symbols : x \in Symbols'
    <3> TAKE x \in Symbols
    <3>1. PICK s \in DOMAIN declared : \E n \in Range(declared[s]) : x = Symbol(s, n) BY DEF Symbols
    <3>2. PICK n \in Range(declared[s]) : x = Symbol(s, n) BY <3>1
    <3>3. s \in DOMAIN declared' /\ declared'[s] = declared[s] BY <1>14
    <3> QED BY <3>2, <3>3, SymbolsFrom
  <2> QED BY <2>3, <2>4
<1>17. InMainOrder' => InMainOrder BY <1>14 DEF InMainOrder, IsBlock
<1>18. TablesAre'
  <2>1. FunctionsAre' BY <1>2, <1>3, <1>12 DEF TablesAre, FunctionsAre, IsBlock
  <2>2. TypedTables' BY <1>2, <1>3 DEF TypedTables
  <2> QED BY <1>2, <1>3, <2>1, <2>2 DEF TablesAre, FunSymbolsAre, TypeSymbolsAre, MembersAre
<1>19. /\ Len(functions) \in Nat /\ Len(funSymbols) \in Nat
       /\ Len(types) \in Nat /\ Len(typeSymbols) \in Nat
  BY <1>3, TablesKnown
<1>20. SavedStays /\ TablesGrow BY <1>2, <1>12, <1>19 DEF SavedStays, TablesGrow
<1>21. Opened'
  <2>1. open' \in Scope /\ open' # <<>> BY <1>7, <1>8, <1>9
  <2>2. \A k \in 1 .. Len(b) : SubSeq(b, 1, k) \in DOMAIN declared' \ pushed
    <3> TAKE k \in 1 .. Len(b)
    <3>1. CASE k = Len(b)
      <4>1. SubSeq(b, 1, k) = b BY <1>8, <3>1, SubSeqFull
      <4>2. b \notin pushed BY <1>1, <1>3, <1>10 DEF UnitsAre
      <4> QED BY <1>14, <4>1, <4>2
    <3>2. CASE k # Len(b)
      <4>1. k \in 1 .. Len(open) /\ k \in 0 .. Len(b) /\ k \in 0 .. Len(open) BY <1>6, <1>8, <3>2
      <4>2. /\ SubSeq(b, 1, k) \in Seq(Step) /\ Len(SubSeq(b, 1, k)) = k
            /\ \A i \in 1 .. k : SubSeq(b, 1, k)[i] = b[i]
        BY <1>8, <4>1, FirstIs
      <4>3. /\ SubSeq(open, 1, k) \in Seq(Step) /\ Len(SubSeq(open, 1, k)) = k
            /\ \A i \in 1 .. k : SubSeq(open, 1, k)[i] = open[i]
        BY <1>6, <4>1, FirstIs
      <4>4. \A i \in 1 .. k : i \in 1 .. Len(open) BY <1>6, <4>1
      <4>5. SubSeq(b, 1, k) = SubSeq(open, 1, k) BY <1>8, <4>2, <4>3, <4>4, SeqEqual
      <4>6. SubSeq(open, 1, k) \in DOMAIN declared \ pushed BY <1>1, <1>3, <4>1 DEF Opened, Compiling
      <4> QED BY <1>14, <4>5, <4>6
    <3> QED BY <3>1, <3>2
  <2>3. \A s \in Blocks' : s[Len(s)] <= opened'
    <3> TAKE s \in Blocks'
    <3>1. CASE s = b BY <1>1, <1>4, <1>8, <3>1
    <3>2. CASE s \in Blocks
      <4>1. s[Len(s)] <= opened BY <1>1, <1>3, <3>2 DEF Opened, Compiling
      <4>2. IsPath(s) /\ IsBlock(s) BY <1>3, <3>2, ScopesOfSymbols DEF DeclaredAre, Blocks
      <4>3. Len(s) \in 2 .. Len(s)
        <5>1. Len(s) \in Nat BY <4>2, LenProperties DEF IsPath, Scope
        <5> QED BY <4>2, <5>1 DEF IsBlock
      <4>4. s[Len(s)] \in Nat BY <4>2, <4>3 DEF IsPath
      <4> QED BY <1>1, <1>4, <4>1, <4>4
    <3> QED BY <1>12, <3>1, <3>2
  <2> QED BY <1>2, <1>7, <2>1, <2>2, <2>3 DEF Opened, Scope, Step
<1>22. UnitsAre' BY <1>1, <1>2, <1>3, <1>4, <1>12 DEF UnitsAre, HaveCode
<1> QED BY <1>1, <1>2, <1>12, <1>13, <1>14, <1>15, <1>16, <1>17, <1>18, <1>20, <1>21, <1>22, QuietHolds
-----------------------------------------------------------------------------
(* The steps that remove blocks from the table of scopes.                  *)
LEMMA ScopesRemoved ==
  ASSUME ScopesAre, SavedAre, NEW gone, gone \subseteq Blocks, scopes' = Without(scopes, gone)
  PROVE  /\ ScopesAre' /\ Range(scopes') = Range(scopes) \ gone /\ Blocks' = Blocks \ gone
         /\ \A i \in 1 .. saved.scopes : scopes'[i] = scopes[i]
         /\ saved.scopes <= Len(scopes') /\ Len(scopes') \in Nat
<1>1. /\ scopes \in Seq(Scope) /\ Len(scopes) \in Nat \ {0} /\ IsInjective(scopes)
      /\ Range(scopes) = {scopes[i] : i \in 1 .. Len(scopes)}
  BY ScopesKnown DEF ScopesAre
<1>2. saved.scopes \in 0 .. Len(scopes) /\ 1 \in 1 .. saved.scopes BY <1>1 DEF SavedAre, SavedCounts
<1>3. \A i \in 1 .. saved.scopes : scopes[i] \notin gone BY DEF SavedAre, SavedScopes, Blocks
<1>4. PICK w : w = Without(scopes, gone) OBVIOUS
<1>5. /\ w \in Seq(Scope) /\ IsInjective(w) /\ Range(w) = Range(scopes) \ gone
      /\ saved.scopes <= Len(w) /\ \A i \in 1 .. saved.scopes : w[i] = scopes[i]
  <2>1. PICK m \in 0 .. Len(scopes) : m = saved.scopes BY <1>2
  <2>2. \A i \in 1 .. m : scopes[i] \notin gone BY <1>3, <2>1
  <2>3. /\ w \in Seq(Scope) /\ IsInjective(w) /\ Range(w) = Range(scopes) \ gone
        /\ m <= Len(w) /\ \A i \in 1 .. m : w[i] = scopes[i]
    BY <1>1, <1>4, <2>2, WithoutIs
  <2> QED BY <2>1, <2>3
<1>6. scopes' = w BY <1>4
<1>7. Len(w) \in Nat /\ DOMAIN w = 1 .. Len(w) /\ Range(w) = {w[i] : i \in 1 .. Len(w)} BY <1>5, SeqIs
<1>8. w # <<>> /\ w[1] = Main
  <2>1. Len(w) # 0 BY <1>2, <1>5, <1>7
  <2> QED BY <1>2, <1>5, <2>1, EmptySeq DEF ScopesAre
<1>9. \A s \in Range(scopes) : IsBlock(s) => \A k \in 2 .. Len(s) : s[k] \in Nat
  BY <1>1, ScopesKnown DEF ScopesAre
<1>10. \A i \in DOMAIN w : IsBlock(w[i]) => \A k \in 2 .. Len(w[i]) : w[i][k] \in Nat
  <2> TAKE i \in DOMAIN w
  <2>1. w[i] \in Range(scopes) BY <1>5, <1>7
  <2> QED BY <1>9, <2>1
<1>11. \A x : IsBlock(x)' = IsBlock(x) BY DEF IsBlock
<1>12. ScopesAre' BY <1>5, <1>6, <1>8, <1>10, <1>11 DEF ScopesAre, Scope, Step, Main, IsBlock
<1>13. Blocks' = Blocks \ gone BY <1>5, <1>6 DEF Blocks, IsBlock
<1> QED BY <1>5, <1>6, <1>7, <1>12, <1>13

LEMMA TablesFewer ==
  ASSUME ScopesAre, TablesAre, SavedAre, NEW gone, gone \subseteq Blocks, scopes' = Without(scopes, gone),
         UNCHANGED <<functions, funSymbols, types, typeSymbols, pending, checkpoint>>
  PROVE  TablesAre' /\ TypedTables' /\ SavedStays /\ TablesGrow
<1>1. /\ functions' = functions /\ funSymbols' = funSymbols /\ types' = types
      /\ typeSymbols' = typeSymbols /\ pending' = pending /\ saved' = saved /\ atSave' = atSave
  BY DEF checkpoint
<1>2. /\ Range(scopes') = Range(scopes) \ gone
      /\ \A i \in 1 .. saved.scopes : scopes'[i] = scopes[i]
      /\ saved.scopes <= Len(scopes') /\ Len(scopes') \in Nat
  BY ScopesRemoved
<1>3. TypedTables' BY <1>1 DEF TablesAre, TypedTables
<1>4. FunctionsAre' BY <1>1, <1>2 DEF TablesAre, FunctionsAre, Blocks, IsBlock
<1>5. TablesAre' BY <1>1, <1>3, <1>4 DEF TablesAre, FunSymbolsAre, TypeSymbolsAre, MembersAre
<1>6. /\ Len(functions) \in Nat /\ Len(funSymbols) \in Nat
      /\ Len(types) \in Nat /\ Len(typeSymbols) \in Nat
  BY TablesKnown DEF TablesAre
<1>7. TablesGrow BY <1>1, <1>6 DEF TablesGrow
<1>8. SavedStays BY <1>1, <1>2 DEF SavedStays
<1> QED BY <1>3, <1>5, <1>7, <1>8

LEMMA ParentIs ==
  ASSUME NEW s \in Scope, NEW D, Len(s) > 1, \A k \in 1 .. Len(s) : SubSeq(s, 1, k) \in D
  PROVE  /\ Front(s) \in Scope /\ Front(s) # <<>>
         /\ \A k \in 1 .. Len(Front(s)) : SubSeq(Front(s), 1, k) \in D \ {s}
<1>1. s \in Seq(Step) /\ Len(s) \in Nat BY LenProperties DEF Scope
<1>2. PICK p : p = Front(s) OBVIOUS
<1>3. Len(s) - 1 \in 1 .. Len(s) /\ Len(s) - 1 \in 0 .. Len(s) BY <1>1
<1>4. /\ p \in Seq(Step) /\ Len(p) = Len(s) - 1 /\ \A i \in 1 .. Len(s) - 1 : p[i] = s[i]
  BY <1>1, <1>2, <1>3, FirstIs DEF Front
<1>5. p # <<>> BY <1>1, <1>4
<1>6. ASSUME NEW k \in 1 .. Len(p) PROVE SubSeq(p, 1, k) \in D \ {s}
  <2>1. k \in 1 .. Len(s) /\ k \in 0 .. Len(s) /\ k \in 0 .. Len(p) /\ k # Len(s) BY <1>1, <1>4
  <2>2. /\ SubSeq(p, 1, k) \in Seq(Step) /\ Len(SubSeq(p, 1, k)) = k
        /\ \A i \in 1 .. k : SubSeq(p, 1, k)[i] = p[i]
    BY <1>4, <2>1, FirstIs
  <2>3. /\ SubSeq(s, 1, k) \in Seq(Step) /\ Len(SubSeq(s, 1, k)) = k
        /\ \A i \in 1 .. k : SubSeq(s, 1, k)[i] = s[i]
    BY <1>1, <2>1, FirstIs
  <2>4. \A i \in 1 .. k : i \in 1 .. Len(s) - 1 BY <1>1, <1>4, <2>1
  <2>5. SubSeq(p, 1, k) = SubSeq(s, 1, k) BY <1>4, <2>2, <2>3, <2>4, SeqEqual
  <2> QED BY <2>1, <2>3, <2>5
<1> QED BY <1>2, <1>4, <1>5, <1>6 DEF Scope

LEMMA BlockClosed == ASSUME IInv, CloseBlock PROVE IInv'
<1>1. /\ UNCHANGED <<functions, funSymbols, types, typeSymbols, locals, position, refs,
                     pending, value, checkpoint, phase, units, opened>>
      /\ phase = "compiling" /\ open # Main /\ open' = Front(open)
  BY DEF CloseBlock, Compiling
<1>2. functions' = functions /\ funSymbols' = funSymbols /\ types' = types /\ typeSymbols' = typeSymbols
      /\ pending' = pending /\ saved' = saved /\ atSave' = atSave /\ refs' = refs /\ opened' = opened
      /\ phase' = phase /\ units' = units
  BY <1>1 DEF checkpoint
<1>3. /\ ScopesAre /\ DeclaredAre /\ TablesAre /\ TypedTables /\ SavedAre /\ Opened /\ UnitsAre
      /\ open \in Scope /\ \A k \in 1 .. Len(open) : SubSeq(open, 1, k) \in DOMAIN declared \ pushed
      /\ \A s \in Blocks : s[Len(s)] <= opened
      /\ pushed \subseteq Range(scopes)
  BY <1>1 DEF IInv, TablesAre, Opened, Compiling, UnitsAre
<1>4. open \in DOMAIN declared /\ open \notin pushed BY <1>1, <1>3, OpenIsDeclared DEF Compiling
<1>5. IsBlock(open) /\ open \in Range(scopes) /\ Len(open) > 1 /\ ~ IsBlock(Main)
  BY <1>1, <1>3, <1>4, ScopesOfSymbols DEF IsBlock
<1>6. /\ open' \in Scope /\ open' # <<>>
      /\ \A k \in 1 .. Len(open') : SubSeq(open', 1, k) \in (DOMAIN declared \ pushed) \ {open}
  BY <1>1, <1>3, <1>5, ParentIs
<1>7. CASE UNCHANGED <<scopes, declared>> /\ pushed' = pushed \cup {open}
  <2>1. UNCHANGED <<tables, pending, checkpoint>> BY <1>1, <1>2, <1>7 DEF tables
  <2>2. ScopesAre' /\ TablesAre' /\ SavedStays /\ TablesGrow BY <1>3, <2>1, TablesStay
  <2>3. DeclaredAre' BY <1>3, <1>7 DEF DeclaredAre, Blocks, IsBlock, Declarable
  <2>4. Symbols' = Symbols /\ (InMainOrder' => InMainOrder) BY <1>7 DEF Symbols, Symbol, InMainOrder, IsBlock
  <2>5. Opened' BY <1>2, <1>3, <1>6, <1>7 DEF Opened, Blocks, IsBlock, Scope, Step
  <2>6. UnitsAre' BY <1>2, <1>3, <1>5, <1>7 DEF UnitsAre, HaveCode
  <2> QED BY <1>1, <1>2, <1>7, <2>2, <2>3, <2>4, <2>5, <2>6, QuietHolds
<1>8. CASE /\ declared[open] = <<>> /\ scopes' = Without(scopes, {open})
           /\ declared' = Restrict(declared, DOMAIN declared \ {open}) /\ pushed' = pushed
  <2>1. {open} \subseteq Blocks BY <1>5 DEF Blocks
  <2>2. /\ ScopesAre' /\ Range(scopes') = Range(scopes) \ {open} /\ Blocks' = Blocks \ {open}
    BY <1>3, <1>8, <2>1, ScopesRemoved
  <2>3. TablesAre' /\ SavedStays /\ TablesGrow BY <1>1, <1>3, <1>8, <2>1, TablesFewer
  <2>4. DOMAIN declared' = DOMAIN declared \ {open} /\ declared' = [s \in DOMAIN declared \ {open} |-> declared[s]]
        /\ \A s \in DOMAIN declared : s # open => declared'[s] = declared[s]
    BY <1>8 DEF Restrict
  <2>5. DOMAIN declared = {Main} \cup Blocks BY <1>3 DEF DeclaredAre
  <2>6. DOMAIN declared \ {open} = {Main} \cup Blocks' BY <1>1, <2>2, <2>5
  <2>7. DeclaredAre'
    <3>1. \A s \in {Main} \cup Blocks' : declared[s] \in Seq(Declarable) /\ IsInjective(declared[s])
      BY <1>3, <2>2, <2>5 DEF DeclaredAre
    <3> QED BY <2>4, <2>6, <3>1 DEF DeclaredAre, Declarable, Main
  <2>8. Symbols' = Symbols
    <3>1. Range(declared[open]) = {} BY <1>8 DEF Range
    <3>2. \A x \in Symbols' : x \in Symbols
      <4> TAKE x \in Symbols'
      <4>1. PICK s \in DOMAIN declared' : \E n \in Range(declared'[s]) : x = Symbol(s, n) BY DEF Symbols, Symbol
      <4> QED BY <2>4, <4>1 DEF Symbols
    <3>3. \A x \in Symbols : x \in Symbols'
      <4> TAKE x \in Symbols
      <4>1. PICK s \in DOMAIN declared : \E n \in Range(declared[s]) : x = Symbol(s, n) BY DEF Symbols
      <4>2. PICK n \in Range(declared[s]) : x = Symbol(s, n) BY <4>1
      <4>3. s # open BY <3>1, <4>2
      <4>4. s \in DOMAIN declared' /\ declared'[s] = declared[s] BY <2>4, <4>3
      <4> QED BY <4>2, <4>4, SymbolsFrom
    <3> QED BY <3>2, <3>3
  <2>9. InMainOrder' => InMainOrder BY <1>8, <2>4 DEF InMainOrder, IsBlock
  <2>10. declared'[Main] = declared[Main] BY <1>1, <2>4, <2>5
  <2>11. Opened' BY <1>2, <1>3, <1>6, <1>8, <2>2, <2>4 DEF Opened, Scope, Step
  <2>12. UnitsAre' BY <1>2, <1>3, <1>4, <1>8, <2>2 DEF UnitsAre, HaveCode
  <2> QED BY <1>1, <1>2, <2>2, <2>3, <2>7, <2>8, <2>9, <2>10, <2>11, <2>12, QuietHolds
<1>9. \/ UNCHANGED <<scopes, declared>> /\ pushed' = pushed \cup {open}
      \/ /\ declared[open] = <<>> /\ scopes' = Without(scopes, {open})
         /\ declared' = Restrict(declared, DOMAIN declared \ {open}) /\ pushed' = pushed
  BY DEF CloseBlock
<1> QED BY <1>7, <1>8, <1>9
-----------------------------------------------------------------------------
(* The steps that declare functions and types.                             *)
FunctionRecord == [name : FunctionNames \cup ClassNames, owner : Nat, scope : Scope, hasCode : BOOLEAN]

LEMMA UnusedIs ==
  ASSUME ScopesAre, FunctionsAre, TypedTables, Len(scopes) < MaxScopes, NEW kind \in {"function", "type"}
  PROVE  Unused(kind) \in Scope /\ Unused(kind) \notin Range(scopes) /\ ~ IsBlock(Unused(kind))
<1>1. /\ scopes \in Seq(Scope) /\ Len(scopes) \in Nat \ {0} /\ IsInjective(scopes)
  BY ScopesKnown DEF ScopesAre
<1>2. MaxScopes \in Nat BY BoundsAssumption
<1>3. IsFiniteSet(Range(scopes)) /\ Cardinality(Range(scopes)) = Len(scopes) BY <1>1, EntriesCounted
<1>4. Range(scopes) \cup {functions[f].scope : f \in DOMAIN functions} = Range(scopes)
  BY TablesKnown DEF FunctionsAre
<1> DEFINE S == {n \in 1 .. MaxScopes + 1 : <<kind, n>> \notin Range(scopes)}
<1>5. S # {}
  <2> SUFFICES ASSUME \A n \in 1 .. MaxScopes + 1 : <<kind, n>> \in Range(scopes) PROVE FALSE OBVIOUS
  <2> DEFINE q == [n \in 1 .. MaxScopes + 1 |-> <<kind, n>>]
  <2>1. MaxScopes + 1 \in Nat BY <1>2
  <2>2. q \in [1 .. MaxScopes + 1 -> Range(scopes)] OBVIOUS
  <2>3. q \in Seq(Range(scopes)) BY <2>1, <2>2, SeqDef
  <2>4. DOMAIN q = 1 .. MaxScopes + 1 OBVIOUS
  <2>5. Len(q) = MaxScopes + 1 /\ Range(q) \subseteq Range(scopes)
    <3>1. DOMAIN q = 1 .. Len(q) /\ Len(q) \in Nat BY <2>3, LenProperties
    <3> HIDE DEF q
    <3>2. Len(q) = MaxScopes + 1 BY <2>1, <2>4, <3>1
    <3> QED BY <2>2, <3>2 DEF Range
  <2>6. IsInjective(q)
    <3>1. \A a, b : <<kind, a>> = <<kind, b>> => a = b OBVIOUS
    <3> QED BY <2>4, <3>1 DEF IsInjective
  <2> HIDE DEF q
  <2>7. IsFiniteSet(Range(q)) /\ Cardinality(Range(q)) = MaxScopes + 1 BY <2>3, <2>5, <2>6, EntriesCounted
  <2>8. Cardinality(Range(q)) <= Cardinality(Range(scopes)) BY <1>3, <2>5, FS_Subset
  <2> QED BY <1>1, <1>2, <1>3, <2>7, <2>8
<1>6. S \in SUBSET Nat OBVIOUS
<1> HIDE DEF S
<1>7. Min(S) \in S BY <1>5, <1>6, MinIs
<1>8. Unused(kind) = <<kind, Min(S)>> BY <1>4 DEF Unused, S
<1>9. Min(S) \in Nat /\ <<kind, Min(S)>> \notin Range(scopes) BY <1>7 DEF S
<1>10. PICK n \in Nat : n = Min(S) BY <1>9
<1>11. Unused(kind) = <<kind, n>> /\ <<kind, n>> \notin Range(scopes) BY <1>8, <1>9, <1>10
<1>12. <<kind, n>> \in Seq(Step) BY DEF Step
<1>13. ~ IsBlock(<<kind, n>>) BY DEF IsBlock
<1> QED BY <1>11, <1>12, <1>13 DEF Scope

LEMMA NewScope ==
  ASSUME IInv, Len(scopes) < MaxScopes, NEW kind \in {"function", "type"},
         scopes' = Append(scopes, Unused(kind)), declared' = declared
  PROVE  /\ ScopesAre' /\ DeclaredAre' /\ Blocks' = Blocks /\ Symbols' = Symbols
         /\ Range(scopes') = Range(scopes) \cup {Unused(kind)}
         /\ Unused(kind) \in Scope /\ ~ IsBlock(Unused(kind))
         /\ InMainOrder' => InMainOrder
         /\ \A i \in 1 .. saved.scopes : scopes'[i] = scopes[i]
         /\ saved.scopes <= Len(scopes') /\ Len(scopes') \in Nat
<1>1. ScopesAre /\ FunctionsAre /\ TypedTables /\ SavedAre /\ DeclaredAre BY DEF IInv, TablesAre
<1>2. PICK s \in Scope : s = Unused(kind) /\ s \notin Range(scopes) /\ ~ IsBlock(s) BY <1>1, UnusedIs
<1>3. scopes' = Append(scopes, s) BY <1>2
<1>4. /\ ScopesAre' /\ Range(scopes') = Range(scopes) \cup {s} /\ Blocks' = Blocks
      /\ \A i \in 1 .. saved.scopes : scopes'[i] = scopes[i]
      /\ saved.scopes <= Len(scopes') /\ Len(scopes') \in Nat
  BY <1>1, <1>2, <1>3, ScopeAdded
<1>5. DeclaredAre' BY <1>1, <1>4 DEF DeclaredAre, Declarable, Main
<1>6. Symbols' = Symbols /\ (InMainOrder' => InMainOrder) BY DEF Symbols, Symbol, InMainOrder, IsBlock
<1> QED BY <1>2, <1>4, <1>5, <1>6

(* Entry f of the table of functions is e, an old one keeps its owner and  *)
(* its name.                                                               *)
Writes(f, e) ==
  /\ functions' \in Seq(FunctionRecord) /\ Len(functions) <= Len(functions')
  /\ f \in 1 .. Len(functions') /\ functions'[f] = e /\ f > saved.functions
  /\ \A g \in 1 .. Len(functions) : g # f => functions'[g] = functions[g]
  /\ \A g \in 1 .. Len(functions) :
       functions'[g].owner = functions[g].owner /\ functions'[g].name = functions[g].name
  /\ \A g \in 1 .. Len(functions') : g \in 1 .. Len(functions) \/ g = f

LEMMA FunctionAppended ==
  ASSUME TypedTables, SavedCounts, NEW e \in FunctionRecord, functions' = Append(functions, e)
  PROVE  Writes(Len(functions) + 1, e) /\ Len(functions') = Len(functions) + 1
<1>1. functions \in Seq(FunctionRecord) /\ Len(functions) \in Nat
      /\ saved.functions \in Nat /\ saved.functions <= Len(functions)
  BY TablesKnown DEF TypedTables, FunctionRecord, SavedCounts
<1>2. /\ functions' \in Seq(FunctionRecord) /\ Len(functions') = Len(functions) + 1
      /\ functions'[Len(functions) + 1] = e
      /\ \A g \in 1 .. Len(functions) : functions'[g] = functions[g]
  BY <1>1, AppendProperties
<1>3. /\ Len(functions) <= Len(functions) + 1 /\ Len(functions) + 1 \in 1 .. Len(functions) + 1
      /\ Len(functions) + 1 > saved.functions
      /\ \A g \in 1 .. Len(functions) + 1 : g \in 1 .. Len(functions) \/ g = Len(functions) + 1
  BY <1>1
<1> QED BY <1>2, <1>3 DEF Writes

LEMMA FunctionReplaced ==
  ASSUME TypedTables, SavedCounts, NEW e \in FunctionRecord, NEW f \in 1 .. Len(functions),
         functions' = [functions EXCEPT ![f] = e], f > saved.functions,
         e.owner = functions[f].owner, e.name = functions[f].name
  PROVE  Writes(f, e) /\ Len(functions') = Len(functions)
<1>1. functions \in Seq(FunctionRecord) /\ Len(functions) \in Nat /\ DOMAIN functions = 1 .. Len(functions)
  BY TablesKnown DEF TypedTables, FunctionRecord
<1>2. functions' \in Seq(FunctionRecord) /\ Len(functions') = Len(functions)
  BY <1>1, ExceptSeq
<1>3. functions'[f] = e /\ \A g \in 1 .. Len(functions) : g # f => functions'[g] = functions[g] BY <1>1
<1>4. \A g \in 1 .. Len(functions) :
        functions'[g].owner = functions[g].owner /\ functions'[g].name = functions[g].name
  BY <1>3
<1> QED BY <1>1, <1>2, <1>3, <1>4 DEF Writes

(* What holds of the other tables whatever entry is written.               *)
LEMMA WrittenIs ==
  ASSUME TablesAre, SavedAre, NEW f, NEW e, Writes(f, e), e.owner <= Len(types'),
         Len(types) <= Len(types'), Len(types') \in Nat,
         e.scope \in Range(scopes'), ~ IsBlock(e.scope), Range(scopes) \subseteq Range(scopes')
  PROVE  /\ FunctionsAre' /\ Len(functions') \in Nat
         /\ 1 .. Len(functions) \subseteq 1 .. Len(functions')
         /\ \A g \in 1 .. saved.functions : functions'[g] = functions[g]
<1>1. /\ Len(functions) \in Nat /\ Len(types) \in Nat
      /\ \A g \in 1 .. Len(functions) : functions[g].owner \in Nat
  BY TablesKnown DEF TablesAre
<1>2. Len(functions') \in Nat BY LenProperties DEF Writes
<1>3. 1 .. Len(functions) \subseteq 1 .. Len(functions') BY <1>1, <1>2 DEF Writes
<1>4. saved.functions \in Nat /\ saved.functions <= Len(functions) BY DEF SavedAre, SavedCounts
<1>5. \A g \in 1 .. saved.functions : g \in 1 .. Len(functions) /\ g # f BY <1>1, <1>2, <1>4 DEF Writes
<1>6. ASSUME NEW g \in 1 .. Len(functions')
      PROVE  /\ functions'[g].owner <= Len(types')
             /\ functions'[g].scope \in Range(scopes') /\ ~ IsBlock(functions'[g].scope)
  <2>1. CASE g = f BY <2>1 DEF Writes
  <2>2. CASE g # f
    <3>1. g \in 1 .. Len(functions) /\ functions'[g] = functions[g] BY <2>2 DEF Writes
    <3>2. /\ functions[g].owner <= Len(types)
          /\ functions[g].scope \in Range(scopes) /\ ~ IsBlock(functions[g].scope)
      BY <3>1 DEF TablesAre, FunctionsAre
    <3>3. functions[g].owner <= Len(types') BY <1>1, <3>1, <3>2
    <3> QED BY <3>1, <3>2, <3>3
  <2> QED BY <2>1, <2>2
<1>7. FunctionsAre' BY <1>6 DEF FunctionsAre, IsBlock
<1>8. \A g \in 1 .. saved.functions : functions'[g] = functions[g] BY <1>5 DEF Writes
<1> QED BY <1>2, <1>3, <1>7, <1>8

LEMMA FunctionSet ==
  ASSUME KeepsRules, IInv, phase = "compiling", open = Main, NEW name \in FunctionNames,
         NEW uses \in SUBSET Variables, NEW hasCode \in BOOLEAN, SetFunction(name, uses, hasCode),
         IF hasCode THEN phase' = "compiling" ELSE phase' = "breaking", units' = units
  PROVE  IInv'
<1>1. /\ ScopesAre /\ DeclaredAre /\ TablesAre /\ TypedTables /\ FunctionsAre /\ FunSymbolsAre
      /\ TypeSymbolsAre /\ MembersAre /\ SavedAre /\ SavedCounts /\ Opened /\ UnitsAre
  BY DEF IInv, TablesAre, SavedAre
<1>2. /\ Len(functions) \in Nat /\ DOMAIN functions = 1 .. Len(functions)
      /\ Len(funSymbols) \in Nat /\ DOMAIN funSymbols = 1 .. Len(funSymbols)
      /\ Len(types) \in Nat /\ Len(typeSymbols) \in Nat
      /\ \A i \in 1 .. Len(funSymbols) : funSymbols[i].fun \in Nat
      /\ \A g \in 1 .. Len(functions) : functions[g].owner \in Nat
  BY <1>1, TablesKnown
<1>3. PICK scope : scope = Unused("function") OBVIOUS
<1>4. PICK e : e = Function(name, 0, scope, hasCode) OBVIOUS
<1>5. PICK known : known = {i \in DOMAIN funSymbols : funSymbols[i].name = name} OBVIOUS
<1>6. PICK f : f = IF known = {} THEN Len(functions) + 1 ELSE funSymbols[CHOOSE i \in known : TRUE].fun OBVIOUS
<1>7. /\ Len(scopes) < MaxScopes /\ scopes' = Append(scopes, scope)
      /\ UNCHANGED <<declared, locals, position, types, typeSymbols, pushed, value, checkpoint, open, opened>>
  BY <1>3 DEF SetFunction
<1>8. /\ known # {} => f > saved.functions
      /\ functions' = IF known = {} THEN Append(functions, e) ELSE [functions EXCEPT ![f] = e]
      /\ funSymbols' = IF known = {} THEN Append(funSymbols, [name |-> name, fun |-> f]) ELSE funSymbols
      /\ pending' = IF hasCode /\ uses # {} THEN pending \cup {f} ELSE pending
      /\ refs' = {r \in refs : r.by # <<"function", f>>}
                 \cup (IF hasCode THEN {Ref(<<"function", f>>, Symbol(Main, v), Unresolved) : v \in uses} ELSE {})
  BY <1>3, <1>4, <1>5, <1>6 DEF SetFunction, Rule, KeepsRules
<1>9. declared' = declared /\ types' = types /\ typeSymbols' = typeSymbols /\ pushed' = pushed
      /\ saved' = saved /\ atSave' = atSave /\ open' = open /\ opened' = opened
  BY <1>7 DEF checkpoint
<1>10. /\ ScopesAre' /\ DeclaredAre' /\ Blocks' = Blocks /\ Symbols' = Symbols
       /\ Range(scopes') = Range(scopes) \cup {scope} /\ scope \in Scope /\ ~ IsBlock(scope)
       /\ InMainOrder' => InMainOrder
       /\ \A i \in 1 .. saved.scopes : scopes'[i] = scopes[i]
       /\ saved.scopes <= Len(scopes') /\ Len(scopes') \in Nat
  BY <1>3, <1>7, <1>9, NewScope
<1>11. e \in FunctionRecord /\ e.name = name /\ e.owner = 0 /\ e.scope = scope /\ e.hasCode = hasCode
  BY <1>4, <1>10 DEF Function, FunctionRecord
<1>12. known # {} => f \in 1 .. Len(functions) /\ functions[f].owner = 0 /\ functions[f].name = name
  <2> HAVE known # {}
  <2>1. PICK i \in known : f = funSymbols[i].fun BY <1>6
  <2>2. i \in 1 .. Len(funSymbols) /\ funSymbols[i].name = name BY <1>2, <1>5, <2>1
  <2> QED BY <1>1, <2>1, <2>2 DEF FunSymbolsAre
<1>13. Writes(f, e)
  <2>1. CASE known = {}
    <3>1. f = Len(functions) + 1 /\ functions' = Append(functions, e) BY <1>6, <1>8, <2>1
    <3> QED BY <1>1, <1>11, <3>1, FunctionAppended
  <2>2. CASE known # {}
    <3>1. f > saved.functions /\ functions' = [functions EXCEPT ![f] = e] BY <1>8, <2>2
    <3> QED BY <1>1, <1>11, <1>12, <2>2, <3>1, FunctionReplaced
  <2> QED BY <2>1, <2>2
<1>14. /\ FunctionsAre' /\ Len(functions') \in Nat /\ Len(functions) <= Len(functions')
       /\ 1 .. Len(functions) \subseteq 1 .. Len(functions')
       /\ \A g \in 1 .. saved.functions : functions'[g] = functions[g]
       /\ functions' \in Seq(FunctionRecord) /\ f \in 1 .. Len(functions') /\ functions'[f] = e
  <2>1. Len(types') = Len(types) /\ Len(types) <= Len(types') /\ e.owner <= Len(types') BY <1>2, <1>9, <1>11
  <2>2. e.scope \in Range(scopes') /\ ~ IsBlock(e.scope) /\ Range(scopes) \subseteq Range(scopes')
    BY <1>10, <1>11
  <2> QED BY <1>1, <1>2, <1>13, <2>1, <2>2, WrittenIs DEF Writes
<1>15. /\ funSymbols' \in Seq([name : FunctionNames, fun : Nat]) /\ Len(funSymbols) <= Len(funSymbols')
       /\ Len(funSymbols') \in Nat
       /\ \A i \in 1 .. Len(funSymbols) : funSymbols'[i] = funSymbols[i]
       /\ \A i \in 1 .. Len(funSymbols') :
            i \in 1 .. Len(funSymbols) \/ (funSymbols'[i].fun = f /\ funSymbols'[i].name = name)
  <2>1. funSymbols \in Seq([name : FunctionNames, fun : Nat]) BY <1>1 DEF TypedTables
  <2>2. CASE known = {}
    <3>1. PICK y : y = [name |-> name, fun |-> f] OBVIOUS
    <3>2. y \in [name : FunctionNames, fun : Nat] /\ y.name = name /\ y.fun = f
      BY <1>14, <3>1
    <3>3. funSymbols' = Append(funSymbols, y) BY <1>8, <2>2, <3>1
    <3>4. /\ funSymbols' \in Seq([name : FunctionNames, fun : Nat]) /\ Len(funSymbols') = Len(funSymbols) + 1
          /\ funSymbols'[Len(funSymbols) + 1] = y
          /\ \A i \in 1 .. Len(funSymbols) : funSymbols'[i] = funSymbols[i]
      BY <2>1, <3>2, <3>3, AppendProperties
    <3>5. \A i \in 1 .. Len(funSymbols) + 1 : i \in 1 .. Len(funSymbols) \/ i = Len(funSymbols) + 1 BY <1>2
    <3> QED BY <1>2, <3>2, <3>4, <3>5
  <2>3. CASE known # {} BY <1>2, <1>8, <2>1, <2>3
  <2> QED BY <2>2, <2>3
<1>16. pending' \subseteq 1 .. Len(functions') /\ pending \subseteq pending'
       /\ (hasCode /\ uses # {} => f \in pending')
  BY <1>1, <1>8, <1>14 DEF TypedTables
<1>17. TypedTables' BY <1>1, <1>9, <1>14, <1>15, <1>16 DEF TypedTables, FunctionRecord, Scope, Step
<1>18. FunSymbolsAre'
  <2> SUFFICES ASSUME NEW i \in 1 .. Len(funSymbols')
               PROVE  /\ funSymbols'[i].fun \in 1 .. Len(functions')
                      /\ functions'[funSymbols'[i].fun].owner = 0
                      /\ functions'[funSymbols'[i].fun].name = funSymbols'[i].name
    BY DEF FunSymbolsAre
  <2>1. CASE i \in 1 .. Len(funSymbols)
    <3>1. funSymbols'[i] = funSymbols[i] BY <1>15, <2>1
    <3>2. /\ funSymbols[i].fun \in 1 .. Len(functions)
          /\ functions[funSymbols[i].fun].owner = 0
          /\ functions[funSymbols[i].fun].name = funSymbols[i].name
      BY <1>1, <2>1 DEF FunSymbolsAre
    <3>3. /\ functions'[funSymbols[i].fun].owner = functions[funSymbols[i].fun].owner
          /\ functions'[funSymbols[i].fun].name = functions[funSymbols[i].fun].name
      BY <1>13, <3>2 DEF Writes
    <3> QED BY <1>14, <3>1, <3>2, <3>3
  <2>2. CASE funSymbols'[i].fun = f /\ funSymbols'[i].name = name BY <1>11, <1>14, <2>2
  <2> QED BY <1>15, <2>1, <2>2
<1>19. MembersAre'
  <2> SUFFICES ASSUME NEW t \in 1 .. Len(types), NEW g \in types[t].members
               PROVE  g \in 1 .. Len(functions') /\ functions'[g].owner = t
    BY <1>9 DEF MembersAre
  <2>1. g \in 1 .. Len(functions) /\ functions[g].owner = t BY <1>1 DEF MembersAre
  <2> QED BY <1>13, <1>14, <2>1 DEF Writes
<1>20. TablesAre' BY <1>1, <1>9, <1>14, <1>17, <1>18, <1>19 DEF TablesAre, TypeSymbolsAre
<1>21. SavedStays
  <2>1. \A i \in 1 .. saved.funSymbols : i \in 1 .. Len(funSymbols) BY <1>1, <1>2 DEF SavedCounts
  <2> QED BY <1>9, <1>10, <1>14, <1>15, <2>1 DEF SavedStays
<1>22. TablesGrow BY <1>2, <1>9, <1>14, <1>15, <1>16 DEF TablesGrow
<1>23. \A r \in refs' : r \in refs \/ (RefIs(r)' /\ NotSaved(r))
  <2> SUFFICES ASSUME hasCode, NEW v \in uses, NEW r, r = Ref(<<"function", f>>, Symbol(Main, v), Unresolved)
               PROVE  RefIs(r)' /\ NotSaved(r)
    BY <1>8
  <2>1. r.by = <<"function", f>> /\ r.slot = Unresolved /\ f \in pending' BY <1>16 DEF Ref
  <2>2. RefIs(r)' BY <1>14, <2>1 DEF RefIs, Unresolved
  <2>3. \A g \in 1 .. saved.functions : g # f
    <3>1. saved.functions \in Nat /\ f > saved.functions /\ f \in Nat BY <1>1, <1>13, <1>14 DEF SavedCounts, Writes
    <3> QED BY <3>1
  <2> QED BY <2>1, <2>2, <2>3, KindsDiffer DEF NotSaved
<1>24. Opened' BY <1>1, <1>9, <1>10 DEF Opened, Compiling
<1>25. UnitsAre'
  <2>1. phase' = "compiling" => HaveCode'
    <3> SUFFICES ASSUME phase' = "compiling", NEW g \in 1 .. Len(functions') PROVE functions'[g].hasCode
      BY <1>14, SeqIs DEF HaveCode
    <3>1. hasCode OBVIOUS
    <3>2. g \in 1 .. Len(functions) => functions[g].hasCode BY <1>1, <1>2 DEF UnitsAre, HaveCode
    <3>3. g = f \/ (g \in 1 .. Len(functions) /\ functions'[g] = functions[g]) BY <1>13 DEF Writes
    <3> QED BY <1>11, <1>14, <3>1, <3>2, <3>3
  <2>2. phase' \in {"compiling", "breaking"} OBVIOUS
  <2>3. pushed' \subseteq Range(scopes') BY <1>1, <1>9, <1>10 DEF UnitsAre
  <2> QED BY <1>1, <1>9, <2>1, <2>2, <2>3 DEF UnitsAre
<1> QED
  <2>1. phase' \in {"compiling", "breaking"} OBVIOUS
  <2>2. UNCHANGED <<locals, position, value, units>> BY <1>7
  <2> QED BY <1>9, <1>10, <1>20, <1>21, <1>22, <1>23, <1>24, <1>25, <2>1, <2>2, QuietHolds

LEMMA FunctionDeclared ==
  ASSUME KeepsRules, IInv, NEW name \in FunctionNames, NEW v \in Variables, DeclareFunction(name, {v})
  PROVE  IInv'
<1>1. phase = "compiling" /\ open = Main /\ SetFunction(name, {v}, TRUE) /\ units' = units /\ phase' = phase
  BY DEF DeclareFunction, Compiling
<1>2. {v} \in SUBSET Variables OBVIOUS
<1> QED BY <1>1, <1>2, FunctionSet

LEMMA FunctionBroken == ASSUME KeepsRules, IInv, NEW name \in FunctionNames, BreaksFunction(name) PROVE IInv'
<1>1. phase = "compiling" /\ open = Main /\ SetFunction(name, {}, FALSE) /\ units' = units /\ phase' = "breaking"
  BY DEF BreaksFunction, Compiling
<1>2. {} \in SUBSET Variables OBVIOUS
<1> QED BY <1>1, <1>2, FunctionSet

LEMMA ClassDeclared == ASSUME IInv, NEW name \in ClassNames, DeclareClass(name) PROVE IInv'
<1>1. /\ ScopesAre /\ DeclaredAre /\ TablesAre /\ TypedTables /\ FunctionsAre /\ FunSymbolsAre
      /\ TypeSymbolsAre /\ MembersAre /\ SavedAre /\ SavedCounts /\ Opened /\ UnitsAre
  BY DEF IInv, TablesAre, SavedAre
<1>2. /\ Len(functions) \in Nat /\ DOMAIN functions = 1 .. Len(functions) /\ Len(funSymbols) \in Nat
      /\ Len(types) \in Nat /\ Len(typeSymbols) \in Nat
      /\ types \in Seq([name : ClassNames, members : SUBSET Nat])
      /\ typeSymbols \in Seq([name : ClassNames, type : Nat])
  BY <1>1, TablesKnown DEF TypedTables
<1>3. PICK t \in Nat : t = Len(types) + 1 BY <1>2
<1>4. PICK f \in Nat : f = Len(functions) + 1 BY <1>2
<1>5. PICK scope : scope = Unused("type") OBVIOUS
<1>6. PICK e : e = Function(name, t, scope, TRUE) OBVIOUS
<1>7. PICK y : y = [name |-> name, members |-> {f}] OBVIOUS
<1>8. PICK z : z = [name |-> name, type |-> t] OBVIOUS
<1>9. /\ phase = "compiling" /\ Len(scopes) < MaxScopes /\ scopes' = Append(scopes, scope)
      /\ types' = Append(types, y) /\ typeSymbols' = Append(typeSymbols, z) /\ functions' = Append(functions, e)
      /\ UNCHANGED <<funSymbols, declared, locals, position, refs, pending, pushed, value,
                     checkpoint, phase, open, units, opened>>
  BY <1>3, <1>4, <1>5, <1>6, <1>7, <1>8 DEF DeclareClass, Compiling
<1>10. declared' = declared /\ funSymbols' = funSymbols /\ pushed' = pushed /\ pending' = pending
       /\ saved' = saved /\ atSave' = atSave /\ open' = open /\ opened' = opened /\ refs' = refs
       /\ phase' = phase /\ units' = units
  BY <1>9 DEF checkpoint
<1>11. /\ ScopesAre' /\ DeclaredAre' /\ Blocks' = Blocks /\ Symbols' = Symbols
       /\ Range(scopes') = Range(scopes) \cup {scope} /\ scope \in Scope /\ ~ IsBlock(scope)
       /\ InMainOrder' => InMainOrder
       /\ \A i \in 1 .. saved.scopes : scopes'[i] = scopes[i]
       /\ saved.scopes <= Len(scopes') /\ Len(scopes') \in Nat
  BY <1>5, <1>9, <1>10, NewScope
<1>12. e \in FunctionRecord /\ e.owner = t /\ e.scope = scope /\ e.hasCode
  BY <1>6, <1>11 DEF Function, FunctionRecord
<1>13. y \in [name : ClassNames, members : SUBSET Nat] /\ y.members = {f} /\ y.name = name BY <1>7
<1>14. z \in [name : ClassNames, type : Nat] /\ z.type = t /\ z.name = name BY <1>8
<1>15. /\ types' \in Seq([name : ClassNames, members : SUBSET Nat]) /\ Len(types') = t /\ types'[t] = y
       /\ \A i \in 1 .. Len(types) : types'[i] = types[i]
  BY <1>2, <1>3, <1>9, <1>13, AppendProperties
<1>16. /\ typeSymbols' \in Seq([name : ClassNames, type : Nat]) /\ Len(typeSymbols') = Len(typeSymbols) + 1
       /\ typeSymbols'[Len(typeSymbols) + 1] = z
       /\ \A i \in 1 .. Len(typeSymbols) : typeSymbols'[i] = typeSymbols[i]
  BY <1>2, <1>9, <1>14, AppendProperties
<1>17. Writes(f, e) /\ Len(functions') = f BY <1>1, <1>4, <1>9, <1>12, FunctionAppended
<1>18. /\ FunctionsAre' /\ Len(functions') \in Nat /\ Len(functions) <= Len(functions')
       /\ 1 .. Len(functions) \subseteq 1 .. Len(functions')
       /\ \A g \in 1 .. saved.functions : functions'[g] = functions[g]
       /\ functions' \in Seq(FunctionRecord) /\ f \in 1 .. Len(functions') /\ functions'[f] = e
  <2>1. Len(types) <= Len(types') /\ Len(types') \in Nat /\ e.owner <= Len(types') BY <1>2, <1>3, <1>12, <1>15
  <2>2. e.scope \in Range(scopes') /\ ~ IsBlock(e.scope) /\ Range(scopes) \subseteq Range(scopes')
    BY <1>11, <1>12
  <2> QED BY <1>1, <1>17, <2>1, <2>2, WrittenIs DEF Writes
<1>19. TypedTables'
  BY <1>1, <1>10, <1>15, <1>16, <1>18 DEF TypedTables, FunctionRecord, Scope, Step
<1>20. FunSymbolsAre'
  <2> SUFFICES ASSUME NEW i \in 1 .. Len(funSymbols)
               PROVE  /\ funSymbols[i].fun \in 1 .. Len(functions')
                      /\ functions'[funSymbols[i].fun].owner = 0
                      /\ functions'[funSymbols[i].fun].name = funSymbols[i].name
    BY <1>10 DEF FunSymbolsAre
  <2>1. /\ funSymbols[i].fun \in 1 .. Len(functions)
        /\ functions[funSymbols[i].fun].owner = 0
        /\ functions[funSymbols[i].fun].name = funSymbols[i].name
    BY <1>1 DEF FunSymbolsAre
  <2> QED BY <1>17, <1>18, <2>1 DEF Writes
<1>21. \A i \in 1 .. t : i \in 1 .. Len(types) \/ i = t BY <1>2, <1>3
<1>22. 1 .. Len(types) \subseteq 1 .. t /\ t \in 1 .. t BY <1>2, <1>3
<1>23. MembersAre'
  <2> SUFFICES ASSUME NEW i \in 1 .. t, NEW g \in types'[i].members
               PROVE  g \in 1 .. Len(functions') /\ functions'[g].owner = i
    BY <1>15 DEF MembersAre
  <2>1. CASE i \in 1 .. Len(types)
    <3>1. g \in 1 .. Len(functions) /\ functions[g].owner = i BY <1>1, <1>15, <2>1 DEF MembersAre
    <3> QED BY <1>17, <1>18, <3>1 DEF Writes
  <2>2. CASE i = t BY <1>12, <1>13, <1>15, <1>18, <2>2
  <2> QED BY <1>21, <2>1, <2>2
<1>24. TypeSymbolsAre'
  <2> SUFFICES ASSUME NEW i \in 1 .. Len(typeSymbols')
               PROVE  /\ typeSymbols'[i].type \in 1 .. t
                      /\ types'[typeSymbols'[i].type].name = typeSymbols'[i].name
    BY <1>15 DEF TypeSymbolsAre
  <2>1. CASE i \in 1 .. Len(typeSymbols)
    <3>1. /\ typeSymbols[i].type \in 1 .. Len(types)
          /\ types[typeSymbols[i].type].name = typeSymbols[i].name
      BY <1>1, <2>1 DEF TypeSymbolsAre
    <3> QED BY <1>15, <1>16, <1>22, <2>1, <3>1
  <2>2. CASE i = Len(typeSymbols) + 1 BY <1>13, <1>14, <1>15, <1>16, <1>22, <2>2
  <2>3. i \in 1 .. Len(typeSymbols) \/ i = Len(typeSymbols) + 1 BY <1>2, <1>16
  <2> QED BY <2>1, <2>2, <2>3
<1>25. TablesAre' BY <1>18, <1>19, <1>20, <1>23, <1>24 DEF TablesAre
<1>26. SavedStays
  <2>1. \A i \in 1 .. saved.types : i \in 1 .. Len(types) BY <1>1, <1>2 DEF SavedCounts
  <2>2. \A i \in 1 .. saved.typeSymbols : i \in 1 .. Len(typeSymbols) BY <1>1, <1>2 DEF SavedCounts
  <2> QED BY <1>10, <1>11, <1>15, <1>16, <1>18, <2>1, <2>2 DEF SavedStays
<1>27. TablesGrow
  <2>1. Len(types) <= Len(types') /\ Len(typeSymbols) <= Len(typeSymbols') BY <1>2, <1>3, <1>15, <1>16
  <2> QED BY <1>2, <1>10, <1>18, <2>1 DEF TablesGrow
<1>28. Opened' BY <1>1, <1>10, <1>11 DEF Opened, Compiling, Scope, Step
<1>29. UnitsAre'
  <2>1. HaveCode'
    <3> SUFFICES ASSUME NEW g \in 1 .. Len(functions') PROVE functions'[g].hasCode
      BY <1>18, SeqIs DEF HaveCode
    <3>1. g \in 1 .. Len(functions) => functions[g].hasCode BY <1>1, <1>2, <1>9 DEF UnitsAre, HaveCode
    <3>2. g = f \/ (g \in 1 .. Len(functions) /\ functions'[g] = functions[g]) BY <1>17 DEF Writes
    <3> QED BY <1>12, <1>18, <3>1, <3>2
  <2>2. pushed' \subseteq Range(scopes') BY <1>1, <1>9, <1>10, <1>11 DEF UnitsAre
  <2> QED BY <1>1, <1>9, <1>10, <2>1, <2>2 DEF UnitsAre
<1> QED
  <2>1. phase' \in {"compiling", "breaking"} BY <1>9, <1>10
  <2>2. UNCHANGED <<locals, position, value, units>> BY <1>9
  <2> QED BY <1>9, <1>10, <1>11, <1>25, <1>26, <1>27, <1>28, <1>29, <2>1, <2>2, QuietHolds

LEMMA MemberFunctionDeclared ==
  ASSUME KeepsRules, IInv, NEW name \in FunctionNames, NEW t \in DOMAIN types, DeclareMemberFunction(name, t)
  PROVE  IInv'
<1>1. /\ ScopesAre /\ DeclaredAre /\ TablesAre /\ TypedTables /\ FunctionsAre /\ FunSymbolsAre
      /\ TypeSymbolsAre /\ MembersAre /\ SavedAre /\ SavedCounts /\ Opened /\ UnitsAre
  BY DEF IInv, TablesAre, SavedAre
<1>2. /\ Len(functions) \in Nat /\ DOMAIN functions = 1 .. Len(functions) /\ Len(funSymbols) \in Nat
      /\ Len(types) \in Nat /\ DOMAIN types = 1 .. Len(types) /\ Len(typeSymbols) \in Nat
      /\ types \in Seq([name : ClassNames, members : SUBSET Nat])
  BY <1>1, TablesKnown DEF TypedTables
<1>3. t \in 1 .. Len(types) /\ t \in Nat BY <1>2
<1>4. PICK f \in Nat : f = Len(functions) + 1 BY <1>2
<1>5. PICK scope : scope = Unused("function") OBVIOUS
<1>6. PICK e : e = Function(name, t, scope, TRUE) OBVIOUS
<1>7. types[t] \in [name : ClassNames, members : SUBSET Nat] BY <1>2, <1>3, ElementOfSeq
<1>8. PICK y : y = [types[t] EXCEPT !.members = @ \cup {f}] OBVIOUS
<1>9. /\ phase = "compiling" /\ t > saved.types /\ Len(scopes) < MaxScopes
      /\ scopes' = Append(scopes, scope) /\ functions' = Append(functions, e)
      /\ types' = [types EXCEPT ![t] = y]
      /\ UNCHANGED <<funSymbols, typeSymbols, declared, locals, position, refs, pending, pushed,
                     value, checkpoint, phase, open, units, opened>>
  BY <1>4, <1>5, <1>6, <1>8 DEF DeclareMemberFunction, Compiling, Rule, KeepsRules
<1>10. declared' = declared /\ funSymbols' = funSymbols /\ pushed' = pushed /\ pending' = pending
       /\ saved' = saved /\ atSave' = atSave /\ open' = open /\ opened' = opened /\ refs' = refs
       /\ phase' = phase /\ units' = units /\ typeSymbols' = typeSymbols
  BY <1>9 DEF checkpoint
<1>11. /\ ScopesAre' /\ DeclaredAre' /\ Blocks' = Blocks /\ Symbols' = Symbols
       /\ Range(scopes') = Range(scopes) \cup {scope} /\ scope \in Scope /\ ~ IsBlock(scope)
       /\ InMainOrder' => InMainOrder
       /\ \A i \in 1 .. saved.scopes : scopes'[i] = scopes[i]
       /\ saved.scopes <= Len(scopes') /\ Len(scopes') \in Nat
  BY <1>5, <1>9, <1>10, NewScope
<1>12. e \in FunctionRecord /\ e.owner = t /\ e.scope = scope /\ e.hasCode
  BY <1>3, <1>6, <1>11 DEF Function, FunctionRecord
<1>13. /\ y \in [name : ClassNames, members : SUBSET Nat]
       /\ y.name = types[t].name /\ y.members = types[t].members \cup {f}
  BY <1>7, <1>8
<1>14. /\ types' \in Seq([name : ClassNames, members : SUBSET Nat]) /\ Len(types') = Len(types)
       /\ types'[t] = y /\ \A i \in 1 .. Len(types) : i # t => types'[i] = types[i]
       /\ \A i \in 1 .. Len(types) : types'[i].name = types[i].name
  <2>1. types' \in Seq([name : ClassNames, members : SUBSET Nat]) /\ Len(types') = Len(types)
    BY <1>2, <1>3, <1>9, <1>13, ExceptSeq
  <2> QED BY <1>2, <1>3, <1>9, <1>13, <2>1
<1>15. Writes(f, e) /\ Len(functions') = f BY <1>1, <1>4, <1>9, <1>12, FunctionAppended
<1>16. /\ FunctionsAre' /\ Len(functions') \in Nat /\ Len(functions) <= Len(functions')
       /\ 1 .. Len(functions) \subseteq 1 .. Len(functions')
       /\ \A g \in 1 .. saved.functions : functions'[g] = functions[g]
       /\ functions' \in Seq(FunctionRecord) /\ f \in 1 .. Len(functions') /\ functions'[f] = e
  <2>1. Len(types) <= Len(types') /\ Len(types') \in Nat /\ e.owner <= Len(types') BY <1>2, <1>3, <1>12, <1>14
  <2>2. e.scope \in Range(scopes') /\ ~ IsBlock(e.scope) /\ Range(scopes) \subseteq Range(scopes')
    BY <1>11, <1>12
  <2> QED BY <1>1, <1>15, <2>1, <2>2, WrittenIs DEF Writes
<1>17. TypedTables' BY <1>1, <1>10, <1>14, <1>16 DEF TypedTables, FunctionRecord, Scope, Step
<1>18. FunSymbolsAre'
  <2> SUFFICES ASSUME NEW i \in 1 .. Len(funSymbols)
               PROVE  /\ funSymbols[i].fun \in 1 .. Len(functions')
                      /\ functions'[funSymbols[i].fun].owner = 0
                      /\ functions'[funSymbols[i].fun].name = funSymbols[i].name
    BY <1>10 DEF FunSymbolsAre
  <2>1. /\ funSymbols[i].fun \in 1 .. Len(functions)
        /\ functions[funSymbols[i].fun].owner = 0
        /\ functions[funSymbols[i].fun].name = funSymbols[i].name
    BY <1>1 DEF FunSymbolsAre
  <2> QED BY <1>15, <1>16, <2>1 DEF Writes
<1>19. MembersAre'
  <2> SUFFICES ASSUME NEW i \in 1 .. Len(types), NEW g \in types'[i].members
               PROVE  g \in 1 .. Len(functions') /\ functions'[g].owner = i
    BY <1>14 DEF MembersAre
  <2>1. CASE g \in types[i].members
    <3>1. g \in 1 .. Len(functions) /\ functions[g].owner = i BY <1>1, <2>1 DEF MembersAre
    <3> QED BY <1>15, <1>16, <3>1 DEF Writes
  <2>2. CASE g \notin types[i].members
    <3>1. i = t /\ g = f BY <1>13, <1>14, <2>2
    <3> QED BY <1>12, <1>16, <3>1
  <2> QED BY <2>1, <2>2
<1>20. TypeSymbolsAre' BY <1>1, <1>10, <1>14 DEF TypeSymbolsAre
<1>21. TablesAre' BY <1>16, <1>17, <1>18, <1>19, <1>20 DEF TablesAre
<1>22. SavedStays
  <2>1. \A i \in 1 .. saved.types : i \in 1 .. Len(types) /\ i # t
    <3>1. saved.types \in Nat /\ saved.types <= Len(types) BY <1>1 DEF SavedCounts
    <3> QED BY <1>2, <1>3, <1>9, <3>1
  <2> QED BY <1>10, <1>11, <1>14, <1>16, <2>1 DEF SavedStays
<1>23. TablesGrow BY <1>2, <1>10, <1>14, <1>16 DEF TablesGrow
<1>24. Opened' BY <1>1, <1>10, <1>11 DEF Opened, Compiling, Scope, Step
<1>25. UnitsAre'
  <2>1. HaveCode'
    <3> SUFFICES ASSUME NEW g \in 1 .. Len(functions') PROVE functions'[g].hasCode
      BY <1>16, SeqIs DEF HaveCode
    <3>1. g \in 1 .. Len(functions) => functions[g].hasCode BY <1>1, <1>2, <1>9 DEF UnitsAre, HaveCode
    <3>2. g = f \/ (g \in 1 .. Len(functions) /\ functions'[g] = functions[g]) BY <1>15 DEF Writes
    <3> QED BY <1>12, <1>16, <3>1, <3>2
  <2>2. pushed' \subseteq Range(scopes') BY <1>1, <1>9, <1>10, <1>11 DEF UnitsAre
  <2> QED BY <1>1, <1>9, <1>10, <2>1, <2>2 DEF UnitsAre
<1> QED
  <2>1. phase' \in {"compiling", "breaking"} BY <1>9, <1>10
  <2>2. UNCHANGED <<locals, position, value, units>> BY <1>9
  <2> QED BY <1>9, <1>10, <1>11, <1>21, <1>22, <1>23, <1>24, <1>25, <2>1, <2>2, QuietHolds
-----------------------------------------------------------------------------
(* A unit starts: the blocks of the one before go, the globals stay.       *)
LEMMA BlocksRemoved ==
  ASSUME IInv, Settled, RemoveBlocks
  PROVE  /\ DeclaredAre' /\ LocalsAre' /\ Len(locals') = GlobalCount /\ GlobalCount' = GlobalCount
         /\ DOMAIN declared' = {Main} /\ declared'[Main] = declared[Main]
         /\ \A i \in 1 .. GlobalCount : locals'[i] = Symbol(Main, declared[Main][i])
         /\ \A x \in Symbols : x.scope = Main => x \in Symbols' /\ position'[x] = position[x]
         /\ ScopesAre' /\ Blocks' = {} /\ Range(scopes') = Range(scopes) \ Blocks
         /\ scopes' = Without(scopes, Blocks)
<1>1. ScopesAre /\ DeclaredAre /\ LocalsAre /\ SavedAre /\ GlobalsFirst BY DEF IInv
<1>2. /\ scopes' = Without(scopes, Blocks) /\ declared' = [s \in {Main} |-> declared[Main]]
      /\ locals' = SubSeq(locals, 1, GlobalCount)
      /\ position' = Restrict(position, {x \in DOMAIN position : ~ IsBlock(x.scope)})
  BY DEF RemoveBlocks, GlobalCount
<1>3. ScopesAre' /\ Range(scopes') = Range(scopes) \ Blocks /\ Blocks' = {}
  <2>1. Blocks \subseteq Blocks /\ Blocks \ Blocks = {} OBVIOUS
  <2> QED BY <1>1, <1>2, <2>1, ScopesRemoved
<1>4. DOMAIN declared' = {Main} /\ declared'[Main] = declared[Main] /\ GlobalCount' = GlobalCount
  BY <1>2 DEF GlobalCount, Main
<1>5. /\ Main \in DOMAIN declared /\ GlobalCount \in Nat /\ declared[Main] \in Seq(Declarable)
      /\ \A i \in 1 .. GlobalCount : Global(i) \in Symbols /\ Global(i).scope = Main
      /\ \A x \in Symbols : x.scope = Main => \E i \in 1 .. GlobalCount : x = Global(i)
      /\ ~ IsBlock(Main)
  BY <1>1, GlobalsKnown, ScopesOfSymbols
<1>6. GlobalCount <= Len(locals) /\ \A i \in 1 .. GlobalCount : locals[i] = Global(i)
  BY <1>1 DEF GlobalsFirst
<1>7. DeclaredAre' BY <1>1, <1>2, <1>3, <1>5 DEF DeclaredAre, Declarable, Main
<1>8. Len(locals) \in Nat /\ locals \in Seq(Symbols) /\ Len(locals) <= MaxLocals
  BY <1>1, SymbolsCounted DEF LocalsAre
<1>9. GlobalCount \in 0 .. Len(locals) BY <1>5, <1>6, <1>8
<1>10. /\ locals' \in Seq(Symbols) /\ Len(locals') = GlobalCount
       /\ \A i \in 1 .. GlobalCount : locals'[i] = Global(i)
  BY <1>2, <1>6, <1>8, <1>9, FirstIs
<1>11. Symbols' = {x \in Symbols : x.scope = Main}
  <2>1. \A x \in Symbols' : x \in Symbols /\ x.scope = Main
    <3> TAKE x \in Symbols'
    <3>1. x.scope \in DOMAIN declared' /\ x = Symbol(x.scope, x.name)
          /\ \E i \in 1 .. Len(declared'[x.scope]) : declared'[x.scope][i] = x.name
      BY <1>7, SymbolsKnownNext
    <3>2. PICK i \in 1 .. Len(declared[Main]) : declared[Main][i] = x.name BY <1>4, <3>1
    <3>3. x.scope = Main /\ x = Symbol(Main, declared[Main][i]) BY <1>4, <3>1, <3>2
    <3> QED BY <1>5, <3>2, <3>3 DEF Global, GlobalCount
  <2>2. \A x \in Symbols : x.scope = Main => x \in Symbols'
    <3> SUFFICES ASSUME NEW x \in Symbols, x.scope = Main PROVE x \in Symbols' OBVIOUS
    <3>1. PICK i \in 1 .. GlobalCount : x = Global(i) BY <1>5
    <3>2. x = Symbol(Main, declared'[Main][i]) /\ i \in 1 .. Len(declared'[Main])
      BY <1>4, <3>1 DEF Global, GlobalCount
    <3> QED BY <1>4, <1>7, <3>2, SymbolsKnownNext
  <2> QED BY <2>1, <2>2
<1>12. DOMAIN position = Symbols BY <1>1 DEF LocalsAre
<1>13. \A x \in Symbols : IsBlock(x.scope) <=> x.scope # Main
  BY <1>1, <1>5, SymbolsKnown, ScopesOfSymbols
<1>14. position' = [x \in Symbols' |-> position[x]] BY <1>2, <1>11, <1>12, <1>13 DEF Restrict
<1>15. \A i \in 1 .. GlobalCount : position[Global(i)] = i
  <2> TAKE i \in 1 .. GlobalCount
  <2>1. i \in 1 .. Len(locals) /\ locals[i] = Global(i) BY <1>6, <1>8, <1>9
  <2> QED BY <1>1, <2>1 DEF LocalsAre
<1>16. LocalsAre'
  <2>1. locals' \in Seq(Symbols')
    <3>1. DOMAIN locals' = 1 .. GlobalCount /\ locals' \in [1 .. GlobalCount -> Symbols]
      BY <1>10, LenProperties
    <3>2. \A i \in 1 .. GlobalCount : locals'[i] \in Symbols' BY <1>5, <1>10, <1>11
    <3>3. locals' \in [1 .. GlobalCount -> Symbols'] BY <3>1, <3>2
    <3> QED BY <1>5, <3>3, SeqDef
  <2>2. \A x \in Symbols' : \E i \in 1 .. GlobalCount : x = Global(i) /\ position'[x] = i
    BY <1>5, <1>11, <1>14, <1>15
  <2>3. position' \in [Symbols' -> 1 .. GlobalCount] BY <1>14, <2>2
  <2>4. \A x \in Symbols' : locals'[position'[x]] = x BY <1>10, <2>2
  <2>5. \A i \in 1 .. GlobalCount : position'[locals'[i]] = i BY <1>5, <1>10, <1>11, <1>14, <1>15
  <2>6. GlobalCount <= MaxLocals BY <1>5, <1>6, <1>8, BoundsAssumption
  <2> QED BY <1>10, <2>1, <2>3, <2>4, <2>5, <2>6 DEF LocalsAre
<1> QED BY <1>2, <1>3, <1>4, <1>7, <1>10, <1>11, <1>14, <1>16 DEF Global

(* What compiling on after that has to show.                               *)
LEMMA StartHolds ==
  ASSUME IInv, Settled, RemoveBlocks, phase' = "compiling",
         UNCHANGED <<functions, funSymbols, types, typeSymbols, pending, value, checkpoint>>,
         \A r \in refs' : r \in refs /\ (r.by \in OfMain => SlotsStay /\ phase # "cleared"),
         Opened', UnitsAre'
  PROVE  IInv'
<1>1. /\ ScopesAre /\ DeclaredAre /\ LocalsAre /\ RefsAre /\ SavedRefsAre /\ ValuesAre
      /\ TablesAre /\ TypedTables /\ SavedAre /\ CheckpointIs
  BY DEF IInv, TablesAre
<1>2. /\ DeclaredAre' /\ LocalsAre' /\ Len(locals') = GlobalCount /\ GlobalCount' = GlobalCount
      /\ DOMAIN declared' = {Main} /\ declared'[Main] = declared[Main]
      /\ \A i \in 1 .. GlobalCount : locals'[i] = Symbol(Main, declared[Main][i])
      /\ ScopesAre' /\ scopes' = Without(scopes, Blocks)
  BY BlocksRemoved
<1>3. GlobalCount \in Nat BY <1>1, GlobalsKnown
<1>4. \A i : Global(i)' = Symbol(Main, declared[Main][i]) BY <1>2 DEF Global, Symbol, Main
<1>5. GlobalsStay BY <1>2, <1>3 DEF GlobalsStay
<1>6. TablesAre' /\ TypedTables' /\ SavedStays /\ TablesGrow
  <2>1. Blocks \subseteq Blocks OBVIOUS
  <2> QED BY <1>1, <1>2, <2>1, TablesFewer
<1>7. SavedAre' /\ CheckpointIs' BY <1>1, <1>2, <1>5, <1>6, SavedKept
<1>8. GlobalsFirst' BY <1>2, <1>3, <1>4 DEF GlobalsFirst
<1>9. ValuesAre'
  <2>1. value' = value OBVIOUS
  <2>2. GlobalCount <= Len(locals) BY DEF IInv, GlobalsFirst
  <2>3. \A i \in 1 .. GlobalCount : i \in 1 .. Len(locals) BY <1>1, <1>3, <2>2, SymbolsCounted
  <2>4. \A i \in 1 .. GlobalCount :
          value[i] = Undefined \/ (i <= GlobalCount /\ value[i] = declared[Main][i])
    BY <1>1, <2>3 DEF ValuesAre
  <2> QED BY <1>1, <1>2, <2>1, <2>4 DEF ValuesAre, Declarable, Main
<1>10. RefsAre'
  <2> SUFFICES ASSUME NEW r \in refs' PROVE RefIs(r)' BY DEF RefsAre
  <2>1. RefIs(r) BY <1>1 DEF RefsAre
  <2> QED BY <1>1, <1>2, <1>5, <1>6, <2>1, RefStays
<1>11. SavedRefsAre' BY <1>1, <1>6, SavedRefsKept DEF SavedStays
<1>12. InOrder' /\ AllLinked' BY DEF InOrder, Idle, AllLinked
<1> QED BY <1>2, <1>6, <1>7, <1>8, <1>9, <1>10, <1>11, <1>12 DEF IInv

LEMMA CompileHolds == ASSUME KeepsRules, IInv, Compile PROVE IInv'
<1>1. /\ Idle /\ HaveCode /\ phase' = "compiling" /\ units' = 1 /\ open' = Main /\ opened' = 0
      /\ RemoveBlocks /\ refs' = {r \in refs : r.by \notin OfMain} /\ pushed' = {}
      /\ UNCHANGED <<functions, funSymbols, types, typeSymbols, pending, value, checkpoint>>
  BY DEF Compile, Rule, KeepsRules
<1>2. Settled BY <1>1 DEF Settled
<1>3. DOMAIN declared' = {Main} /\ Blocks' = {} BY <1>1, <1>2, BlocksRemoved
<1>4. Opened'
  <2>1. Main \in Scope /\ Main # <<>> /\ Len(Main) = 1 /\ SubSeq(Main, 1, 1) = Main
    BY MainIsPath, SubSeqFull DEF IsPath, Scope, Main
  <2>2. \A k \in 1 .. 1 : k = 1 OBVIOUS
  <2> QED BY <1>1, <1>3, <2>1, <2>2 DEF Opened, Scope, Step
<1>5. UnitsAre'
  <2>1. opened' \in 0 .. MaxOpened
    <3>1. MaxOpened \in Nat BY BoundsAssumption
    <3> QED BY <1>1, <3>1
  <2> QED BY <1>1, <2>1 DEF UnitsAre, HaveCode
<1> QED BY <1>1, <1>2, <1>4, <1>5, StartHolds

LEMMA Imported == ASSUME KeepsRules, IInv, Import PROVE IInv'
<1>1. /\ phase = "compiling" /\ DOMAIN declared = {Main} /\ units < 2 /\ units' = units + 1 /\ RemoveBlocks
      /\ UNCHANGED <<functions, funSymbols, types, typeSymbols, refs, pending, pushed, value,
                     checkpoint, phase, open, opened>>
  BY DEF Import, Compiling, Rule, KeepsRules
<1>2. ScopesAre /\ DeclaredAre /\ Opened /\ UnitsAre BY DEF IInv
<1>3. ~ IsBlock(Main) BY <1>2, ScopesOfSymbols
<1>4. Settled BY <1>1, <1>3 DEF Settled, InMainOrder
<1>5. Blocks = {} BY <1>1, <1>2, <1>3 DEF DeclaredAre, Blocks
<1>6. /\ DOMAIN declared' = {Main} /\ Range(scopes') = Range(scopes) \ Blocks /\ Blocks' = {}
      /\ \A x \in Symbols : x.scope = Main => x \in Symbols' /\ position'[x] = position[x]
  BY <1>1, <1>4, BlocksRemoved
<1>7. SlotsStay
  <2>1. \A x \in Symbols : x.scope = Main BY <1>1, <1>2, SymbolsKnown
  <2> QED BY <1>6, <2>1 DEF SlotsStay
<1>8. Opened' BY <1>1, <1>2, <1>6 DEF Opened, Compiling, Scope, Step
<1>9. UnitsAre'
  <2>1. units' \in 0 .. 2 BY <1>1, <1>2 DEF UnitsAre
  <2>2. pushed' \subseteq Range(scopes') BY <1>1, <1>2, <1>5, <1>6 DEF UnitsAre
  <2> QED BY <1>1, <1>2, <2>1, <2>2 DEF UnitsAre, HaveCode
<1> QED BY <1>1, <1>4, <1>7, <1>8, <1>9, StartHolds
-----------------------------------------------------------------------------
(* A unit ends: the slots are sorted, the instructions follow, functions   *)
(* find globals.                                                           *)
LEMMA SavedSame ==
  ASSUME SavedAre, CheckpointIs, UNCHANGED <<tables, declared, checkpoint>>, phase' # "cleared"
  PROVE  SavedAre' /\ CheckpointIs'
<1>1. /\ scopes' = scopes /\ functions' = functions /\ funSymbols' = funSymbols /\ types' = types
      /\ typeSymbols' = typeSymbols /\ saved' = saved /\ atSave' = atSave /\ declared' = declared
  BY DEF tables, checkpoint
<1>2. SavedAre'
  BY <1>1 DEF SavedAre, SavedCounts, SavedScopes, SavedFunctions, SavedSymbols, SavedTypes, GlobalCount,
              IsBlock, Main
<1> QED BY <1>1, <1>2 DEF CheckpointIs, GlobalCount, Main

LEMMA EndHolds ==
  ASSUME IInv, phase \in {"compiling", "breaking"}, phase' \in {"compiling", "compiled", "failed"},
         UNCHANGED <<tables, declared, pushed, value, checkpoint>>,
         LocalsAre', Len(locals') = Len(locals), GlobalCount <= Len(locals),
         \A i \in 1 .. GlobalCount : locals'[i] = Global(i),
         pending' \subseteq pending, RefsAre', SavedRefsAre', AllLinked', InOrder', UnitsAre', Opened'
  PROVE  IInv'
<1>1. ScopesAre /\ DeclaredAre /\ ValuesAre /\ TablesAre /\ TypedTables /\ SavedAre /\ CheckpointIs
  BY DEF IInv, TablesAre
<1>2. /\ scopes' = scopes /\ functions' = functions /\ funSymbols' = funSymbols /\ types' = types
      /\ typeSymbols' = typeSymbols /\ declared' = declared /\ value' = value
  BY DEF tables
<1>3. ScopesAre' BY <1>1, <1>2 DEF ScopesAre, IsBlock
<1>4. DeclaredAre' BY <1>1, <1>2 DEF DeclaredAre, Blocks, IsBlock, Declarable
<1>5. ValuesAre' BY <1>1, <1>2 DEF ValuesAre, Declarable, GlobalCount, Main
<1>6. TypedTables' BY <1>1, <1>2 DEF TypedTables
<1>7. TablesAre'
  BY <1>1, <1>2, <1>6 DEF TablesAre, FunctionsAre, FunSymbolsAre, TypeSymbolsAre, MembersAre, IsBlock
<1>8. SavedAre' /\ CheckpointIs' BY <1>1, SavedSame
<1>9. GlobalsFirst'
  <2>1. GlobalCount' = GlobalCount /\ \A i : Global(i)' = Global(i) BY <1>2 DEF GlobalCount, Global, Symbol, Main
  <2> QED BY <2>1 DEF GlobalsFirst
<1> QED BY <1>3, <1>4, <1>5, <1>7, <1>8, <1>9 DEF IInv

LEMMA Sorted ==
  ASSUME IInv, Sort, declared' = declared, scopes' = scopes
  PROVE  /\ LocalsAre' /\ Len(locals') = Len(locals) /\ GlobalCount <= Len(locals)
         /\ \A i \in 1 .. GlobalCount : locals'[i] = Global(i) /\ position'[Global(i)] = i
         /\ \A x \in Symbols : position'[x] = Rank(x)
         /\ InOrder'
<1>1. ScopesAre /\ DeclaredAre /\ LocalsAre BY DEF IInv
<1>2. /\ Sorts /\ Len(locals) \in Nat /\ DOMAIN locals = 1 .. Len(locals) BY <1>1, SymbolsCounted
<1>3. /\ \A x \in Symbols : Rank(x) \in 1 .. Len(locals)
      /\ \A x, y \in Symbols : Rank(x) = Rank(y) => x = y
      /\ \A i \in 1 .. Len(locals) : \E x \in Symbols : Rank(x) = i
  BY <1>1, RanksKnown
<1>4. position' = [x \in Symbols |-> Rank(x)] BY <1>1 DEF Sort, LocalsAre
<1>5. locals' = [i \in 1 .. Len(locals) |-> CHOOSE x \in Symbols : position'[x] = i]
  BY <1>2 DEF Sort
<1>6. \A x \in Symbols : position'[x] = Rank(x) BY <1>4
<1>7. \A i \in 1 .. Len(locals) : locals'[i] \in Symbols /\ position'[locals'[i]] = i
  <2> TAKE i \in 1 .. Len(locals)
  <2>1. \E x \in Symbols : position'[x] = i BY <1>3, <1>6
  <2> QED BY <1>5, <2>1
<1>8. Symbols' = Symbols BY DEF Symbols, Symbol
<1>9. locals' \in Seq(Symbols) /\ Len(locals') = Len(locals)
  <2>1. locals' \in [1 .. Len(locals) -> Symbols] BY <1>5, <1>7
  <2>2. locals' \in Seq(Symbols) BY <1>2, <2>1, SeqDef
  <2>3. DOMAIN locals' = 1 .. Len(locals') /\ Len(locals') \in Nat BY <2>2, LenProperties
  <2>4. DOMAIN locals' = 1 .. Len(locals) BY <2>1
  <2>5. \A a, b \in Nat : 1 .. a = 1 .. b => a = b OBVIOUS
  <2>6. Len(locals') = Len(locals) BY <1>2, <2>3, <2>4, <2>5
  <2> QED BY <2>2, <2>6
<1>10. \A x \in Symbols : locals'[position'[x]] = x
  <2> TAKE x \in Symbols
  <2>1. position'[x] \in 1 .. Len(locals) BY <1>3, <1>6
  <2>2. locals'[position'[x]] \in Symbols /\ position'[locals'[position'[x]]] = position'[x] BY <1>7, <2>1
  <2> QED BY <1>3, <1>6, <2>2
<1>11. LocalsAre'
  <2>1. position' \in [Symbols -> 1 .. Len(locals)] BY <1>3, <1>4
  <2>2. Len(locals) <= MaxLocals BY <1>1 DEF LocalsAre
  <2> QED BY <1>7, <1>8, <1>9, <1>10, <2>1, <2>2 DEF LocalsAre
<1>12. \A i \in 1 .. GlobalCount : Global(i) \in Symbols /\ Rank(Global(i)) = i
  BY <1>1, GlobalsRank, GlobalsKnown
<1>13. GlobalCount <= Len(locals)
  <2>1. GlobalCount \in Nat BY <1>1, GlobalsKnown
  <2>2. CASE GlobalCount = 0 BY <1>2, <2>2
  <2>3. CASE GlobalCount # 0
    <3>1. GlobalCount \in 1 .. GlobalCount BY <2>1, <2>3
    <3>2. GlobalCount \in 1 .. Len(locals) BY <1>3, <1>12, <3>1
    <3> QED BY <3>2
  <2> QED BY <2>2, <2>3
<1>14. ASSUME NEW i \in 1 .. GlobalCount PROVE locals'[i] = Global(i) /\ position'[Global(i)] = i
  BY <1>6, <1>10, <1>12
<1>15. InOrder'
  <2>1. ScopesAre' BY <1>1 DEF ScopesAre, IsBlock
  <2>2. DeclaredAre' BY <1>1 DEF DeclaredAre, Blocks, IsBlock, Declarable
  <2>3. Sorts'
    <3>1. (ScopesAre /\ DeclaredAre /\ LocalsAre =>
             /\ IsFiniteSet(Symbols) /\ Sorts /\ Len(locals) \in Nat /\ DOMAIN locals = 1 .. Len(locals)
             /\ \A i \in 1 .. Len(locals) : locals[i] \in Symbols)'
      BY SymbolsCounted, PTL
    <3> QED BY <1>11, <2>1, <2>2, <3>1
  <2>4. \A x, y : Precedes(x, y)' <=> Precedes(x, y) BY DEF Precedes, PlaceInScope, Before
  <2>5. ASSUME NEW x \in Symbols PROVE Rank(x)' = Rank(x)
    <3>1. {y \in Symbols' : Precedes(y, x)'} = {y \in Symbols : Precedes(y, x)} BY <1>8, <2>4
    <3> QED BY <1>2, <2>3, <3>1 DEF Rank
  <2> QED BY <1>6, <1>8, <2>5 DEF InOrder
<1> QED BY <1>6, <1>9, <1>11, <1>13, <1>14, <1>15

(* A reference at its place when the unit ends, before functions find      *)
(* globals.                                                                *)
Placed(r) ==
  \/ r.by = <<"local">> /\ r.symbol \in Symbols /\ r.slot = position'[r.symbol]
  \/ r.by = <<"const">> /\ IsGlobalAt(r.symbol, r.slot)
  \/ \E t \in 1 .. Len(types) : r.by = <<"type", t>> /\ IsGlobalAt(r.symbol, r.slot)
  \/ \E f \in 1 .. Len(functions) :
       /\ r.by = <<"function", f>>
       /\ IsGlobalAt(r.symbol, r.slot) \/ (r.slot = Unresolved /\ f \in pending)

LEMMA RemappedAre ==
  ASSUME IInv, phase # "cleared", \A x \in Symbols : position'[x] = Rank(x)
  PROVE  \A r \in Remapped : Placed(r) /\ (r \in refs \/ r.by = <<"local">>)
<1> SUFFICES ASSUME NEW q \in Remapped PROVE Placed(q) /\ (q \in refs \/ q.by = <<"local">>) OBVIOUS
<1>1. PICK r \in refs :
        q = IF r.by = <<"local">> THEN Ref(r.by, r.symbol, Rank(locals[r.slot])) ELSE r
  BY DEF Remapped
<1>2. RefIs(r) BY DEF IInv, RefsAre
<1>3. CASE r.by = <<"local">>
  <2>1. r.symbol \in Symbols /\ r.slot = position[r.symbol] BY <1>2, <1>3 DEF RefIs
  <2>2. locals[r.slot] = r.symbol BY <2>1 DEF IInv, LocalsAre
  <2>3. q.by = <<"local">> /\ q.symbol = r.symbol /\ q.slot = position'[r.symbol]
    BY <1>1, <1>3, <2>1, <2>2 DEF Ref
  <2> QED BY <2>1, <2>3 DEF Placed
<1>4. CASE r.by # <<"local">>
  <2>1. q = r BY <1>1, <1>4
  <2> QED BY <1>2, <1>4, <2>1 DEF RefIs, Placed
<1> QED BY <1>3, <1>4

LEMMA SortedRefs ==
  ASSUME IInv, functions' = functions, types' = types, declared' = declared, pending' = pending,
         saved' = saved, phase' # "cleared",
         \A r \in refs' : Placed(r) /\ (r \in refs \/ r.by = <<"local">>)
  PROVE  RefsAre' /\ SavedRefsAre'
<1>1. Symbols' = Symbols /\ GlobalCount' = GlobalCount /\ \A i : Global(i)' = Global(i)
  BY DEF Symbols, Symbol, GlobalCount, Global, Main
<1>2. \A r \in refs' : RefIs(r)'
  BY <1>1 DEF Placed, RefIs, IsGlobalAt, Unresolved
<1>3. SavedRefsAre' BY KindsDiffer, SavedRefsKept DEF IInv, NotSaved
<1> QED BY <1>2, <1>3 DEF RefsAre

LEMMA LinkedRefs ==
  ASSUME IInv, functions' = functions, types' = types, declared' = declared, saved' = saved,
         phase' # "cleared", LocalsAre', \A i \in 1 .. GlobalCount : position'[Global(i)] = i,
         NEW R, \A r \in R : Placed(r) /\ (r \in refs \/ r.by = <<"local">>),
         refs' = Linked(R, position'), pending' = StillPending(refs')
  PROVE  /\ RefsAre' /\ SavedRefsAre' /\ pending' \subseteq pending
         /\ \A r \in refs' : r.slot = Unresolved => r.symbol \notin Globals'
<1>1. Symbols' = Symbols /\ GlobalCount' = GlobalCount /\ Globals' = Globals
      /\ \A i : Global(i)' = Global(i)
  BY DEF Symbols, Symbol, GlobalCount, Global, Globals, Main
<1>2. DeclaredAre /\ SavedRefsAre /\ GlobalCount \in Nat /\ SavedAre BY GlobalsKnown DEF IInv
<1>3. \A x \in Globals : \E i \in 1 .. GlobalCount : x = Global(i) /\ position'[x] = i
  BY <1>2, GlobalsKnown DEF Globals
<1>4. \A x \in Symbols : position'[x] # Unresolved
  <2>1. \A x \in Symbols : position'[x] \in 1 .. Len(locals') BY <1>1 DEF LocalsAre
  <2> QED BY <2>1 DEF Unresolved
<1>5. \A x : ~ IsGlobalAt(x, Unresolved) BY DEF IsGlobalAt, Unresolved
<1>6. ASSUME NEW r \in R, r.slot = Unresolved
      PROVE  \E f \in 1 .. Len(functions) : r.by = <<"function", f>> /\ f \in pending
  BY <1>4, <1>5, <1>6 DEF Placed
<1>7. pending' \subseteq pending BY DEF StillPending
<1>8. ASSUME NEW q \in refs'
      PROVE  /\ RefIs(q)' /\ (q \in refs \/ NotSaved(q))
             /\ q.slot = Unresolved => q.symbol \notin Globals
  <2>1. PICK r \in R :
          q = IF r.slot = Unresolved /\ r.by[2] \in pending /\ r.symbol \in Globals
              THEN Ref(r.by, r.symbol, position'[r.symbol]) ELSE r
    BY DEF Linked
  <2>2. CASE r.slot = Unresolved /\ r.symbol \in Globals
    <3>1. PICK f \in 1 .. Len(functions) : r.by = <<"function", f>> /\ f \in pending BY <1>6, <2>2
    <3>2. r.by[2] \in pending BY <3>1
    <3>3. PICK i \in 1 .. GlobalCount : r.symbol = Global(i) /\ position'[r.symbol] = i BY <1>3, <2>2
    <3>4. q.by = <<"function", f>> /\ q.symbol = Global(i) /\ q.slot = i
      BY <2>1, <2>2, <3>1, <3>2, <3>3 DEF Ref
    <3>5. q.slot # Unresolved BY <3>4 DEF Unresolved
    <3>6. RefIs(q)' BY <1>1, <3>4 DEF RefIs, IsGlobalAt
    <3>7. r \in refs
      <4>1. r.by # <<"local">> BY <3>1, KindsDiffer
      <4> QED BY <4>1
    <3>8. f \notin 1 .. saved.functions
      <4> SUFFICES ASSUME f \in 1 .. saved.functions PROVE FALSE OBVIOUS
      <4>1. r.slot \in 1 .. saved.locals BY <1>2, <3>1, <3>7 DEF SavedRefsAre
      <4> QED BY <2>2, <4>1 DEF Unresolved
    <3>9. NotSaved(q) BY <3>4, <3>8, KindsDiffer DEF NotSaved
    <3> QED BY <3>5, <3>6, <3>9
  <2>3. CASE ~ (r.slot = Unresolved /\ r.symbol \in Globals)
    <3>1. q = r BY <2>1, <2>3
    <3>2. Placed(q) /\ (q \in refs \/ q.by = <<"local">>) BY <3>1
    <3>3. q \in refs \/ NotSaved(q) BY <3>2, KindsDiffer DEF NotSaved
    <3>4. ASSUME NEW f \in 1 .. Len(functions), q.by = <<"function", f>>, q.slot = Unresolved, f \in pending
          PROVE  RefIs(q)'
      <4>1. f \in pending' BY <3>4 DEF StillPending
      <4> QED BY <3>4, <4>1 DEF RefIs, Unresolved
    <3>5. ASSUME NEW f \in 1 .. Len(functions), q.by = <<"function", f>>, IsGlobalAt(q.symbol, q.slot)
          PROVE  RefIs(q)'
      BY <1>1, <3>5 DEF RefIs, IsGlobalAt
    <3>6. ASSUME NEW t \in 1 .. Len(types), q.by = <<"type", t>>, IsGlobalAt(q.symbol, q.slot)
          PROVE  RefIs(q)'
      BY <1>1, <3>6 DEF RefIs, IsGlobalAt
    <3>7. ASSUME q.by = <<"const">>, IsGlobalAt(q.symbol, q.slot) PROVE RefIs(q)'
      BY <1>1, <3>7 DEF RefIs, IsGlobalAt
    <3>8. ASSUME q.by = <<"local">>, q.symbol \in Symbols, q.slot = position'[q.symbol] PROVE RefIs(q)'
      BY <1>1, <3>8 DEF RefIs
    <3>9. RefIs(q)' BY <3>2, <3>4, <3>5, <3>6, <3>7, <3>8 DEF Placed
    <3> QED BY <2>3, <3>1, <3>3, <3>9
  <2> QED BY <2>2, <2>3
<1>9. SavedRefsAre' BY <1>2, <1>8, SavedRefsKept
<1> QED BY <1>1, <1>7, <1>8, <1>9 DEF RefsAre

LEMMA ImportEnded == ASSUME IInv, EndImport PROVE IInv'
<1>1. /\ phase = "compiling" /\ units > 1 /\ open = Main /\ units' = units - 1
      /\ refs' = Linked(refs, position) /\ pending' = StillPending(refs')
      /\ UNCHANGED <<tables, declared, locals, position, pushed, value, checkpoint, phase, open, opened>>
  BY DEF EndImport, Compiling
<1>2. /\ scopes' = scopes /\ functions' = functions /\ types' = types /\ declared' = declared
      /\ locals' = locals /\ position' = position /\ pushed' = pushed /\ saved' = saved
      /\ phase' = phase /\ open' = open /\ opened' = opened
  BY <1>1 DEF tables, checkpoint
<1>3. DeclaredAre /\ LocalsAre /\ GlobalsFirst /\ RefsAre /\ Opened /\ UnitsAre /\ ScopesAre BY DEF IInv
<1>4. LocalsAre'
  <2>1. Symbols' = Symbols BY <1>2 DEF Symbols, Symbol
  <2> QED BY <1>2, <1>3, <2>1 DEF LocalsAre
<1>5. GlobalCount <= Len(locals) /\ \A i \in 1 .. GlobalCount : locals[i] = Global(i)
  BY <1>1, <1>3 DEF GlobalsFirst, Settled
<1>6. \A i \in 1 .. GlobalCount : position'[Global(i)] = i
  <2> TAKE i \in 1 .. GlobalCount
  <2>1. i \in 1 .. Len(locals)
    <3>1. GlobalCount \in Nat /\ Len(locals) \in Nat BY <1>3, GlobalsKnown, SymbolsCounted
    <3> QED BY <1>5, <3>1
  <2> QED BY <1>2, <1>3, <1>5, <2>1 DEF LocalsAre
<1>7. \A r \in refs : Placed(r) BY <1>1, <1>2, <1>3 DEF RefsAre, RefIs, Placed
<1>8. RefsAre' /\ SavedRefsAre' /\ pending' \subseteq pending
  <2>1. \A r \in refs : Placed(r) /\ (r \in refs \/ r.by = <<"local">>) BY <1>7
  <2>2. refs' = Linked(refs, position') /\ phase' # "cleared" BY <1>1, <1>2
  <2> QED BY <1>1, <1>2, <1>4, <1>6, <2>1, <2>2, LinkedRefs
<1>9. Opened' BY <1>2, <1>3 DEF Opened, Compiling, Blocks, IsBlock, Scope, Step
<1>10. UnitsAre'
  <2>1. units' \in 0 .. 2 BY <1>1, <1>3 DEF UnitsAre
  <2> QED BY <1>2, <1>3, <2>1 DEF UnitsAre, HaveCode
<1>11. InOrder' /\ AllLinked' BY <1>1, <1>2 DEF InOrder, Idle, AllLinked
<1>12. phase' \in {"compiling", "compiled", "failed"} /\ Len(locals') = Len(locals)
       /\ \A i \in 1 .. GlobalCount : locals'[i] = Global(i)
  BY <1>1, <1>2, <1>5
<1> QED BY <1>1, <1>4, <1>5, <1>8, <1>9, <1>10, <1>11, <1>12, EndHolds

LEMMA UnitEnded == ASSUME IInv, EndUnit PROVE IInv'
<1>1. /\ phase = "compiling" /\ phase' = "compiled" /\ units' = 0 /\ Sort
      /\ refs' = Linked(Remapped, position') /\ pending' = StillPending(refs')
      /\ UNCHANGED <<tables, declared, pushed, value, checkpoint, open, opened>>
  BY DEF EndUnit, Compiling
<1>2. /\ scopes' = scopes /\ functions' = functions /\ types' = types /\ declared' = declared
      /\ pushed' = pushed /\ saved' = saved /\ opened' = opened
  BY <1>1 DEF tables, checkpoint
<1>3. UnitsAre BY DEF IInv
<1>4. /\ LocalsAre' /\ Len(locals') = Len(locals) /\ GlobalCount <= Len(locals)
      /\ \A i \in 1 .. GlobalCount : locals'[i] = Global(i) /\ position'[Global(i)] = i
      /\ \A x \in Symbols : position'[x] = Rank(x)
      /\ InOrder'
  BY <1>1, <1>2, Sorted
<1>5. \A r \in Remapped : Placed(r) /\ (r \in refs \/ r.by = <<"local">>) BY <1>1, <1>4, RemappedAre
<1>6. /\ RefsAre' /\ SavedRefsAre' /\ pending' \subseteq pending
      /\ \A r \in refs' : r.slot = Unresolved => r.symbol \notin Globals'
  BY <1>1, <1>2, <1>4, <1>5, LinkedRefs
<1>7. AllLinked' BY <1>6 DEF AllLinked, Unresolved
<1>8. Opened' BY <1>1 DEF Opened, Compiling
<1>9. UnitsAre' BY <1>1, <1>2, <1>3 DEF UnitsAre, HaveCode
<1> QED BY <1>1, <1>4, <1>6, <1>7, <1>8, <1>9, EndHolds

LEMMA UnitFailed == ASSUME IInv, Fail PROVE IInv'
<1>1. /\ phase \in {"compiling", "breaking"} /\ phase' = "failed" /\ units' = 0 /\ Sort /\ refs' = Remapped
      /\ UNCHANGED <<tables, declared, pending, pushed, value, checkpoint, open, opened>>
  BY DEF Fail
<1>2. /\ scopes' = scopes /\ functions' = functions /\ types' = types /\ declared' = declared
      /\ pushed' = pushed /\ saved' = saved /\ opened' = opened /\ pending' = pending
  BY <1>1 DEF tables, checkpoint
<1>3. UnitsAre BY DEF IInv
<1>4. /\ LocalsAre' /\ Len(locals') = Len(locals) /\ GlobalCount <= Len(locals)
      /\ \A i \in 1 .. GlobalCount : locals'[i] = Global(i)
      /\ \A x \in Symbols : position'[x] = Rank(x)
      /\ InOrder'
  BY <1>1, <1>2, Sorted
<1>5. \A r \in Remapped : Placed(r) /\ (r \in refs \/ r.by = <<"local">>) BY <1>1, <1>4, RemappedAre
<1>6. RefsAre' /\ SavedRefsAre' BY <1>1, <1>2, <1>5, SortedRefs
<1>7. Opened' /\ AllLinked' BY <1>1 DEF Opened, Compiling, AllLinked
<1>8. UnitsAre' BY <1>1, <1>2, <1>3 DEF UnitsAre
<1> QED BY <1>1, <1>2, <1>4, <1>6, <1>7, <1>8, EndHolds
-----------------------------------------------------------------------------
(* The steps of the host between units.                                    *)
LEMMA UnitsSame ==
  ASSUME IInv,
         UNCHANGED <<tables, declared, locals, position, refs, pending, pushed, phase, open, units, opened>>
  PROVE  /\ ScopesAre' /\ DeclaredAre' /\ LocalsAre' /\ InOrder' /\ GlobalsFirst' /\ RefsAre'
         /\ TablesAre' /\ Opened' /\ UnitsAre' /\ AllLinked'
<1>1. /\ scopes' = scopes /\ functions' = functions /\ funSymbols' = funSymbols /\ types' = types
      /\ typeSymbols' = typeSymbols /\ declared' = declared /\ locals' = locals /\ position' = position
      /\ refs' = refs /\ pending' = pending /\ pushed' = pushed /\ phase' = phase /\ open' = open
      /\ units' = units /\ opened' = opened
  BY DEF tables
<1>2. Symbols' = Symbols /\ GlobalCount' = GlobalCount /\ Globals' = Globals /\ Blocks' = Blocks
      /\ \A i : Global(i)' = Global(i)
  BY <1>1 DEF Symbols, Symbol, GlobalCount, Global, Globals, Main, Blocks, IsBlock
<1>3. ScopesAre' /\ DeclaredAre' /\ LocalsAre'
  BY <1>1, <1>2 DEF IInv, ScopesAre, DeclaredAre, LocalsAre, IsBlock, Declarable
<1>4. InOrder'
  <2>1. \A x, y : Precedes(x, y)' <=> Precedes(x, y) BY <1>1 DEF Precedes, PlaceInScope, Before
  <2>2. Sorts' = Sorts BY <1>1, <1>2 DEF Sorts
  <2>3. ASSUME NEW x \in Symbols PROVE Rank(x)' = Rank(x)
    <3>1. {y \in Symbols' : Precedes(y, x)'} = {y \in Symbols : Precedes(y, x)} BY <1>2, <2>1
    <3> QED BY <1>1, <2>2, <3>1 DEF Rank
  <2> QED BY <1>1, <1>2, <2>3 DEF IInv, InOrder, Idle
<1>5. GlobalsFirst' BY <1>1, <1>2 DEF IInv, GlobalsFirst, Settled, Idle, InMainOrder, IsBlock
<1>6. RefsAre' BY <1>1, <1>2 DEF IInv, RefsAre, RefIs, IsGlobalAt, Unresolved
<1>7. TypedTables' BY <1>1 DEF IInv, TablesAre, TypedTables
<1>8. TablesAre'
  BY <1>1, <1>7 DEF IInv, TablesAre, FunctionsAre, FunSymbolsAre, TypeSymbolsAre, MembersAre, IsBlock
<1>9. Opened' /\ UnitsAre' BY <1>1, <1>2 DEF IInv, Opened, Compiling, UnitsAre, HaveCode
<1>10. AllLinked' BY <1>1, <1>2 DEF IInv, AllLinked, Unresolved
<1> QED BY <1>3, <1>4, <1>5, <1>6, <1>8, <1>9, <1>10

LEMMA ValuesOnly ==
  ASSUME IInv, ValuesAre',
         UNCHANGED <<tables, declared, locals, position, refs, pending, pushed, checkpoint,
                     phase, open, units, opened>>
  PROVE  IInv'
<1>1. /\ scopes' = scopes /\ functions' = functions /\ funSymbols' = funSymbols /\ types' = types
      /\ typeSymbols' = typeSymbols /\ declared' = declared /\ saved' = saved /\ atSave' = atSave
      /\ phase' = phase /\ refs' = refs
  BY DEF tables, checkpoint
<1>2. SavedAre'
  BY <1>1 DEF IInv, SavedAre, SavedCounts, SavedScopes, SavedFunctions, SavedSymbols, SavedTypes,
              GlobalCount, IsBlock, Main
<1>3. CheckpointIs' BY <1>1 DEF IInv, CheckpointIs, GlobalCount, Main
<1>4. SavedRefsAre' BY <1>1 DEF IInv, SavedRefsAre
<1>5. /\ ScopesAre' /\ DeclaredAre' /\ LocalsAre' /\ InOrder' /\ GlobalsFirst' /\ RefsAre'
      /\ TablesAre' /\ Opened' /\ UnitsAre' /\ AllLinked'
  BY UnitsSame
<1> QED BY <1>2, <1>3, <1>4, <1>5 DEF IInv

(* Between units the globals have the first slots, in their order.         *)
LEMMA GlobalsPlaced ==
  ASSUME IInv, Settled
  PROVE  /\ GlobalCount \in Nat /\ GlobalCount <= Len(locals) /\ Len(locals) \in Nat
         /\ \A i \in 1 .. GlobalCount :
              locals[i] = Global(i) /\ position[Global(i)] = i /\ Global(i) \in Symbols
         /\ \A i \in 1 .. Len(locals) : locals[i].scope = Main => i \in 1 .. GlobalCount
<1>1. ScopesAre /\ DeclaredAre /\ LocalsAre /\ GlobalsFirst BY DEF IInv
<1>2. /\ GlobalCount \in Nat /\ Len(locals) \in Nat
      /\ \A i \in 1 .. GlobalCount : Global(i) \in Symbols
      /\ \A x \in Symbols : x.scope = Main => \E i \in 1 .. GlobalCount : x = Global(i)
      /\ \A i \in 1 .. Len(locals) : locals[i] \in Symbols
  BY <1>1, GlobalsKnown, SymbolsCounted
<1>3. GlobalCount <= Len(locals) /\ \A i \in 1 .. GlobalCount : locals[i] = Global(i)
  BY <1>1 DEF GlobalsFirst
<1>4. \A i \in 1 .. GlobalCount : i \in 1 .. Len(locals) BY <1>2, <1>3
<1>5. \A i \in 1 .. GlobalCount : position[Global(i)] = i
  <2> TAKE i \in 1 .. GlobalCount
  <2>1. position[locals[i]] = i BY <1>1, <1>4 DEF LocalsAre
  <2> QED BY <1>3, <2>1
<1>6. ASSUME NEW i \in 1 .. Len(locals), locals[i].scope = Main PROVE i \in 1 .. GlobalCount
  <2>1. PICK j \in 1 .. GlobalCount : locals[i] = Global(j) BY <1>2, <1>6
  <2>2. position[locals[i]] = i BY <1>1 DEF LocalsAre
  <2> QED BY <1>5, <2>1, <2>2
<1> QED BY <1>2, <1>3, <1>5, <1>6

LEMMA StoresOwn ==
  ASSUME IInv, Idle, phase # "cleared", NEW r \in refs, r.by \in OfMain, r.symbol.scope = Main
  PROVE  r.slot \in 1 .. GlobalCount /\ r.symbol = Global(r.slot)
<1>1. RefIs(r) /\ DeclaredAre BY DEF IInv, RefsAre
<1>2. CASE r.by = <<"local">>
  <2>1. r.symbol \in Symbols /\ r.slot = position[r.symbol] BY <1>1, <1>2 DEF RefIs
  <2>2. PICK i \in 1 .. GlobalCount : r.symbol = Global(i) BY <1>1, <2>1, GlobalsKnown
  <2>3. position[Global(i)] = i BY GlobalsPlaced DEF Settled
  <2> QED BY <2>1, <2>2, <2>3
<1>3. CASE r.by = <<"const">> BY <1>1, <1>3, KindsDiffer DEF RefIs, IsGlobalAt
<1> QED BY <1>2, <1>3 DEF OfMain

(* What running leaves in the slots.                                       *)
LEMMA RunLeaves ==
  ASSUME KeepsRules, IInv, Run
  PROVE  /\ DOMAIN value' = 1 .. MaxLocals
         /\ \A s \in 1 .. MaxLocals :
              \/ s \in 1 .. GlobalCount /\ value'[s] = declared[Main][s]
              \/ s > Len(locals) /\ value'[s] = "operand"
              \/ s <= Len(locals) /\ value'[s] = Undefined /\ s \notin 1 .. GlobalCount
              \/ s <= Len(locals) /\ value'[s] = value[s]
<1>1. Idle /\ phase # "cleared" BY DEF Run, Runnable, KeepsRules
<1>2. PICK done \in SUBSET {r \in refs : r.by \in OfMain} :
        LET Stored(s) == {r.symbol : r \in {x \in done : x.slot = s /\ x.symbol.scope = Main}}
        IN value' = [s \in DOMAIN value |->
                       CASE Stored(s) # {} -> (CHOOSE x \in Stored(s) : TRUE).name
                         [] s > Len(locals) -> "operand"
                         [] Stored(s) = {} /\ s <= Len(locals) ->
                              IF IsBlock(locals[s].scope) THEN Undefined ELSE value[s]]
  BY Zenon DEF Run
<1> DEFINE Stored(s) == {r.symbol : r \in {x \in done : x.slot = s /\ x.symbol.scope = Main}}
<1>3. DOMAIN value = 1 .. MaxLocals /\ MaxLocals \in Nat BY BoundsAssumption DEF IInv, ValuesAre
<1>4. value' = [s \in 1 .. MaxLocals |->
                  CASE Stored(s) # {} -> (CHOOSE x \in Stored(s) : TRUE).name
                    [] s > Len(locals) -> "operand"
                    [] Stored(s) = {} /\ s <= Len(locals) ->
                         IF IsBlock(locals[s].scope) THEN Undefined ELSE value[s]]
  BY <1>2, <1>3
<1>5. ASSUME NEW s \in 1 .. MaxLocals, NEW x \in Stored(s) PROVE s \in 1 .. GlobalCount /\ x = Global(s)
  <2>1. PICK r \in refs : r.by \in OfMain /\ r.slot = s /\ r.symbol.scope = Main /\ x = r.symbol
    BY <1>5
  <2> QED BY <1>1, <2>1, StoresOwn
<1> HIDE DEF Stored
<1>6. /\ \A i \in 1 .. GlobalCount : locals[i] = Global(i) /\ Global(i).name = declared[Main][i]
      /\ \A i \in 1 .. GlobalCount : Global(i).scope = Main
      /\ Len(locals) \in Nat /\ GlobalCount \in Nat /\ GlobalCount <= Len(locals) /\ ~ IsBlock(Main)
  BY <1>1, GlobalsPlaced, ScopesOfSymbols DEF IInv, Settled, Global, Symbol
<1>7. ASSUME NEW s \in 1 .. MaxLocals
      PROVE  \/ s \in 1 .. GlobalCount /\ value'[s] = declared[Main][s]
             \/ s > Len(locals) /\ value'[s] = "operand"
             \/ s <= Len(locals) /\ value'[s] = Undefined /\ s \notin 1 .. GlobalCount
             \/ s <= Len(locals) /\ value'[s] = value[s]
  <2>1. CASE Stored(s) # {}
    <3>1. PICK x \in Stored(s) : x = CHOOSE y \in Stored(s) : TRUE BY <2>1
    <3>2. ~ (s > Len(locals)) BY <1>5, <1>6, <3>1
    <3>3. value'[s] = x.name BY <1>4, <2>1, <3>1, <3>2
    <3> QED BY <1>5, <1>6, <3>1, <3>3
  <2>2. CASE Stored(s) = {} /\ s > Len(locals) BY <1>4, <2>2
  <2>3. CASE Stored(s) = {} /\ ~ (s > Len(locals))
    <3>1. s <= Len(locals) BY <1>6, <2>3
    <3>2. value'[s] = IF IsBlock(locals[s].scope) THEN Undefined ELSE value[s] BY <1>4, <2>3, <3>1
    <3>3. IsBlock(locals[s].scope) => s \notin 1 .. GlobalCount BY <1>6
    <3> QED BY <3>1, <3>2, <3>3
  <2> QED BY <2>1, <2>2, <2>3
<1> QED BY <1>4, <1>7

LEMMA RunHolds == ASSUME KeepsRules, IInv, Run PROVE IInv'
<1>1. UNCHANGED <<tables, declared, locals, position, refs, pending, pushed, checkpoint,
                  phase, open, units, opened>>
  BY DEF Run
<1>2. /\ DOMAIN value' = 1 .. MaxLocals
      /\ \A s \in 1 .. MaxLocals :
           \/ s \in 1 .. GlobalCount /\ value'[s] = declared[Main][s]
           \/ s > Len(locals) /\ value'[s] = "operand"
           \/ s <= Len(locals) /\ value'[s] = Undefined
           \/ s <= Len(locals) /\ value'[s] = value[s]
  BY RunLeaves
<1>3. /\ value \in [1 .. MaxLocals -> Declarable \cup {Undefined, "operand"}]
      /\ Len(locals) \in Nat /\ Len(locals) <= MaxLocals /\ MaxLocals \in Nat
      /\ \A i \in 1 .. GlobalCount : declared[Main][i] \in Declarable
  BY GlobalsKnown, SymbolsCounted, BoundsAssumption DEF IInv, ValuesAre, LocalsAre
<1>4. \A s \in 1 .. MaxLocals : value'[s] \in Declarable \cup {Undefined, "operand"} BY <1>2, <1>3
<1>5. \A i \in 1 .. Len(locals) : i \in 1 .. MaxLocals /\ ~ (i > Len(locals)) BY <1>3
<1>6. \A i \in 1 .. Len(locals) :
        value'[i] = Undefined \/ (i <= GlobalCount /\ value'[i] = declared[Main][i])
  <2> TAKE i \in 1 .. Len(locals)
  <2>1. value[i] = Undefined \/ (i <= GlobalCount /\ value[i] = declared[Main][i]) BY DEF IInv, ValuesAre
  <2>2. GlobalCount \in Nat BY GlobalsKnown DEF IInv
  <2>3. i \in 1 .. GlobalCount => i <= GlobalCount BY <2>2
  <2> QED BY <1>2, <1>5, <2>1, <2>3
<1>7. value' \in [1 .. MaxLocals -> Declarable \cup {Undefined, "operand"}]
  <2>1. value' = [s \in 1 .. MaxLocals |-> value'[s]] BY DEF Run, IInv, ValuesAre
  <2> QED BY <1>4, <2>1
<1>8. ValuesAre' BY <1>1, <1>6, <1>7 DEF ValuesAre, GlobalCount, Declarable, Main
<1> QED BY <1>1, <1>8, ValuesOnly

LEMMA Saves == ASSUME KeepsRules, IInv, SaveState PROVE IInv'
<1>1. /\ Idle /\ HaveCode /\ DOMAIN declared = {Main} /\ pending = {}
      /\ UNCHANGED <<tables, declared, locals, position, refs, pending, pushed, value,
                     phase, open, units, opened>>
      /\ saved' = [locals |-> Len(locals), funSymbols |-> Len(funSymbols),
                   typeSymbols |-> Len(typeSymbols), scopes |-> Len(scopes),
                   functions |-> Len(functions), types |-> Len(types)]
      /\ atSave' = [globals |-> Range(declared[Main]), functions |-> Names(funSymbols),
                    types |-> Names(typeSymbols)]
  BY DEF SaveState, Rule, KeepsRules
<1>2. /\ scopes' = scopes /\ functions' = functions /\ funSymbols' = funSymbols /\ types' = types
      /\ typeSymbols' = typeSymbols /\ declared' = declared /\ refs' = refs /\ value' = value /\ locals' = locals
      /\ phase' = phase
  BY <1>1 DEF tables
<1>3. /\ ScopesAre /\ DeclaredAre /\ LocalsAre /\ GlobalsFirst /\ RefsAre /\ ValuesAre /\ TablesAre /\ TypedTables
      /\ FunctionsAre /\ FunSymbolsAre /\ TypeSymbolsAre /\ MembersAre /\ CheckpointIs /\ SavedAre
  BY DEF IInv, TablesAre
<1>4. /\ Len(functions) \in Nat /\ DOMAIN functions = 1 .. Len(functions)
      /\ Len(funSymbols) \in Nat /\ DOMAIN funSymbols = 1 .. Len(funSymbols)
      /\ Len(types) \in Nat /\ DOMAIN types = 1 .. Len(types)
      /\ Len(typeSymbols) \in Nat /\ DOMAIN typeSymbols = 1 .. Len(typeSymbols)
      /\ \A g \in 1 .. Len(functions) : functions[g].owner \in Nat
  BY <1>3, TablesKnown
<1>5. /\ Len(scopes) \in Nat \ {0} /\ Range(scopes) = {scopes[i] : i \in 1 .. Len(scopes)} BY <1>3, ScopesKnown
<1>6. ~ IsBlock(Main) /\ Blocks = {} BY <1>1, <1>3, ScopesOfSymbols DEF DeclaredAre, Blocks
<1>7. Len(locals) = GlobalCount
  <2>1. InMainOrder BY <1>1, <1>6 DEF InMainOrder
  <2> QED BY <1>3, <2>1, MainOnly
<1>8. GlobalCount \in Nat /\ DOMAIN declared[Main] = 1 .. GlobalCount
      /\ Range(declared[Main]) = {declared[Main][i] : i \in 1 .. GlobalCount}
  BY <1>3, GlobalsKnown, SeqIs DEF GlobalCount
<1>9. /\ ScopesAre' /\ DeclaredAre' /\ LocalsAre' /\ InOrder' /\ GlobalsFirst' /\ RefsAre'
      /\ TablesAre' /\ Opened' /\ UnitsAre' /\ AllLinked'
  BY <1>1, UnitsSame
<1>10. /\ saved'.locals = GlobalCount /\ saved'.funSymbols = Len(funSymbols)
       /\ saved'.typeSymbols = Len(typeSymbols) /\ saved'.scopes = Len(scopes)
       /\ saved'.functions = Len(functions) /\ saved'.types = Len(types)
  BY <1>1, <1>7
<1>11. ValuesAre' BY <1>2, <1>3 DEF ValuesAre, GlobalCount, Declarable, Main
<1>12. SavedRefsAre'
  <2> SUFFICES ASSUME NEW r \in refs
               PROVE  /\ \A f \in 1 .. Len(functions) : r.by = <<"function", f>> => r.slot \in 1 .. GlobalCount
                      /\ \A t \in 1 .. Len(types) : r.by = <<"type", t>> => r.slot \in 1 .. GlobalCount
    BY <1>2, <1>10 DEF SavedRefsAre
  <2>1. RefIs(r) BY <1>3 DEF RefsAre
  <2> QED BY <1>1, <2>1, KindsDiffer DEF RefIs, IsGlobalAt
<1>13. SavedCounts'
  <2>1. saved' \in [locals : Nat, funSymbols : Nat, typeSymbols : Nat, scopes : Nat,
                    functions : Nat, types : Nat]
    BY <1>1, <1>4, <1>5, <1>7, <1>8
  <2>2. GlobalCount' = GlobalCount BY <1>2 DEF GlobalCount, Main
  <2>3. 1 <= Len(scopes) BY <1>5
  <2> QED BY <1>2, <1>4, <1>5, <1>8, <1>10, <2>1, <2>2, <2>3 DEF SavedCounts
<1>14. SavedScopes' BY <1>2, <1>5, <1>6, <1>10 DEF SavedScopes, Blocks, IsBlock
<1>15. SavedFunctions'
  <2>1. \A f \in 1 .. Len(functions) : functions[f].owner <= Len(types) /\ functions[f].scope \in Range(scopes)
    BY <1>3 DEF FunctionsAre
  <2> QED BY <1>2, <1>5, <1>10, <2>1 DEF SavedFunctions
<1>16. SavedSymbols'
  <2>1. \A i \in 1 .. Len(funSymbols) : funSymbols[i].fun <= Len(functions) BY <1>3, <1>4 DEF FunSymbolsAre
  <2>2. \A i \in 1 .. Len(typeSymbols) : typeSymbols[i].type <= Len(types) BY <1>3, <1>4 DEF TypeSymbolsAre
  <2> QED BY <1>2, <1>10, <2>1, <2>2 DEF SavedSymbols
<1>17. SavedTypes'
  <2>1. \A t \in 1 .. Len(types) : \A f \in types[t].members : f <= Len(functions) BY <1>3, <1>4 DEF MembersAre
  <2> QED BY <1>2, <1>10, <2>1 DEF SavedTypes
<1>18. CheckpointIs'
  <2>1. atSave'.globals = {declared[Main][i] : i \in 1 .. GlobalCount} BY <1>1, <1>8
  <2>2. atSave'.functions = {funSymbols[i].name : i \in 1 .. Len(funSymbols)} BY <1>1, <1>4 DEF Names
  <2>3. atSave'.types = {typeSymbols[i].name : i \in 1 .. Len(typeSymbols)} BY <1>1, <1>4 DEF Names
  <2>4. GlobalCount' = GlobalCount /\ declared'[Main] = declared[Main] BY <1>2 DEF GlobalCount, Main
  <2> QED BY <1>2, <1>10, <2>1, <2>2, <2>3, <2>4 DEF CheckpointIs, Main
<1> QED BY <1>9, <1>11, <1>12, <1>13, <1>14, <1>15, <1>16, <1>17, <1>18 DEF IInv, SavedAre

(* clear() goes back to the lengths of saveState.                          *)
LEMMA FewIs ==
  ASSUME NEW T, NEW s \in Seq(T), NEW n \in Nat, n <= Len(s)
  PROVE  /\ First(s, n) \in Seq(T) /\ Len(First(s, n)) = n
         /\ \A i \in 1 .. n : First(s, n)[i] = s[i]
<1>1. n \in 0 .. Len(s) BY LenProperties
<1>2. First(s, n) = SubSeq(s, 1, n) BY <1>1, FirstOfFew
<1>3. /\ SubSeq(s, 1, n) \in Seq(T) /\ Len(SubSeq(s, 1, n)) = n
      /\ \A i \in 1 .. n : SubSeq(s, 1, n)[i] = s[i]
  BY <1>1, FirstIs
<1> QED BY <1>2, <1>3

LEMMA GoneCounted ==
  ASSUME IInv, Idle PROVE Len(declared[Main]) - Cardinality(GoneGlobals) = saved.locals
<1>1. /\ GlobalCount \in Nat /\ GlobalCount <= Len(locals) /\ Len(locals) \in Nat
      /\ \A i \in 1 .. GlobalCount : locals[i] = Global(i)
      /\ \A i \in 1 .. Len(locals) : locals[i].scope = Main => i \in 1 .. GlobalCount
  BY GlobalsPlaced DEF Settled
<1>2. saved.locals \in Nat /\ saved.locals <= GlobalCount BY DEF IInv, SavedAre, SavedCounts
<1>3. \A i \in 1 .. GlobalCount : Global(i).scope = Main BY DEF Global, Symbol
<1>4. GoneGlobals = saved.locals + 1 .. GlobalCount
  <2>1. \A i \in saved.locals + 1 .. Len(locals) : i \in 1 .. Len(locals) BY <1>1, <1>2
  <2>2. \A i \in saved.locals + 1 .. Len(locals) : locals[i].scope = Main => i \in saved.locals + 1 .. GlobalCount
    BY <1>1, <1>2, <2>1
  <2>3. \A i \in saved.locals + 1 .. GlobalCount :
          i \in saved.locals + 1 .. Len(locals) /\ i \in 1 .. GlobalCount
    BY <1>1, <1>2
  <2>4. \A i \in saved.locals + 1 .. GlobalCount : locals[i].scope = Main BY <1>1, <1>3, <2>3
  <2> QED BY <2>2, <2>3, <2>4 DEF GoneGlobals
<1>5. Cardinality(saved.locals + 1 .. GlobalCount)
        = IF saved.locals + 1 > GlobalCount THEN 0 ELSE GlobalCount - (saved.locals + 1) + 1
  <2>1. PICK a \in Int : a = saved.locals + 1 BY <1>2
  <2>2. PICK b \in Int : b = GlobalCount BY <1>1
  <2>3. Cardinality(a .. b) = IF a > b THEN 0 ELSE b - a + 1 BY FS_Interval
  <2> QED BY <2>1, <2>2, <2>3
<1>6. GlobalCount - Cardinality(GoneGlobals) = saved.locals BY <1>1, <1>2, <1>4, <1>5
<1> QED BY <1>6 DEF GlobalCount

LEMMA ClearedScopes ==
  ASSUME IInv, Clear
  PROVE  /\ ScopesAre' /\ Blocks' = {} /\ Len(scopes') = saved.scopes
         /\ \A i \in 1 .. saved.scopes : scopes'[i] = scopes[i]
         /\ Range(scopes') = {scopes[i] : i \in 1 .. saved.scopes}
         /\ DOMAIN declared' = {Main} /\ declared'[Main] = First(declared[Main], saved.locals)
<1>1. ScopesAre /\ DeclaredAre /\ SavedAre BY DEF IInv
<1>2. /\ scopes' = First(scopes, saved.scopes)
      /\ declared' = [Restrict(declared, {s \in DOMAIN declared : s \in Range(scopes')})
                        EXCEPT ![Main] = First(@, Len(@) - Cardinality(GoneGlobals))]
      /\ Idle
  BY DEF Clear
<1>3. /\ scopes \in Seq(Scope) /\ Len(scopes) \in Nat \ {0} /\ IsInjective(scopes) /\ scopes[1] = Main
      /\ DOMAIN scopes = 1 .. Len(scopes)
  BY <1>1, ScopesKnown DEF ScopesAre
<1>4. /\ saved.scopes \in Nat /\ 1 <= saved.scopes /\ saved.scopes <= Len(scopes)
      /\ \A i \in 1 .. saved.scopes : ~ IsBlock(scopes[i])
  BY <1>1 DEF SavedAre, SavedCounts, SavedScopes
<1>5. PICK w : w = First(scopes, saved.scopes) OBVIOUS
<1>6. /\ w \in Seq(Scope) /\ Len(w) = saved.scopes /\ \A i \in 1 .. saved.scopes : w[i] = scopes[i]
  BY <1>3, <1>4, <1>5, FewIs
<1>7. scopes' = w BY <1>2, <1>5
<1>8. DOMAIN w = 1 .. saved.scopes /\ Range(w) = {w[i] : i \in 1 .. saved.scopes} BY <1>6, SeqIs
<1>9. Range(w) = {scopes[i] : i \in 1 .. saved.scopes} BY <1>6, <1>8
<1>10. ScopesAre'
  <2>1. saved.scopes \in 0 .. Len(scopes) BY <1>3, <1>4
  <2>2. IsInjective(w)
    <3>1. w = SubSeq(scopes, 1, saved.scopes) BY <1>3, <1>5, <2>1, FirstOfFew
    <3> QED BY <1>3, <2>1, <3>1, FewerInjective
  <2>3. 1 \in 1 .. saved.scopes BY <1>4
  <2>4. w # <<>> /\ w[1] = Main BY <1>3, <1>4, <1>6, <2>3, EmptySeq
  <2>5. \A i \in DOMAIN w : ~ IsBlock(w[i]) BY <1>4, <1>6, <1>8
  <2>6. \A x : IsBlock(x)' = IsBlock(x) BY DEF IsBlock
  <2> QED BY <1>6, <1>7, <2>2, <2>4, <2>5, <2>6 DEF ScopesAre, Scope, Step, Main, IsBlock
<1>11. Blocks' = {} BY <1>4, <1>7, <1>9 DEF Blocks, IsBlock
<1>12. {s \in DOMAIN declared : s \in Range(w)} = {Main}
  <2>1. Main \in DOMAIN declared /\ \A s \in DOMAIN declared : s # Main => IsBlock(s)
    BY <1>1, ScopesOfSymbols DEF DeclaredAre
  <2>2. Main \in Range(w)
    <3>1. 1 \in 1 .. saved.scopes BY <1>4
    <3> QED BY <1>3, <1>9, <3>1
  <2>3. \A s \in Range(w) : ~ IsBlock(s) BY <1>4, <1>9
  <2> QED BY <2>1, <2>2, <2>3
<1>13. declared' = [[s \in {Main} |-> declared[s]] EXCEPT ![Main] = First(@, Len(@) - Cardinality(GoneGlobals))]
  BY <1>2, <1>7, <1>12 DEF Restrict
<1>14. DOMAIN declared' = {Main}
       /\ declared'[Main] = First(declared[Main], Len(declared[Main]) - Cardinality(GoneGlobals))
  BY <1>13
<1>15. declared'[Main] = First(declared[Main], saved.locals) BY <1>2, <1>14, GoneCounted
<1> QED BY <1>6, <1>7, <1>9, <1>10, <1>11, <1>14, <1>15

LEMMA ClearedLocals ==
  ASSUME IInv, Clear
  PROVE  /\ DeclaredAre' /\ LocalsAre' /\ ValuesAre' /\ Len(locals') = saved.locals /\ GlobalCount' = saved.locals
         /\ \A i \in 1 .. saved.locals : /\ declared'[Main][i] = declared[Main][i] /\ locals'[i] = Global(i)
                                         /\ i \in 1 .. GlobalCount
         /\ \A x \in Symbols' : x \in Symbols /\ position'[x] = position[x]
<1>1. DeclaredAre /\ LocalsAre /\ ValuesAre BY DEF IInv
<1>2. /\ Idle /\ locals' = First(locals, saved.locals)
      /\ position' = Restrict(position, {x \in DOMAIN position :
                       x.scope \in DOMAIN declared' /\ x.name \in Range(declared'[x.scope])})
      /\ value' = [s \in DOMAIN value |-> IF s > saved.locals THEN Undefined ELSE value[s]]
  BY DEF Clear
<1>3. /\ GlobalCount \in Nat /\ GlobalCount <= Len(locals) /\ Len(locals) \in Nat
      /\ \A i \in 1 .. GlobalCount : locals[i] = Global(i) /\ position[Global(i)] = i /\ Global(i) \in Symbols
  BY <1>2, GlobalsPlaced DEF Settled
<1>4. saved.locals \in Nat /\ saved.locals <= GlobalCount BY DEF IInv, SavedAre, SavedCounts
<1>5. PICK n \in Nat : n = saved.locals BY <1>4
<1>6. DOMAIN declared' = {Main} /\ declared'[Main] = First(declared[Main], n) /\ Blocks' = {}
  BY <1>5, ClearedScopes
<1>7. /\ declared[Main] \in Seq(Declarable) /\ Main \in DOMAIN declared /\ IsInjective(declared[Main])
      /\ \A i, j \in 1 .. GlobalCount : declared[Main][i] = declared[Main][j] => i = j
  BY <1>1, GlobalsKnown DEF DeclaredAre
<1>8. /\ First(declared[Main], n) \in Seq(Declarable) /\ Len(First(declared[Main], n)) = n
      /\ \A i \in 1 .. n : First(declared[Main], n)[i] = declared[Main][i]
  BY <1>4, <1>5, <1>7, FewIs DEF GlobalCount
<1>9. /\ declared'[Main] \in Seq(Declarable) /\ Len(declared'[Main]) = n
      /\ \A i \in 1 .. n : declared'[Main][i] = declared[Main][i]
  BY <1>6, <1>8
<1>10. \A i \in 1 .. n : i \in 1 .. GlobalCount /\ i \in 1 .. Len(locals) BY <1>3, <1>4, <1>5
<1>11. DeclaredAre'
  <2>1. DOMAIN declared'[Main] = 1 .. n BY <1>9, LenProperties
  <2>2. IsInjective(declared'[Main]) BY <1>7, <1>9, <1>10, <2>1 DEF IsInjective
  <2>3. declared' = [s \in {Main} |-> declared'[Main]]
    <3>1. declared' = [s \in DOMAIN declared' |-> declared'[s]] BY DEF Clear
    <3> QED BY <1>6, <3>1
  <2>4. declared' \in [{Main} \cup Blocks' -> Seq(Declarable)] BY <1>6, <1>9, <2>3
  <2> QED BY <1>6, <2>2, <2>4 DEF DeclaredAre, Declarable, Main
<1>12. GlobalCount' = n BY <1>9 DEF GlobalCount, Main
<1>13. \A x : x \in Symbols' <=> \E i \in 1 .. n : x = Global(i)
  <2>1. ASSUME NEW x \in Symbols' PROVE \E i \in 1 .. n : x = Global(i)
    <3>1. x.scope \in DOMAIN declared' /\ x = Symbol(x.scope, x.name)
          /\ \E i \in 1 .. Len(declared'[x.scope]) : declared'[x.scope][i] = x.name
      BY <1>11, SymbolsKnownNext
    <3>2. PICK i \in 1 .. n : declared'[Main][i] = x.name BY <1>6, <1>9, <3>1
    <3>3. x = Symbol(Main, declared[Main][i]) BY <1>6, <1>9, <3>1, <3>2
    <3> QED BY <3>2, <3>3 DEF Global
  <2>2. ASSUME NEW i \in 1 .. n PROVE Global(i) \in Symbols'
    <3>1. Symbol(Main, declared'[Main][i]) \in Symbols' BY <1>6, <1>9, <1>11, SymbolsKnownNext
    <3> QED BY <1>9, <3>1 DEF Global
  <2> QED BY <2>1, <2>2
<1>14. \A x \in Symbols' : x \in Symbols BY <1>3, <1>10, <1>13
<1>15. {x \in DOMAIN position : x.scope \in DOMAIN declared' /\ x.name \in Range(declared'[x.scope])} = Symbols'
  <2>1. DOMAIN position = Symbols BY <1>1 DEF LocalsAre
  <2>2. ASSUME NEW x \in Symbols, x.scope \in DOMAIN declared', x.name \in Range(declared'[x.scope])
        PROVE  x \in Symbols'
    <3>1. x = Symbol(x.scope, x.name) BY <1>1, SymbolsKnown
    <3> QED BY <2>2, <3>1, SymbolsFrom
  <2>3. ASSUME NEW x \in Symbols' PROVE x.scope \in DOMAIN declared' /\ x.name \in Range(declared'[x.scope])
    <3>1. PICK i \in 1 .. n : x = Global(i) BY <1>13
    <3>2. x.scope = Main /\ x.name = declared'[Main][i] BY <1>9, <3>1 DEF Global, Symbol
    <3>3. Range(declared'[Main]) = {declared'[Main][j] : j \in 1 .. n} BY <1>9, RangeEquality
    <3> QED BY <1>6, <3>2, <3>3
  <2> QED BY <1>14, <2>1, <2>2, <2>3
<1>16. position' = [x \in Symbols' |-> position[x]] BY <1>2, <1>15 DEF Restrict
<1>17. locals \in Seq(Symbols) /\ Len(locals) <= MaxLocals BY <1>1 DEF LocalsAre
<1>18. locals' \in Seq(Symbols) /\ Len(locals') = n /\ \A i \in 1 .. n : locals'[i] = locals[i]
  <2>1. n <= Len(locals) BY <1>3, <1>4, <1>5
  <2>2. locals' = First(locals, n) BY <1>2, <1>5
  <2> QED BY <1>17, <2>1, <2>2, FewIs
<1>19. \A i \in 1 .. n : locals'[i] = Global(i) BY <1>3, <1>10, <1>18
<1>20. MaxLocals \in Nat BY BoundsAssumption
<1>21. LocalsAre'
  <2>1. locals' \in Seq(Symbols')
    <3>1. locals' \in [1 .. n -> Symbols] BY <1>18, LenProperties
    <3>2. \A i \in 1 .. n : locals'[i] \in Symbols' BY <1>13, <1>19
    <3>3. locals' \in [1 .. n -> Symbols'] BY <3>1, <3>2
    <3> QED BY <3>3, SeqDef
  <2>2. n <= MaxLocals BY <1>3, <1>4, <1>5, <1>17, <1>20
  <2>3. \A x \in Symbols' : \E i \in 1 .. n : x = Global(i) /\ position'[x] = i
    BY <1>3, <1>10, <1>13, <1>16
  <2>4. position' \in [Symbols' -> 1 .. n] BY <1>16, <2>3
  <2>5. \A x \in Symbols' : locals'[position'[x]] = x BY <1>19, <2>3
  <2>6. \A i \in 1 .. n : position'[locals'[i]] = i BY <1>3, <1>10, <1>13, <1>16, <1>19
  <2> QED BY <1>18, <2>1, <2>2, <2>4, <2>5, <2>6 DEF LocalsAre
<1>22. ValuesAre'
  <2>1. value \in [1 .. MaxLocals -> Declarable \cup {Undefined, "operand"}] BY <1>1 DEF ValuesAre
  <2>2. value' = [s \in 1 .. MaxLocals |-> IF s > n THEN Undefined ELSE value[s]] BY <1>2, <1>5, <2>1
  <2>3. value' \in [1 .. MaxLocals -> Declarable \cup {Undefined, "operand"}] BY <2>1, <2>2
  <2>4. \A i \in 1 .. n : i \in 1 .. MaxLocals /\ ~ (i > n) BY <1>3, <1>10, <1>17, <1>20
  <2>5. \A i \in 1 .. n : value'[i] = value[i] BY <2>2, <2>4
  <2>6. \A i \in 1 .. n : value[i] = Undefined \/ value[i] = declared[Main][i] BY <1>1, <1>10 DEF ValuesAre
  <2>7. \A i \in 1 .. n : i <= n OBVIOUS
  <2> QED BY <1>9, <1>12, <1>18, <2>3, <2>5, <2>6, <2>7 DEF ValuesAre, Declarable, Main
<1> QED BY <1>5, <1>9, <1>10, <1>11, <1>12, <1>14, <1>16, <1>18, <1>19, <1>21, <1>22

LEMMA ClearedTables ==
  ASSUME IInv, Clear
  PROVE  /\ TablesAre' /\ Len(functions') = saved.functions /\ Len(types') = saved.types
         /\ Len(funSymbols') = saved.funSymbols /\ Len(typeSymbols') = saved.typeSymbols
         /\ \A f \in 1 .. saved.functions : functions'[f] = functions[f]
         /\ \A i \in 1 .. saved.funSymbols : funSymbols'[i] = funSymbols[i]
         /\ \A t \in 1 .. saved.types : types'[t] = types[t]
         /\ \A i \in 1 .. saved.typeSymbols : typeSymbols'[i] = typeSymbols[i]
<1>1. /\ TypedTables /\ FunctionsAre /\ FunSymbolsAre /\ TypeSymbolsAre /\ MembersAre
      /\ SavedCounts /\ SavedScopes /\ SavedFunctions /\ SavedSymbols /\ SavedTypes
  BY DEF IInv, TablesAre, SavedAre
<1>2. /\ functions' = First(functions, saved.functions) /\ types' = First(types, saved.types)
      /\ funSymbols' = First(funSymbols, saved.funSymbols)
      /\ typeSymbols' = First(typeSymbols, saved.typeSymbols) /\ pending' = {}
  BY DEF Clear
<1>3. /\ saved.functions \in Nat /\ saved.types \in Nat /\ saved.funSymbols \in Nat /\ saved.typeSymbols \in Nat
      /\ saved.functions <= Len(functions) /\ saved.types <= Len(types)
      /\ saved.funSymbols <= Len(funSymbols) /\ saved.typeSymbols <= Len(typeSymbols)
  BY <1>1 DEF SavedCounts
<1>4. /\ Len(functions) \in Nat /\ Len(types) \in Nat /\ Len(funSymbols) \in Nat /\ Len(typeSymbols) \in Nat
      /\ \A i \in 1 .. Len(funSymbols) : funSymbols[i].fun \in Nat
      /\ \A i \in 1 .. Len(typeSymbols) : typeSymbols[i].type \in Nat
      /\ \A t \in 1 .. Len(types) : types[t].members \subseteq Nat
  BY <1>1, TablesKnown
<1>5. /\ functions' \in Seq(FunctionRecord) /\ Len(functions') = saved.functions
      /\ \A f \in 1 .. saved.functions : functions'[f] = functions[f]
  <2>1. functions \in Seq(FunctionRecord) BY <1>1 DEF TypedTables, FunctionRecord
  <2>2. PICK n \in Nat : n = saved.functions BY <1>3
  <2> QED BY <1>2, <1>3, <2>1, <2>2, FewIs
<1>6. /\ types' \in Seq([name : ClassNames, members : SUBSET Nat]) /\ Len(types') = saved.types
      /\ \A t \in 1 .. saved.types : types'[t] = types[t]
  <2>1. types \in Seq([name : ClassNames, members : SUBSET Nat]) BY <1>1 DEF TypedTables
  <2>2. PICK n \in Nat : n = saved.types BY <1>3
  <2> QED BY <1>2, <1>3, <2>1, <2>2, FewIs
<1>7. /\ funSymbols' \in Seq([name : FunctionNames, fun : Nat]) /\ Len(funSymbols') = saved.funSymbols
      /\ \A i \in 1 .. saved.funSymbols : funSymbols'[i] = funSymbols[i]
  <2>1. funSymbols \in Seq([name : FunctionNames, fun : Nat]) BY <1>1 DEF TypedTables
  <2>2. PICK n \in Nat : n = saved.funSymbols BY <1>3
  <2> QED BY <1>2, <1>3, <2>1, <2>2, FewIs
<1>8. /\ typeSymbols' \in Seq([name : ClassNames, type : Nat]) /\ Len(typeSymbols') = saved.typeSymbols
      /\ \A i \in 1 .. saved.typeSymbols : typeSymbols'[i] = typeSymbols[i]
  <2>1. typeSymbols \in Seq([name : ClassNames, type : Nat]) BY <1>1 DEF TypedTables
  <2>2. PICK n \in Nat : n = saved.typeSymbols BY <1>3
  <2> QED BY <1>2, <1>3, <2>1, <2>2, FewIs
<1>9. /\ \A f \in 1 .. saved.functions : f \in 1 .. Len(functions)
      /\ \A i \in 1 .. saved.funSymbols : i \in 1 .. Len(funSymbols)
      /\ \A t \in 1 .. saved.types : t \in 1 .. Len(types)
      /\ \A i \in 1 .. saved.typeSymbols : i \in 1 .. Len(typeSymbols)
  BY <1>3, <1>4
<1>10. TypedTables' BY <1>2, <1>5, <1>6, <1>7, <1>8 DEF TypedTables, FunctionRecord, Scope, Step
<1>11. FunctionsAre'
  <2> SUFFICES ASSUME NEW f \in 1 .. saved.functions
               PROVE  /\ functions[f].owner <= saved.types
                      /\ functions[f].scope \in Range(scopes') /\ ~ IsBlock(functions[f].scope)
    BY <1>5, <1>6 DEF FunctionsAre, IsBlock
  <2>1. functions[f].owner <= saved.types /\ \E i \in 1 .. saved.scopes : functions[f].scope = scopes[i]
    BY <1>1 DEF SavedFunctions
  <2>2. functions[f].scope \in Range(scopes') BY <2>1, ClearedScopes
  <2> QED BY <1>1, <1>9, <2>1, <2>2 DEF FunctionsAre
<1>12. FunSymbolsAre'
  <2> SUFFICES ASSUME NEW i \in 1 .. saved.funSymbols
               PROVE  /\ funSymbols[i].fun \in 1 .. saved.functions
                      /\ functions[funSymbols[i].fun].owner = 0
                      /\ functions[funSymbols[i].fun].name = funSymbols[i].name
    <3>1. \A i \in 1 .. saved.funSymbols :
            LET f == funSymbols'[i].fun
            IN f \in 1 .. saved.functions /\ functions[f].owner = 0 /\ functions[f].name = funSymbols'[i].name
      BY <1>7
    <3>2. \A i \in 1 .. saved.funSymbols :
            LET f == funSymbols'[i].fun
            IN /\ f \in 1 .. saved.functions
               /\ functions'[f].owner = 0 /\ functions'[f].name = funSymbols'[i].name
      BY <1>5, <3>1
    <3> QED BY <1>5, <1>7, <3>2 DEF FunSymbolsAre
  <2>1. /\ funSymbols[i].fun \in 1 .. Len(functions)
        /\ functions[funSymbols[i].fun].owner = 0
        /\ functions[funSymbols[i].fun].name = funSymbols[i].name
    BY <1>1, <1>9 DEF FunSymbolsAre
  <2>2. funSymbols[i].fun <= saved.functions BY <1>1 DEF SavedSymbols
  <2>3. \A k \in 1 .. Len(functions) : k <= saved.functions => k \in 1 .. saved.functions BY <1>3, <1>4
  <2> QED BY <2>1, <2>2, <2>3
<1>13. TypeSymbolsAre'
  <2> SUFFICES ASSUME NEW i \in 1 .. saved.typeSymbols
               PROVE  /\ typeSymbols[i].type \in 1 .. saved.types
                      /\ types[typeSymbols[i].type].name = typeSymbols[i].name
    <3>1. \A i \in 1 .. saved.typeSymbols :
            LET t == typeSymbols'[i].type
            IN t \in 1 .. saved.types /\ types[t].name = typeSymbols'[i].name
      BY <1>8
    <3>2. \A i \in 1 .. saved.typeSymbols :
            LET t == typeSymbols'[i].type
            IN t \in 1 .. saved.types /\ types'[t].name = typeSymbols'[i].name
      BY <1>6, <3>1
    <3> QED BY <1>6, <1>8, <3>2 DEF TypeSymbolsAre
  <2>1. typeSymbols[i].type \in 1 .. Len(types) /\ types[typeSymbols[i].type].name = typeSymbols[i].name
    BY <1>1, <1>9 DEF TypeSymbolsAre
  <2>2. typeSymbols[i].type <= saved.types BY <1>1 DEF SavedSymbols
  <2>3. \A k \in 1 .. Len(types) : k <= saved.types => k \in 1 .. saved.types BY <1>3, <1>4
  <2> QED BY <2>1, <2>2, <2>3
<1>14. MembersAre'
  <2> SUFFICES ASSUME NEW t \in 1 .. saved.types, NEW f \in types[t].members
               PROVE  f \in 1 .. saved.functions /\ functions'[f].owner = t
    BY <1>5, <1>6 DEF MembersAre
  <2>1. f \in 1 .. Len(functions) /\ functions[f].owner = t BY <1>1, <1>9 DEF MembersAre
  <2>2. f <= saved.functions BY <1>1 DEF SavedTypes
  <2>3. f \in 1 .. saved.functions BY <1>3, <1>4, <2>1, <2>2
  <2> QED BY <1>5, <2>1, <2>3
<1> QED BY <1>5, <1>6, <1>7, <1>8, <1>10, <1>11, <1>12, <1>13, <1>14 DEF TablesAre

LEMMA GlobalsRankAt ==
  ScopesAre /\ DeclaredAre /\ LocalsAre =>
    \A x \in Symbols : \A i \in 1 .. GlobalCount : x = Global(i) => Rank(x) = i
BY GlobalsRank

LEMMA GlobalsRankNext ==
  ASSUME ScopesAre', DeclaredAre', LocalsAre'
  PROVE  \A x \in Symbols' : \A i \in 1 .. GlobalCount' : x = Global(i)' => Rank(x)' = i
<1>1. (ScopesAre /\ DeclaredAre /\ LocalsAre =>
         \A x \in Symbols : \A i \in 1 .. GlobalCount : x = Global(i) => Rank(x) = i)'
  BY GlobalsRankAt, PTL
<1> QED BY <1>1

LEMMA ClearHolds == ASSUME IInv, Clear PROVE IInv'
<1>1. /\ ScopesAre /\ DeclaredAre /\ LocalsAre /\ RefsAre /\ SavedRefsAre /\ CheckpointIs /\ UnitsAre
      /\ SavedCounts /\ SavedScopes /\ SavedFunctions /\ SavedSymbols /\ SavedTypes
  BY DEF IInv, SavedAre
<1>2. /\ Idle /\ phase' = "cleared" /\ saved' = saved /\ atSave' = atSave
      /\ refs' = {r \in refs : r.by[1] = "function" => r.by[2] <= saved.functions}
                 \ {r \in refs : r.by[1] = "type" /\ r.by[2] > saved.types}
      /\ pending' = {} /\ pushed' = pushed /\ units' = units /\ opened' = opened
  BY DEF Clear, checkpoint
<1>3. /\ ScopesAre' /\ Len(scopes') = saved.scopes /\ \A i \in 1 .. saved.scopes : scopes'[i] = scopes[i]
  BY ClearedScopes
<1>4. /\ DeclaredAre' /\ LocalsAre' /\ ValuesAre' /\ Len(locals') = saved.locals /\ GlobalCount' = saved.locals
      /\ \A i \in 1 .. saved.locals : /\ declared'[Main][i] = declared[Main][i] /\ locals'[i] = Global(i)
                                      /\ i \in 1 .. GlobalCount
  BY ClearedLocals
<1>5. /\ TablesAre' /\ Len(functions') = saved.functions /\ Len(types') = saved.types
      /\ Len(funSymbols') = saved.funSymbols /\ Len(typeSymbols') = saved.typeSymbols
      /\ \A f \in 1 .. saved.functions : functions'[f] = functions[f]
      /\ \A i \in 1 .. saved.funSymbols : funSymbols'[i] = funSymbols[i]
      /\ \A t \in 1 .. saved.types : types'[t] = types[t]
      /\ \A i \in 1 .. saved.typeSymbols : typeSymbols'[i] = typeSymbols[i]
  BY ClearedTables
<1>6. /\ saved.locals \in Nat /\ saved.functions \in Nat /\ saved.types \in Nat /\ saved.scopes \in Nat
      /\ saved.funSymbols \in Nat /\ saved.typeSymbols \in Nat /\ 1 <= saved.scopes
      /\ saved \in [locals : Nat, funSymbols : Nat, typeSymbols : Nat, scopes : Nat,
                    functions : Nat, types : Nat]
  BY <1>1 DEF SavedCounts
<1>7. \A i \in 1 .. saved.locals : Global(i)' = Global(i) BY <1>4 DEF Global, Symbol, Main
<1>8. InOrder'
  <2> SUFFICES ASSUME NEW x \in Symbols' PROVE position'[x] = Rank(x)' BY DEF InOrder
  <2>1. x.scope = Main
    <3>1. x.scope \in DOMAIN declared' BY <1>4, SymbolsKnownNext
    <3> QED BY <3>1, ClearedScopes
  <2>2. PICK i \in 1 .. GlobalCount' : x = Global(i)' BY <1>4, <2>1, GlobalsKnownNext
  <2>3. Rank(x)' = i BY <1>3, <1>4, <2>2, GlobalsRankNext
  <2>4. i \in 1 .. Len(locals') /\ locals'[i] = x BY <1>4, <1>7, <2>2
  <2>5. position'[x] = i BY <1>4, <2>4 DEF LocalsAre
  <2> QED BY <2>3, <2>5
<1>9. GlobalsFirst' BY <1>4, <1>6, <1>7 DEF GlobalsFirst
<1>10. RefsAre'
  <2> SUFFICES ASSUME NEW r \in refs' PROVE RefIs(r)' BY DEF RefsAre
  <2>1. /\ r \in refs /\ RefIs(r)
        /\ r.by[1] = "function" => r.by[2] <= saved.functions
        /\ r.by[1] = "type" => ~ (r.by[2] > saved.types)
    BY <1>1, <1>2 DEF RefsAre
  <2>2. CASE r.by = <<"local">> BY <1>2, <2>2 DEF RefIs
  <2>3. CASE r.by = <<"const">> BY <1>2, <2>3 DEF RefIs
  <2>4. ASSUME NEW t \in 1 .. Len(types), r.by = <<"type", t>>, IsGlobalAt(r.symbol, r.slot) PROVE RefIs(r)'
    <3>1. r.by[1] = "type" /\ r.by[2] = t BY <2>4
    <3>2. t \in 1 .. saved.types BY <1>6, <2>1, <3>1
    <3>3. r.slot \in 1 .. saved.locals BY <1>1, <2>1, <2>4, <3>2 DEF SavedRefsAre
    <3>4. IsGlobalAt(r.symbol, r.slot)' BY <1>4, <1>7, <2>4, <3>3 DEF IsGlobalAt
    <3> QED BY <1>5, <2>4, <3>2, <3>4 DEF RefIs
  <2>5. ASSUME NEW f \in 1 .. Len(functions), r.by = <<"function", f>>,
               IsGlobalAt(r.symbol, r.slot) \/ (r.slot = Unresolved /\ f \in pending)
        PROVE  RefIs(r)'
    <3>1. r.by[1] = "function" /\ r.by[2] = f BY <2>5
    <3>2. f \in 1 .. saved.functions BY <1>6, <2>1, <3>1
    <3>3. r.slot \in 1 .. saved.locals BY <1>1, <2>1, <2>5, <3>2 DEF SavedRefsAre
    <3>4. IsGlobalAt(r.symbol, r.slot)' BY <1>4, <1>7, <2>5, <3>3 DEF IsGlobalAt, Unresolved
    <3> QED BY <1>5, <2>5, <3>2, <3>4 DEF RefIs
  <2> QED BY <2>1, <2>2, <2>3, <2>4, <2>5 DEF RefIs
<1>11. SavedRefsAre' BY <1>1, <1>2 DEF SavedRefsAre
<1>12. SavedAre'
  <2>1. SavedCounts'
    <3>1. \A n \in Nat : n <= n OBVIOUS
    <3> QED BY <1>2, <1>3, <1>4, <1>5, <1>6, <3>1 DEF SavedCounts
  <2>2. SavedScopes' BY <1>1, <1>2, <1>3 DEF SavedScopes, IsBlock
  <2>3. SavedFunctions' BY <1>1, <1>2, <1>3, <1>5 DEF SavedFunctions
  <2>4. SavedSymbols' BY <1>1, <1>2, <1>5 DEF SavedSymbols
  <2>5. SavedTypes' BY <1>1, <1>2, <1>5 DEF SavedTypes
  <2> QED BY <2>1, <2>2, <2>3, <2>4, <2>5 DEF SavedAre
<1>13. CheckpointIs'
  <2>1. {declared'[Main][i] : i \in 1 .. saved.locals} = {declared[Main][i] : i \in 1 .. saved.locals} BY <1>4
  <2>2. {funSymbols'[i].name : i \in 1 .. saved.funSymbols} = {funSymbols[i].name : i \in 1 .. saved.funSymbols}
    BY <1>5
  <2>3. {typeSymbols'[i].name : i \in 1 .. saved.typeSymbols} = {typeSymbols[i].name : i \in 1 .. saved.typeSymbols}
    BY <1>5
  <2> QED BY <1>1, <1>2, <1>4, <1>5, <2>1, <2>2, <2>3 DEF CheckpointIs, Main
<1>14. Opened' /\ AllLinked' BY <1>2 DEF Opened, Compiling, AllLinked
<1>15. UnitsAre' BY <1>1, <1>2 DEF UnitsAre
<1> QED BY <1>3, <1>4, <1>5, <1>8, <1>9, <1>10, <1>11, <1>12, <1>13, <1>14, <1>15 DEF IInv
-----------------------------------------------------------------------------
LEMMA InitHolds == ASSUME Init PROVE IInv
<1>1. /\ scopes = <<Main>> /\ declared = [s \in {Main} |-> <<>>]
      /\ locals = <<>> /\ position = <<>> /\ functions = <<>> /\ funSymbols = <<>>
      /\ types = <<>> /\ typeSymbols = <<>> /\ refs = {} /\ pending = {} /\ pushed = {}
      /\ value = [s \in 1 .. MaxLocals |-> Undefined]
      /\ saved = [locals |-> 0, funSymbols |-> 0, typeSymbols |-> 0,
                  scopes |-> 1, functions |-> 0, types |-> 0]
      /\ atSave = [globals |-> {}, functions |-> {}, types |-> {}]
      /\ phase = "cleared" /\ open = Main /\ units = 0 /\ opened = 0
  BY DEF Init
<1>2. MaxLocals \in Nat /\ MaxOpened \in Nat BY BoundsAssumption
<1>3. ~ IsBlock(Main) /\ Main \in Scope
  <2>1. Len(Main) = 1 BY DEF Main
  <2> QED BY <2>1, MainIsPath DEF IsBlock, IsPath
<1>4. /\ scopes \in Seq(Scope) /\ scopes # <<>> /\ scopes[1] = Main /\ Len(scopes) = 1
      /\ DOMAIN scopes = {1}
  BY <1>1, <1>3
<1>5. ScopesAre BY <1>3, <1>4 DEF ScopesAre, IsInjective
<1>6. Blocks = {} BY <1>3, <1>4 DEF Blocks, Range
<1>7. DeclaredAre
  <2>1. <<>> \in Seq(Declarable) /\ IsInjective(<<>>) BY EmptySeq DEF IsInjective
  <2> QED BY <1>1, <1>6, <2>1 DEF DeclaredAre
<1>8. declared[Main] = <<>> /\ GlobalCount = 0 BY <1>1 DEF GlobalCount
<1>9. Symbols = {}
  <2>1. Range(<<>>) = {} BY DEF Range
  <2> QED BY <1>1, <2>1 DEF Symbols
<1>10. LocalsAre
  <2>1. locals \in Seq(Symbols) /\ Len(locals) = 0 BY <1>1, EmptySeq
  <2>2. position \in [{} -> 1 .. 0]
    <3>1. DOMAIN position = {} BY <1>1
    <3>2. position = [x \in {} |-> position[x]] BY <1>1
    <3> QED BY <3>1, <3>2
  <2> QED BY <1>2, <1>9, <2>1, <2>2 DEF LocalsAre
<1>11. InOrder /\ GlobalsFirst BY <1>1, <1>8, <1>9 DEF InOrder, GlobalsFirst
<1>12. RefsAre /\ SavedRefsAre BY <1>1 DEF RefsAre, SavedRefsAre
<1>13. ValuesAre BY <1>1 DEF ValuesAre
<1>14. TablesAre
  <2>1. TypedTables BY <1>1, EmptySeq DEF TypedTables
  <2>2. Len(functions) = 0 /\ Len(types) = 0 /\ Len(funSymbols) = 0 /\ Len(typeSymbols) = 0 BY <1>1
  <2> QED BY <2>1, <2>2 DEF TablesAre, FunctionsAre, FunSymbolsAre, TypeSymbolsAre, MembersAre
<1>15. SavedAre
  <2>1. SavedCounts BY <1>1, <1>4, <1>8 DEF SavedCounts
  <2>2. SavedScopes BY <1>1, <1>3, <1>4 DEF SavedScopes
  <2>3. SavedFunctions /\ SavedSymbols /\ SavedTypes BY <1>1 DEF SavedFunctions, SavedSymbols, SavedTypes
  <2> QED BY <2>1, <2>2, <2>3 DEF SavedAre
<1>16. CheckpointIs BY <1>1, <1>8 DEF CheckpointIs
<1>17. Opened /\ UnitsAre /\ AllLinked BY <1>1, <1>2 DEF Opened, Compiling, UnitsAre, AllLinked
<1> QED BY <1>5, <1>7, <1>10, <1>11, <1>12, <1>13, <1>14, <1>15, <1>16, <1>17 DEF IInv

LEMMA StepHolds == ASSUME KeepsRules, IInv, [Next]_vars PROVE IInv'
<1>1. CASE Compile BY <1>1, CompileHolds
<1>2. CASE OpenBlock BY <1>2, BlockOpened
<1>3. CASE CloseBlock BY <1>3, BlockClosed
<1>4. ASSUME NEW v \in Variables, DeclareVar(v) PROVE IInv' BY <1>4, VarDeclared
<1>5. ASSUME NEW v \in Variables, DeclareConst(v) PROVE IInv' BY <1>5, ConstDeclared
<1>6. ASSUME NEW v \in Variables, UseVar(v) PROVE IInv' BY <1>6, VarUsed
<1>7. ASSUME NEW f \in FunctionNames, NEW v \in Variables, DeclareFunction(f, {v}) PROVE IInv'
  BY <1>7, FunctionDeclared
<1>8. ASSUME NEW f \in FunctionNames, BreaksFunction(f) PROVE IInv' BY <1>8, FunctionBroken
<1>9. ASSUME NEW c \in ClassNames, DeclareClass(c) PROVE IInv' BY <1>9, ClassDeclared
<1>10. ASSUME NEW f \in FunctionNames, NEW t \in DOMAIN types, DeclareMemberFunction(f, t) PROVE IInv'
  BY <1>10, MemberFunctionDeclared
<1>11. ASSUME NEW t \in DOMAIN types, DeclareMemberConst(t) PROVE IInv' BY <1>11, MemberConstDeclared
<1>12. CASE Import BY <1>12, Imported
<1>13. CASE EndImport BY <1>13, ImportEnded
<1>14. CASE EndUnit BY <1>14, UnitEnded
<1>15. CASE Fail BY <1>15, UnitFailed
<1>16. CASE Run BY <1>16, RunHolds
<1>17. CASE SaveState BY <1>17, Saves
<1>18. CASE Clear BY <1>18, ClearHolds
<1>19. CASE UNCHANGED vars
  <2>1. UNCHANGED <<tables, declared, locals, position, refs, pending, pushed, checkpoint,
                    phase, open, units, opened>> /\ value' = value
    BY <1>19 DEF vars
  <2>2. declared' = declared /\ locals' = locals BY <2>1
  <2>3. ValuesAre' BY <2>1, <2>2 DEF IInv, ValuesAre, GlobalCount, Declarable, Main
  <2> QED BY <2>1, <2>3, ValuesOnly
<1> QED BY <1>1, <1>2, <1>3, <1>4, <1>5, <1>6, <1>7, <1>8, <1>9, <1>10, <1>11, <1>12, <1>13,
           <1>14, <1>15, <1>16, <1>17, <1>18, <1>19 DEF Next
-----------------------------------------------------------------------------
(* What steps do with the values of globals.                               *)
ValueKept ==
  \A x \in Globals : x \in Globals' /\ value[position[x]] = x.name => value'[position'[x]] = x.name

LEMMA HoldsName ==
  ASSUME IInv, NEW x \in Globals, value[position[x]] = x.name
  PROVE  /\ position[x] \in 1 .. GlobalCount /\ x = Global(position[x])
         /\ position[x] \in 1 .. Len(locals) /\ x \in Symbols
<1>1. DeclaredAre /\ LocalsAre /\ ValuesAre BY DEF IInv
<1>2. x \in Symbols /\ x.scope = Main BY DEF Globals
<1>3. x = Symbol(Main, x.name) /\ x.name \in Declarable BY <1>1, <1>2, SymbolsKnown
<1>4. position[x] \in 1 .. Len(locals) BY <1>1, <1>2 DEF LocalsAre
<1>5. x.name # Undefined BY <1>3, NamesAssumption DEF Undefined, Declarable
<1>6. position[x] <= GlobalCount /\ x.name = declared[Main][position[x]] BY <1>1, <1>4, <1>5 DEF ValuesAre
<1>7. x = Global(position[x]) BY <1>3, <1>6 DEF Global
<1>8. position[x] \in 1 .. GlobalCount
  <2>1. GlobalCount \in Nat BY <1>1, GlobalsKnown
  <2> QED BY <1>4, <1>6, <2>1
<1> QED BY <1>2, <1>4, <1>7, <1>8

LEMMA SlotsKeepValues ==
  ASSUME value' = value, \A x \in Globals : x \in Globals' => position'[x] = position[x] PROVE ValueKept
BY DEF ValueKept

LEMMA RegisterKeeps ==
  ASSUME IInv, NEW s \in DOMAIN declared, NEW n \in Declarable, Register(s, n), scopes' = scopes
  PROVE  ValueKept
<1> SUFFICES ASSUME NEW x \in Globals, value[position[x]] = x.name PROVE value'[position'[x]] = x.name
  BY DEF ValueKept
<1>1. ScopesAre /\ DeclaredAre /\ LocalsAre /\ ValuesAre BY DEF IInv
<1>2. position[x] \in 1 .. Len(locals) /\ x \in Symbols BY HoldsName
<1>3. position'[x] = position[x] BY <1>1, <1>2, Registered DEF SlotsStay
<1>4. value' = [value EXCEPT ![Len(locals) + 1] = Undefined] BY DEF Register
<1>5. Len(locals) \in Nat /\ Len(locals) <= MaxLocals /\ MaxLocals \in Nat
  BY <1>1, SymbolsCounted, BoundsAssumption DEF LocalsAre
<1>6. position[x] \in 1 .. MaxLocals /\ position[x] # Len(locals) + 1 BY <1>2, <1>5
<1> QED BY <1>1, <1>3, <1>4, <1>6 DEF ValuesAre

LEMMA SortKeeps ==
  ASSUME IInv, Sort, declared' = declared, scopes' = scopes, value' = value PROVE ValueKept
<1> SUFFICES ASSUME NEW x \in Globals, value[position[x]] = x.name PROVE value[position'[x]] = x.name
  BY DEF ValueKept
<1>1. PICK i \in 1 .. GlobalCount : i = position[x] /\ x = Global(i) BY HoldsName
<1>2. position'[Global(i)] = i BY Sorted
<1> QED BY <1>1, <1>2

LEMMA StartKeeps == ASSUME IInv, Settled, RemoveBlocks, value' = value PROVE ValueKept
<1>1. \A x \in Globals : position'[x] = position[x] BY BlocksRemoved DEF Globals
<1> QED BY <1>1, SlotsKeepValues

LEMMA RunKeeps == ASSUME KeepsRules, IInv, Run PROVE ValueKept
<1> SUFFICES ASSUME NEW x \in Globals, value[position[x]] = x.name PROVE value'[position'[x]] = x.name
  BY DEF ValueKept
<1>1. PICK i \in 1 .. GlobalCount : i = position[x] /\ x = Global(i) /\ i \in 1 .. Len(locals) BY HoldsName
<1>2. position' = position /\ declared' = declared BY DEF Run
<1>3. Len(locals) \in Nat /\ Len(locals) <= MaxLocals /\ MaxLocals \in Nat
  BY SymbolsCounted, BoundsAssumption DEF IInv, LocalsAre
<1>4. i \in 1 .. MaxLocals /\ ~ (i > Len(locals)) BY <1>1, <1>3
<1>5. value'[i] = declared[Main][i] \/ value'[i] = value[i] BY <1>1, <1>4, RunLeaves
<1>6. x.name = declared[Main][i] BY <1>1 DEF Global, Symbol
<1> QED BY <1>1, <1>2, <1>5, <1>6

LEMMA ClearKeeps == ASSUME IInv, Clear PROVE ValueKept
<1> SUFFICES ASSUME NEW x \in Globals, x \in Globals', value[position[x]] = x.name
             PROVE  value'[position'[x]] = x.name
  BY DEF ValueKept
<1>1. x \in Symbols' BY DEF Globals
<1>2. position'[x] = position[x] /\ position'[x] \in 1 .. saved.locals BY <1>1, ClearedLocals DEF LocalsAre
<1>3. position[x] \in 1 .. Len(locals) BY HoldsName
<1>4. DOMAIN value = 1 .. MaxLocals /\ Len(locals) \in Nat /\ Len(locals) <= MaxLocals /\ MaxLocals \in Nat
  BY SymbolsCounted, BoundsAssumption DEF IInv, LocalsAre, ValuesAre
<1>5. position[x] \in DOMAIN value /\ ~ (position[x] > saved.locals)
  <2>1. saved.locals \in Nat BY DEF IInv, SavedAre, SavedCounts
  <2> QED BY <1>2, <1>3, <1>4, <2>1
<1>6. value' = [s \in DOMAIN value |-> IF s > saved.locals THEN Undefined ELSE value[s]] BY DEF Clear
<1> QED BY <1>2, <1>5, <1>6

LEMMA StepKeeps == ASSUME KeepsRules, IInv, [Next]_vars PROVE ValueKept
<1> DEFINE Same == UNCHANGED <<position, value>>
<1>1. Same => ValueKept BY SlotsKeepValues
<1>2. ScopesAre /\ DeclaredAre /\ TypedTables /\ Opened BY DEF IInv, TablesAre
<1>3. ASSUME NEW n \in Declarable, Compiling, Register(open, n), UNCHANGED tables PROVE ValueKept
  <2>1. open \in DOMAIN declared BY <1>2, <1>3, OpenIsDeclared
  <2> QED BY <1>3, <2>1, RegisterKeeps DEF tables
<1>4. CASE Compile
  <2>1. Settled /\ RemoveBlocks /\ value' = value BY <1>4 DEF Compile, Settled
  <2> QED BY <2>1, StartKeeps
<1>5. CASE OpenBlock BY <1>1, <1>5 DEF OpenBlock
<1>6. CASE CloseBlock BY <1>1, <1>6 DEF CloseBlock
<1>7. ASSUME NEW v \in Variables, DeclareVar(v) PROVE ValueKept BY <1>3, <1>7 DEF DeclareVar, Declarable
<1>8. ASSUME NEW v \in Variables, DeclareConst(v) PROVE ValueKept BY <1>3, <1>8 DEF DeclareConst, Declarable
<1>9. ASSUME NEW v \in Variables, UseVar(v) PROVE ValueKept BY <1>1, <1>9 DEF UseVar
<1>10. ASSUME NEW f \in FunctionNames, NEW v \in Variables, DeclareFunction(f, {v}) PROVE ValueKept
  BY <1>1, <1>10 DEF DeclareFunction, SetFunction
<1>11. ASSUME NEW f \in FunctionNames, BreaksFunction(f) PROVE ValueKept
  BY <1>1, <1>11 DEF BreaksFunction, SetFunction
<1>12. ASSUME NEW c \in ClassNames, DeclareClass(c) PROVE ValueKept BY <1>1, <1>12 DEF DeclareClass
<1>13. ASSUME NEW f \in FunctionNames, NEW t \in DOMAIN types, DeclareMemberFunction(f, t) PROVE ValueKept
  BY <1>1, <1>13 DEF DeclareMemberFunction
<1>14. ASSUME NEW t \in DOMAIN types, DeclareMemberConst(t) PROVE ValueKept
  <2>1. types[t].name \in Declarable
    <3>1. t \in 1 .. Len(types) BY <1>2, TablesKnown
    <3>2. types[t] \in [name : ClassNames, members : SUBSET Nat] BY <1>2, <3>1, ElementOfSeq DEF TypedTables
    <3> QED BY <3>2 DEF Declarable
  <2>2. Compiling /\ Register(open, types[t].name) /\ UNCHANGED tables BY <1>14 DEF DeclareMemberConst
  <2> QED BY <1>3, <2>1, <2>2
<1>15. CASE Import
  <2>1. DOMAIN declared = {Main} /\ RemoveBlocks /\ value' = value BY <1>15 DEF Import, Rule, KeepsRules
  <2>2. ~ IsBlock(Main) BY <1>2, ScopesOfSymbols
  <2>3. Settled BY <2>1, <2>2 DEF Settled, InMainOrder
  <2> QED BY <2>1, <2>3, StartKeeps
<1>16. CASE EndImport BY <1>1, <1>16 DEF EndImport
<1>17. CASE EndUnit BY <1>17, SortKeeps DEF EndUnit, tables
<1>18. CASE Fail BY <1>18, SortKeeps DEF Fail, tables
<1>19. CASE Run BY <1>19, RunKeeps
<1>20. CASE SaveState BY <1>1, <1>20 DEF SaveState
<1>21. CASE Clear BY <1>21, ClearKeeps
<1>22. CASE UNCHANGED vars BY <1>1, <1>22 DEF vars
<1> QED BY <1>4, <1>5, <1>6, <1>7, <1>8, <1>9, <1>10, <1>11, <1>12, <1>13, <1>14, <1>15, <1>16,
           <1>17, <1>18, <1>19, <1>20, <1>21, <1>22 DEF Next
-----------------------------------------------------------------------------
LEMMA Inductive == KeepsRules => (Spec => []IInv)
<1> SUFFICES ASSUME KeepsRules PROVE Spec => []IInv OBVIOUS
<1>1. Init => IInv BY InitHolds
<1>2. IInv /\ [Next]_vars => IInv' BY StepHolds
<1> QED BY <1>1, <1>2, PTL DEF Spec

(* Whenever the host may act, the variables of the main function are those *)
(* of the main scope and then those of its blocks in their order, and each *)
(* symbol knows its slot: compiler_fill_lookup_local_variable, the removal *)
(* of blocks and clearGlobalVariables agree on who is where.               *)
THEOREM SlotsStayExact == KeepsRules => (Spec => []SlotsExact)
<1> SUFFICES ASSUME KeepsRules PROVE Spec => []SlotsExact OBVIOUS
<1>1. IInv => SlotsExact BY SymbolsCounted DEF IInv, SlotsExact, InOrder, LocalsAre
<1> QED BY <1>1, Inductive, PTL

(* After clear() the names are those of saveState(), whatever was compiled *)
(* or failed in between: what it counts as gone is what came since.        *)
THEOREM ClearAlwaysRestores == KeepsRules => (Spec => []ClearRestores)
<1> SUFFICES ASSUME KeepsRules PROVE Spec => []ClearRestores OBVIOUS
<1>1. IInv => ClearRestores
  <2> SUFFICES ASSUME IInv, phase = "cleared"
               PROVE  /\ Range(declared[Main]) = atSave.globals
                      /\ Names(funSymbols) = atSave.functions
                      /\ Names(typeSymbols) = atSave.types
    BY DEF ClearRestores
  <2>1. /\ GlobalCount = saved.locals /\ Len(funSymbols) = saved.funSymbols
        /\ Len(typeSymbols) = saved.typeSymbols
        /\ atSave.globals = {declared[Main][i] : i \in 1 .. saved.locals}
        /\ atSave.functions = {funSymbols[i].name : i \in 1 .. saved.funSymbols}
        /\ atSave.types = {typeSymbols[i].name : i \in 1 .. saved.typeSymbols}
    BY DEF IInv, CheckpointIs
  <2>2. Range(declared[Main]) = {declared[Main][i] : i \in 1 .. GlobalCount}
    BY GlobalsKnown, SeqIs DEF IInv, GlobalCount
  <2>3. DOMAIN funSymbols = 1 .. Len(funSymbols) /\ DOMAIN typeSymbols = 1 .. Len(typeSymbols)
    BY TablesKnown DEF IInv, TablesAre
  <2> QED BY <2>1, <2>2, <2>3 DEF Names
<1> QED BY <1>1, Inductive, PTL

(* Every name leads to what it was written for: the slots that code,       *)
(* functions and class constants name, the globals that came later, what   *)
(* a global holds, and the entries of the tables, between all the units    *)
(* that compiled, were imported, failed or were cleared.                   *)
THEOREM NamesStayRight == KeepsRules => (Spec => []NamesRight)
<1> SUFFICES ASSUME KeepsRules PROVE Spec => []NamesRight OBVIOUS
<1>1. IInv => TypeOK
  <2> SUFFICES ASSUME IInv PROVE TypeOK OBVIOUS
  <2>1. /\ ScopesAre /\ DeclaredAre /\ LocalsAre /\ ValuesAre /\ TypedTables /\ FunctionsAre /\ UnitsAre
    BY DEF IInv, TablesAre
  <2>2. Cardinality(Range(scopes)) = Len(scopes) BY <2>1, EntriesCounted DEF ScopesAre
  <2>3. Len(locals) \in Nat /\ MaxLocals \in Nat /\ Len(locals) <= MaxLocals
    BY <2>1, SymbolsCounted, BoundsAssumption DEF LocalsAre
  <2>4. position \in [Symbols -> 1 .. MaxLocals]
    <3>1. 1 .. Len(locals) \subseteq 1 .. MaxLocals BY <2>3
    <3> QED BY <2>1, <3>1 DEF LocalsAre
  <2>5. value \in [1 .. MaxLocals -> Name \cup {Undefined, "operand"}]
    <3>1. Declarable \subseteq Name BY DEF Declarable, Name
    <3> QED BY <2>1, <3>1 DEF ValuesAre
  <2>6. DOMAIN functions = 1 .. Len(functions) /\ Len(types) \in Nat
        /\ \A f \in 1 .. Len(functions) : functions[f].owner \in Nat
    BY <2>1, TablesKnown
  <2>7. \A f \in DOMAIN functions : functions[f].owner \in 0 .. Len(types) BY <2>1, <2>6 DEF FunctionsAre
  <2>8. pending \subseteq DOMAIN functions BY <2>1, <2>6 DEF TypedTables
  <2> QED BY <2>1, <2>2, <2>3, <2>4, <2>5, <2>7, <2>8 DEF TypeOK, ScopesAre, DeclaredAre, LocalsAre, UnitsAre
<1>2. IInv => RefsRight
  <2> SUFFICES ASSUME IInv, Runnable, NEW r \in refs, r.slot # Unresolved
               PROVE  r.symbol \in DOMAIN position /\ position[r.symbol] = r.slot
    BY DEF RefsRight
  <2>1. Idle /\ phase # "cleared" BY DEF Runnable, KeepsRules
  <2>2. RefIs(r) /\ DOMAIN position = Symbols BY DEF IInv, RefsAre, LocalsAre
  <2>3. IsGlobalAt(r.symbol, r.slot) => r.symbol \in Symbols /\ position[r.symbol] = r.slot
    BY <2>1, GlobalsPlaced DEF Settled, IsGlobalAt
  <2> QED BY <2>1, <2>2, <2>3 DEF RefIs
<1>3. IInv => AllLinked BY DEF IInv
<1>4. IInv => HoldsOwn
  <2> SUFFICES ASSUME IInv, Runnable, NEW x \in Globals PROVE value[position[x]] \in {x.name, Undefined}
    BY DEF HoldsOwn
  <2>1. PICK i \in 1 .. GlobalCount : x = Global(i) BY GlobalsKnown DEF IInv, Globals
  <2>2. position[x] = i /\ i \in 1 .. Len(locals)
    <3>1. /\ GlobalCount \in Nat /\ GlobalCount <= Len(locals) /\ Len(locals) \in Nat
          /\ position[Global(i)] = i
      BY GlobalsPlaced DEF Settled, Runnable
    <3> QED BY <2>1, <3>1
  <2>3. x.name = declared[Main][i] BY <2>1 DEF Global, Symbol
  <2> QED BY <2>2, <2>3 DEF IInv, ValuesAre
<1>5. IInv => TablesAgree
  <2> SUFFICES ASSUME IInv PROVE TablesAgree OBVIOUS
  <2>1. /\ ScopesAre /\ DeclaredAre /\ TypedTables /\ FunctionsAre /\ FunSymbolsAre /\ TypeSymbolsAre
        /\ MembersAre /\ Opened /\ UnitsAre
    BY DEF IInv, TablesAre
  <2>2. /\ DOMAIN functions = 1 .. Len(functions) /\ DOMAIN funSymbols = 1 .. Len(funSymbols)
        /\ DOMAIN types = 1 .. Len(types) /\ DOMAIN typeSymbols = 1 .. Len(typeSymbols)
    BY <2>1, TablesKnown
  <2>3. Compiling => open \in Range(scopes)
    <3> HAVE Compiling
    <3>1. open \in DOMAIN declared BY <2>1, OpenIsDeclared
    <3> QED BY <2>1, <3>1, ScopesOfSymbols
  <2>4. Runnable => pushed \subseteq Range(scopes) BY <2>1 DEF Runnable, KeepsRules, UnitsAre
  <2>5. \A f \in DOMAIN functions : functions[f].scope \in Range(scopes) BY <2>1, <2>2 DEF FunctionsAre
  <2>6. phase = "compiled" => HaveCode BY <2>1 DEF UnitsAre
  <2>7. \A i \in DOMAIN funSymbols :
          LET f == funSymbols[i].fun
          IN f \in DOMAIN functions /\ functions[f].owner = 0 /\ functions[f].name = funSymbols[i].name
    BY <2>1, <2>2 DEF FunSymbolsAre
  <2>8. \A i \in DOMAIN typeSymbols :
          typeSymbols[i].type \in DOMAIN types /\ types[typeSymbols[i].type].name = typeSymbols[i].name
    BY <2>1, <2>2 DEF TypeSymbolsAre
  <2>9. \A t \in DOMAIN types : \A f \in types[t].members : f \in DOMAIN functions /\ functions[f].owner = t
    BY <2>1, <2>2 DEF MembersAre
  <2> QED BY <2>3, <2>4, <2>5, <2>6, <2>7, <2>8, <2>9 DEF TablesAgree
<1>6. IInv => NamesRight BY <1>1, <1>2, <1>3, <1>4, <1>5 DEF NamesRight
<1> QED BY <1>6, Inductive, PTL

(* No step loses the value of a global that stays: not the removal of      *)
(* blocks, not the sort, not an imported or failed unit, not clear().      *)
THEOREM ValuesAlwaysStay == KeepsRules => (Spec => ValuesStay)
<1> SUFFICES ASSUME KeepsRules PROVE Spec => ValuesStay OBVIOUS
<1>1. IInv /\ [Next]_vars =>
        [\A x \in Globals : x \in Globals' /\ value[position[x]] = x.name
           => value'[position'[x]] = x.name]_vars
  BY StepKeeps DEF ValueKept
<1> QED BY <1>1, Inductive, PTL DEF Spec, ValuesStay
=============================================================================
