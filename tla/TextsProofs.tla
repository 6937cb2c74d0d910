---------------------------- MODULE TextsProofs -----------------------------
(***************************************************************************)
(* Proofs about Texts, for any characters, literals and lengths.  What     *)
(* Read makes of a block is all that the operations need to know of it:    *)
(* each block stands for a sequence of characters, and each operation of a *)
(* String is one on sequences.                                             *)
(***************************************************************************)
EXTENDS Texts, SequenceTheorems, WellFoundedInduction, TLAPS

Chars == Letters \cup {"newline", Escape}

(* A block of s with room for more.                                        *)
Filled(s, room) == [buf |-> Block(s, Len(s) + room), count |-> Len(s), size |-> Len(s) + room]

Stands(t, s) ==
  /\ s \in Seq(Chars)
  /\ \/ t = NoText /\ s = <<>>
     \/ \E room \in Nat : t = Filled(s, room)

Blocks == {NoText} \cup {Filled(s, room) : s \in Seq(Chars), room \in Nat}
-----------------------------------------------------------------------------
LEMMA Numbers == Spare \in Nat /\ MaxLength \in Nat /\ MaxSteps \in Nat BY TextNumbers

LEMMA NulIsNoChar == NUL \notin Chars
BY LiteralsAssumption DEF Chars, NUL, Escape

LEMMA LiteralsAreChars == Literals \subseteq Seq(Chars)
<1> SUFFICES ASSUME NEW s \in Literals PROVE s \in Seq(Chars) OBVIOUS
<1>1. s \in Seq(Letters) /\ Letters \subseteq Chars BY LiteralsAssumption DEF Chars
<1> QED BY <1>1, SeqMonotonic

LEMMA BlocksStand == \A t : t \in Blocks <=> \E s : Stands(t, s)
<1>1. <<>> \in Seq(Chars) BY EmptySeq
<1>2. ASSUME NEW t \in Blocks PROVE \E s : Stands(t, s)
  <2>1. CASE t = NoText BY <1>1, <2>1 DEF Stands
  <2>2. CASE t # NoText
    <3>1. PICK s \in Seq(Chars), room \in Nat : t = Filled(s, room) BY <2>2 DEF Blocks
    <3>2. Stands(t, s) BY <3>1 DEF Stands
    <3> QED BY <3>2
  <2> QED BY <2>1, <2>2
<1>3. ASSUME NEW t, NEW s, Stands(t, s) PROVE t \in Blocks BY <1>3 DEF Blocks, Stands
<1> QED BY <1>2, <1>3

LEMMA BlockIs ==
  ASSUME NEW s \in Seq(Chars), NEW size \in Nat, Len(s) <= size
  PROVE  /\ DOMAIN Block(s, size) = 0 .. size
         /\ \A i \in 0 .. size : i < Len(s) => Block(s, size)[i] = s[i + 1] /\ Block(s, size)[i] # NUL
         /\ \A i \in 0 .. size : ~ (i < Len(s)) => Block(s, size)[i] = NUL
<1>1. Len(s) \in Nat BY LenProperties
<1>2. \A i \in 0 .. size : i < Len(s) => s[i + 1] \in Chars
  <2> SUFFICES ASSUME NEW i \in 0 .. size, i < Len(s) PROVE s[i + 1] \in Chars OBVIOUS
  <2>1. i + 1 \in 1 .. Len(s) BY <1>1
  <2> QED BY <2>1, ElementOfSeq
<1> QED BY <1>2, NulIsNoChar DEF Block

(* strlen and count agree on every block that stands.                      *)
LEMMA Reads ==
  ASSUME NEW t, NEW s, Stands(t, s)
  PROVE  /\ Read(t) = s /\ t.count = Len(s) /\ Len(s) \in Nat /\ s \in Seq(Chars)
         /\ t.size \in Nat /\ Len(s) <= t.size
<1>1. s \in Seq(Chars) /\ Len(s) \in Nat BY LenProperties DEF Stands
<1>2. CASE t = NoText /\ s = <<>>
  <2>1. Len(s) = 0 BY <1>2, EmptySeq
  <2> QED BY <1>1, <1>2, <2>1 DEF NoText, Read, IsNull
<1>3. CASE \E room \in Nat : t = Filled(s, room)
  <2>1. PICK room \in Nat : t = Filled(s, room) BY <1>3
  <2> DEFINE size == Len(s) + room
             b == Block(s, size)
  <2>2. size \in Nat /\ Len(s) <= size BY <1>1
  <2> HIDE DEF size
  <2>3. /\ DOMAIN b = 0 .. size
        /\ \A i \in 0 .. size : i < Len(s) => b[i] = s[i + 1] /\ b[i] # NUL
        /\ \A i \in 0 .. size : ~ (i < Len(s)) => b[i] = NUL BY <1>1, <2>2, BlockIs
  <2> HIDE DEF b
  <2>4. t.buf = b /\ t.count = Len(s) /\ t.size = size BY <2>1 DEF Filled, size, b
  <2>5. ~ IsNull(t)
    <3>1. 0 \in DOMAIN b BY <2>2, <2>3
    <3> QED BY <3>1, <2>4 DEF IsNull
  <2>6. strlen(b) = Len(s)
    <3> DEFINE Ends(n) == b[n] = NUL /\ \A i \in 0 .. n - 1 : b[i] # NUL
    <3>1. Len(s) \in DOMAIN b /\ Ends(Len(s)) BY <1>1, <2>2, <2>3
    <3>2. \A n \in DOMAIN b : Ends(n) => n = Len(s)
      <4> SUFFICES ASSUME NEW n \in DOMAIN b, Ends(n) PROVE n = Len(s) OBVIOUS
      <4>1. n \in 0 .. size BY <2>3
      <4>2. ~ (n < Len(s)) BY <2>3, <4>1
      <4>3. ~ (Len(s) < n) BY <1>1, <2>2, <2>3, <4>1
      <4> QED BY <1>1, <4>1, <4>2, <4>3
    <3> HIDE DEF Ends
    <3>3. Len(s) = CHOOSE n \in DOMAIN b : Ends(n) BY <3>1, <3>2
    <3> QED BY <3>3 DEF strlen, Ends
  <2>7. Read(t) = [i \in 1 .. Len(s) |-> b[i - 1]] BY <2>4, <2>5, <2>6 DEF Read
  <2>8. \A i \in 1 .. Len(s) : b[i - 1] = s[i]
    <3> SUFFICES ASSUME NEW i \in 1 .. Len(s) PROVE b[i - 1] = s[i] OBVIOUS
    <3>1. i - 1 \in 0 .. size /\ i - 1 < Len(s) /\ (i - 1) + 1 = i BY <1>1, <2>2
    <3> QED BY <2>3, <3>1
  <2>9. s = [i \in 1 .. Len(s) |-> s[i]] BY <1>1, LenProperties
  <2> QED BY <1>1, <2>2, <2>4, <2>7, <2>8, <2>9
<1> QED BY <1>2, <1>3 DEF Stands
-----------------------------------------------------------------------------
(* Writing.                                                                *)

LEMMA Made ==
  ASSUME NEW s \in Seq(Chars), NEW size \in Nat, Len(s) <= size
  PROVE  Stands([buf |-> Block(s, size), count |-> Len(s), size |-> size], s)
<1>1. Len(s) \in Nat BY LenProperties
<1>2. PICK room \in Nat : room = size - Len(s) BY <1>1
<1>3. Len(s) + room = size BY <1>1, <1>2
<1>4. [buf |-> Block(s, size), count |-> Len(s), size |-> size] = Filled(s, room) BY <1>3 DEF Filled
<1> QED BY <1>4 DEF Stands

LEMMA CopiedStands == ASSUME NEW s \in Seq(Chars) PROVE Stands(Copied(s), s)
<1>1. Len(s) \in Nat BY LenProperties
<1>2. Len(s) + Spare \in Nat /\ Len(s) <= Len(s) + Spare BY <1>1, Numbers
<1> QED BY <1>2, Made DEF Copied

LEMMA FittedStands == ASSUME NEW s \in Seq(Chars) PROVE Stands(Fitted(s), s)
<1>1. Len(s) \in Nat BY LenProperties
<1>2. Len(s) <= Len(s) BY <1>1
<1> QED BY <1>1, <1>2, Made DEF Fitted

(* What inc_slots leaves: the text, zeros, and room for n more.            *)
LEMMA GrownHasRoom ==
  ASSUME NEW t, NEW s, Stands(t, s), NEW n \in Nat
  PROVE  \E size \in Nat : /\ Len(s) + n <= size
                          /\ Grown(t, n) = [buf |-> Block(s, size), count |-> Len(s) + n, size |-> size]
<1>1. s \in Seq(Chars) /\ Len(s) \in Nat BY Reads
<1>2. t.count = Len(s) /\ t.size \in Nat /\ Len(s) <= t.size BY Reads
<1>3. \A i \in 0 .. t.size : i < Len(s) => t.buf[i] = s[i + 1]
  <2>1. CASE t = NoText /\ s = <<>> BY <2>1, <1>1, EmptySeq
  <2>2. CASE \E room \in Nat : t = Filled(s, room) BY <2>2, <1>1, <1>2, BlockIs DEF Filled
  <2> QED BY <2>1, <2>2 DEF Stands
<1>4. CASE t.size <= t.count + n
  <2> DEFINE size == t.count + n + (3 * t.count) \div 2
  <2>1. size \in Nat /\ Len(s) + n <= size BY <1>1, <1>2
  <2>2. Grown(t, n) = [buf |-> [i \in 0 .. size |-> IF i < t.count THEN t.buf[i] ELSE NUL],
                       count |-> t.count + n, size |-> size] BY <1>4 DEF Grown
  <2> HIDE DEF size
  <2>3. \A i \in 0 .. size : i < Len(s) => t.buf[i] = s[i + 1] BY <1>1, <1>2, <1>3
  <2>4. [i \in 0 .. size |-> IF i < t.count THEN t.buf[i] ELSE NUL] = Block(s, size) BY <1>2, <2>3 DEF Block
  <2> QED BY <1>2, <2>1, <2>2, <2>4
<1>5. CASE ~ (t.size <= t.count + n)
  <2>1. t # NoText BY <1>5, <1>1, <1>2 DEF NoText
  <2>2. PICK room \in Nat : t = Filled(s, room) BY <2>1 DEF Stands
  <2> DEFINE size == Len(s) + room
  <2>3. size \in Nat /\ t.size = size /\ t.count = Len(s) /\ t.buf = Block(s, size) BY <1>1, <2>2 DEF Filled
  <2>4. Grown(t, n) = [t EXCEPT !.count = @ + n] BY <1>5 DEF Grown
  <2>5. [t EXCEPT !.count = @ + n] = [buf |-> Block(s, size), count |-> Len(s) + n, size |-> size]
    BY <2>2 DEF Filled
  <2>6. Len(s) + n <= size BY <1>1, <1>2, <1>5, <2>3
  <2> QED BY <2>3, <2>4, <2>5, <2>6
<1> QED BY <1>4, <1>5

LEMMA AppendedStands ==
  ASSUME NEW t, NEW s, Stands(t, s), NEW v \in Seq(Chars)
  PROVE  Stands(Appended(t, v), s \o v)
<1>1. s \in Seq(Chars) /\ Len(s) \in Nat /\ t.count = Len(s) BY Reads
<1>2. Len(v) \in Nat BY LenProperties
<1> DEFINE g == Grown(t, Len(v))
<1>3. PICK size \in Nat : /\ Len(s) + Len(v) <= size
                         /\ g = [buf |-> Block(s, size), count |-> Len(s) + Len(v), size |-> size]
  BY <1>2, GrownHasRoom
<1> DEFINE w == s \o v
<1>4. /\ w \in Seq(Chars) /\ Len(w) = Len(s) + Len(v)
      /\ \A i \in 1 .. Len(s) + Len(v) : w[i] = IF i <= Len(s) THEN s[i] ELSE v[i - Len(s)]
  BY <1>1, ConcatProperties
<1> HIDE DEF w
<1> DEFINE b == [i \in 0 .. size |-> IF t.count <= i /\ i < g.count THEN v[i - t.count + 1] ELSE Block(s, size)[i]]
<1>5. DOMAIN Block(s, size) = 0 .. size BY DEF Block
<1>6. Appended(t, v) = [buf |-> b, count |-> Len(w), size |-> size]
  <2> HIDE DEF g
  <2>1. [i \in DOMAIN g.buf |-> IF t.count <= i /\ i < g.count THEN v[i - t.count + 1] ELSE g.buf[i]] = b
    BY <1>3, <1>5
  <2>2. Appended(t, v) = [g EXCEPT !.buf = b] BY <2>1 DEF Appended, g
  <2> HIDE DEF b
  <2> QED BY <1>3, <1>4, <2>2
<1>7. b = Block(w, size)
  <2> SUFFICES ASSUME NEW i \in 0 .. size PROVE b[i] = Block(w, size)[i] BY DEF Block
  <2>1. CASE i < Len(s)
    <3>1. i + 1 \in 1 .. Len(s) + Len(v) /\ i + 1 <= Len(s) BY <1>1, <1>2, <2>1
    <3>2. b[i] = s[i + 1] BY <1>1, <2>1 DEF Block
    <3>3. Block(w, size)[i] = w[i + 1] BY <1>1, <1>2, <1>4, <2>1 DEF Block
    <3> QED BY <1>4, <3>1, <3>2, <3>3
  <2>2. CASE ~ (i < Len(s)) /\ i < Len(s) + Len(v)
    <3>1. i + 1 \in 1 .. Len(s) + Len(v) /\ ~ (i + 1 <= Len(s)) BY <1>1, <1>2, <2>2
    <3>2. b[i] = v[i - Len(s) + 1] BY <1>1, <1>3, <2>2
    <3>3. Block(w, size)[i] = w[i + 1] BY <1>4, <2>2 DEF Block
    <3>4. w[i + 1] = v[(i + 1) - Len(s)] /\ (i + 1) - Len(s) = i - Len(s) + 1 BY <1>1, <1>4, <3>1
    <3> QED BY <3>2, <3>3, <3>4
  <2>3. CASE ~ (i < Len(s) + Len(v))
    <3>1. ~ (i < Len(s)) BY <1>1, <1>2, <2>3
    <3>2. b[i] = NUL BY <1>3, <2>3, <3>1 DEF Block
    <3>3. Block(w, size)[i] = NUL BY <1>4, <2>3 DEF Block
    <3> QED BY <3>2, <3>3
  <2> QED BY <1>1, <1>2, <2>1, <2>2, <2>3
<1> HIDE DEF b
<1>8. Stands([buf |-> Block(w, size), count |-> Len(w), size |-> size], w) BY <1>3, <1>4, Made
<1> QED BY <1>6, <1>7, <1>8 DEF w

LEMMA AppendedCharStands ==
  ASSUME NEW t, NEW s, Stands(t, s), NEW c \in Chars
  PROVE  Stands(AppendedChar(t, c), Append(s, c))
<1>1. s \in Seq(Chars) /\ Len(s) \in Nat BY Reads
<1> DEFINE g == Grown(t, 1)
<1>2. PICK size \in Nat : /\ Len(s) + 1 <= size
                         /\ g = [buf |-> Block(s, size), count |-> Len(s) + 1, size |-> size]
  BY GrownHasRoom
<1> DEFINE w == Append(s, c)
<1>3. /\ w \in Seq(Chars) /\ Len(w) = Len(s) + 1
      /\ \A i \in 1 .. Len(s) : w[i] = s[i]
      /\ w[Len(s) + 1] = c
  BY <1>1, AppendProperties
<1> HIDE DEF w
<1> DEFINE b == [Block(s, size) EXCEPT ![Len(s) + 1] = NUL, ![Len(s) + 1 - 1] = c]
<1>4. AppendedChar(t, c) = [buf |-> b, count |-> Len(w), size |-> size]
  <2> HIDE DEF g
  <2>1. g.buf = Block(s, size) /\ g.count = Len(s) + 1 BY <1>2
  <2>2. AppendedChar(t, c) = [g EXCEPT !.buf = b] BY <2>1 DEF AppendedChar, g
  <2> HIDE DEF b
  <2> QED BY <1>2, <1>3, <2>2
<1>5. b = Block(w, size)
  <2>1. \A i \in 0 .. size : Block(s, size)[i] = IF i < Len(s) THEN s[i + 1] ELSE NUL BY DEF Block
  <2>2. DOMAIN b = 0 .. size BY DEF Block
  <2>3. Len(s) + 1 - 1 = Len(s) BY <1>1
  <2>4. \A i \in 0 .. size : b[i] = IF i = Len(s) THEN c ELSE IF i = Len(s) + 1 THEN NUL ELSE Block(s, size)[i]
    BY <1>1, <2>3 DEF Block
  <2> SUFFICES ASSUME NEW i \in 0 .. size PROVE b[i] = Block(w, size)[i] 
    <3> HIDE DEF b
    <3>1. b = [i \in 0 .. size |-> b[i]] BY <2>2 DEF b
    <3> QED BY <3>1 DEF Block
  <2> HIDE DEF b
  <2>5. CASE i < Len(s)
    <3>1. i + 1 \in 1 .. Len(s) BY <1>1, <2>5
    <3> QED BY <1>1, <1>3, <2>1, <2>4, <2>5, <3>1 DEF Block
  <2>6. CASE i = Len(s) BY <1>1, <1>3, <2>4, <2>6 DEF Block
  <2>7. CASE Len(s) < i BY <1>1, <1>3, <2>1, <2>4, <2>7 DEF Block
  <2> QED BY <1>1, <2>5, <2>6, <2>7
<1> HIDE DEF b
<1>6. Stands([buf |-> Block(w, size), count |-> Len(w), size |-> size], w) BY <1>2, <1>3, Made
<1> QED BY <1>4, <1>5, <1>6 DEF w

(* s[p] = c                                                                *)
LEMMA PutStands ==
  ASSUME NEW t, NEW s, Stands(t, s), NEW p \in Nat, p < t.count, NEW c \in Chars
  PROVE  Stands([t EXCEPT !.buf = [@ EXCEPT ![p] = c]], [s EXCEPT ![p + 1] = c])
<1>1. s \in Seq(Chars) /\ Len(s) \in Nat /\ t.count = Len(s) BY Reads
<1>2. t # NoText BY <1>1 DEF NoText
<1>3. PICK room \in Nat : t = Filled(s, room) BY <1>2 DEF Stands
<1> PICK size \in Nat : size = Len(s) + room BY <1>1
<1>4. t = [buf |-> Block(s, size), count |-> Len(s), size |-> size] BY <1>3 DEF Filled
<1> DEFINE w == [s EXCEPT ![p + 1] = c]
           b == [Block(s, size) EXCEPT ![p] = c]
<1>5. p + 1 \in 1 .. Len(s) BY <1>1
<1>6. /\ w \in Seq(Chars) /\ Len(w) = Len(s)
      /\ \A j \in 1 .. Len(s) : w[j] = IF j = p + 1 THEN c ELSE s[j]
  BY <1>1, <1>5, ExceptSeq
<1> HIDE DEF w
<1>7. [t EXCEPT !.buf = [@ EXCEPT ![p] = c]] = [buf |-> b, count |-> Len(w), size |-> size]
  <2>1. [t.buf EXCEPT ![p] = c] = b BY <1>4
  <2>2. [t EXCEPT !.buf = [@ EXCEPT ![p] = c]] = [t EXCEPT !.buf = b] BY <2>1
  <2> HIDE DEF b
  <2> QED BY <1>4, <1>6, <2>2
<1>8. b = Block(w, size)
  <2> SUFFICES ASSUME NEW i \in 0 .. size PROVE b[i] = Block(w, size)[i] BY DEF Block
  <2>1. CASE i < Len(s)
    <3>1. i + 1 \in 1 .. Len(s) /\ (i + 1 = p + 1 <=> i = p) BY <1>1, <2>1
    <3> QED BY <1>1, <1>6, <2>1, <3>1 DEF Block
  <2>2. CASE ~ (i < Len(s))
    <3>1. i # p BY <1>1, <2>2
    <3> QED BY <1>6, <2>2, <3>1 DEF Block
  <2> QED BY <2>1, <2>2
<1> HIDE DEF b
<1>9. Stands([buf |-> Block(w, size), count |-> Len(w), size |-> size], w) BY <1>1, <1>6, Made
<1> QED BY <1>7, <1>8, <1>9 DEF w
-----------------------------------------------------------------------------
(* What recursion defines.  Each of the recursions of Texts starts at one  *)
(* end of an interval, or goes to a place further on.                      *)

LEMMA Least == ASSUME NEW S \in SUBSET Nat, S # {} PROVE \E m \in S : \A k \in S : m <= k
<1> DEFINE R == {r \in Nat \X Nat : r[1] < r[2]}
<1>1. IsWellFoundedOn(R, Nat) BY NatLessThanWellFounded DEF OpToRel
<1> HIDE DEF R
<1>2. PICK m \in S : \A k \in S : ~ (<<k, m>> \in R) BY <1>1, WFMin
<1>3. \A k \in S : ~ (k < m) BY <1>2 DEF R
<1> QED BY <1>3

Steps(f, n, b, g) == f = [i \in 0 .. n |-> IF i = 0 THEN b ELSE g[i][f[i - 1]]]

LEMMA StepsExist ==
  ASSUME NEW n \in Nat, NEW X, NEW b \in X, NEW g \in [1 .. n -> [X -> X]]
  PROVE  \E f \in [0 .. n -> X] : Steps(f, n, b, g)
<1> USE DEF Steps
<1> DEFINE Defined(m) == \E f \in [0 .. m -> X] : f = [i \in 0 .. m |-> IF i = 0 THEN b ELSE g[i][f[i - 1]]]
           S == {m \in 0 .. n : ~ Defined(m)}
<1> SUFFICES ASSUME S # {} PROVE FALSE
  <2> HIDE DEF Defined
  <2>1. n \in 0 .. n OBVIOUS
  <2>2. S = {} => Defined(n) BY <2>1
  <2> QED BY <2>2 DEF Defined
<1>1. S \in SUBSET Nat OBVIOUS
<1>2. PICK m \in S : \A k \in S : m <= k BY <1>1, Least
<1>3. CASE m = 0
  <2> DEFINE d == [i \in 0 .. 0 |-> b]
  <2>1. d \in [0 .. 0 -> X] OBVIOUS
  <2>2. \A i \in 0 .. 0 : (IF i = 0 THEN b ELSE g[i][d[i - 1]]) = b OBVIOUS
  <2>3. d = [i \in 0 .. 0 |-> IF i = 0 THEN b ELSE g[i][d[i - 1]]] BY <2>2
  <2> HIDE DEF d
  <2>4. Defined(0) BY <2>1, <2>3
  <2> HIDE DEF Defined
  <2> QED BY <1>3, <2>4
<1>4. CASE m # 0
  <2>1. m - 1 \in 0 .. n /\ ~ (m <= m - 1) BY <1>4
  <2>2. Defined(m - 1)
    <3> HIDE DEF Defined
    <3> QED BY <1>2, <2>1
  <2>3. PICK c \in [0 .. m - 1 -> X] : c = [i \in 0 .. m - 1 |-> IF i = 0 THEN b ELSE g[i][c[i - 1]]] BY <2>2
  <2> DEFINE d == [i \in 0 .. m |-> IF i < m THEN c[i] ELSE g[m][c[m - 1]]]
  <2>4. c[m - 1] \in X /\ g[m] \in [X -> X] BY <1>4
  <2>5. d \in [0 .. m -> X] BY <2>4
  <2>6. \A i \in 0 .. m : d[i] = IF i = 0 THEN b ELSE g[i][d[i - 1]]
    <3> SUFFICES ASSUME NEW i \in 0 .. m PROVE d[i] = IF i = 0 THEN b ELSE g[i][d[i - 1]] OBVIOUS
    <3>1. CASE i = 0
      <4>1. i < m /\ i \in 0 .. m - 1 BY <1>4, <3>1
      <4>2. c[i] = b BY Zenon, <2>3, <3>1, <4>1
      <4> QED BY <3>1, <4>1, <4>2
    <3>2. CASE i # 0 /\ i < m
      <4>1. i \in 0 .. m - 1 /\ i - 1 \in 0 .. m /\ i - 1 < m BY <3>2
      <4>2. c[i] = g[i][c[i - 1]] BY Zenon, <2>3, <3>2, <4>1
      <4>3. d[i] = c[i] /\ d[i - 1] = c[i - 1] BY <3>2, <4>1
      <4> QED BY <3>2, <4>2, <4>3
    <3>3. CASE i = m
      <4>1. i - 1 \in 0 .. m /\ i - 1 < m /\ i # 0 /\ ~ (i < m) BY <1>4, <3>3
      <4>2. d[i] = g[m][c[m - 1]] /\ d[i - 1] = c[i - 1] BY <4>1
      <4> QED BY <3>3, <4>1, <4>2
    <3> QED BY <3>1, <3>2, <3>3
  <2>7. d = [i \in 0 .. m |-> d[i]] OBVIOUS
  <2> HIDE DEF d
  <2>8. d = [i \in 0 .. m |-> IF i = 0 THEN b ELSE g[i][d[i - 1]]] BY <2>6, <2>7
  <2>9. Defined(m) BY <2>5, <2>8
  <2> HIDE DEF Defined
  <2> QED BY <1>2, <2>9
<1> QED BY <1>3, <1>4

Joins(f, a, b, stop, result, prefix, next) ==
  f = [i \in a .. b |-> IF stop[i] THEN result[i] ELSE prefix[i] \o f[next[i]]]

LEMMA JoinsExist ==
  ASSUME NEW a \in Nat, NEW b \in Nat, a <= b, NEW stop, NEW result, NEW prefix, NEW next,
         \A i \in a .. b : ~ stop[i] => next[i] \in i + 1 .. b
  PROVE  \E f : Joins(f, a, b, stop, result, prefix, next)
<1> USE DEF Joins
<1> DEFINE Row(f, i) == IF stop[i] THEN result[i] ELSE prefix[i] \o f[next[i]]
           Defined(m) == \E f : f = [i \in b - m .. b |-> Row(f, i)]
           S == {m \in 0 .. b - a : ~ Defined(m)}
<1>0. 0 .. b - a \subseteq Nat OBVIOUS
<1> SUFFICES ASSUME S # {} PROVE FALSE
  <2>1. b - a \in 0 .. b - a /\ b - (b - a) = a OBVIOUS
  <2>2. S = {} => Defined(b - a)
    <3> HIDE DEF Defined
    <3> QED BY <2>1
  <2>3. Defined(b - a) => \E f : f = [i \in a .. b |-> Row(f, i)]
    <3> HIDE DEF Row
    <3> QED BY <2>1
  <2> HIDE DEF S, Defined
  <2> QED BY <2>2, <2>3
<1>1. S \in SUBSET Nat
  <2> HIDE DEF Defined
  <2> QED BY <1>0
<1>2. PICK m \in S : \A k \in S : m <= k BY <1>1, Least
<1>3. PICK c : \A i \in b - m + 1 .. b : c[i] = Row(c, i)
  <2>1. CASE m = 0 BY <2>1
  <2>2. CASE m # 0
    <3>1. m - 1 \in 0 .. b - a /\ ~ (m <= m - 1) /\ b - (m - 1) = b - m + 1 BY <2>2
    <3>2. Defined(m - 1)
      <4> HIDE DEF Defined
      <4> QED BY <1>2, <3>1
    <3>3. PICK f : f = [i \in b - (m - 1) .. b |-> Row(f, i)] BY <3>2
    <3> HIDE DEF Row
    <3>4. \A i \in b - m + 1 .. b : f[i] = Row(f, i) BY <3>1, <3>3
    <3> QED BY <3>4
  <2> QED BY <2>1, <2>2
<1> DEFINE d == [i \in b - m .. b |-> IF b - m < i THEN c[i] ELSE Row(c, b - m)]
<1>4. \A i \in b - m .. b : d[i] = Row(c, i)
  <2> TAKE i \in b - m .. b
  <2> HIDE DEF Row
  <2>1. CASE b - m < i
    <3>1. i \in b - m + 1 .. b BY <2>1
    <3> QED BY <1>3, <2>1, <3>1
  <2>2. CASE i = b - m BY <2>2
  <2> QED BY <2>1, <2>2
<1>5. \A i \in b - m .. b : ~ stop[i] => d[next[i]] = c[next[i]]
  <2> TAKE i \in b - m .. b
  <2> HAVE ~ stop[i]
  <2>1. PICK v : v = next[i] OBVIOUS
  <2>2. i \in a .. b OBVIOUS
  <2>3. v \in i + 1 .. b BY <2>1, <2>2
  <2>4. v \in b - m .. b /\ b - m < v BY <2>3
  <2>5. d[v] = c[v] BY <2>4
  <2> HIDE DEF d
  <2> QED BY <2>1, <2>5
<1>6. \A i \in b - m .. b : Row(d, i) = Row(c, i)
  <2> HIDE DEF d
  <2> QED BY Zenon, <1>5
<1>7. d = [i \in b - m .. b |-> d[i]] OBVIOUS
<1>8. d = [i \in b - m .. b |-> Row(d, i)]
  <2> HIDE DEF d, Row
  <2> QED BY <1>4, <1>6, <1>7
<1>9. Defined(m)
  <2> HIDE DEF d, Row
  <2> QED BY <1>8
<1> QED
  <2> HIDE DEF Defined
  <2> QED BY <1>2, <1>9

LEMMA JoinsTyped ==
  ASSUME NEW a \in Nat, NEW b \in Nat, NEW stop, NEW result, NEW prefix, NEW next, NEW X,
         \A i \in a .. b : ~ stop[i] => next[i] \in i + 1 .. b /\ prefix[i] \in Seq(X),
         \A i \in a .. b : stop[i] => result[i] \in Seq(X),
         NEW f, Joins(f, a, b, stop, result, prefix, next)
  PROVE  \A i \in a .. b : f[i] \in Seq(X)
<1> DEFINE S == {m \in 0 .. b - a : f[b - m] \notin Seq(X)}
<1> SUFFICES ASSUME NEW j \in a .. b, f[j] \notin Seq(X) PROVE FALSE OBVIOUS
<1>1. b - j \in 0 .. b - a /\ b - (b - j) = j OBVIOUS
<1>2. S \in SUBSET Nat /\ S # {}
  <2>1. 0 .. b - a \subseteq Nat OBVIOUS
  <2>2. f[b - (b - j)] \notin Seq(X) BY <1>1
  <2>3. b - j \in S BY <1>1, <2>2
  <2> QED BY <2>1, <2>3
<1>3. PICK m \in S : \A k \in S : m <= k BY <1>2, Least
<1> DEFINE i == b - m
<1>4. i \in a .. b OBVIOUS
<1>5. f[i] = IF stop[i] THEN result[i] ELSE prefix[i] \o f[next[i]]
  <2> HIDE DEF i
  <2> QED BY Zenon, <1>4 DEF Joins
<1>6. CASE stop[i] BY <1>4, <1>5, <1>6
<1>7. CASE ~ stop[i]
  <2>1. PICK v : v = next[i] OBVIOUS
  <2>2. v \in i + 1 .. b /\ prefix[i] \in Seq(X)
    <3> HIDE DEF i
    <3> QED BY <1>4, <1>7, <2>1
  <2>3. b - v \in 0 .. b - a /\ b - (b - v) = v /\ ~ (m <= b - v) BY <2>2
  <2>4. f[v] \in Seq(X) BY <1>3, <2>3
  <2>5. prefix[i] \o f[v] \in Seq(X) BY <2>2, <2>4, ConcatProperties
  <2>6. f[i] = prefix[i] \o f[v]
    <3> HIDE DEF i
    <3> QED BY <1>5, <1>7, <2>1
  <2> QED BY <1>3, <2>5, <2>6
<1> QED BY <1>6, <1>7
-----------------------------------------------------------------------------
(* Unescaping.                                                             *)

(* What the text at place i gives, and where it goes on.                   *)
Given(s, i) ==
  IF s[i] = Escape /\ i < Len(s)
    THEN IF s[i + 1] \in DOMAIN Escaped THEN <<Escaped[s[i + 1]]>> ELSE <<>>
    ELSE <<s[i]>>
Past(s, i) == IF s[i] = Escape /\ i < Len(s) THEN i + 2 ELSE i + 1

LEMMA GivenIsText == ASSUME NEW s \in Seq(Chars), NEW i \in 1 .. Len(s) PROVE Given(s, i) \in Seq(Chars)
<1>1. s[i] \in Chars BY ElementOfSeq
<1>2. <<>> \in Seq(Chars) BY EmptySeq
<1>3. \A c \in DOMAIN Escaped : Escaped[c] \in Chars BY DEF Escaped, Escape, Chars
<1>4. \A c \in Chars : <<c>> \in Seq(Chars) OBVIOUS
<1> HIDE DEF Chars
<1> QED BY <1>1, <1>2, <1>3, <1>4 DEF Given

LEMMA UnescapedIsText == ASSUME NEW s \in Seq(Chars) PROVE Unescaped(s) \in Seq(Chars)
<1>1. Len(s) \in Nat BY LenProperties
<1> DEFINE b == Len(s) + 2
           stop == [i \in 1 .. b |-> i > Len(s)]
           result == [i \in 1 .. b |-> <<>>]
           prefix == [i \in 1 .. b |-> Given(s, i)]
           next == [i \in 1 .. b |-> Past(s, i)]
           Row(f, i) == IF i > Len(s) THEN <<>>
                        ELSE IF s[i] = Escape /\ i < Len(s)
                          THEN (IF s[i + 1] \in DOMAIN Escaped THEN <<Escaped[s[i + 1]]>> ELSE <<>>) \o f[i + 2]
                        ELSE <<s[i]>> \o f[i + 1]
           from == CHOOSE f : f = [i \in 1 .. b |-> Row(f, i)]
<1>2. \A i \in 1 .. b : ~ stop[i] => next[i] \in i + 1 .. b /\ prefix[i] \in Seq(Chars)
  <2> SUFFICES ASSUME NEW i \in 1 .. b, ~ stop[i] PROVE next[i] \in i + 1 .. b /\ prefix[i] \in Seq(Chars) OBVIOUS
  <2>0. stop[i] = (i > Len(s)) OBVIOUS
  <2>1. ~ (i > Len(s)) /\ i \in Nat /\ 1 <= i
    <3> HIDE DEF stop, result, prefix, next, from
    <3>1. ~ (i > Len(s)) BY Zenon, <2>0
    <3>2. i \in Nat /\ 1 <= i BY <1>1
    <3> QED BY <3>1, <3>2
  <2>2. next[i] = Past(s, i) /\ prefix[i] = Given(s, i) OBVIOUS
  <2> HIDE DEF stop, result, prefix, next, b, from
  <2>3. i \in 1 .. Len(s) BY <1>1, <2>1
  <2>4. Past(s, i) \in i + 1 .. b BY <1>1, <2>3 DEF Past, b
  <2> QED BY <2>2, <2>3, <2>4, GivenIsText
<1>3. \A i \in 1 .. b : stop[i] => result[i] \in Seq(Chars) BY EmptySeq
<1>4. b \in Nat /\ 1 <= b /\ 1 \in Nat BY <1>1
<1>5. \A f : \A i \in 1 .. b : Row(f, i) = IF stop[i] THEN result[i] ELSE prefix[i] \o f[next[i]]
  BY Zenon DEF Given, Past
<1> HIDE DEF b, stop, result, prefix, next
<1>6. \E f : Joins(f, 1, b, stop, result, prefix, next) BY <1>2, <1>4, JoinsExist
<1>7. \A f : Joins(f, 1, b, stop, result, prefix, next) <=> f = [i \in 1 .. b |-> Row(f, i)]
  <2> HIDE DEF Row
  <2> QED BY <1>5 DEF Joins
<1>8. Joins(from, 1, b, stop, result, prefix, next)
  <2> HIDE DEF Row
  <2> QED BY Zenon, <1>6, <1>7
<1> HIDE DEF from
<1>9. \A i \in 1 .. b : from[i] \in Seq(Chars) BY <1>2, <1>3, <1>4, <1>8, JoinsTyped
<1>10. from[1] \in Seq(Chars) BY <1>4, <1>9
<1>11. Unescaped(s) = from[1] BY Zenon DEF Unescaped, from, b
<1> QED BY <1>10, <1>11

(* A StringScriptObject holds what it was given, unescaped.                *)
LEMMA HeldStands == ASSUME NEW s \in Seq(Chars) PROVE Stands(Held(s), Unescaped(s))
<1> DEFINE u == Unescaped(s)
           n == Len(u)
<1>1. u \in Seq(Chars) /\ n \in Nat BY UnescapedIsText, LenProperties
<1> HIDE DEF u
<1>2. \A i \in 1 .. n : u[i] \in Chars BY <1>1, ElementOfSeq
<1> DEFINE g == [i \in 1 .. n |-> [t \in Blocks |-> AppendedChar(t, u[i])]]
           Row(f, i) == IF i = 0 THEN NoText ELSE AppendedChar(f[i - 1], u[i])
           grow == CHOOSE f : f = [i \in 0 .. n |-> Row(f, i)]
<1>3. g \in [1 .. n -> [Blocks -> Blocks]]
  <2> SUFFICES ASSUME NEW i \in 1 .. n, NEW t \in Blocks PROVE AppendedChar(t, u[i]) \in Blocks OBVIOUS
  <2>1. PICK v : Stands(t, v) BY BlocksStand
  <2>2. u[i] \in Chars BY <1>2
  <2>3. Stands(AppendedChar(t, u[i]), Append(v, u[i])) BY <2>1, <2>2, AppendedCharStands
  <2> QED BY <2>3, BlocksStand
<1>4. NoText \in Blocks BY DEF Blocks
<1>5. PICK h \in [0 .. n -> Blocks] : Steps(h, n, NoText, g)
  <2> HIDE DEF g, n
  <2> QED BY <1>1, <1>3, <1>4, StepsExist
<1>6. h = [i \in 0 .. n |-> Row(h, i)]
  <2>1. h = [i \in 0 .. n |-> IF i = 0 THEN NoText ELSE g[i][h[i - 1]]] BY Zenon, <1>5 DEF Steps
  <2>2. \A i \in 0 .. n : i # 0 => i \in 1 .. n /\ h[i - 1] \in Blocks BY <1>1
  <2>3. \A i \in 0 .. n : (IF i = 0 THEN NoText ELSE g[i][h[i - 1]]) = Row(h, i) BY Zenon, <2>2
  <2> HIDE DEF g, Row
  <2> QED BY <2>1, <2>3
<1>7. grow = [i \in 0 .. n |-> Row(grow, i)]
  <2> HIDE DEF Row
  <2> QED BY Zenon, <1>6
<1> HIDE DEF grow
<1> DEFINE Right(i) == Stands(grow[i], SubSeq(u, 1, i))
           S == {i \in 0 .. n : ~ Right(i)}
<1>8. S = {}
  <2> SUFFICES ASSUME S # {} PROVE FALSE OBVIOUS
  <2>1. S \in SUBSET Nat OBVIOUS
  <2>2. PICK i \in S : \A k \in S : i <= k BY <2>1, Least
  <2>3. CASE i = 0
    <3>1. grow[0] = NoText BY <1>1, <1>7
    <3>2. SubSeq(u, 1, 0) = <<>> BY SubSeqEmpty
    <3>3. Right(0) BY <3>1, <3>2, EmptySeq DEF Stands
    <3> HIDE DEF Right
    <3> QED BY <2>2, <2>3, <3>3
  <2>4. CASE i # 0
    <3>1. i - 1 \in 0 .. n /\ ~ (i <= i - 1) /\ i \in 1 .. n BY <1>1, <2>4
    <3>2. Right(i - 1)
      <4> HIDE DEF Right
      <4> QED BY <2>2, <3>1
    <3>3. grow[i] = AppendedChar(grow[i - 1], u[i]) BY <1>7, <2>4
    <3>4. Stands(grow[i], Append(SubSeq(u, 1, i - 1), u[i])) BY <1>2, <3>1, <3>2, <3>3, AppendedCharStands
    <3>5. SubSeq(u, 1, i) = SubSeq(u, 1, i - 1) \o <<u[i]>> BY <1>1, <3>1, SubSeqRecursiveSecond
    <3>6. SubSeq(u, 1, i - 1) \in Seq(Chars) BY <1>1, <1>2, <3>1, SubSeqProperties
    <3>7. Append(SubSeq(u, 1, i - 1), u[i]) = SubSeq(u, 1, i - 1) \o <<u[i]>> BY <1>2, <3>1, <3>6, AppendIsConcat
    <3>8. Right(i) BY <3>4, <3>5, <3>7
    <3> HIDE DEF Right
    <3> QED BY <2>2, <3>8
  <2> QED BY <2>3, <2>4
<1>9. n \in 0 .. n BY <1>1
<1>10. Right(n)
  <2> HIDE DEF Right
  <2> QED BY <1>8, <1>9
<1>11. SubSeq(u, 1, n) = u BY <1>1, SubSeqFull
<1>12. Held(s) = grow[n] BY Zenon DEF Held, grow, n, u
<1> QED BY <1>10, <1>11, <1>12 DEF u
-----------------------------------------------------------------------------
(* Cutting and searching.                                                  *)

LEMMA Cut ==
  ASSUME NEW s \in Seq(Chars), NEW i \in Nat, NEW j \in Nat, i <= j, j <= Len(s)
  PROVE  /\ SubSeq(s, i + 1, j) \in Seq(Chars)
         /\ Len(SubSeq(s, i + 1, j)) = j - i
         /\ \A x \in 1 .. j - i : SubSeq(s, i + 1, j)[x] = s[i + x]
<1>1. Len(s) \in Nat BY LenProperties
<1>2. \A x \in i + 1 .. j : s[x] \in Chars
  <2>1. \A x \in i + 1 .. j : x \in 1 .. Len(s) BY <1>1
  <2> QED BY <2>1, ElementOfSeq
<1>3. /\ SubSeq(s, i + 1, j) \in Seq(Chars)
      /\ Len(SubSeq(s, i + 1, j)) = IF i + 1 <= j THEN j - (i + 1) + 1 ELSE 0
      /\ \A x \in 1 .. j - (i + 1) + 1 : SubSeq(s, i + 1, j)[x] = s[i + 1 + x - 1] BY <1>2, SubSeqProperties
<1>4. j - (i + 1) + 1 = j - i /\ \A x \in Int : i + 1 + x - 1 = i + x OBVIOUS
<1>5. (IF i + 1 <= j THEN j - i ELSE 0) = j - i OBVIOUS
<1> QED BY <1>3, <1>4, <1>5

LEMMA Associates ==
  ASSUME NEW A, NEW u \in Seq(A), NEW v \in Seq(A), NEW w \in Seq(A)
  PROVE  (u \o v) \o w = u \o (v \o w)
BY ConcatAssociative

LEMMA TextsAssociate ==
  \A u, v, w \in Seq(Chars) : (u \o v) \o w = u \o (v \o w)
BY Associates

LEMMA PartsAssociate ==
  \A u, v, w \in Seq(Seq(Chars)) : (u \o v) \o w = u \o (v \o w)
<1> DEFINE Any == Seq(Chars)
<1> HIDE DEF Any
<1>1. \A u, v, w \in Seq(Any) : (u \o v) \o w = u \o (v \o w) BY Associates
<1> QED BY Zenon, <1>1 DEF Any

(* What is left of s, behind what has been made of it.                     *)
Rest(pre, s, k) == pre \o SubSeq(s, k + 1, Len(s))

LEMMA RestIs ==
  ASSUME NEW s \in Seq(Chars), NEW pre \in Seq(Chars), NEW k \in Nat, k <= Len(s)
  PROVE  /\ Rest(pre, s, k) \in Seq(Chars) /\ Len(Rest(pre, s, k)) = Len(pre) + (Len(s) - k)
         /\ Len(pre) \in Nat /\ Len(s) \in Nat
         /\ \A x \in 1 .. Len(pre) : Rest(pre, s, k)[x] = pre[x]
         /\ \A x \in 1 .. Len(s) - k : Rest(pre, s, k)[Len(pre) + x] = s[k + x]
<1>1. Len(s) \in Nat /\ Len(pre) \in Nat BY LenProperties
<1> DEFINE r == SubSeq(s, k + 1, Len(s))
<1>2. r \in Seq(Chars) /\ Len(r) = Len(s) - k /\ \A x \in 1 .. Len(s) - k : r[x] = s[k + x]
  BY <1>1, Cut
<1> HIDE DEF r
<1>3. /\ pre \o r \in Seq(Chars) /\ Len(pre \o r) = Len(pre) + Len(r)
      /\ \A x \in 1 .. Len(pre) + Len(r) : (pre \o r)[x] = IF x <= Len(pre) THEN pre[x] ELSE r[x - Len(pre)]
  BY <1>2, ConcatProperties
<1>4. \A x \in 1 .. Len(pre) : (pre \o r)[x] = pre[x] BY <1>1, <1>2, <1>3
<1>5. \A x \in 1 .. Len(s) - k : (pre \o r)[Len(pre) + x] = s[k + x]
  <2> SUFFICES ASSUME NEW x \in 1 .. Len(s) - k PROVE (pre \o r)[Len(pre) + x] = s[k + x] OBVIOUS
  <2>1. Len(pre) + x \in 1 .. Len(pre) + Len(r) /\ ~ (Len(pre) + x <= Len(pre)) /\ Len(pre) + x - Len(pre) = x
    BY <1>1, <1>2
  <2> QED BY <1>2, <1>3, <2>1
<1> QED BY <1>1, <1>2, <1>3, <1>4, <1>5 DEF Rest, r

LEMMA Found ==
  ASSUME NEW s \in Seq(Chars), NEW d \in Seq(Chars), NEW i \in Nat
  PROVE  \/ strstr(s, d, i) = Nowhere /\ \A j \in i .. Len(s) : ~ Occurs(d, s, j)
         \/ /\ strstr(s, d, i) \in i .. Len(s) /\ strstr(s, d, i) # Nowhere
            /\ Occurs(d, s, strstr(s, d, i))
            /\ \A j \in i .. Len(s) : Occurs(d, s, j) => strstr(s, d, i) <= j
<1>1. Len(s) \in Nat BY LenProperties
<1> DEFINE S == {j \in i .. Len(s) : Occurs(d, s, j)}
<1>2. strstr(s, d, i) = FirstOf(S) BY DEF strstr
<1>3. CASE S = {}
  <2>1. \A j \in i .. Len(s) : ~ Occurs(d, s, j) BY <1>3
  <2> QED BY <1>2, <1>3, <2>1 DEF FirstOf
<1>4. CASE S # {}
  <2>1. S \in SUBSET Nat BY <1>1
  <2>2. \E m \in S : \A k \in S : m <= k BY <1>4, <2>1, Least
  <2> DEFINE m == CHOOSE j \in S : \A k \in S : j <= k
  <2>3. m \in S /\ \A k \in S : m <= k
    <3> HIDE DEF S
    <3> QED BY <2>2
  <2>4. strstr(s, d, i) = m
    <3> HIDE DEF S
    <3> QED BY <1>2, <1>4 DEF FirstOf
  <2> HIDE DEF m
  <2> QED BY <1>1, <2>3, <2>4 DEF Nowhere
<1> QED BY <1>3, <1>4

(* What is not empty fits only before the end.                             *)
LEMMA OccursBefore ==
  ASSUME NEW s \in Seq(Chars), NEW d \in Seq(Chars), d # <<>>, NEW j \in Nat, Occurs(d, s, j)
  PROVE  /\ Len(d) \in Nat /\ 0 < Len(d) /\ Len(s) \in Nat
         /\ j + Len(d) \in Nat /\ j + Len(d) <= Len(s) /\ j < Len(s)
<1>1. Len(s) \in Nat /\ Len(d) \in Nat \ {0} BY LenProperties, EmptySeq
<1> QED BY <1>1 DEF Occurs

(* Behind what has been made the text goes on as it was, and so does the   *)
(* search in it.                                                           *)
LEMMA OccursBehind ==
  ASSUME NEW s \in Seq(Chars), NEW d \in Seq(Chars), NEW pre \in Seq(Chars), NEW k \in Nat, k <= Len(s),
         NEW j \in Nat
  PROVE  Occurs(d, Rest(pre, s, k), Len(pre) + j) <=> Occurs(d, s, k + j)
<1> DEFINE v == Rest(pre, s, k)
<1>1. /\ v \in Seq(Chars) /\ Len(v) = Len(pre) + (Len(s) - k) /\ Len(pre) \in Nat /\ Len(s) \in Nat
      /\ \A x \in 1 .. Len(s) - k : v[Len(pre) + x] = s[k + x] BY RestIs
<1>2. Len(d) \in Nat BY LenProperties
<1> HIDE DEF v
<1>3. Len(pre) + j + Len(d) <= Len(v) <=> k + j + Len(d) <= Len(s) BY <1>1, <1>2
<1>4. ASSUME k + j + Len(d) <= Len(s)
      PROVE  SubSeq(v, Len(pre) + j + 1, Len(pre) + j + Len(d)) = SubSeq(s, k + j + 1, k + j + Len(d))
  <2> DEFINE p == Len(pre) + j
             q == k + j
             a == SubSeq(v, p + 1, p + Len(d))
             b == SubSeq(s, q + 1, q + Len(d))
  <2>1. p \in Nat /\ p + Len(d) \in Nat /\ p <= p + Len(d) /\ p + Len(d) <= Len(v) /\ p + Len(d) - p = Len(d)
    BY <1>1, <1>2, <1>3, <1>4
  <2>2. q \in Nat /\ q + Len(d) \in Nat /\ q <= q + Len(d) /\ q + Len(d) <= Len(s) /\ q + Len(d) - q = Len(d)
    BY <1>1, <1>2, <1>4
  <2>3. \A x \in 1 .. Len(d) : v[p + x] = s[q + x]
    <3> SUFFICES ASSUME NEW x \in 1 .. Len(d) PROVE v[p + x] = s[q + x] OBVIOUS
    <3>1. j + x \in 1 .. Len(s) - k BY <1>1, <1>2, <1>4
    <3>2. v[Len(pre) + (j + x)] = s[k + (j + x)] BY <1>1, <3>1
    <3>3. Len(pre) + (j + x) = p + x /\ k + (j + x) = q + x BY <1>1
    <3> HIDE DEF p, q
    <3> QED BY <3>2, <3>3
  <2> HIDE DEF p, q
  <2>4. a \in Seq(Chars) /\ Len(a) = Len(d) /\ \A x \in 1 .. Len(d) : a[x] = v[p + x] BY <1>1, <2>1, Cut
  <2>5. b \in Seq(Chars) /\ Len(b) = Len(d) /\ \A x \in 1 .. Len(d) : b[x] = s[q + x] BY <1>1, <2>2, Cut
  <2> HIDE DEF a, b
  <2>6. a = b BY <2>3, <2>4, <2>5, SeqEqual
  <2> QED BY <2>6 DEF a, b, p, q
<1> QED BY <1>3, <1>4 DEF Occurs, v

LEMMA FoundBehind ==
  ASSUME NEW s \in Seq(Chars), NEW d \in Seq(Chars), NEW pre \in Seq(Chars), NEW k \in Nat, k <= Len(s)
  PROVE  LET v == Rest(pre, s, k) IN
         /\ strstr(v, d, Len(pre)) = Nowhere <=> strstr(s, d, k) = Nowhere
         /\ strstr(s, d, k) # Nowhere => strstr(v, d, Len(pre)) = Len(pre) + (strstr(s, d, k) - k)
<1> DEFINE v == Rest(pre, s, k)
           a == strstr(v, d, Len(pre))
           b == strstr(s, d, k)
<1>1. v \in Seq(Chars) /\ Len(v) = Len(pre) + (Len(s) - k) /\ Len(pre) \in Nat /\ Len(s) \in Nat BY RestIs
<1>2. \A j \in Nat : Occurs(d, v, Len(pre) + j) <=> Occurs(d, s, k + j) BY OccursBehind
<1> HIDE DEF v
<1>3. \/ a = Nowhere /\ \A j \in Len(pre) .. Len(v) : ~ Occurs(d, v, j)
      \/ /\ a \in Len(pre) .. Len(v) /\ a # Nowhere /\ Occurs(d, v, a)
         /\ \A j \in Len(pre) .. Len(v) : Occurs(d, v, j) => a <= j BY <1>1, Found
<1>4. \/ b = Nowhere /\ \A j \in k .. Len(s) : ~ Occurs(d, s, j)
      \/ /\ b \in k .. Len(s) /\ b # Nowhere /\ Occurs(d, s, b)
         /\ \A j \in k .. Len(s) : Occurs(d, s, j) => b <= j BY <1>1, Found
<1> HIDE DEF a, b
<1>5. ASSUME b # Nowhere
      PROVE  /\ Len(pre) + (b - k) \in Len(pre) .. Len(v) /\ Occurs(d, v, Len(pre) + (b - k))
  <2>1. b \in k .. Len(s) /\ Occurs(d, s, b) BY <1>4, <1>5
  <2>2. b - k \in Nat /\ k + (b - k) = b BY <1>1, <2>1
  <2>3. Occurs(d, v, Len(pre) + (b - k)) BY <1>2, <2>1, <2>2
  <2> QED BY <1>1, <2>1, <2>3
<1>6. ASSUME a # Nowhere
      PROVE  /\ k + (a - Len(pre)) \in k .. Len(s) /\ Occurs(d, s, k + (a - Len(pre)))
  <2>1. a \in Len(pre) .. Len(v) /\ Occurs(d, v, a) BY <1>3, <1>6
  <2>2. a - Len(pre) \in Nat /\ Len(pre) + (a - Len(pre)) = a BY <1>1, <2>1
  <2>3. Occurs(d, s, k + (a - Len(pre))) BY <1>2, <2>1, <2>2
  <2> QED BY <1>1, <2>1, <2>3
<1>7. a = Nowhere <=> b = Nowhere BY <1>3, <1>4, <1>5, <1>6
<1>8. ASSUME b # Nowhere PROVE a = Len(pre) + (b - k)
  <2>1. a \in Len(pre) .. Len(v) /\ b \in k .. Len(s) BY <1>3, <1>4, <1>7, <1>8
  <2>2. a <= Len(pre) + (b - k) BY <1>3, <1>5, <1>7, <1>8
  <2>3. b <= k + (a - Len(pre)) BY <1>4, <1>6, <1>7, <1>8
  <2>4. a \in Int /\ b \in Int /\ Len(pre) \in Int BY <1>1, <2>1
  <2> QED BY <2>2, <2>3, <2>4
<1> QED BY <1>7, <1>8 DEF a, b, v

(* Where the search goes on.                                               *)
LEMMA FoundBefore ==
  ASSUME NEW s \in Seq(Chars), NEW d \in Seq(Chars), d # <<>>, NEW i \in Nat, strstr(s, d, i) # Nowhere
  PROVE  /\ strstr(s, d, i) \in Nat /\ i <= strstr(s, d, i)
         /\ strstr(s, d, i) + Len(d) \in i + 1 .. Len(s) /\ strstr(s, d, i) + Len(d) \in Nat
<1> DEFINE at == strstr(s, d, i)
<1>1. at \in i .. Len(s) /\ Occurs(d, s, at) BY Found
<1>2. Len(s) \in Nat BY LenProperties
<1> HIDE DEF at
<1>3. at \in Nat /\ i <= at BY <1>1, <1>2
<1>4. /\ Len(d) \in Nat /\ 0 < Len(d) /\ at + Len(d) <= Len(s) BY <1>1, <1>3, OccursBefore
<1> QED BY <1>2, <1>3, <1>4 DEF at

LEMMA NoneAtEnd ==
  ASSUME NEW s \in Seq(Chars), NEW d \in Seq(Chars), d # <<>>, NEW i \in Nat, Len(s) <= i
  PROVE  strstr(s, d, i) = Nowhere
<1> SUFFICES ASSUME strstr(s, d, i) # Nowhere PROVE FALSE OBVIOUS
<1>1. strstr(s, d, i) + Len(d) \in i + 1 .. Len(s) BY FoundBefore
<1> QED BY <1>1, LenProperties
-----------------------------------------------------------------------------
(* replace.                                                                *)

SwappedFrom(s, d, e, from) ==
  /\ Swapped(s, d, e) = from[0]
  /\ \A i \in 0 .. Len(s) :
       /\ from[i] \in Seq(Chars)
       /\ from[i] = LET at == strstr(s, d, i)
                    IN  IF at = Nowhere THEN SubSeq(s, i + 1, Len(s))
                        ELSE SubSeq(s, i + 1, at) \o e \o from[at + Len(d)]

LEMMA SwappedIs ==
  ASSUME NEW s \in Seq(Chars), NEW d \in Seq(Chars), d # <<>>, NEW e \in Seq(Chars)
  PROVE  \E from : SwappedFrom(s, d, e, from)
<1>1. Len(s) \in Nat BY LenProperties
<1> DEFINE at(i) == strstr(s, d, i)
           n == Len(s)
           stop == [i \in 0 .. n |-> at(i) = Nowhere]
           result == [i \in 0 .. n |-> SubSeq(s, i + 1, Len(s))]
           prefix == [i \in 0 .. n |-> SubSeq(s, i + 1, at(i)) \o e]
           next == [i \in 0 .. n |-> at(i) + Len(d)]
           Row(f, i) == LET a == strstr(s, d, i)
                        IN  IF a = Nowhere THEN SubSeq(s, i + 1, Len(s))
                            ELSE SubSeq(s, i + 1, a) \o e \o f[a + Len(d)]
           from == CHOOSE f : f = [i \in 0 .. Len(s) |-> Row(f, i)]
<1>2. \A i \in 0 .. n : ~ stop[i] => next[i] \in i + 1 .. n /\ prefix[i] \in Seq(Chars)
  <2> SUFFICES ASSUME NEW i \in 0 .. n, ~ stop[i] PROVE next[i] \in i + 1 .. n /\ prefix[i] \in Seq(Chars) OBVIOUS
  <2>1. next[i] = at(i) + Len(d) /\ prefix[i] = SubSeq(s, i + 1, at(i)) \o e /\ at(i) # Nowhere OBVIOUS
  <2>2. i \in Nat BY <1>1
  <2> HIDE DEF stop, result, prefix, next, from
  <2>3. at(i) \in Nat /\ i <= at(i) /\ at(i) + Len(d) \in i + 1 .. Len(s) BY <2>1, <2>2, FoundBefore
  <2>4. at(i) <= Len(s)
    <3>1. Len(d) \in Nat BY LenProperties
    <3> HIDE DEF at
    <3> QED BY <1>1, <2>3, <3>1
  <2> HIDE DEF at
  <2>5. SubSeq(s, i + 1, at(i)) \in Seq(Chars) BY <2>2, <2>3, <2>4, Cut
  <2>6. SubSeq(s, i + 1, at(i)) \o e \in Seq(Chars) BY <2>5, ConcatProperties
  <2> QED BY <2>1, <2>3, <2>6
<1>3. \A i \in 0 .. n : stop[i] => result[i] \in Seq(Chars)
  <2> SUFFICES ASSUME NEW i \in 0 .. n PROVE SubSeq(s, i + 1, Len(s)) \in Seq(Chars) OBVIOUS
  <2> QED BY <1>1, Cut
<1>4. n \in Nat /\ 0 <= n /\ 0 \in Nat BY <1>1
<1>5. \A f : \A i \in 0 .. n : Row(f, i) = IF stop[i] THEN result[i] ELSE prefix[i] \o f[next[i]]
  BY Zenon
<1> HIDE DEF stop, result, prefix, next
<1>6. \E f : Joins(f, 0, n, stop, result, prefix, next) BY <1>2, <1>4, JoinsExist
<1>7. \A f : Joins(f, 0, n, stop, result, prefix, next) <=> f = [i \in 0 .. n |-> Row(f, i)]
  <2> HIDE DEF Row
  <2> QED BY <1>5 DEF Joins
<1>8. from = [i \in 0 .. Len(s) |-> Row(from, i)]
  <2> HIDE DEF Row
  <2> QED BY Zenon, <1>6, <1>7
<1> HIDE DEF from
<1>9. Joins(from, 0, n, stop, result, prefix, next)
  <2> HIDE DEF Row
  <2> QED BY Zenon, <1>7, <1>8
<1>10. \A i \in 0 .. n : from[i] \in Seq(Chars) BY <1>2, <1>3, <1>4, <1>9, JoinsTyped
<1>11. \A i \in 0 .. n : from[i] = Row(from, i)
  <2> HIDE DEF Row
  <2> QED BY Zenon, <1>8
<1>12. Swapped(s, d, e) = from[0] BY Zenon DEF Swapped, from
<1> QED BY Zenon, <1>10, <1>11, <1>12 DEF SwappedFrom

(* One replacement: what has been made is longer, what is left is shorter. *)
More(pre, s, k, m, e) == pre \o SubSeq(s, k + 1, k + m) \o e

(* t stands for s from k on, behind pre; d is m characters further on.     *)
Replaceable(t, s, d, e, pre, k, m) ==
  /\ s \in Seq(Chars) /\ d \in Seq(Chars) /\ e \in Seq(Chars) /\ pre \in Seq(Chars)
  /\ k \in Nat /\ m \in Nat /\ k + m + Len(d) <= Len(s)
  /\ Stands(t, Rest(pre, s, k))

LEMMA ReplacesOne ==
  ASSUME NEW t, NEW s, NEW d, NEW e, NEW pre, NEW k, NEW m, Replaceable(t, s, d, e, pre, k, m)
  PROVE  LET more == More(pre, s, k, m, e) IN
         /\ SetSubstring(t, Len(pre) + m, Len(d), e) = Fitted(Rest(more, s, k + m + Len(d)))
         /\ more \in Seq(Chars) /\ Len(more) = Len(pre) + m + Len(e)
         /\ Len(Rest(more, s, k + m + Len(d))) = t.count + Len(e) - Len(d)
<1>s. /\ s \in Seq(Chars) /\ d \in Seq(Chars) /\ e \in Seq(Chars) /\ pre \in Seq(Chars)
      /\ k \in Nat /\ m \in Nat /\ Stands(t, Rest(pre, s, k)) BY DEF Replaceable
<1>n. k + m + Len(d) <= Len(s) BY DEF Replaceable
<1>k. k <= Len(s)
  <2>1. Len(s) \in Nat /\ Len(d) \in Nat BY <1>s, LenProperties
  <2> QED BY <1>s, <1>n, <2>1
<1> USE <1>s, <1>k
<1> DEFINE v == Rest(pre, s, k)
<1>v. /\ v \in Seq(Chars) /\ Len(v) = Len(pre) + (Len(s) - k)
      /\ \A x \in 1 .. Len(pre) : v[x] = pre[x]
      /\ \A x \in 1 .. Len(s) - k : v[Len(pre) + x] = s[k + x]
  <2>1. Rest(pre, s, k) \in Seq(Chars) BY RestIs
  <2>2. Len(Rest(pre, s, k)) = Len(pre) + (Len(s) - k) BY RestIs
  <2>3. \A x \in 1 .. Len(pre) : Rest(pre, s, k)[x] = pre[x] BY RestIs
  <2>4. \A x \in 1 .. Len(s) - k : Rest(pre, s, k)[Len(pre) + x] = s[k + x] BY RestIs
  <2> QED BY <2>1, <2>2, <2>3, <2>4
<1>r. Read(t) = v /\ t.count = Len(v) BY Reads
<1> HIDE DEF v
<1> PICK ls \in Nat, ld \in Nat, le \in Nat, lp \in Nat :
      ls = Len(s) /\ ld = Len(d) /\ le = Len(e) /\ lp = Len(pre) BY LenProperties
<1>1. k <= ls /\ k + m + ld <= ls BY <1>n
<1> DEFINE lv == lp + (ls - k)
<1>2. /\ v \in Seq(Chars) /\ Len(v) = lv
      /\ \A x \in 1 .. lp : v[x] = pre[x]
      /\ \A x \in 1 .. ls - k : v[lp + x] = s[k + x] BY <1>v
<1>3. Read(t) = v /\ t.count = lv BY <1>2, <1>r
<1> DEFINE mid == SubSeq(s, k + 1, k + m)
<1>4. mid \in Seq(Chars) /\ Len(mid) = m /\ \A x \in 1 .. m : mid[x] = s[k + x]
  <2>1. k + m \in Nat /\ k <= k + m /\ k + m <= Len(s) /\ k + m - k = m BY <1>1
  <2> HIDE DEF lv
  <2> QED BY <2>1, Cut
<1> HIDE DEF mid
<1>c. /\ pre \o mid \in Seq(Chars) /\ Len(pre \o mid) = Len(pre) + Len(mid)
      /\ \A x \in 1 .. Len(pre) + Len(mid) : (pre \o mid)[x] = IF x <= Len(pre) THEN pre[x] ELSE mid[x - Len(pre)]
  BY <1>4, ConcatProperties
<1>e. pre \o mid \o e \in Seq(Chars) /\ Len(pre \o mid \o e) = Len(pre \o mid) + Len(e) BY <1>c, ConcatProperties
<1> DEFINE more == pre \o mid \o e
           k2 == k + m + ld
           at == lp + m
<1>5. /\ pre \o mid \in Seq(Chars) /\ Len(pre \o mid) = at
      /\ \A x \in 1 .. at : (pre \o mid)[x] = IF x <= lp THEN pre[x] ELSE mid[x - lp]
  BY <1>4, <1>c
<1>6. SubSeq(v, 1, at) = pre \o mid
  <2> DEFINE b == SubSeq(v, 1, at)
  <2>1. b \in Seq(Chars) /\ Len(b) = at /\ \A x \in 1 .. at : b[x] = v[x]
    <3>1. 0 \in Nat /\ at \in Nat /\ 0 <= at /\ at <= Len(v) BY <1>1, <1>2
    <3>2. /\ SubSeq(v, 0 + 1, at) \in Seq(Chars) /\ Len(SubSeq(v, 0 + 1, at)) = at - 0
          /\ \A x \in 1 .. at - 0 : SubSeq(v, 0 + 1, at)[x] = v[0 + x] BY <1>2, <3>1, Cut
    <3>3. at - 0 = at /\ 0 + 1 = 1 /\ \A x \in 1 .. at : 0 + x = x OBVIOUS
    <3> HIDE DEF at
    <3> QED BY <3>2, <3>3
  <2>2. \A x \in 1 .. at : v[x] = (pre \o mid)[x]
    <3> SUFFICES ASSUME NEW x \in 1 .. at PROVE v[x] = (pre \o mid)[x] OBVIOUS
    <3>1. (pre \o mid)[x] = IF x <= lp THEN pre[x] ELSE mid[x - lp] BY <1>5
    <3>2. CASE x <= lp
      <4>1. x \in 1 .. lp BY <3>2
      <4> QED BY <1>2, <3>1, <3>2, <4>1
    <3>3. CASE ~ (x <= lp)
      <4>1. PICK y \in 1 .. m : x = lp + y
        <5>1. x - lp \in 1 .. m /\ x = lp + (x - lp) BY <3>3
        <5> QED BY <5>1
      <4>2. y \in 1 .. ls - k /\ x - lp = y BY <1>1, <4>1
      <4>3. mid[y] = s[k + y] /\ v[lp + y] = s[k + y] BY <1>2, <1>4, <4>2
      <4> QED BY <3>1, <3>3, <4>1, <4>2, <4>3
    <3> QED BY <3>2, <3>3
  <2> HIDE DEF b
  <2>3. b = pre \o mid BY <1>5, <2>1, <2>2, SeqEqual
  <2> QED BY <2>3 DEF b
<1>7. SubSeq(v, at + ld + 1, Len(v)) = SubSeq(s, k2 + 1, Len(s))
  <2> DEFINE p == at + ld
             b == SubSeq(v, p + 1, Len(v))
             c == SubSeq(s, k2 + 1, Len(s))
  <2>1. p \in Nat /\ p <= lv /\ lv \in Nat /\ lv <= lv BY <1>1
  <2>2. k2 \in Nat /\ k2 <= ls /\ ls <= ls BY <1>1
  <2>3. lv - p = ls - k2 OBVIOUS
  <2>4. \A x \in 1 .. ls - k2 : v[p + x] = s[k2 + x]
    <3> SUFFICES ASSUME NEW x \in 1 .. ls - k2 PROVE v[p + x] = s[k2 + x] OBVIOUS
    <3> DEFINE y == m + ld + x
    <3>1. y \in 1 .. ls - k /\ lp + y = p + x /\ k + y = k2 + x BY <1>1
    <3> HIDE DEF y, p, k2
    <3> QED BY <1>2, <3>1
  <2> HIDE DEF p, k2, lv, at
  <2>5. b \in Seq(Chars) /\ Len(b) = lv - p /\ \A x \in 1 .. lv - p : b[x] = v[p + x] BY <1>2, <2>1, Cut
  <2>6. c \in Seq(Chars) /\ Len(c) = ls - k2 /\ \A x \in 1 .. ls - k2 : c[x] = s[k2 + x]
    <3> HIDE DEF more
    <3>1. ls \in Nat /\ k2 \in Nat /\ k2 <= ls /\ ls <= Len(s) BY <2>2
    <3>2. /\ SubSeq(s, k2 + 1, ls) \in Seq(Chars) /\ Len(SubSeq(s, k2 + 1, ls)) = ls - k2
          /\ \A x \in 1 .. ls - k2 : SubSeq(s, k2 + 1, ls)[x] = s[k2 + x] BY <3>1, Cut
    <3> QED BY <3>2
  <2> HIDE DEF b, c
  <2>7. b = c
    <3>1. b \in Seq(Chars) /\ c \in Seq(Chars) /\ Len(b) = Len(c) BY <2>3, <2>5, <2>6
    <3>2. \A x \in 1 .. Len(b) : b[x] = c[x] BY <2>3, <2>4, <2>5, <2>6
    <3> QED BY <3>1, <3>2, SeqEqual
  <2> QED BY <2>7 DEF b, c, p
<1>8. SetSubstring(t, at, ld, e) = Fitted(Rest(more, s, k2))
  <2>1. Before(t, at) = pre \o mid BY Zenon, <1>3, <1>6 DEF Before
  <2>2. After(t, at + ld) = SubSeq(s, k2 + 1, Len(s)) BY Zenon, <1>2, <1>3, <1>7 DEF After
  <2> QED BY Zenon, <2>1, <2>2 DEF SetSubstring, Rest
<1>9. more \in Seq(Chars) /\ Len(more) = at + le BY <1>5, <1>e
<1> HIDE DEF more
<1>10. Len(Rest(more, s, k2)) = Len(more) + (ls - k2)
  <2>1. k2 \in Nat /\ k2 <= Len(s) BY <1>1
  <2>2. more \in Seq(Chars) BY <1>9
  <2> HIDE DEF k2, lv, at
  <2>3. Len(Rest(more, s, k2)) = Len(more) + (Len(s) - k2) BY <2>1, <2>2, RestIs
  <2> QED BY <2>3
<1>11. Len(more) + (ls - k2) = t.count + le - ld
  <2>1. Len(more) + (ls - k2) = at + le + (ls - k2) /\ t.count + le - ld = lv + le - ld BY <1>3, <1>9
  <2>2. at + le + (ls - k2) = lv + le - ld OBVIOUS
  <2> HIDE DEF at, k2, lv
  <2> QED BY <2>1, <2>2
<1> QED BY <1>8, <1>9, <1>10, <1>11 DEF more, mid, More

(* How far replace has come: pre stands for the k characters it has passed. *)
At(s, from, x, pre, k) ==
  /\ pre \in Seq(Chars) /\ k \in 0 .. Len(s)
  /\ Stands(x.str, Rest(pre, s, k)) /\ x.idx = Len(pre)
  /\ pre \o from[k] = from[0]

ReplaceStep(x, d, e) ==
  LET at == strstr(Read(x.str), d, x.idx)
  IN  IF x = Failed \/ at = Nowhere THEN x
      ELSE IF x.str.count + Len(e) - Len(d) <= 0 THEN Failed
      ELSE [str |-> SetSubstring(x.str, at, Len(d), e), idx |-> Behind(at, e)]

LEMMA EachReplaces ==
  ASSUME NEW s \in Seq(Chars), NEW d \in Seq(Chars), d # <<>>, NEW e \in Seq(Chars),
         NEW from, SwappedFrom(s, d, e, from),
         NEW x, x # Failed, NEW pre, NEW k, At(s, from, x, pre, k)
  PROVE  \/ /\ strstr(s, d, k) = Nowhere /\ ReplaceStep(x, d, e) = x
            /\ Stands(x.str, Swapped(s, d, e))
         \/ /\ strstr(s, d, k) # Nowhere /\ ReplaceStep(x, d, e) = Failed
            /\ s # <<>> /\ Swapped(s, d, e) = <<>>
         \/ /\ strstr(s, d, k) # Nowhere /\ ReplaceStep(x, d, e) # Failed
            /\ \E more, l : l > k /\ At(s, from, ReplaceStep(x, d, e), more, l)
<1>1. pre \in Seq(Chars) /\ k \in Nat /\ k <= Len(s) /\ Len(s) \in Nat /\ Len(pre) \in Nat /\ k \in 0 .. Len(s)
  BY LenProperties DEF At
<1>2. Stands(x.str, Rest(pre, s, k)) /\ x.idx = Len(pre) /\ pre \o from[k] = from[0] BY DEF At
<1>3. Read(x.str) = Rest(pre, s, k) BY <1>2, Reads
<1> DEFINE a == strstr(s, d, k)
           at == strstr(Read(x.str), d, x.idx)
<1>4. (at = Nowhere <=> a = Nowhere) /\ (a # Nowhere => at = Len(pre) + (a - k)) BY <1>1, <1>2, <1>3, FoundBehind
<1>5. from[k] = IF a = Nowhere THEN SubSeq(s, k + 1, Len(s)) ELSE SubSeq(s, k + 1, a) \o e \o from[a + Len(d)]
  BY <1>1 DEF SwappedFrom
<1>6. Swapped(s, d, e) = from[0] BY DEF SwappedFrom
<1>7. CASE a = Nowhere
  <2>1. Rest(pre, s, k) = Swapped(s, d, e) BY <1>2, <1>5, <1>6, <1>7 DEF Rest
  <2>2. ReplaceStep(x, d, e) = x BY <1>4, <1>7 DEF ReplaceStep
  <2> QED BY <1>2, <1>7, <2>1, <2>2
<1>8. CASE a # Nowhere
  <2>1. a \in Nat /\ k <= a /\ a + Len(d) \in k + 1 .. Len(s) /\ a + Len(d) \in Nat BY <1>1, <1>8, FoundBefore
  <2>2. Len(d) \in Nat /\ Len(e) \in Nat BY LenProperties
  <2> HIDE DEF a, at
  <2>3. PICK m \in Nat : a = k + m
    <3>1. a - k \in Nat /\ a = k + (a - k) BY <1>1, <2>1
    <3> QED BY <3>1
  <2>4. k + m + Len(d) <= Len(s) BY <1>1, <2>1, <2>2, <2>3
  <2>5. at = Len(pre) + m BY <1>1, <1>4, <1>8, <2>3
  <2> DEFINE mid == SubSeq(s, k + 1, k + m)
             more == More(pre, s, k, m, e)
             l == k + m + Len(d)
             w == Rest(more, s, l)
  <2>6. /\ SetSubstring(x.str, at, Len(d), e) = Fitted(w)
        /\ more \in Seq(Chars) /\ Len(more) = at + Len(e)
        /\ Len(w) = x.str.count + Len(e) - Len(d)
    <3>1. Replaceable(x.str, s, d, e, pre, k, m) BY <1>1, <1>2, <2>4 DEF Replaceable
    <3>2. /\ SetSubstring(x.str, Len(pre) + m, Len(d), e) = Fitted(w)
          /\ more \in Seq(Chars) /\ Len(more) = Len(pre) + m + Len(e)
          /\ Len(w) = x.str.count + Len(e) - Len(d)
      BY <3>1, ReplacesOne
    <3> HIDE DEF more, w
    <3> QED BY <2>5, <3>2
  <2>7. mid \in Seq(Chars)
    <3>1. k + m \in Nat /\ k <= k + m /\ k + m <= Len(s) BY <1>1, <2>2, <2>4
    <3> QED BY <1>1, <3>1, Cut
  <2>8. l \in Nat /\ l \in 0 .. Len(s) /\ l > k /\ l = a + Len(d) BY <1>1, <2>1, <2>2, <2>3
  <2>9. from[l] \in Seq(Chars) BY <2>8 DEF SwappedFrom
  <2>10. more \o from[l] = from[0]
    <3> HIDE DEF l
    <3>1. from[k] = mid \o e \o from[l] BY <1>5, <1>8, <2>3, <2>8
    <3> HIDE DEF mid
    <3>2. PICK q \in Seq(Chars) : q = mid \o e BY <2>7, ConcatProperties
    <3>3. PICK r \in Seq(Chars) : r = from[l] BY <2>9
    <3>4. pre \in Seq(Chars) BY <1>1
    <3>5. more = pre \o (mid \o e)
      <4>1. more = (pre \o mid) \o e BY DEF More, mid
      <4> QED BY Zenon, <2>7, <3>4, <4>1, TextsAssociate
    <3>6. (pre \o q) \o r = pre \o (q \o r) BY Zenon, <3>4, TextsAssociate
    <3> QED BY Zenon, <1>2, <3>1, <3>2, <3>3, <3>5, <3>6
  <2> HIDE DEF more, l
  <2>11. w \in Seq(Chars) BY <2>6, <2>8, RestIs
  <2>12. CASE x.str.count + Len(e) - Len(d) <= 0
    <3>1. w = <<>>
      <4>1. Len(w) <= 0 BY <2>6, <2>12
      <4> HIDE DEF w
      <4> QED BY <2>11, <4>1, EmptySeq
    <3>2. SubSeq(s, l + 1, Len(s)) \in Seq(Chars) BY <1>1, <2>8, Cut
    <3>3. more = <<>> /\ SubSeq(s, l + 1, Len(s)) = <<>>
      <4>1. more \o SubSeq(s, l + 1, Len(s)) = <<>> BY <3>1 DEF Rest
      <4> HIDE DEF w
      <4> QED BY <2>6, <3>2, <4>1, ConcatEqualIffEmpty
    <3>4. Len(s) <= l
      <4>1. Len(SubSeq(s, l + 1, Len(s))) = Len(s) - l BY <1>1, <2>8, Cut
      <4>2. Len(s) - l = 0 BY <3>3, <4>1, EmptySeq
      <4> QED BY <1>1, <2>8, <4>2
    <3>5. strstr(s, d, l) = Nowhere BY <2>8, <3>4, NoneAtEnd
    <3>6. from[l] = <<>> BY <2>8, <3>3, <3>5 DEF SwappedFrom
    <3>7. Swapped(s, d, e) = <<>>
      <4>1. <<>> \o <<>> = <<>> BY EmptySeq, ConcatEmptySeq
      <4> QED BY <1>6, <2>10, <3>3, <3>6, <4>1
    <3>8. s # <<>>
      <4>1. Len(s) > 0 BY <1>1, <2>8
      <4> QED BY <4>1, EmptySeq
    <3>9. ReplaceStep(x, d, e) = Failed BY Zenon, <1>4, <1>8, <2>12 DEF ReplaceStep, at
    <3> QED BY <1>8, <3>7, <3>8, <3>9 DEF a
  <2>13. CASE ~ (x.str.count + Len(e) - Len(d) <= 0)
    <3> DEFINE y == [str |-> Fitted(w), idx |-> Len(more)]
    <3>1. ReplaceStep(x, d, e) = [str |-> SetSubstring(x.str, at, Len(d), e), idx |-> Behind(at, e)]
      BY Zenon, <1>4, <1>8, <2>13 DEF ReplaceStep, at
    <3>2. ReplaceStep(x, d, e) = y BY <2>6, <3>1 DEF Behind
    <3>3. y # Failed
      <4>1. Len(more) \in Nat BY <2>6, LenProperties
      <4>2. y.idx # Failed.idx BY <4>1 DEF Failed, Nowhere
      <4> QED BY <4>2
    <3>4. Stands(y.str, w) BY <2>11, FittedStands
    <3>5. At(s, from, y, more, l) BY <2>6, <2>8, <2>10, <3>4 DEF At
    <3> HIDE DEF y
    <3> QED BY <1>8, <2>8, <3>2, <3>3, <3>5 DEF a
  <2> QED BY <2>12, <2>13
<1> QED BY <1>7, <1>8

(* After n steps replace has failed, has passed n characters, or is done.  *)
HasReplaced(s, d, e, from, x, n) ==
  /\ x \in [str : Blocks, idx : Nat] \cup {Failed}
  /\ \/ x = Failed /\ s # <<>> /\ Swapped(s, d, e) = <<>>
     \/ x # Failed /\ \E pre, k : At(s, from, x, pre, k) /\ (k >= n \/ strstr(s, d, k) = Nowhere)

LEMMA GoesOnReplacing ==
  ASSUME NEW s \in Seq(Chars), NEW d \in Seq(Chars), d # <<>>, NEW e \in Seq(Chars),
         NEW from, SwappedFrom(s, d, e, from), NEW n \in Nat, NEW x, HasReplaced(s, d, e, from, x, n)
  PROVE  HasReplaced(s, d, e, from, ReplaceStep(x, d, e), n + 1)
<1> DEFINE y == ReplaceStep(x, d, e)
<1> SUFFICES HasReplaced(s, d, e, from, y, n + 1) OBVIOUS
<1>1. CASE x = Failed
  <2>1. y = Failed BY <1>1 DEF ReplaceStep
  <2> HIDE DEF y
  <2> QED BY <1>1, <2>1 DEF HasReplaced
<1>2. CASE x # Failed
  <2>1. PICK pre, k : At(s, from, x, pre, k) /\ (k >= n \/ strstr(s, d, k) = Nowhere) BY <1>2 DEF HasReplaced
  <2>2. k \in Nat BY LenProperties, <2>1 DEF At
  <2>3. \/ strstr(s, d, k) = Nowhere /\ y = x
        \/ strstr(s, d, k) # Nowhere /\ y = Failed /\ s # <<>> /\ Swapped(s, d, e) = <<>>
        \/ strstr(s, d, k) # Nowhere /\ y # Failed /\ \E more, l : l > k /\ At(s, from, y, more, l)
    BY <1>2, <2>1, EachReplaces
  <2>4. CASE y = x /\ strstr(s, d, k) = Nowhere
    <3> HIDE DEF y
    <3> QED BY <1>2, <2>1, <2>4 DEF HasReplaced
  <2>5. CASE y = Failed /\ s # <<>> /\ Swapped(s, d, e) = <<>>
    <3> HIDE DEF y
    <3> QED BY <2>5 DEF HasReplaced
  <2>6. CASE strstr(s, d, k) # Nowhere /\ y # Failed /\ \E more, l : l > k /\ At(s, from, y, more, l)
    <3>1. PICK more, l : l > k /\ At(s, from, y, more, l) BY <2>6
    <3>2. l \in Nat BY LenProperties, <3>1 DEF At
    <3>3. l >= n + 1 BY <2>1, <2>2, <2>6, <3>1, <3>2
    <3>4. y \in [str : Blocks, idx : Nat]
      <4>1. y.str \in Blocks BY <3>1, BlocksStand DEF At
      <4>2. y.idx \in Nat BY <3>1, LenProperties DEF At
      <4>3. y = x \/ y = [str |-> y.str, idx |-> y.idx]
        <5>1. y = x \/ y = Failed \/ \E t, i : y = [str |-> t, idx |-> i] BY Zenon DEF ReplaceStep
        <5> HIDE DEF y
        <5> QED BY <2>6, <5>1
      <4> HIDE DEF y
      <4> QED BY <1>2, <4>1, <4>2, <4>3 DEF HasReplaced
    <3> HIDE DEF y
    <3> QED BY <2>6, <3>1, <3>3, <3>4 DEF HasReplaced
  <2> HIDE DEF y
  <2> QED BY <2>3, <2>4, <2>5, <2>6
<1> QED BY <1>1, <1>2

(* replace leaves the text with e in place of d, and fails only if that is *)
(* empty.                                                                  *)
LEMMA ReplacingIs ==
  ASSUME NEW t, NEW s, Stands(t, s), NEW d \in Seq(Chars), d # <<>>, NEW e \in Seq(Chars)
  PROVE  \/ Replacing(t, d, e) = Failed /\ s # <<>> /\ Swapped(s, d, e) = <<>>
         \/ Replacing(t, d, e) # Failed /\ Stands(Replacing(t, d, e).str, Swapped(s, d, e))
<1>1. s \in Seq(Chars) /\ Len(s) \in Nat /\ t.count = Len(s) /\ Read(t) = s BY Reads
<1>2. PICK from : SwappedFrom(s, d, e, from) BY <1>1, SwappedIs
<1> PICK n \in Nat : n = t.count + 1 BY <1>1
<1> DEFINE Right(x, i) == HasReplaced(s, d, e, from, x, i)
           b == [str |-> Copied(s), idx |-> 0]
<1>3. Right(b, 0) /\ b # Failed
  <2>1. Stands(Copied(s), s) BY <1>1, CopiedStands
  <2>2. b \in [str : Blocks, idx : Nat] BY <2>1, BlocksStand
  <2>3. b # Failed
    <3>1. b.idx # Failed.idx BY DEF Failed, Nowhere
    <3> QED BY <3>1
  <2>4. Rest(<<>>, s, 0) = s
    <3>1. SubSeq(s, 0 + 1, Len(s)) = s BY <1>1, SubSeqFull
    <3> QED BY <1>1, <3>1, ConcatEmptySeq DEF Rest
  <2>5. <<>> \in Seq(Chars) /\ Len(<<>>) = 0 BY EmptySeq
  <2>6. 0 \in 0 .. Len(s) BY <1>1
  <2>7. <<>> \o from[0] = from[0] BY <1>2, <2>6, ConcatEmptySeq DEF SwappedFrom
  <2>8. At(s, from, b, <<>>, 0) BY <2>1, <2>4, <2>5, <2>6, <2>7 DEF At
  <2> HIDE DEF b
  <2> QED BY <2>2, <2>3, <2>8 DEF HasReplaced
<1>4. ASSUME NEW i \in Nat, NEW x, Right(x, i) PROVE Right(ReplaceStep(x, d, e), i + 1)
  BY <1>1, <1>2, <1>4, GoesOnReplacing
<1> DEFINE X == {x \in [str : Blocks, idx : Nat] \cup {Failed} : \E i \in Nat : Right(x, i)}
           g == [i \in 1 .. n |-> [x \in X |-> ReplaceStep(x, d, e)]]
           Row(f, i) == IF i = 0 THEN [str |-> Copied(Read(t)), idx |-> 0]
                        ELSE LET last == f[i - 1]
                                 at == strstr(Read(last.str), d, last.idx)
                             IN  IF last = Failed \/ at = Nowhere THEN last
                                 ELSE IF last.str.count + Len(e) - Len(d) <= 0 THEN Failed
                                 ELSE [str |-> SetSubstring(last.str, at, Len(d), e), idx |-> Behind(at, e)]
           step == CHOOSE f : f = [i \in 0 .. t.count + 1 |-> Row(f, i)]
<1>5. \A f : \A i \in 0 .. n : Row(f, i) = IF i = 0 THEN b ELSE ReplaceStep(f[i - 1], d, e)
  <2> TAKE f
  <2> TAKE i \in 0 .. n
  <2> PICK z : z = f[i - 1] OBVIOUS
  <2>1. CASE i = 0 BY Zenon, <1>1, <2>1
  <2>2. CASE i # 0 BY Zenon, <2>2 DEF ReplaceStep
  <2> QED BY Zenon, <2>1, <2>2
<1> HIDE DEF b
<1>6. \A x, i : Right(x, i) => x \in [str : Blocks, idx : Nat] \cup {Failed} BY DEF HasReplaced
<1> HIDE DEF Right
<1>7. b \in X BY <1>3, <1>6
<1>8. g \in [1 .. n -> [X -> X]]
  <2> SUFFICES ASSUME NEW x \in X PROVE ReplaceStep(x, d, e) \in X OBVIOUS
  <2>1. PICK i \in Nat : Right(x, i) OBVIOUS
  <2>2. Right(ReplaceStep(x, d, e), i + 1) /\ i + 1 \in Nat BY <1>4, <2>1
  <2> QED BY <1>6, <2>2
<1> HIDE DEF X
<1>9. PICK h \in [0 .. n -> X] : Steps(h, n, b, g)
  <2> HIDE DEF g
  <2> QED BY <1>7, <1>8, StepsExist
<1>10. h = [i \in 0 .. n |-> Row(h, i)]
  <2>1. h = [i \in 0 .. n |-> IF i = 0 THEN b ELSE g[i][h[i - 1]]] BY Zenon, <1>9 DEF Steps
  <2>2. \A i \in 0 .. n : i # 0 => i \in 1 .. n /\ i - 1 \in 0 .. n OBVIOUS
  <2>3. \A i \in 0 .. n : i # 0 => i \in 1 .. n /\ h[i - 1] \in X BY <2>2
  <2>4. \A i \in 0 .. n : (IF i = 0 THEN b ELSE g[i][h[i - 1]])
                          = IF i = 0 THEN b ELSE ReplaceStep(h[i - 1], d, e) BY Zenon, <2>3
  <2> HIDE DEF g, Row
  <2>5. \A i \in 0 .. n : Row(h, i) = IF i = 0 THEN b ELSE g[i][h[i - 1]] BY Zenon, <1>5, <2>4
  <2> QED BY <2>1, <2>5
<1>11. step = [i \in 0 .. n |-> Row(step, i)]
  <2> HIDE DEF Row
  <2> QED BY Zenon, <1>10
<1> HIDE DEF step
<1>12. \A i \in 0 .. n : step[i] = IF i = 0 THEN b ELSE ReplaceStep(step[i - 1], d, e)
  <2> HIDE DEF Row
  <2> QED BY <1>5, <1>11
<1> HIDE DEF Row
<1> DEFINE S == {i \in 0 .. n : ~ Right(step[i], i)}
<1>13. S = {}
  <2> SUFFICES ASSUME S # {} PROVE FALSE OBVIOUS
  <2>1. S \in SUBSET Nat OBVIOUS
  <2>2. PICK i \in S : \A k \in S : i <= k BY <2>1, Least
  <2>3. CASE i = 0 BY <1>3, <1>12, <2>2, <2>3
  <2>4. CASE i # 0
    <3>1. i - 1 \in 0 .. n /\ ~ (i <= i - 1) /\ i - 1 \in Nat /\ (i - 1) + 1 = i BY <2>4
    <3>2. Right(step[i - 1], i - 1) BY <2>2, <3>1
    <3>3. Right(ReplaceStep(step[i - 1], d, e), (i - 1) + 1) BY <1>4, <3>1, <3>2
    <3>4. step[i] = ReplaceStep(step[i - 1], d, e) BY <1>12, <2>4
    <3> QED BY <2>2, <3>1, <3>3, <3>4
  <2> QED BY <2>3, <2>4
<1>14. Right(step[n], n) BY <1>13
<1>15. Replacing(t, d, e) = step[n] BY Zenon DEF Replacing, step, Row
<1> DEFINE x == step[n]
<1>16. CASE x = Failed BY <1>14, <1>15, <1>16 DEF Right, HasReplaced
<1>17. CASE x # Failed
  <2>1. PICK pre, k : At(s, from, x, pre, k) /\ (k >= n \/ strstr(s, d, k) = Nowhere)
    BY <1>14, <1>17 DEF Right, HasReplaced
  <2>2. k \in 0 .. Len(s) BY <2>1 DEF At
  <2>3. ~ (k >= n) BY <1>1, <2>2
  <2> HIDE DEF x
  <2>4. Stands(x.str, Swapped(s, d, e)) BY <1>1, <1>2, <1>17, <2>1, <2>3, EachReplaces
  <2> QED BY <1>15, <1>17, <2>4 DEF x
<1> QED BY <1>16, <1>17
-----------------------------------------------------------------------------
(* find and split.                                                         *)

LEMMA FindIs ==
  ASSUME NEW t, NEW s, Stands(t, s), NEW d \in Seq(Chars), d # <<>>
  PROVE  find(t, d, 0) = strstr(s, d, 0)
<1>1. s \in Seq(Chars) /\ Len(s) \in Nat /\ t.count = Len(s) /\ Read(t) = s BY Reads
<1>2. Len(d) \in Nat BY LenProperties
<1>3. \A i \in 0 .. Len(s) : Occurs(d, s, i) => i < Len(s) /\ Len(d) <= Len(s)
  <2> SUFFICES ASSUME NEW i \in 0 .. Len(s), Occurs(d, s, i) PROVE i < Len(s) /\ Len(d) <= Len(s) OBVIOUS
  <2>1. i \in Nat BY <1>1
  <2>2. i + Len(d) <= Len(s) /\ i < Len(s) BY <1>1, <2>1, OccursBefore
  <2> QED BY <1>1, <1>2, <2>1, <2>2
<1> DEFINE S == {i \in 0 .. Len(s) : Occurs(d, s, i)}
<1>4. strstr(s, d, 0) = FirstOf(S) BY DEF strstr
<1>5. CASE 0 < Len(s) /\ Len(d) <= Len(s)
  <2>1. {i \in 0 .. Len(s) - 1 : Occurs(d, s, i)} = S BY <1>1, <1>3
  <2>2. find(t, d, 0) = FirstOf({i \in 0 .. Len(s) - 1 : Occurs(d, s, i)}) BY Zenon, <1>1, <1>5 DEF find
  <2> QED BY <1>4, <2>1, <2>2
<1>6. CASE ~ (0 < Len(s) /\ Len(d) <= Len(s))
  <2>1. S = {} BY <1>1, <1>3, <1>6
  <2>2. FirstOf({}) = Nowhere BY DEF FirstOf
  <2>3. find(t, d, 0) = Nowhere BY Zenon, <1>1, <1>6 DEF find
  <2> QED BY <1>4, <2>1, <2>2, <2>3
<1> QED BY <1>5, <1>6

LEMMA CutTwice ==
  ASSUME NEW s \in Seq(Chars), NEW k \in Nat, k <= Len(s), NEW i \in Nat, NEW j \in Nat, i <= j, k + j <= Len(s)
  PROVE  SubSeq(SubSeq(s, k + 1, Len(s)), i + 1, j) = SubSeq(s, k + i + 1, k + j)
<1>1. Len(s) \in Nat BY LenProperties
<1> DEFINE v == SubSeq(s, k + 1, Len(s))
<1>2. v \in Seq(Chars) /\ Len(v) = Len(s) - k /\ \A x \in 1 .. Len(s) - k : v[x] = s[k + x] BY <1>1, Cut
<1> HIDE DEF v
<1> DEFINE a == SubSeq(v, i + 1, j)
           b == SubSeq(s, k + i + 1, k + j)
<1>3. a \in Seq(Chars) /\ Len(a) = j - i /\ \A x \in 1 .. j - i : a[x] = v[i + x]
  <2>1. j <= Len(v) BY <1>1, <1>2
  <2> QED BY <1>2, <2>1, Cut
<1>4. b \in Seq(Chars) /\ Len(b) = j - i /\ \A x \in 1 .. j - i : b[x] = s[k + i + x]
  <2> PICK p \in Nat, q \in Nat : p = k + i /\ q = k + j OBVIOUS
  <2>1. p <= q /\ q <= Len(s) /\ q - p = j - i BY <1>1
  <2>2. SubSeq(s, p + 1, q) \in Seq(Chars) /\ Len(SubSeq(s, p + 1, q)) = q - p
        /\ \A x \in 1 .. q - p : SubSeq(s, p + 1, q)[x] = s[p + x] BY <2>1, Cut
  <2> QED BY <2>1, <2>2
<1> HIDE DEF a, b
<1>5. \A x \in 1 .. j - i : v[i + x] = s[k + i + x]
  <2> SUFFICES ASSUME NEW x \in 1 .. j - i PROVE v[i + x] = s[k + i + x] OBVIOUS
  <2>1. i + x \in 1 .. Len(s) - k /\ k + (i + x) = k + i + x BY <1>1
  <2> QED BY <1>2, <2>1
<1>6. Len(a) = Len(b) /\ \A x \in 1 .. Len(a) : a[x] = b[x] BY <1>3, <1>4, <1>5
<1>7. a = b BY <1>3, <1>4, <1>6, SeqEqual
<1> QED BY <1>7 DEF a, b, v

PartsFrom(s, d, from) ==
  /\ Parts(s, d) = from[0]
  /\ \A i \in 0 .. Len(s) :
       /\ from[i] \in Seq(Seq(Chars))
       /\ from[i] = LET at == strstr(s, d, i)
                    IN  IF at = Nowhere THEN <<SubSeq(s, i + 1, Len(s))>>
                        ELSE <<SubSeq(s, i + 1, at)>> \o from[at + Len(d)]

LEMMA PartsAre ==
  ASSUME NEW s \in Seq(Chars), NEW d \in Seq(Chars), d # <<>>
  PROVE  \E from : PartsFrom(s, d, from)
<1>1. Len(s) \in Nat BY LenProperties
<1> DEFINE at(i) == strstr(s, d, i)
           n == Len(s)
           stop == [i \in 0 .. n |-> at(i) = Nowhere]
           result == [i \in 0 .. n |-> <<SubSeq(s, i + 1, Len(s))>>]
           prefix == [i \in 0 .. n |-> <<SubSeq(s, i + 1, at(i))>>]
           next == [i \in 0 .. n |-> at(i) + Len(d)]
           Row(f, i) == LET a == strstr(s, d, i)
                        IN  IF a = Nowhere THEN <<SubSeq(s, i + 1, Len(s))>>
                            ELSE <<SubSeq(s, i + 1, a)>> \o f[a + Len(d)]
           from == CHOOSE f : f = [i \in 0 .. Len(s) |-> Row(f, i)]
<1>2. \A i \in 0 .. n : ~ stop[i] => next[i] \in i + 1 .. n /\ prefix[i] \in Seq(Seq(Chars))
  <2> SUFFICES ASSUME NEW i \in 0 .. n, ~ stop[i] PROVE next[i] \in i + 1 .. n /\ prefix[i] \in Seq(Seq(Chars))
    OBVIOUS
  <2>1. next[i] = at(i) + Len(d) /\ prefix[i] = <<SubSeq(s, i + 1, at(i))>> /\ at(i) # Nowhere OBVIOUS
  <2>2. i \in Nat BY <1>1
  <2> HIDE DEF stop, result, prefix, next, from
  <2>3. at(i) \in Nat /\ i <= at(i) /\ at(i) + Len(d) \in i + 1 .. Len(s) BY <2>1, <2>2, FoundBefore
  <2>4. at(i) <= Len(s)
    <3>1. Len(d) \in Nat BY LenProperties
    <3> HIDE DEF at
    <3> QED BY <1>1, <2>3, <3>1
  <2> HIDE DEF at
  <2>5. SubSeq(s, i + 1, at(i)) \in Seq(Chars) BY <2>2, <2>3, <2>4, Cut
  <2>6. <<SubSeq(s, i + 1, at(i))>> \in Seq(Seq(Chars)) BY <2>5
  <2> QED BY <2>1, <2>3, <2>6
<1>3. \A i \in 0 .. n : stop[i] => result[i] \in Seq(Seq(Chars))
  <2> SUFFICES ASSUME NEW i \in 0 .. n PROVE <<SubSeq(s, i + 1, Len(s))>> \in Seq(Seq(Chars)) OBVIOUS
  <2>1. SubSeq(s, i + 1, Len(s)) \in Seq(Chars) BY <1>1, Cut
  <2> QED BY <2>1
<1>4. n \in Nat /\ 0 <= n /\ 0 \in Nat BY <1>1
<1>5. \A f : \A i \in 0 .. n : Row(f, i) = IF stop[i] THEN result[i] ELSE prefix[i] \o f[next[i]]
  BY Zenon
<1> HIDE DEF stop, result, prefix, next
<1>6. \E f : Joins(f, 0, n, stop, result, prefix, next) BY <1>2, <1>4, JoinsExist
<1>7. \A f : Joins(f, 0, n, stop, result, prefix, next) <=> f = [i \in 0 .. n |-> Row(f, i)]
  <2> HIDE DEF Row
  <2> QED BY <1>5 DEF Joins
<1>8. from = [i \in 0 .. Len(s) |-> Row(from, i)]
  <2> HIDE DEF Row
  <2> QED BY Zenon, <1>6, <1>7
<1> HIDE DEF from
<1>9. Joins(from, 0, n, stop, result, prefix, next)
  <2> HIDE DEF Row
  <2> QED BY Zenon, <1>7, <1>8
<1>10. \A i \in 0 .. n : from[i] \in Seq(Seq(Chars)) BY <1>2, <1>3, <1>4, <1>9, JoinsTyped
<1>11. \A i \in 0 .. n : from[i] = Row(from, i)
  <2> HIDE DEF Row
  <2> QED BY Zenon, <1>8
<1>12. Parts(s, d) = from[0] BY Zenon DEF Parts, from
<1> QED BY Zenon, <1>10, <1>11, <1>12 DEF PartsFrom

SplitStep(x, d) ==
  LET at == find(x.rest, d, 0)
  IN  IF at = Nowhere THEN x
      ELSE [parts |-> Append(x.parts, GetSubstring(x.rest, 0, at)),
            rest |-> Erased(x.rest, 0, WithEnd(at, d))]

(* How far split has come: k characters are in parts.                      *)
Passed(s, from, x, k) ==
  /\ x \in [parts : Seq(Seq(Chars)), rest : Blocks]
  /\ k \in 0 .. Len(s) /\ Stands(x.rest, SubSeq(s, k + 1, Len(s)))
  /\ x.parts \o from[k] = from[0]

LEMMA EachSplits ==
  ASSUME NEW s \in Seq(Chars), NEW d \in Seq(Chars), d # <<>>, NEW from, PartsFrom(s, d, from),
         NEW x, NEW k, Passed(s, from, x, k)
  PROVE  \/ /\ strstr(s, d, k) = Nowhere /\ SplitStep(x, d) = x
            /\ Append(x.parts, Read(x.rest)) = Parts(s, d)
         \/ /\ strstr(s, d, k) # Nowhere
            /\ \E l : l > k /\ Passed(s, from, SplitStep(x, d), l)
<1>1. k \in Nat /\ k <= Len(s) /\ Len(s) \in Nat /\ k \in 0 .. Len(s) BY LenProperties DEF Passed
<1>2. /\ Stands(x.rest, SubSeq(s, k + 1, Len(s))) /\ x.parts \in Seq(Seq(Chars))
      /\ x.parts \o from[k] = from[0] BY DEF Passed
<1> DEFINE v == SubSeq(s, k + 1, Len(s))
           a == strstr(s, d, k)
           at == find(x.rest, d, 0)
<1>3. Read(x.rest) = v /\ x.rest.count = Len(v) BY <1>2, Reads
<1>4. v \in Seq(Chars) /\ Len(v) = Len(s) - k BY <1>1, Cut
<1>5. from[k] = IF a = Nowhere THEN <<v>> ELSE <<SubSeq(s, k + 1, a)>> \o from[a + Len(d)]
  BY <1>1 DEF PartsFrom
<1>6. (at = Nowhere <=> a = Nowhere) /\ (a # Nowhere => at = a - k)
  <2>1. Rest(<<>>, s, k) = v /\ <<>> \in Seq(Chars) /\ Len(<<>>) = 0 BY <1>4, ConcatEmptySeq, EmptySeq DEF Rest
  <2>2. at = strstr(v, d, 0) BY <1>2, FindIs
  <2> HIDE DEF v, a, at
  <2>3. /\ strstr(Rest(<<>>, s, k), d, Len(<<>>)) = Nowhere <=> a = Nowhere
        /\ a # Nowhere => strstr(Rest(<<>>, s, k), d, Len(<<>>)) = Len(<<>>) + (a - k)
    BY <1>1, <2>1, FoundBehind DEF a
  <2>4. (at = Nowhere <=> a = Nowhere) /\ (a # Nowhere => at = 0 + (a - k)) BY <2>1, <2>2, <2>3
  <2>5. a # Nowhere => a \in Nat BY <1>1, FoundBefore DEF a
  <2> QED BY <1>1, <2>4, <2>5
<1>7. CASE a = Nowhere
  <2>1. SplitStep(x, d) = x BY <1>6, <1>7 DEF SplitStep
  <2>2. Append(x.parts, Read(x.rest)) = Parts(s, d)
    <3>1. Parts(s, d) = x.parts \o <<v>> BY <1>2, <1>5, <1>7 DEF PartsFrom
    <3>2. Append(x.parts, v) = x.parts \o <<v>> BY <1>2, <1>4, AppendIsConcat
    <3> QED BY <1>3, <3>1, <3>2
  <2> QED BY <1>7, <2>1, <2>2
<1>8. CASE a # Nowhere
  <2>1. a \in Nat /\ k <= a /\ a + Len(d) \in k + 1 .. Len(s) /\ a + Len(d) \in Nat BY <1>1, <1>8, FoundBefore
  <2>2. Len(d) \in Nat BY LenProperties
  <2> HIDE DEF a, at
  <2>3. PICK m \in Nat : a = k + m /\ at = m
    <3>1. a - k \in Nat /\ a = k + (a - k) BY <1>1, <2>1
    <3> QED BY <1>6, <1>8, <3>1
  <2>4. k + m + Len(d) <= Len(s) BY <1>1, <2>1, <2>2, <2>3
  <2> DEFINE l == a + Len(d)
             part == SubSeq(s, k + 1, a)
             left == SubSeq(s, l + 1, Len(s))
  <2>5. GetSubstring(x.rest, 0, at) = part
    <3>1. GetSubstring(x.rest, 0, at) = SubSeq(v, 0 + 1, 0 + m) BY Zenon, <1>3, <2>3 DEF GetSubstring
    <3>2. k + m <= Len(s) /\ 0 <= m /\ 0 + m = m /\ k + 0 + 1 = k + 1 BY <1>1, <2>2, <2>4
    <3>3. SubSeq(v, 0 + 1, m) = SubSeq(s, k + 0 + 1, k + m) BY <1>1, <3>2, CutTwice
    <3> QED BY Zenon, <2>3, <3>1, <3>2, <3>3
  <2>6. Erased(x.rest, 0, WithEnd(at, d)) = Fitted(left)
    <3> PICK p \in Nat : p = m + Len(d) BY <2>2
    <3>1. Before(x.rest, 0) = <<>> BY SubSeqEmpty DEF Before
    <3>2. 0 + WithEnd(at, d) = p BY <2>2, <2>3 DEF WithEnd
    <3>3. After(x.rest, 0 + WithEnd(at, d)) = SubSeq(v, p + 1, Len(v)) BY Zenon, <1>3, <3>2 DEF After
    <3>4. p <= Len(v) /\ Len(v) \in Nat /\ k + Len(v) = Len(s) /\ k + p = l BY <1>1, <1>4, <2>2, <2>3, <2>4
    <3>5. SubSeq(v, p + 1, Len(v)) = SubSeq(s, k + p + 1, k + Len(v))
      <4> PICK q \in Nat : q = Len(v) BY <3>4
      <4>1. p <= q /\ k + q <= Len(s) BY <1>1, <3>4
      <4>2. SubSeq(v, p + 1, q) = SubSeq(s, k + p + 1, k + q) BY <1>1, <4>1, CutTwice
      <4> QED BY Zenon, <4>2
    <3>6. left \in Seq(Chars)
      <4>1. l \in Nat /\ l <= Len(s) BY <1>1, <2>1
      <4> HIDE DEF l
      <4> QED BY <1>1, <4>1, Cut
    <3> HIDE DEF l
    <3>7. After(x.rest, 0 + WithEnd(at, d)) = left BY Zenon, <3>3, <3>4, <3>5
    <3> HIDE DEF left
    <3>8. <<>> \o left = left BY <3>6, ConcatEmptySeq
    <3> QED BY Zenon, <3>1, <3>7, <3>8 DEF Erased
  <2> DEFINE y == [parts |-> Append(x.parts, part), rest |-> Fitted(left)]
  <2>7. SplitStep(x, d) = y
    <3>1. at # Nowhere BY <1>6, <1>8
    <3> QED BY Zenon, <2>5, <2>6, <3>1 DEF SplitStep, at
  <2>8. part \in Seq(Chars) /\ left \in Seq(Chars)
    <3>1. a <= Len(s) /\ l \in Nat /\ l <= Len(s) BY <1>1, <2>1, <2>2
    <3> HIDE DEF l
    <3> QED BY <1>1, <2>1, <3>1, Cut
  <2>9. l \in 0 .. Len(s) /\ l > k BY <1>1, <2>1
  <2>10. from[l] \in Seq(Seq(Chars)) BY <2>9 DEF PartsFrom
  <2>11. from[k] = <<part>> \o from[l] BY <1>5, <1>8
  <2> HIDE DEF part, l
  <2>12. Append(x.parts, part) \in Seq(Seq(Chars)) /\ Append(x.parts, part) = x.parts \o <<part>>
    BY <1>2, <2>8, AppendProperties, AppendIsConcat
  <2>13. Append(x.parts, part) \o from[l] = from[0]
    <3>0. <<part>> \in Seq(Seq(Chars))
      <4>1. part \in Seq(Chars) BY <2>8
      <4> QED BY <4>1
    <3>1. PICK w \in Seq(Seq(Chars)) : w = <<part>> BY Zenon, <3>0
    <3>2. PICK r \in Seq(Seq(Chars)) : r = from[l] BY <2>10
    <3>3. PICK u \in Seq(Seq(Chars)) : u = x.parts BY <1>2
    <3>4. (u \o w) \o r = u \o (w \o r) BY Zenon, <3>1, <3>2, <3>3, PartsAssociate
    <3> QED BY Zenon, <1>2, <2>11, <2>12, <3>1, <3>2, <3>3, <3>4
  <2>14. Stands(Fitted(left), left) /\ Fitted(left) \in Blocks BY <2>8, FittedStands, BlocksStand
  <2> DEFINE mine == Append(x.parts, part)
  <2>15. y = [parts |-> mine, rest |-> Fitted(left)] OBVIOUS
  <2>16. Passed(s, from, y, l)
    <3> HIDE DEF mine, y
    <3>1. mine \in Seq(Seq(Chars)) /\ mine \o from[l] = from[0] BY Zenon, <2>12, <2>13 DEF mine
    <3>2. y.parts = mine /\ y.rest = Fitted(left) /\ y \in [parts : Seq(Seq(Chars)), rest : Blocks]
      BY <2>14, <2>15, <3>1
    <3> QED BY <2>9, <2>14, <3>1, <3>2 DEF Passed
  <2> HIDE DEF y
  <2> QED BY <1>8, <2>7, <2>9, <2>16 DEF a
<1> QED BY <1>7, <1>8

(* split gives the parts between what it searches for.                     *)
LEMMA SplittingIs ==
  ASSUME NEW t, NEW s, Stands(t, s), NEW d \in Seq(Chars), d # <<>>
  PROVE  Splitting(t, d) = Parts(s, d)
<1>1. s \in Seq(Chars) /\ Len(s) \in Nat /\ t.count = Len(s) /\ Read(t) = s BY Reads
<1>2. PICK from : PartsFrom(s, d, from) BY <1>1, PartsAre
<1> PICK n \in Nat : n = t.count + 1 BY <1>1
<1> DEFINE Right(x, i) == \E k : Passed(s, from, x, k) /\ (k >= i \/ strstr(s, d, k) = Nowhere)
           b == [parts |-> <<>>, rest |-> Copied(s)]
<1>3. Right(b, 0)
  <2>1. Stands(Copied(s), s) BY <1>1, CopiedStands
  <2>2. <<>> \in Seq(Seq(Chars)) BY EmptySeq
  <2>3. b \in [parts : Seq(Seq(Chars)), rest : Blocks] BY <2>1, <2>2, BlocksStand
  <2>4. SubSeq(s, 0 + 1, Len(s)) = s BY <1>1, SubSeqFull
  <2>5. 0 \in 0 .. Len(s) BY <1>1
  <2>6. <<>> \o from[0] = from[0] BY <1>2, <2>5, ConcatEmptySeq DEF PartsFrom
  <2>7. Passed(s, from, b, 0) BY <2>1, <2>3, <2>4, <2>5, <2>6 DEF Passed
  <2> HIDE DEF b
  <2> QED BY <2>7
<1>4. ASSUME NEW i \in Nat, NEW x, Right(x, i) PROVE Right(SplitStep(x, d), i + 1)
  <2>1. PICK k : Passed(s, from, x, k) /\ (k >= i \/ strstr(s, d, k) = Nowhere) BY <1>4
  <2>2. k \in Nat BY <1>1, <2>1 DEF Passed
  <2>3. \/ strstr(s, d, k) = Nowhere /\ SplitStep(x, d) = x
        \/ strstr(s, d, k) # Nowhere /\ \E l : l > k /\ Passed(s, from, SplitStep(x, d), l)
    BY <1>1, <1>2, <2>1, EachSplits
  <2>4. CASE strstr(s, d, k) = Nowhere /\ SplitStep(x, d) = x BY <2>1, <2>4
  <2>5. CASE strstr(s, d, k) # Nowhere /\ \E l : l > k /\ Passed(s, from, SplitStep(x, d), l)
    <3>1. PICK l : l > k /\ Passed(s, from, SplitStep(x, d), l) BY <2>5
    <3>2. l \in Nat BY <1>1, <3>1 DEF Passed
    <3>3. l >= i + 1 BY <2>1, <2>2, <2>5, <3>1, <3>2
    <3> QED BY <3>1, <3>3
  <2> QED BY <2>3, <2>4, <2>5
<1> DEFINE X == {x \in [parts : Seq(Seq(Chars)), rest : Blocks] : \E i \in Nat : Right(x, i)}
           g == [i \in 1 .. n |-> [x \in X |-> SplitStep(x, d)]]
           Row(f, i) == IF i = 0 THEN [parts |-> <<>>, rest |-> Copied(Read(t))]
                        ELSE LET last == f[i - 1]
                                 at == find(last.rest, d, 0)
                             IN  IF at = Nowhere THEN last
                                 ELSE [parts |-> Append(last.parts, GetSubstring(last.rest, 0, at)),
                                       rest |-> Erased(last.rest, 0, WithEnd(at, d))]
           step == CHOOSE f : f = [i \in 0 .. t.count + 1 |-> Row(f, i)]
<1>5. \A f : \A i \in 0 .. n : Row(f, i) = IF i = 0 THEN b ELSE SplitStep(f[i - 1], d)
  BY Zenon, <1>1 DEF SplitStep
<1> HIDE DEF b
<1>6. \A x, i : Right(x, i) => x \in [parts : Seq(Seq(Chars)), rest : Blocks] BY DEF Passed
<1> HIDE DEF Right
<1>7. b \in X BY <1>3, <1>6
<1>8. g \in [1 .. n -> [X -> X]]
  <2> SUFFICES ASSUME NEW x \in X PROVE SplitStep(x, d) \in X OBVIOUS
  <2>1. PICK i \in Nat : Right(x, i) OBVIOUS
  <2>2. Right(SplitStep(x, d), i + 1) /\ i + 1 \in Nat BY <1>4, <2>1
  <2> QED BY <1>6, <2>2
<1> HIDE DEF X
<1>9. PICK h \in [0 .. n -> X] : Steps(h, n, b, g)
  <2> HIDE DEF g
  <2> QED BY <1>7, <1>8, StepsExist
<1>10. h = [i \in 0 .. n |-> Row(h, i)]
  <2>1. h = [i \in 0 .. n |-> IF i = 0 THEN b ELSE g[i][h[i - 1]]] BY Zenon, <1>9 DEF Steps
  <2>2. \A i \in 0 .. n : i # 0 => i \in 1 .. n /\ i - 1 \in 0 .. n OBVIOUS
  <2>3. \A i \in 0 .. n : i # 0 => i \in 1 .. n /\ h[i - 1] \in X BY <2>2
  <2>4. \A i \in 0 .. n : (IF i = 0 THEN b ELSE g[i][h[i - 1]])
                          = IF i = 0 THEN b ELSE SplitStep(h[i - 1], d) BY Zenon, <2>3
  <2> HIDE DEF g, Row
  <2>5. \A i \in 0 .. n : Row(h, i) = IF i = 0 THEN b ELSE g[i][h[i - 1]] BY Zenon, <1>5, <2>4
  <2> QED BY <2>1, <2>5
<1>11. step = [i \in 0 .. n |-> Row(step, i)]
  <2> HIDE DEF Row
  <2> QED BY Zenon, <1>10
<1> HIDE DEF step
<1>12. \A i \in 0 .. n : step[i] = IF i = 0 THEN b ELSE SplitStep(step[i - 1], d)
  <2> HIDE DEF Row
  <2> QED BY <1>5, <1>11
<1> HIDE DEF Row
<1> DEFINE S == {i \in 0 .. n : ~ Right(step[i], i)}
<1>13. S = {}
  <2> SUFFICES ASSUME S # {} PROVE FALSE OBVIOUS
  <2>1. S \in SUBSET Nat OBVIOUS
  <2>2. PICK i \in S : \A k \in S : i <= k BY <2>1, Least
  <2>3. CASE i = 0 BY <1>3, <1>12, <2>2, <2>3
  <2>4. CASE i # 0
    <3>1. i - 1 \in 0 .. n /\ ~ (i <= i - 1) /\ i - 1 \in Nat /\ (i - 1) + 1 = i BY <2>4
    <3>2. Right(step[i - 1], i - 1) BY <2>2, <3>1
    <3>3. Right(SplitStep(step[i - 1], d), (i - 1) + 1) BY <1>4, <3>1, <3>2
    <3>4. step[i] = SplitStep(step[i - 1], d) BY <1>12, <2>4
    <3> QED BY <2>2, <3>1, <3>3, <3>4
  <2> QED BY <2>3, <2>4
<1>14. Right(step[n], n) BY <1>13
<1> DEFINE x == step[n]
<1>15. PICK k : Passed(s, from, x, k) /\ (k >= n \/ strstr(s, d, k) = Nowhere) BY <1>14 DEF Right
<1>16. k \in 0 .. Len(s) BY <1>15 DEF Passed
<1>17. ~ (k >= n) BY <1>1, <1>16
<1> HIDE DEF x
<1>18. Append(x.parts, Read(x.rest)) = Parts(s, d) BY <1>1, <1>2, <1>15, <1>17, EachSplits
<1>19. Splitting(t, d) = Append(x.parts, Read(x.rest))
  <2>1. n = t.count + 1 OBVIOUS
  <2> QED BY Zenon, <2>1 DEF Splitting, step, Row, x
<1> QED BY <1>18, <1>19
-----------------------------------------------------------------------------
(* startsWith, endsWith, substring.                                        *)

LEMMA StartsIs ==
  ASSUME NEW t, NEW s, Stands(t, s), NEW d \in Seq(Chars)
  PROVE  startsWith(t, d) = Occurs(d, s, 0)
<1>1. s \in Seq(Chars) /\ Len(s) \in Nat /\ t.count = Len(s) /\ Read(t) = s BY Reads
<1>2. Len(d) \in Nat BY LenProperties
<1>3. (t.count >= Len(d)) = (0 + Len(d) <= Len(s)) BY <1>1, <1>2
<1>4. 0 + Len(d) = Len(d) /\ 0 + 1 = 1 BY <1>2
<1> QED BY Zenon, <1>1, <1>3, <1>4 DEF startsWith, Occurs

LEMMA EndsIs ==
  ASSUME NEW t, NEW s, Stands(t, s), NEW d \in Seq(Chars)
  PROVE  endsWith(t, d) = (Len(d) <= Len(s) /\ Occurs(d, s, Len(s) - Len(d)))
<1>1. s \in Seq(Chars) /\ Len(s) \in Nat /\ t.count = Len(s) /\ Read(t) = s BY Reads
<1>2. Len(d) \in Nat BY LenProperties
<1>3. Len(s) - Len(d) + Len(d) = Len(s) /\ Len(s) <= Len(s) BY <1>1, <1>2
<1> QED BY Zenon, <1>1, <1>3 DEF endsWith, Occurs

(* What substring does with its places.                                    *)
CutOut(t, i, j, k, end, w) ==
  /\ k = IF j < 0 THEN t.count + j ELSE j
  /\ end = IF k >= t.count THEN t.count - 1 ELSE k
  /\ w = IF i <= end THEN GetSubstring(t, i, end - i + 1) ELSE <<>>

LEMMA BetweenIs ==
  ASSUME NEW t, NEW s, Stands(t, s), NEW i \in Nat, NEW j \in Int, NEW k, NEW end, NEW w, CutOut(t, i, j, k, end, w)
  PROVE  w = Between(s, i, j) /\ w \in Seq(Chars)
<1>1. s \in Seq(Chars) /\ Len(s) \in Nat /\ t.count = Len(s) /\ Read(t) = s BY Reads
<1>2. k \in Int /\ k = (IF j < 0 THEN Len(s) + j ELSE j) BY <1>1 DEF CutOut
<1>3. end \in Int /\ end <= k /\ end <= Len(s) - 1 /\ (end = k \/ end = Len(s) - 1) BY <1>1, <1>2 DEF CutOut
<1> DEFINE places == {p \in 0 .. Len(s) - 1 : i <= p /\ p <= k}
<1>4. Between(s, i, j) = IF places = {} THEN <<>>
                         ELSE SubSeq(s, i + 1, 1 + CHOOSE p \in places : \A q \in places : q <= p)
  <2> DEFINE its == {p \in 0 .. Len(s) - 1 : i <= p /\ p <= IF j < 0 THEN Len(s) + j ELSE j}
  <2>1. its = places BY <1>2
  <2>2. Between(s, i, j) = IF its = {} THEN <<>>
                           ELSE SubSeq(s, i + 1, 1 + CHOOSE p \in its : \A q \in its : q <= p) BY Zenon DEF Between
  <2> HIDE DEF its, places
  <2> QED BY Zenon, <2>1, <2>2
<1>5. CASE i <= end
  <2>1. end \in Nat BY <1>3, <1>5
  <2>2. end \in places /\ \A q \in places : q <= end BY <1>1, <1>2, <1>3, <1>5, <2>1
  <2>3. \A p \in places : p \in Nat BY <1>1
  <2> HIDE DEF places
  <2>4. \A p \in places : (\A q \in places : q <= p) => p = end BY <2>1, <2>2, <2>3
  <2>5. end = CHOOSE p \in places : \A q \in places : q <= p BY <2>2, <2>4
  <2>6. Between(s, i, j) = SubSeq(s, i + 1, 1 + end) BY <1>4, <2>2, <2>5
  <2>7. i + (end - i + 1) = 1 + end BY <2>1
  <2>8. GetSubstring(t, i, end - i + 1) = SubSeq(s, i + 1, 1 + end) BY Zenon, <1>1, <2>7 DEF GetSubstring
  <2>9. SubSeq(s, i + 1, 1 + end) \in Seq(Chars)
    <3>1. 1 + end \in Nat /\ i <= 1 + end /\ 1 + end <= Len(s) BY <1>1, <1>3, <1>5, <2>1
    <3> QED BY <1>1, <3>1, Cut
  <2>10. w = GetSubstring(t, i, end - i + 1) BY Zenon, <1>5 DEF CutOut
  <2> QED BY <2>6, <2>8, <2>9, <2>10
<1>6. CASE ~ (i <= end)
  <2>1. places = {} BY <1>1, <1>2, <1>3, <1>6
  <2>2. w = <<>> BY Zenon, <1>6 DEF CutOut
  <2> QED BY <1>4, <2>1, <2>2, EmptySeq
<1> QED BY <1>5, <1>6
-----------------------------------------------------------------------------
(* The strings of a session.                                               *)

(* A String holds a text; it is the one it should be if what is given to   *)
(* it has no escapes.                                                      *)
Kept(t, m) == t \in Blocks /\ ("plain" \in TextRules => Stands(t, m))

IInv ==
  /\ text = [r \in Strings |-> text[r]] /\ meant = [r \in Strings |-> meant[r]]
  /\ \A r \in Strings : Kept(text[r], meant[r])

LEMMA KeptStands ==
  ASSUME NEW t, NEW m, Kept(t, m)
  PROVE  \E s \in Seq(Chars) : Stands(t, s) /\ ("plain" \in TextRules => s = m)
<1>1. CASE "plain" \in TextRules BY <1>1 DEF Kept, Stands
<1>2. CASE "plain" \notin TextRules
  <2>1. PICK s : Stands(t, s) BY BlocksStand DEF Kept
  <2> QED BY <1>2, <2>1 DEF Stands
<1> QED BY <1>1, <1>2

LEMMA KeptBy ==
  ASSUME NEW t, NEW s, Stands(t, s), NEW m, "plain" \in TextRules => s = m
  PROVE  Kept(t, m)
BY BlocksStand DEF Kept

LEMMA BecomeKeeps ==
  ASSUME IInv, NEW r \in Strings, NEW t, NEW m, Kept(t, m), Become(r, t, m)
  PROVE  IInv' /\ told'[2] = told'[3]
<1>1. text' = [text EXCEPT ![r] = t] /\ meant' = [meant EXCEPT ![r] = m] BY DEF Become
<1>2. text = [q \in Strings |-> text[q]] /\ meant = [q \in Strings |-> meant[q]] BY DEF IInv
<1>3. \A q \in Strings : text'[q] = (IF q = r THEN t ELSE text[q]) /\ meant'[q] = (IF q = r THEN m ELSE meant[q])
  BY <1>1, <1>2
<1>4. text' = [q \in Strings |-> text'[q]] /\ meant' = [q \in Strings |-> meant'[q]] BY <1>1, <1>2
<1>5. \A q \in Strings : Kept(text'[q], meant'[q])
  <2> TAKE q \in Strings
  <2>1. CASE q = r BY <1>3, <2>1
  <2>2. CASE q # r BY <1>3, <2>2 DEF IInv
  <2> QED BY <2>1, <2>2
<1>6. told'[2] = told'[3] BY DEF Become
<1> QED BY <1>4, <1>5, <1>6 DEF IInv

LEMMA MakeKeeps ==
  ASSUME IInv, NEW r \in Strings, NEW s \in Seq(Chars), NEW m, "plain" \in TextRules => s = m, Make(r, s, m)
  PROVE  IInv' /\ told'[2] = told'[3]
<1>1. Stands(Held(s), Unescaped(s)) BY HeldStands
<1>2. "plain" \in TextRules => Unescaped(s) = s BY DEF Make, Plain, TextRule
<1>3. Kept(Held(s), m) BY <1>1, <1>2, KeptBy
<1> QED BY <1>3, BecomeKeeps DEF Make

LEMMA AnswerKeeps ==
  ASSUME IInv, NEW what, NEW is, NEW should, Answer(what, is, should)
  PROVE  IInv' /\ told'[2] = is /\ told'[3] = should
BY DEF Answer, IInv

LEMMA LettersAreChars == \A c \in Letters : c \in Chars /\ <<c>> \in Seq(Chars)
<1>1. \A c \in Letters : c \in Chars BY DEF Chars
<1>2. \A c \in Chars : <<c>> \in Seq(Chars) OBVIOUS
<1> QED BY <1>1, <1>2

LEMMA InitHolds == TextsInit => IInv /\ AnswersAreMeant
<1> SUFFICES ASSUME TextsInit PROVE IInv /\ AnswersAreMeant OBVIOUS
<1>1. PICK s \in Literals, host \in Literals : /\ text = <<Held(s), Copied(host)>>
                                             /\ meant = <<Unescaped(s), host>> BY DEF TextsInit
<1>2. s \in Seq(Chars) /\ host \in Seq(Chars) BY LiteralsAreChars
<1>3. Kept(Held(s), Unescaped(s)) BY <1>2, HeldStands, KeptBy
<1>4. Kept(Copied(host), host) BY <1>2, CopiedStands, KeptBy
<1>5. text = [r \in Strings |-> text[r]] /\ meant = [r \in Strings |-> meant[r]] BY <1>1 DEF Strings
<1>6. \A r \in Strings : Kept(text[r], meant[r]) BY <1>1, <1>3, <1>4 DEF Strings
<1>7. AnswersAreMeant BY DEF TextsInit, AnswersAreMeant
<1> QED BY <1>5, <1>6, <1>7 DEF IInv
-----------------------------------------------------------------------------
(* Each operation keeps the strings, and answers what is meant.            *)

Keeps == IInv' /\ (told[2] = told[3] => told'[2] = told'[3])

Assumed == {"filled", "needle", "rest", "plain", "start"} \subseteq TextRules

LEMMA IsText ==
  ASSUME IInv, NEW r \in Strings
  PROVE  \E s \in Seq(Chars) : /\ Stands(text[r], s) /\ Read(text[r]) = s /\ text[r].count = Len(s)
                             /\ ("plain" \in TextRules => s = meant[r])
<1>1. PICK s \in Seq(Chars) : Stands(text[r], s) /\ ("plain" \in TextRules => s = meant[r]) BY KeptStands DEF IInv
<1> QED BY <1>1, Reads

LEMMA AssignKeeps == ASSUME IInv, NEW r \in Strings, NEW a \in Strings, Assign(r, a) PROVE Keeps
<1>1. PICK s \in Seq(Chars) : Read(text[a]) = s /\ ("plain" \in TextRules => s = meant[a]) BY IsText
<1> QED BY <1>1, MakeKeeps DEF Assign, Keeps

LEMMA AddKeeps ==
  ASSUME IInv, NEW r \in Strings, NEW a \in Strings, NEW b \in Strings, Add(r, a, b) PROVE Keeps
<1>1. PICK s \in Seq(Chars) : Read(text[a]) = s /\ ("plain" \in TextRules => s = meant[a]) BY IsText
<1>2. PICK v \in Seq(Chars) : Read(text[b]) = v /\ ("plain" \in TextRules => v = meant[b]) BY IsText
<1>3. s \o v \in Seq(Chars) BY ConcatProperties
<1> PICK w : w = s \o v OBVIOUS
<1>4. w \in Seq(Chars) /\ ("plain" \in TextRules => w = meant[a] \o meant[b]) BY Zenon, <1>1, <1>2, <1>3
<1>5. Make(r, w, meant[a] \o meant[b]) BY Zenon, <1>1, <1>2 DEF Add
<1> QED BY <1>4, <1>5, MakeKeeps DEF Keeps

LEMMA AddAssignKeeps == ASSUME IInv, NEW r \in Strings, NEW a \in Strings, AddAssign(r, a) PROVE Keeps
<1>1. PICK s \in Seq(Chars) : Stands(text[r], s) /\ ("plain" \in TextRules => s = meant[r]) BY IsText
<1>2. PICK v \in Seq(Chars) : Read(text[a]) = v /\ ("plain" \in TextRules => v = meant[a]) BY IsText
<1>3. Stands(Appended(text[r], v), s \o v) BY <1>1, AppendedStands
<1>4. "plain" \in TextRules => s \o v = meant[r] \o meant[a] BY Zenon, <1>1, <1>2
<1>5. Kept(Appended(text[r], v), meant[r] \o meant[a]) BY Zenon, <1>3, <1>4, KeptBy
<1> QED BY <1>2, <1>5, BecomeKeeps DEF AddAssign, Keeps

LEMMA AppendTextKeeps ==
  ASSUME IInv, "other" \in TextRules, NEW r \in Strings, NEW a \in Strings, AppendText(r, a)
  PROVE  IInv' /\ (Assumed /\ told[2] = told[3] => told'[2] = told'[3])
<1>1. PICK s \in Seq(Chars) : Stands(text[r], s) /\ ("plain" \in TextRules => s = meant[r]) BY IsText
<1>2. PICK v \in Seq(Chars) : Read(text[a]) = v /\ ("plain" \in TextRules => v = meant[a]) BY IsText
<1>3. CASE IsNull(text[a])
  <2>1. ~ ("filled" \in TextRules) BY Zenon, <1>3 DEF AppendText, TextRule
  <2>2. Answer("end", "error", "done") BY Zenon, <1>3 DEF AppendText
  <2>3. IInv' BY <2>2, AnswerKeeps
  <2> QED BY <2>1, <2>3 DEF Assumed
<1>4. CASE ~ IsNull(text[a])
  <2>1. a # r BY Zenon DEF AppendText, TextRule
  <2>2. Become(r, Appended(text[r], v), meant[r] \o meant[a]) BY Zenon, <1>2, <1>4, <2>1 DEF AppendText
  <2>3. Stands(Appended(text[r], v), s \o v) BY <1>1, AppendedStands
  <2>4. "plain" \in TextRules => s \o v = meant[r] \o meant[a] BY Zenon, <1>1, <1>2
  <2>5. Kept(Appended(text[r], v), meant[r] \o meant[a]) BY Zenon, <2>3, <2>4, KeptBy
  <2> QED BY <2>2, <2>5, BecomeKeeps
<1> QED BY <1>3, <1>4

LEMMA AppendCharKeeps == ASSUME IInv, NEW r \in Strings, NEW c \in Letters, AppendChar(r, c) PROVE Keeps
<1>1. PICK s \in Seq(Chars) : Stands(text[r], s) /\ ("plain" \in TextRules => s = meant[r]) BY IsText
<1>2. Stands(AppendedChar(text[r], c), Append(s, c)) BY <1>1, LettersAreChars, AppendedCharStands
<1>3. "plain" \in TextRules => Append(s, c) = Append(meant[r], c) BY Zenon, <1>1
<1>4. Kept(AppendedChar(text[r], c), Append(meant[r], c)) BY Zenon, <1>2, <1>3, KeptBy
<1> QED BY <1>4, BecomeKeeps DEF AppendChar, Keeps

LEMMA InsertedStands ==
  ASSUME NEW t, NEW s, Stands(t, s), NEW p \in Nat, NEW q \in Nat, p <= Len(s), q <= Len(s), NEW v \in Seq(Chars)
  PROVE  /\ Before(t, p) = SubSeq(s, 1, p) /\ After(t, q) = SubSeq(s, q + 1, Len(s))
         /\ Before(t, p) \in Seq(Chars) /\ After(t, q) \in Seq(Chars)
         /\ Stands(Fitted(Before(t, p) \o v \o After(t, q)), SubSeq(s, 1, p) \o v \o SubSeq(s, q + 1, Len(s)))
         /\ Stands(Fitted(Before(t, p) \o After(t, q)), SubSeq(s, 1, p) \o SubSeq(s, q + 1, Len(s)))
<1>1. s \in Seq(Chars) /\ Len(s) \in Nat /\ t.count = Len(s) /\ Read(t) = s BY Reads
<1> PICK b : b = SubSeq(s, 1, p) OBVIOUS
<1> PICK c : c = SubSeq(s, q + 1, Len(s)) OBVIOUS
<1>2. Before(t, p) = b BY Zenon, <1>1 DEF Before
<1>3. After(t, q) = c BY Zenon, <1>1 DEF After
<1>4. b \in Seq(Chars)
  <2>1. SubSeq(s, 0 + 1, p) \in Seq(Chars) BY <1>1, Cut
  <2> QED BY <2>1
<1>5. c \in Seq(Chars) BY <1>1, Cut
<1>6. b \o v \in Seq(Chars) /\ b \o c \in Seq(Chars) BY <1>4, <1>5, ConcatProperties
<1>7. (b \o v) \o c \in Seq(Chars) BY <1>5, <1>6, ConcatProperties
<1>8. Stands(Fitted(b \o v \o c), b \o v \o c) BY <1>7, FittedStands
<1>9. Stands(Fitted(b \o c), b \o c) BY <1>6, FittedStands
<1> QED BY Zenon, <1>2, <1>3, <1>4, <1>5, <1>8, <1>9

LEMMA InsertAtKeeps ==
  ASSUME IInv, NEW r \in Strings, NEW p \in Nat, NEW v \in Seq(Chars), NEW m, "plain" \in TextRules => v = m,
         InsertAt(r, p, v, m)
  PROVE  IInv' /\ (Assumed /\ told[2] = told[3] => told'[2] = told'[3])
<1>1. PICK s \in Seq(Chars) : /\ Stands(text[r], s) /\ text[r].count = Len(s)
                             /\ ("plain" \in TextRules => s = meant[r]) BY IsText
<1>2. Len(s) \in Nat BY LenProperties
<1>3. CASE p >= text[r].count
  <2> PICK sh : sh = IF p >= Len(meant[r]) THEN "error" ELSE "done" OBVIOUS
  <2>1. Answer("end", "error", sh) BY Zenon, <1>3 DEF InsertAt
  <2>2. IInv' /\ told'[2] = "error" /\ told'[3] = sh BY <2>1, AnswerKeeps
  <2>3. Assumed => p >= Len(meant[r]) BY Zenon, <1>1, <1>3 DEF Assumed
  <2> QED BY <2>2, <2>3
<1>4. CASE ~ (p >= text[r].count)
  <2> PICK n : n = SubSeq(meant[r], 1, p) \o m \o SubSeq(meant[r], p + 1, Len(meant[r])) OBVIOUS
  <2>1. Become(r, Inserted(text[r], p, v), n) BY Zenon, <1>4 DEF InsertAt
  <2>2. p <= Len(s) BY <1>1, <1>2, <1>4
  <2> PICK w : w = SubSeq(s, 1, p) \o v \o SubSeq(s, p + 1, Len(s)) OBVIOUS
  <2>3. Stands(Fitted(Before(text[r], p) \o v \o After(text[r], p)), SubSeq(s, 1, p) \o v \o SubSeq(s, p + 1, Len(s)))
    BY <1>1, <2>2, InsertedStands
  <2>4. Stands(Inserted(text[r], p, v), w) BY Zenon, <2>3 DEF Inserted
  <2>5. "plain" \in TextRules => w = n BY Zenon, <1>1
  <2>6. Kept(Inserted(text[r], p, v), n) BY <2>4, <2>5, KeptBy
  <2> QED BY <2>1, <2>6, BecomeKeeps
<1> QED BY <1>3, <1>4

LEMMA EraseAtKeeps ==
  ASSUME IInv, NEW r \in Strings, NEW p \in Nat, EraseAt(r, p)
  PROVE  IInv' /\ (Assumed /\ told[2] = told[3] => told'[2] = told'[3])
<1>1. PICK s \in Seq(Chars) : /\ Stands(text[r], s) /\ text[r].count = Len(s)
                             /\ ("plain" \in TextRules => s = meant[r]) BY IsText
<1>2. Len(s) \in Nat BY LenProperties
<1>3. CASE p >= text[r].count
  <2> PICK sh : sh = IF p >= Len(meant[r]) THEN "error" ELSE "done" OBVIOUS
  <2>1. Answer("end", "error", sh) BY Zenon, <1>3 DEF EraseAt
  <2>2. IInv' /\ told'[2] = "error" /\ told'[3] = sh BY <2>1, AnswerKeeps
  <2>3. Assumed => p >= Len(meant[r]) BY Zenon, <1>1, <1>3 DEF Assumed
  <2> QED BY <2>2, <2>3
<1>4. CASE ~ (p >= text[r].count)
  <2> PICK n : n = SubSeq(meant[r], 1, p) \o SubSeq(meant[r], p + 2, Len(meant[r])) OBVIOUS
  <2>1. Become(r, Erased(text[r], p, 1), n) BY Zenon, <1>4 DEF EraseAt
  <2> PICK q \in Nat : q = p + 1 OBVIOUS
  <2>2. p <= Len(s) /\ q <= Len(s) /\ p + 2 = q + 1 BY <1>1, <1>2, <1>4
  <2> PICK w : w = SubSeq(s, 1, p) \o SubSeq(s, q + 1, Len(s)) OBVIOUS
  <2>3. <<>> \in Seq(Chars) BY EmptySeq
  <2>4. Stands(Fitted(Before(text[r], p) \o After(text[r], q)), SubSeq(s, 1, p) \o SubSeq(s, q + 1, Len(s)))
    BY <1>1, <2>2, <2>3, InsertedStands
  <2>5. Stands(Erased(text[r], p, 1), w) BY Zenon, <2>4 DEF Erased
  <2>6. "plain" \in TextRules => w = n BY Zenon, <1>1, <2>2
  <2>7. Kept(Erased(text[r], p, 1), n) BY <2>5, <2>6, KeptBy
  <2> QED BY <2>1, <2>7, BecomeKeeps
<1> QED BY <1>3, <1>4

LEMMA PutKeeps == ASSUME IInv, NEW r \in Strings, NEW p \in Nat, NEW c \in Letters, Put(r, p, c) PROVE Keeps
<1>1. PICK s \in Seq(Chars) : Stands(text[r], s) /\ ("plain" \in TextRules => s = meant[r]) BY IsText
<1> PICK t : t = [text[r] EXCEPT !.buf = [@ EXCEPT ![p] = c]] OBVIOUS
<1> PICK m : m = [meant[r] EXCEPT ![p + 1] = c] OBVIOUS
<1> PICK w : w = [s EXCEPT ![p + 1] = c] OBVIOUS
<1>2. p < text[r].count /\ Become(r, t, m) BY Zenon DEF Put
<1>3. Stands(t, w) BY <1>1, <1>2, LettersAreChars, PutStands
<1>4. "plain" \in TextRules => w = m BY Zenon, <1>1
<1>5. Kept(t, m) BY <1>3, <1>4, KeptBy
<1> QED BY <1>2, <1>5, BecomeKeeps DEF Keeps

LEMMA ClearKeeps == ASSUME IInv, NEW r \in Strings, Clear(r) PROVE Keeps
<1>1. Stands(NoText, <<>>) BY EmptySeq DEF Stands
<1>2. Kept(NoText, <<>>) BY <1>1, KeptBy
<1> QED BY <1>2, BecomeKeeps DEF Clear, Keeps

LEMMA ReplaceKeeps ==
  ASSUME IInv, NEW r \in Strings, NEW a \in Strings, NEW d \in Literals, NEW e \in Literals, Replace(r, a, d, e)
  PROVE  IInv' /\ (Assumed /\ told[2] = told[3] => told'[2] = told'[3])
<1>1. PICK s \in Seq(Chars) : Stands(text[a], s) /\ ("plain" \in TextRules => s = meant[a]) BY IsText
<1>2. d \in Seq(Chars) /\ e \in Seq(Chars) BY LiteralsAreChars
<1> PICK done : done = Replacing(text[a], d, e) OBVIOUS
<1> PICK m : m = Swapped(meant[a], d, e) OBVIOUS
<1>3. CASE d = <<>>
  <2>1. ~ ("needle" \in TextRules) BY Zenon, <1>3 DEF Replace, TextRule
  <2> PICK is : is = IF IsNull(text[a]) THEN "error" ELSE "never" OBVIOUS
  <2>2. Answer("end", is, "done") BY Zenon, <1>3 DEF Replace
  <2>3. IInv' BY <2>2, AnswerKeeps
  <2> QED BY <2>1, <2>3 DEF Assumed
<1>4. CASE d # <<>> /\ done = Failed
  <2>1. Answer("end", "error", "done") BY Zenon, <1>4 DEF Replace
  <2>2. IInv' BY <2>1, AnswerKeeps
  <2>3. s # <<>> /\ Swapped(s, d, e) = <<>> BY <1>1, <1>2, <1>4, ReplacingIs
  <2>4. ~ Assumed
    <3> SUFFICES ASSUME Assumed PROVE FALSE OBVIOUS
    <3>1. s = meant[a] /\ "rest" \in TextRules BY <1>1 DEF Assumed
    <3>2. m # <<>> \/ meant[a] = <<>> BY Zenon, <1>4, <3>1 DEF Replace, TextRule
    <3> QED BY Zenon, <2>3, <3>1, <3>2
  <2> QED BY <2>2, <2>4
<1>5. CASE d # <<>> /\ done # Failed
  <2>1. Make(r, Read(done.str), m) BY Zenon, <1>5 DEF Replace
  <2>2. Stands(done.str, Swapped(s, d, e)) BY <1>1, <1>2, <1>5, ReplacingIs
  <2>3. PICK w \in Seq(Chars) : w = Read(done.str) /\ w = Swapped(s, d, e) BY <2>2, Reads
  <2>4. "plain" \in TextRules => w = m BY Zenon, <1>1, <2>3
  <2>5. Make(r, w, m) BY <2>1, <2>3
  <2> QED BY <2>4, <2>5, MakeKeeps
<1> QED BY <1>3, <1>4, <1>5

LEMMA SubstringKeeps ==
  ASSUME IInv, NEW r \in Strings, NEW a \in Strings, NEW i \in Nat, NEW j \in Int, Substring(r, a, i, j)
  PROVE  Keeps
<1>1. PICK s \in Seq(Chars) : Stands(text[a], s) /\ ("plain" \in TextRules => s = meant[a]) BY IsText
<1> PICK k : k = IF j < 0 THEN text[a].count + j ELSE j OBVIOUS
<1> PICK end : end = IF k >= text[a].count THEN text[a].count - 1 ELSE k OBVIOUS
<1> PICK w : w = IF i <= end THEN GetSubstring(text[a], i, end - i + 1) ELSE <<>> OBVIOUS
<1> PICK m : m = Between(meant[a], i, j) OBVIOUS
<1>2. w = Between(s, i, j) /\ w \in Seq(Chars)
  <2>1. CutOut(text[a], i, j, k, end, w) BY Zenon DEF CutOut
  <2> QED BY <1>1, <2>1, BetweenIs
<1>3. Make(r, w, m) BY Zenon DEF Substring
<1>4. w \in Seq(Chars) /\ ("plain" \in TextRules => w = m) BY Zenon, <1>1, <1>2
<1> QED BY <1>3, <1>4, MakeKeeps DEF Keeps

LEMMA SplitKeeps ==
  ASSUME IInv, NEW a \in Strings, NEW d \in Literals, Split(a, d)
  PROVE  IInv' /\ (Assumed /\ told[2] = told[3] => told'[2] = told'[3])
<1>1. PICK s \in Seq(Chars) : Stands(text[a], s) /\ ("plain" \in TextRules => s = meant[a]) BY IsText
<1>2. d \in Seq(Chars) BY LiteralsAreChars
<1>3. CASE d = <<>>
  <2>1. ~ ("needle" \in TextRules) BY Zenon, <1>3 DEF Split, TextRule
  <2> PICK is : is = IF text[a].count = 0 THEN "done" ELSE "never" OBVIOUS
  <2>2. Answer("end", is, "done") BY Zenon, <1>3 DEF Split
  <2>3. IInv' BY <2>2, AnswerKeeps
  <2> QED BY <2>1, <2>3 DEF Assumed
<1>4. CASE d # <<>>
  <2>1. Answer("parts", Splitting(text[a], d), Parts(meant[a], d)) BY Zenon, <1>4 DEF Split
  <2>2. Splitting(text[a], d) = Parts(s, d) BY <1>1, <1>2, <1>4, SplittingIs
  <2>3. Assumed => s = meant[a] BY <1>1 DEF Assumed
  <2>4. IInv' /\ told'[2] = Splitting(text[a], d) /\ told'[3] = Parts(meant[a], d) BY <2>1, AnswerKeeps
  <2> QED BY Zenon, <2>2, <2>3, <2>4
<1> QED BY <1>3, <1>4

LEMMA IndexOfKeeps ==
  ASSUME IInv, NEW a \in Strings, NEW d \in Literals, NEW pos, IndexOf(a, d, pos)
  PROVE  IInv' /\ (Assumed /\ told[2] = told[3] => told'[2] = told'[3])
<1>1. PICK s \in Seq(Chars) : Stands(text[a], s) /\ ("plain" \in TextRules => s = meant[a]) BY IsText
<1>2. d \in Seq(Chars) BY LiteralsAreChars
<1>3. Answer("place", find(text[a], d, pos), strstr(meant[a], d, pos)) BY Zenon DEF IndexOf
<1>4. IInv' /\ told'[2] = find(text[a], d, pos) /\ told'[3] = strstr(meant[a], d, pos) BY <1>3, AnswerKeeps
<1>5. ASSUME Assumed PROVE told'[2] = told'[3]
  <2>1. "needle" \in TextRules /\ "start" \in TextRules /\ s = meant[a] BY <1>1, <1>5 DEF Assumed
  <2>2. d # <<>> /\ pos = 0 BY Zenon, <2>1 DEF IndexOf, TextRule
  <2>3. find(text[a], d, 0) = strstr(s, d, 0) BY <1>1, <1>2, <2>2, FindIs
  <2> QED BY Zenon, <1>4, <2>1, <2>2, <2>3
<1> QED BY <1>4, <1>5

LEMMA AskKeeps ==
  ASSUME IInv, NEW a \in Strings, NEW d \in Literals, Ask(a, d)
  PROVE  IInv' /\ (Assumed /\ told[2] = told[3] => told'[2] = told'[3])
<1>1. PICK s \in Seq(Chars) : Stands(text[a], s) /\ ("plain" \in TextRules => s = meant[a]) BY IsText
<1>2. d \in Seq(Chars) BY LiteralsAreChars
<1> PICK is : is = <<startsWith(text[a], d), endsWith(text[a], d)>> OBVIOUS
<1> PICK should : should = <<Occurs(d, meant[a], 0),
                            Len(d) <= Len(meant[a]) /\ Occurs(d, meant[a], Len(meant[a]) - Len(d))>> OBVIOUS
<1>3. Answer("ends", is, should) BY Zenon DEF Ask
<1>4. IInv' /\ told'[2] = is /\ told'[3] = should BY <1>3, AnswerKeeps
<1>5. startsWith(text[a], d) = Occurs(d, s, 0) BY <1>1, <1>2, StartsIs
<1>6. endsWith(text[a], d) = (Len(d) <= Len(s) /\ Occurs(d, s, Len(s) - Len(d))) BY <1>1, <1>2, EndsIs
<1>7. Assumed => s = meant[a] BY <1>1 DEF Assumed
<1>8. Assumed => is = should BY Zenon, <1>5, <1>6, <1>7
<1> QED BY <1>4, <1>8
-----------------------------------------------------------------------------
LEMMA StepKeeps ==
  ASSUME "other" \in TextRules, IInv, [TextsNext]_textVars
  PROVE  IInv' /\ (Assumed /\ told[2] = told[3] => told'[2] = told'[3])
<1> DEFINE Goal == IInv' /\ (Assumed /\ told[2] = told[3] => told'[2] = told'[3])
<1>1. Places \subseteq Nat /\ -MaxLength .. MaxLength \subseteq Int BY Numbers DEF Places
<1>2. CASE TextsNext
  <2>1. PICK r \in Strings, a \in Strings :
          \/ Assign(r, a) \/ AddAssign(r, a) \/ AppendText(r, a)
          \/ \E b \in Strings : Add(r, a, b)
          \/ \E c \in Letters : AppendChar(r, c)
          \/ \E p \in Places : InsertAt(r, p, Read(text[a]), meant[a])
          \/ \E p \in Places, c \in Letters : InsertAt(r, p, <<c>>, <<c>>) \/ Put(r, p, c)
          \/ \E p \in Places : EraseAt(r, p)
          \/ Clear(r)
          \/ \E d, e \in Literals : Replace(r, a, d, e)
          \/ \E i \in Places, j \in -MaxLength .. MaxLength : Substring(r, a, i, j)
          \/ \E d \in Literals : Split(a, d) \/ Ask(a, d)
          \/ \E d \in Literals, pos \in Places : IndexOf(a, d, pos) BY <1>2 DEF TextsNext
  <2>2. Keeps => Goal BY DEF Keeps
  <2>3. CASE Assign(r, a) BY <2>2, <2>3, AssignKeeps
  <2>4. CASE AddAssign(r, a) BY <2>2, <2>4, AddAssignKeeps
  <2>5. CASE AppendText(r, a) BY <2>5, AppendTextKeeps
  <2>6. CASE \E b \in Strings : Add(r, a, b) BY <2>2, <2>6, AddKeeps
  <2>7. CASE \E c \in Letters : AppendChar(r, c) BY <2>2, <2>7, AppendCharKeeps
  <2>8. CASE \E p \in Places : InsertAt(r, p, Read(text[a]), meant[a])
    <3>1. PICK s \in Seq(Chars) : Read(text[a]) = s /\ ("plain" \in TextRules => s = meant[a]) BY IsText
    <3>2. PICK p \in Nat : InsertAt(r, p, s, meant[a]) BY <1>1, <2>8, <3>1
    <3> QED BY <3>1, <3>2, InsertAtKeeps
  <2>9. CASE \E p \in Places, c \in Letters : InsertAt(r, p, <<c>>, <<c>>) \/ Put(r, p, c)
    <3>1. PICK p \in Nat, c \in Letters : InsertAt(r, p, <<c>>, <<c>>) \/ Put(r, p, c) BY <1>1, <2>9
    <3>2. <<c>> \in Seq(Chars) BY LettersAreChars
    <3>3. CASE InsertAt(r, p, <<c>>, <<c>>) BY <3>2, <3>3, InsertAtKeeps
    <3>4. CASE Put(r, p, c) BY <2>2, <3>4, PutKeeps
    <3> QED BY <3>1, <3>3, <3>4
  <2>10. CASE \E p \in Places : EraseAt(r, p) BY <1>1, <2>10, EraseAtKeeps
  <2>11. CASE Clear(r) BY <2>2, <2>11, ClearKeeps
  <2>12. CASE \E d, e \in Literals : Replace(r, a, d, e) BY <2>12, ReplaceKeeps
  <2>13. CASE \E i \in Places, j \in -MaxLength .. MaxLength : Substring(r, a, i, j)
    <3>1. PICK i \in Nat, j \in Int : Substring(r, a, i, j) BY <1>1, <2>13
    <3> QED BY <2>2, <3>1, SubstringKeeps
  <2>14. CASE \E d \in Literals : Split(a, d) \/ Ask(a, d) BY <2>14, SplitKeeps, AskKeeps
  <2>15. CASE \E d \in Literals, pos \in Places : IndexOf(a, d, pos) BY <2>15, IndexOfKeeps
  <2> QED BY Zenon, <2>1, <2>3, <2>4, <2>5, <2>6, <2>7, <2>8, <2>9, <2>10, <2>11, <2>12, <2>13, <2>14, <2>15
<1>3. CASE UNCHANGED textVars BY <1>3 DEF textVars, IInv
<1> QED BY <1>2, <1>3

LEMMA StandingHolds == IInv => BlocksHold
<1> SUFFICES ASSUME IInv, NEW r \in Strings, NEW t, t = text[r]
             PROVE  IF IsNull(t) THEN t.count = 0 /\ t.size = 0
                    ELSE /\ DOMAIN t.buf = 0 .. t.size /\ t.count \in 0 .. t.size
                         /\ \A i \in 0 .. t.size : t.buf[i] = NUL <=> i >= t.count
  BY Zenon DEF BlocksHold
<1>1. PICK s \in Seq(Chars) : Stands(t, s) BY IsText
<1>2. Len(s) \in Nat BY LenProperties
<1>3. CASE t = NoText BY <1>3 DEF NoText, IsNull
<1>4. CASE t # NoText
  <2>1. PICK room \in Nat : t = Filled(s, room) BY <1>1, <1>4 DEF Stands
  <2> PICK size \in Nat : size = Len(s) + room BY <1>2
  <2> DEFINE b == Block(s, size)
  <2>2. Len(s) <= size BY <1>2
  <2>3. t.buf = b /\ t.count = Len(s) /\ t.size = size BY <2>1 DEF Filled
  <2>4. /\ DOMAIN b = 0 .. size
        /\ \A i \in 0 .. size : i < Len(s) => b[i] # NUL
        /\ \A i \in 0 .. size : ~ (i < Len(s)) => b[i] = NUL BY <2>2, BlockIs
  <2> HIDE DEF b
  <2>5. \A i \in 0 .. size : b[i] = NUL <=> i >= Len(s) BY <1>2, <2>4
  <2>6. 0 \in DOMAIN t.buf BY <2>3, <2>4
  <2>7. ~ IsNull(t) BY <2>6 DEF IsNull
  <2> QED BY <1>2, <2>2, <2>3, <2>4, <2>5, <2>7
<1> QED BY <1>3, <1>4

(* Whatever is done with the strings, if no string is appended to itself   *)
(* with append, every block is terminated where count says and zero from   *)
(* there to its end.                                                       *)
THEOREM BlocksAlwaysHold == "other" \in TextRules => (TextsSpec => []BlocksHold)
<1> SUFFICES ASSUME "other" \in TextRules PROVE TextsSpec => []BlocksHold OBVIOUS
<1>1. TextsInit => IInv BY InitHolds
<1>2. IInv /\ [TextsNext]_textVars => IInv' BY StepKeeps
<1>3. IInv => BlocksHold BY StandingHolds
<1> QED BY <1>1, <1>2, <1>3, PTL DEF TextsSpec

(* If also what is given to a String has no escapes, each is the text that *)
(* the operations that made it say.                                        *)
THEOREM TextsAlwaysMeant == {"other", "plain"} \subseteq TextRules => (TextsSpec => []TextsAreMeant)
<1> SUFFICES ASSUME {"other", "plain"} \subseteq TextRules PROVE TextsSpec => []TextsAreMeant OBVIOUS
<1>1. TextsInit => IInv BY InitHolds
<1>2. IInv /\ [TextsNext]_textVars => IInv' BY StepKeeps
<1>3. IInv => TextsAreMeant
  <2> SUFFICES ASSUME IInv, NEW r \in Strings PROVE Read(text[r]) = meant[r] /\ text[r].count = Len(meant[r])
    BY DEF TextsAreMeant
  <2> QED BY IsText
<1> QED BY <1>1, <1>2, <1>3, PTL DEF TextsSpec

(* Under all rules find, split, replace and the others answer what is      *)
(* meant, and fail only beyond the end.                                    *)
THEOREM AnswersAlwaysMeant ==
  {"other", "filled", "needle", "rest", "plain", "start"} \subseteq TextRules => (TextsSpec => []AnswersAreMeant)
<1> SUFFICES ASSUME {"other", "filled", "needle", "rest", "plain", "start"} \subseteq TextRules
             PROVE  TextsSpec => []AnswersAreMeant OBVIOUS
<1>1. TextsInit => IInv /\ AnswersAreMeant BY InitHolds
<1>2. Assumed BY DEF Assumed
<1>3. IInv /\ AnswersAreMeant /\ [TextsNext]_textVars => IInv' /\ AnswersAreMeant'
  BY <1>2, StepKeeps DEF AnswersAreMeant
<1> QED BY <1>1, <1>3, PTL DEF TextsSpec
=============================================================================
