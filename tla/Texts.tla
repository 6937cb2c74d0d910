------------------------------- MODULE Texts --------------------------------
(***************************************************************************)
(* The strings of scripts and of the host.  A String keeps its characters  *)
(* in a block of memory that has room for more; the functions of C that    *)
(* read it stop at the first zero, and the methods of String count.  Each  *)
(* operation of a script works on the block, or makes a String that is     *)
(* then unescaped into a new one, character by character.                  *)
(***************************************************************************)
EXTENDS Integers, Sequences

CONSTANTS Letters,    \* characters
          Literals,   \* texts that scripts and the host begin with, or search for
          Spare,      \* what a copy has room for: ZS_STRING_EXPAND_CHAR_ELEMENTS
          MaxLength,  \* bound: the longest text
          MaxSteps,   \* bound: operations of a session
          TextRules   \* the rules below that scripts keep to

ASSUME LiteralsAssumption == Literals \subseteq Seq(Letters) /\ "NUL" \notin Letters
ASSUME TextNumbers == Spare \in Nat /\ MaxLength \in Nat /\ MaxSteps \in Nat
ASSUME TextRulesAssumption == TextRules \subseteq {"other", "filled", "needle", "rest", "plain", "start"}

VARIABLES text,   \* the two Strings: block, count and _size
          meant,  \* the characters each should have
          told,   \* the last question, its answer, and what it should answer
          steps   \* operations so far

textVars == <<text, meant, told, steps>>

Strings == {1, 2}
NUL == "NUL"
-----------------------------------------------------------------------------
(* Reading.                                                                *)

NoText == [buf |-> [i \in {} |-> NUL], count |-> 0, size |-> 0]
IsNull(t) == DOMAIN t.buf = {}

strlen(buf) == CHOOSE n \in DOMAIN buf : buf[n] = NUL /\ \A i \in 0 .. n - 1 : buf[i] # NUL
Read(t) == IF IsNull(t) THEN <<>> ELSE [i \in 1 .. strlen(t.buf) |-> t.buf[i - 1]]

Occurs(d, s, i) == i + Len(d) <= Len(s) /\ SubSeq(s, i + 1, i + Len(d)) = d
Nowhere == -1
FirstOf(S) == IF S = {} THEN Nowhere ELSE CHOOSE i \in S : \A j \in S : i <= j
strstr(s, d, from) == FirstOf({i \in from .. Len(s) : Occurs(d, s, i)})

(* find goes over all of the text, wherever it is told to begin.           *)
find(t, d, pos) ==
  IF pos < t.count /\ Len(d) <= t.count
    THEN FirstOf({i \in 0 .. t.count - 1 : Occurs(d, Read(t), i)}) ELSE Nowhere

startsWith(t, d) == t.count >= Len(d) /\ SubSeq(Read(t), 1, Len(d)) = d
endsWith(t, d) == Len(d) <= t.count /\ SubSeq(Read(t), t.count - Len(d) + 1, t.count) = d
-----------------------------------------------------------------------------
(* Writing.                                                                *)

(* A zeroed block in which s stands.                                       *)
Block(s, size) == [i \in 0 .. size |-> IF i < Len(s) THEN s[i + 1] ELSE NUL]
Copied(s) == [buf |-> Block(s, Len(s) + Spare), count |-> Len(s), size |-> Len(s) + Spare]
Fitted(s) == [buf |-> Block(s, Len(s)), count |-> Len(s), size |-> Len(s)]

(* inc_slots: what realloc adds is zeroed.                                 *)
GrownDirty(t, n) ==
  LET size == t.count + n + (3 * t.count) \div 2 IN
  IF t.size <= t.count + n
    THEN [buf |-> [i \in 0 .. size |-> IF i \in DOMAIN t.buf THEN t.buf[i] ELSE CHOOSE c \in Letters : TRUE],
          count |-> t.count + n, size |-> size]
    ELSE [t EXCEPT !.count = @ + n]

Grown(t, n) ==
  LET size == t.count + n + (3 * t.count) \div 2 IN
  IF t.size <= t.count + n
    THEN [buf |-> [i \in 0 .. size |-> IF i < t.count THEN t.buf[i] ELSE NUL],
          count |-> t.count + n, size |-> size]
    ELSE [t EXCEPT !.count = @ + n]

AppendedChar(t, c) ==
  LET g == Grown(t, 1)
  IN  [g EXCEPT !.buf = [@ EXCEPT ![g.count] = NUL, ![g.count - 1] = c]]

Appended(t, s) ==
  LET g == Grown(t, Len(s))
  IN  [g EXCEPT !.buf = [i \in DOMAIN @ |-> IF t.count <= i /\ i < g.count
                                              THEN s[i - t.count + 1] ELSE @[i]]]

Before(t, p) == SubSeq(Read(t), 1, p)
After(t, p) == SubSeq(Read(t), p + 1, t.count)

Inserted(t, p, s) == Fitted(Before(t, p) \o s \o After(t, p))
Erased(t, p, n) == Fitted(Before(t, p) \o After(t, p + n))
SetSubstring(t, p, n, s) == Fitted(Before(t, p) \o s \o After(t, p + n))
GetSubstring(t, p, n) == SubSeq(Read(t), p + 1, p + n)

(* set of a StringScriptObject: unescape makes the text from nothing. A     *)
(* backslash and a newline stand for the five escapes, which differ in what *)
(* they become, and any other is skipped with its backslash.                *)
Escape == "\\"
Escaped == [c \in {"\\", "n"} |-> IF c = "n" THEN "newline" ELSE c]

Unescaped(s) ==
  LET from[i \in 1 .. Len(s) + 2] ==
        IF i > Len(s) THEN <<>>
        ELSE IF s[i] = Escape /\ i < Len(s)
          THEN (IF s[i + 1] \in DOMAIN Escaped THEN <<Escaped[s[i + 1]]>> ELSE <<>>) \o from[i + 2]
        ELSE <<s[i]>> \o from[i + 1]
  IN  from[1]

Held(s) ==
  LET u == Unescaped(s)
      grow[n \in 0 .. Len(u)] == IF n = 0 THEN NoText ELSE AppendedChar(grow[n - 1], u[n])
  IN  grow[Len(u)]

(* replace goes over a copy of the text; it never ends if it searches for  *)
(* nothing.                                                                *)
BehindStill(at, e) == at
Behind(at, e) == at + Len(e)

Failed == [str |-> NoText, idx |-> Nowhere]
Replacing(t, d, e) ==
  LET step[n \in 0 .. t.count + 1] ==
        IF n = 0 THEN [str |-> Copied(Read(t)), idx |-> 0]
        ELSE LET last == step[n - 1]
                 at == strstr(Read(last.str), d, last.idx)
             IN  IF last = Failed \/ at = Nowhere THEN last
                 ELSE IF last.str.count + Len(e) - Len(d) <= 0 THEN Failed
                 ELSE [str |-> SetSubstring(last.str, at, Len(d), e), idx |-> Behind(at, e)]
  IN  step[t.count + 1]

(* split takes each part, with what ends it, off the front of a copy.      *)
WithEndShort(at, d) == at + 1
WithEnd(at, d) == at + Len(d)

Splitting(t, d) ==
  LET step[n \in 0 .. t.count + 1] ==
        IF n = 0 THEN [parts |-> <<>>, rest |-> Copied(Read(t))]
        ELSE LET last == step[n - 1]
                 at == find(last.rest, d, 0)
             IN  IF at = Nowhere THEN last
                 ELSE [parts |-> Append(last.parts, GetSubstring(last.rest, 0, at)),
                       rest |-> Erased(last.rest, 0, WithEnd(at, d))]
      end == step[t.count + 1]
  IN  Append(end.parts, Read(end.rest))
-----------------------------------------------------------------------------
(* What they should do: the text between the occurrences of d, as parts,   *)
(* or with e between them.                                                 *)

Parts(s, d) ==
  LET from[i \in 0 .. Len(s)] ==
        LET at == strstr(s, d, i)
        IN  IF at = Nowhere THEN <<SubSeq(s, i + 1, Len(s))>>
            ELSE <<SubSeq(s, i + 1, at)>> \o from[at + Len(d)]
  IN  from[0]

Swapped(s, d, e) ==
  LET from[i \in 0 .. Len(s)] ==
        LET at == strstr(s, d, i)
        IN  IF at = Nowhere THEN SubSeq(s, i + 1, Len(s))
            ELSE SubSeq(s, i + 1, at) \o e \o from[at + Len(d)]
  IN  from[0]

(* The characters from i to j, both included; j < 0 counts from the end.   *)
Between(s, i, j) ==
  LET places == {p \in 0 .. Len(s) - 1 : i <= p /\ p <= IF j < 0 THEN Len(s) + j ELSE j}
  IN  IF places = {} THEN <<>>
      ELSE SubSeq(s, i + 1, 1 + CHOOSE p \in places : \A q \in places : q <= p)
-----------------------------------------------------------------------------
(* Rules.  other: append gets another string.  filled: it has a block.     *)
(* needle: what is searched for is not empty.  rest: replace leaves some-  *)
(* thing.  plain: a text that is given to another string has no escapes.   *)
(* start: find begins at 0.                                                *)
TextRule(name, condition) == name \in TextRules => condition
Plain(s) == TextRule("plain", Unescaped(s) = s)

TextsInit ==
  /\ \E s, host \in Literals :
       /\ text = <<Held(s), Copied(host)>>
       /\ meant = <<Unescaped(s), host>>
  /\ told = <<"nothing", "nothing", "nothing">>
  /\ steps = 0

Become(r, t, m) ==
  /\ Len(m) <= MaxLength
  /\ text' = [text EXCEPT ![r] = t]
  /\ meant' = [meant EXCEPT ![r] = m]
  /\ told' = <<"nothing", "nothing", "nothing">>
  /\ steps' = steps + 1

(* A session ends with a question, or an error.                            *)
Answer(what, is, should) ==
  /\ told' = <<what, is, should>>
  /\ steps' = MaxSteps
  /\ UNCHANGED <<text, meant>>

Make(r, s, m) == Plain(s) /\ Become(r, Held(s), m)

Assign(r, a) == Make(r, Read(text[a]), meant[a])
Add(r, a, b) == Make(r, Read(text[a]) \o Read(text[b]), meant[a] \o meant[b])

(* += appends a copy.                                                      *)
AddAssign(r, a) == Become(r, Appended(text[r], Read(text[a])), meant[r] \o meant[a])

(* append reads the block of the other string after it made room: if it is *)
(* the same block, and moved, it reads freed memory.                       *)
AppendText(r, a) ==
  LET moved == a = r /\ text[r].size <= 2 * text[r].count IN
  /\ TextRule("other", a # r)
  /\ TextRule("filled", ~IsNull(text[a]))
  /\ IF IsNull(text[a]) THEN Answer("end", "error", "done")
     ELSE \E s \in IF moved THEN [1 .. text[r].count -> Letters \cup {NUL}] ELSE {Read(text[a])} :
            Become(r, Appended(text[r], s), meant[r] \o meant[a])

AppendChar(r, c) == Become(r, AppendedChar(text[r], c), Append(meant[r], c))

InsertAt(r, p, s, m) ==
  IF p >= text[r].count THEN Answer("end", "error", IF p >= Len(meant[r]) THEN "error" ELSE "done")
  ELSE Become(r, Inserted(text[r], p, s), SubSeq(meant[r], 1, p) \o m \o SubSeq(meant[r], p + 1, Len(meant[r])))

EraseAt(r, p) ==
  IF p >= text[r].count THEN Answer("end", "error", IF p >= Len(meant[r]) THEN "error" ELSE "done")
  ELSE Become(r, Erased(text[r], p, 1), SubSeq(meant[r], 1, p) \o SubSeq(meant[r], p + 2, Len(meant[r])))

(* s[p] = c                                                                *)
Put(r, p, c) ==
  /\ p < text[r].count
  /\ Become(r, [text[r] EXCEPT !.buf = [@ EXCEPT ![p] = c]], [meant[r] EXCEPT ![p + 1] = c])

Clear(r) == Become(r, NoText, <<>>)

Replace(r, a, d, e) ==
  LET done == Replacing(text[a], d, e)
      m == Swapped(meant[a], d, e) IN
  /\ TextRule("needle", d # <<>>)
  /\ TextRule("rest", d = <<>> \/ m # <<>> \/ meant[a] = <<>>)
  /\ IF d = <<>> THEN Answer("end", IF IsNull(text[a]) THEN "error" ELSE "never", "done")
     ELSE IF done = Failed THEN Answer("end", "error", "done")
     ELSE Make(r, Read(done.str), m)

Substring(r, a, i, j) ==
  LET k == IF j < 0 THEN text[a].count + j ELSE j
      end == IF k >= text[a].count THEN text[a].count - 1 ELSE k
  IN  Make(r, IF i <= end THEN GetSubstring(text[a], i, end - i + 1) ELSE <<>>,
           Between(meant[a], i, j))

Split(a, d) ==
  /\ TextRule("needle", d # <<>>)
  /\ Plain(Read(text[a]))
  /\ IF d = <<>> THEN Answer("end", IF text[a].count = 0 THEN "done" ELSE "never", "done")
     ELSE Answer("parts", Splitting(text[a], d), Parts(meant[a], d))

IndexOf(a, d, pos) ==
  /\ TextRule("needle", d # <<>>)
  /\ TextRule("start", pos = 0)
  /\ Answer("place", find(text[a], d, pos), strstr(meant[a], d, pos))

Ask(a, d) ==
  Answer("ends", <<startsWith(text[a], d), endsWith(text[a], d)>>,
         <<Occurs(d, meant[a], 0),
           Len(d) <= Len(meant[a]) /\ Occurs(d, meant[a], Len(meant[a]) - Len(d))>>)

Places == 0 .. MaxLength

TextsNext ==
  /\ steps < MaxSteps
  /\ \E r, a \in Strings :
       \/ Assign(r, a) \/ AddAssign(r, a) \/ AppendText(r, a)
       \/ \E b \in Strings : Add(r, a, b)
       \/ \E c \in Letters : AppendChar(r, c)
       \/ \E p \in Places : InsertAt(r, p, Read(text[a]), meant[a])
       \/ \E p \in Places, c \in Letters : InsertAt(r, p, <<c>>, <<c>>) \/ Put(r, p, c)
       \/ \E p \in Places : EraseAt(r, p)
       \/ Clear(r)
       \/ \E d, e \in Literals : Replace(r, a, d, e)
       \/ \E i \in Places, j \in -MaxLength .. MaxLength : Substring(r, a, i, j)
       \/ \E d \in Literals : Split(a, d) \/ Ask(a, d)
       \/ \E d \in Literals, pos \in Places : IndexOf(a, d, pos)

TextsSpec == TextsInit /\ [][TextsNext]_textVars
-----------------------------------------------------------------------------
(* Properties.                                                             *)

(* Whatever was appended, cut and moved, a block is terminated where count *)
(* says, by zeros up to its end, so that the functions of C, which do not  *)
(* know count, and append, which writes no zero, stay within the text.     *)
BlocksHold ==
  \A r \in Strings :
    LET t == text[r] IN
    IF IsNull(t) THEN t.count = 0 /\ t.size = 0
    ELSE /\ DOMAIN t.buf = 0 .. t.size /\ t.count \in 0 .. t.size
         /\ \A i \in 0 .. t.size : t.buf[i] = NUL <=> i >= t.count

(* Each text is what the operations that made it say, also when the text   *)
(* that replaces another contains it.                                      *)
TextsAreMeant ==
  \A r \in Strings : Read(text[r]) = meant[r] /\ text[r].count = Len(meant[r])

(* Questions are answered by the text: parts between separators, the place *)
(* of the first occurrence; and only a position beyond the end fails.      *)
AnswersAreMeant == told[2] = told[3]
=============================================================================
