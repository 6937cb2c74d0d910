------------------------------- MODULE JsonText -------------------------------
(***************************************************************************)
(* Json::serialize and Json::deserialize.  A value of a script is written  *)
(* as a text, the text may be laid out with blanks and comments or be      *)
(* damaged, and is read again, one lexeme per step, into objects with      *)
(* shares.                                                                 *)
(*                                                                         *)
(* A text is a sequence of lexemes: <<"str", s>>, <<"num", n>>, <<"true">>,*)
(* <<"false">>, <<"word">> (null or any other word), the punctuation, and  *)
(* the layout: <<"sp">>, <<"nl">>, <<"rem">> for a closed comment in its   *)
(* line and <<"line">> for a comment with the end of its line.  Strings    *)
(* hold no quotes, and keys are not the names of built-in members.         *)
(***************************************************************************)
EXTENDS Naturals, Sequences, FiniteSets

CONSTANTS Graphs,     \* the values written: records [root, objects]
          Documents,  \* texts of other programs, with what they mean
          MaxLays,    \* bound on the layout put into a text
          MaxNest,    \* bound on the nesting of what is written
          JsonRules   \* the rules below that values and texts keep to

ASSUME JsonRulesAssumption == JsonRules \subseteq {"cycle", "property", "glued"}
ASSUME JsonBoundsAssumption == MaxLays \in Nat /\ MaxNest \in Nat

VARIABLES text,     \* the text
          intended, \* the tree it stands for
          damaged,  \* something was lost from the text
          lays,     \* layout put in so far
          phase,    \* "lay", then "read", then "done" or "refused"
          pos,      \* the next lexeme
          want,     \* "value", "key", or "more" after an element
          open,     \* the containers being read, each with the slot it fills
          made,     \* the objects made: [kind, items, shares]
          live,     \* those not deleted
          top       \* the value that deserialize returns

textVars == <<text, intended, damaged, lays>>
readVars == <<pos, want, open, made, live, top>>
jsonVars == <<textVars, phase, readVars>>

Layout == {<<"sp">>, <<"nl">>, <<"rem">>, <<"line">>}
NoValue == <<"undefined">>

RECURSIVE Chained(_)
Chained(parts) == IF parts = <<>> THEN <<>> ELSE parts[1] \o Chained(Tail(parts))
-----------------------------------------------------------------------------
(* Writing.  A graph has a root value and objects: arrays with items, and  *)
(* objects with fields and properties that have a getter.  Values are      *)
(* <<"str", s>>, <<"num", n>>, <<"bool", b>>, <<"null">>, <<"undefined">>, *)
(* <<"function">> and <<"ref", o>>.                                        *)

Break(formatted) == IF formatted THEN <<<<"nl">>, <<"sp">>>> ELSE <<>>

Serialized(fields) == SelectSeq(fields, LAMBDA f : f[2] # <<"function">>)

RECURSIVE serialize_stk(_, _, _, _, _)

(* One of the two maps of an object.                                       *)
FieldsWritten(g, fields, this, formatted, nest) ==
  LET shown == Serialized(fields)
  IN Chained([k \in 1 .. Len(shown) |->
        Break(formatted) \o (IF k > 1 THEN <<<<",">>>> ELSE <<>>)
          \o <<<<"str", shown[k][1]>>, <<":">>>>
          \o serialize_stk(g, shown[k][2], this, formatted, nest + 1)])

serialize_object(g, o, this, formatted, nest) ==
  <<<<"{">>>> \o FieldsWritten(g, g.objects[o].fields, this, formatted, nest)
    \o FieldsWritten(g, g.objects[o].properties, this, formatted, nest)
    \o Break(formatted) \o <<<<"}">>>>

serialize_array(g, o, this, formatted, nest) ==
  LET items == g.objects[o].items
  IN <<<<"[">>>>
       \o Chained([k \in 1 .. Len(items) |->
            (IF k > 1 THEN <<<<",">>>> ELSE <<>>)
              \o serialize_stk(g, items[k], this, formatted, nest + 1)])
       \o <<<<"]">>>>

serialize_stk(g, v, this, formatted, nest) ==
  CASE nest > MaxNest -> <<<<"endless">>>>
    [] v[1] \in {"str", "num"} -> <<v>>
    [] v[1] = "bool" -> IF v[2] THEN <<<<"true">>>> ELSE <<<<"false">>>>
    [] v[1] \in {"null", "undefined"} -> <<<<"word">>>>
    [] v[1] = "function" -> <<>>
    [] v[1] = "ref" -> IF g.objects[v[2]].kind = "arr" THEN serialize_array(g, v[2], this, formatted, nest)
                       ELSE IF <<v[2]>> = this THEN <<<<"str", "ScriptObject@">>>>
                       ELSE serialize_object(g, v[2], this, formatted, nest)

serialize(g, formatted) ==
  IF g.root[1] = "ref" /\ g.objects[g.root[2]].kind = "obj"
    THEN serialize_object(g, g.root[2], <<g.root[2]>>, formatted, 0)
    ELSE serialize_stk(g, g.root, <<>>, formatted, 0)

(* The tree that a graph stands for: numbers without their type, no        *)
(* functions, and the name of the root's type where it comes again.        *)
RECURSIVE TreeOfGraph(_, _, _)
TreeOfGraph(g, v, inner) ==
  CASE v[1] = "num" -> <<"float", v[2]>>
    [] v[1] \in {"null", "undefined", "function"} -> NoValue
    [] v[1] = "ref" ->
         LET x == g.objects[v[2]]
         IN IF x.kind = "arr" THEN <<"arr", [k \in 1 .. Len(x.items) |-> TreeOfGraph(g, x.items[k], TRUE)]>>
            ELSE IF inner /\ v = g.root THEN <<"str", "ScriptObject@">>
            ELSE <<"obj", {<<f[1], TreeOfGraph(g, f[2], TRUE)>> : f \in
                     {h \in {(x.fields \o x.properties)[k] : k \in 1 .. Len(x.fields \o x.properties)} :
                        h[2] # <<"function">>}}>>
    [] OTHER -> v

(* "cycle": a value comes again only where it is the root, an object.      *)
Holds(g, o) ==
  LET x == g.objects[o]
      values == IF x.kind = "arr" THEN x.items ELSE [k \in 1 .. Len(x.fields \o x.properties) |->
                                                       (x.fields \o x.properties)[k][2]]
  IN {values[k][2] : k \in {n \in 1 .. Len(values) : values[n][1] = "ref"}}

RECURSIVE Nested(_, _, _)
Nested(g, o, path) ==
  \A p \in Holds(g, o) : \/ g.root = <<"ref", p>> /\ g.objects[p].kind = "obj"
                         \/ p \notin path /\ Nested(g, p, path \cup {p})

KeepsCycle(g) == g.root[1] = "ref" => Nested(g, g.root[2], {g.root[2]})

(* "property": an object with fields has no properties that are written.   *)
KeepsProperty(g) ==
  \A o \in DOMAIN g.objects :
    g.objects[o].kind = "obj" => Serialized(g.objects[o].fields) = <<>> \/ g.objects[o].properties = <<>>
-----------------------------------------------------------------------------
(* Reading.                                                                *)

Lexeme(i) == IF i <= Len(text) THEN text[i] ELSE <<"end">>

(* What a wrong eval_ignore_blanks gets: one comment or blank only.        *)
eval_ignore_blank(i) == IF Lexeme(i) \in Layout THEN i + 1 ELSE i

RECURSIVE eval_ignore_blanks(_)
eval_ignore_blanks(i) == IF Lexeme(i) \in Layout THEN eval_ignore_blanks(i + 1) ELSE i

(* A word ends at these; a comment before one belongs to the word.         *)
RECURSIVE EndOfWord(_)
EndOfWord(i) ==
  IF Lexeme(i) \in {<<",">>, <<"}">>, <<"]">>, <<"sp">>, <<"nl">>, <<"end">>} THEN i
  ELSE IF Lexeme(i) = <<"line">> THEN i + 1
  ELSE EndOfWord(i + 1)

(* Float::parse: the value stays undefined unless the word is a number.    *)
NumberAt(i) == IF EndOfWord(i) = i + 1 /\ Lexeme(i)[1] = "num" THEN <<"float", Lexeme(i)[2]>> ELSE NoValue

Slot == IF open = <<>> THEN <<>> ELSE open[Len(open)].slot
ValueOf(id, slot) == (CHOOSE k \in 1 .. Len(made[id].items) : made[id].items[k][1] = slot)

RECURSIVE Reach(_)
Reach(v) ==
  IF v[1] # "object" THEN {}
  ELSE {v[2]} \cup UNION {Reach(made[v[2]].items[k][2]) : k \in 1 .. Len(made[v[2]].items)}

InSlot(objects, v) ==
  IF open = <<>> THEN objects
  ELSE LET c == open[Len(open)]
       IN [objects EXCEPT ![c.id].items[ValueOf(c.id, c.slot)] = <<c.slot, v>>]

(* vm_create_shared_object, and vm_share_object unless it is the result.   *)
Made(kind, word) ==
  Append(made, [kind |-> kind, word |-> word, items |-> <<>>, shares |-> IF open = <<>> THEN 0 ELSE 1])

(* The element at the end of which reading stands goes to its slot.        *)
After(i) ==
  /\ pos' = i
  /\ IF open = <<>> THEN phase' = "done" /\ want' = want
     ELSE phase' = phase /\ want' = "more"

Put(v) == top' = IF open = <<>> THEN v ELSE top

(* deserialize fails: the result is undefined, and what was made without a *)
(* share is deleted at the end of the statement with what it holds.        *)
Refuse ==
  /\ phase' = "refused"
  /\ live' = live \ (IF top = NoValue THEN {} ELSE Reach(top))
  /\ top' = NoValue
  /\ UNCHANGED <<pos, want, open, made>>

Reading(what) == phase = "read" /\ want = what /\ UNCHANGED textVars

ReadString ==
  LET p == eval_ignore_blanks(pos) v == <<"object", Len(made) + 1>> IN
  /\ Reading("value")
  /\ Lexeme(p)[1] = "str"
  /\ made' = InSlot(Made("str", Lexeme(p)[2]), v)
  /\ live' = live \cup {Len(made) + 1}
  /\ Put(v)
  /\ After(eval_ignore_blanks(p + 1))
  /\ UNCHANGED open

ReadWord(v, p, end) ==
  /\ made' = InSlot(made, v)
  /\ Put(v)
  /\ After(end)
  /\ UNCHANGED <<open, live>>

ReadBool ==
  LET p == eval_ignore_blanks(pos) IN
  /\ Reading("value")
  /\ Lexeme(p) \in {<<"true">>, <<"false">>}
  /\ ReadWord(<<"bool", Lexeme(p) = <<"true">>>>, p, p + 1)

ReadNumber ==
  LET p == eval_ignore_blanks(pos) IN
  /\ Reading("value")
  /\ Lexeme(p)[1] \notin {"str", "true", "false", "[", "{"}
  /\ IF EndOfWord(p) > p THEN ReadWord(NumberAt(p), p, EndOfWord(p)) ELSE Refuse

Closing(kind) == IF kind = "arr" THEN <<"]">> ELSE <<"}">>

(* The next key of an object, or the next slot of an array.                *)
NextElement(containers, objects) ==
  LET c == containers[Len(containers)]
      slot == Len(objects[c.id].items) + 1
  IN IF objects[c.id].kind = "obj"
       THEN /\ want' = "key"
            /\ open' = containers
            /\ made' = objects
       ELSE /\ want' = "value"
            /\ open' = [containers EXCEPT ![Len(containers)].slot = slot]
            /\ made' = [objects EXCEPT ![c.id].items = Append(@, <<slot, NoValue>>)]

(* deserialize_vector and deserialize_object up to their first element.    *)
OpenContainer ==
  LET p == eval_ignore_blanks(pos)
      kind == IF Lexeme(p) = <<"[">> THEN "arr" ELSE "obj"
      v == <<"object", Len(made) + 1>>
      objects == InSlot(Made(kind, ""), v)
      first == eval_ignore_blanks(p + 1)
  IN /\ Reading("value")
     /\ Lexeme(p) \in {<<"[">>, <<"{">>}
     /\ live' = live \cup {Len(made) + 1}
     /\ Put(v)
     /\ IF Lexeme(first) = Closing(kind)
          THEN After(first + 1) /\ made' = objects /\ UNCHANGED open
          ELSE /\ NextElement(Append(open, [id |-> Len(made) + 1, slot |-> 0]), objects)
               /\ pos' = first
               /\ UNCHANGED phase

(* A key: setStackElementByKeyName takes what its field held.  What a      *)
(* wrong one gets: the old value keeps its share.                          *)
FieldOverwritten(id, key) ==
  IF \E k \in 1 .. Len(made[id].items) : made[id].items[k][1] = key
    THEN /\ made' = [made EXCEPT ![id].items[ValueOf(id, key)] = <<key, NoValue>>]
         /\ UNCHANGED live
    ELSE /\ made' = [made EXCEPT ![id].items = Append(@, <<key, NoValue>>)]
         /\ UNCHANGED live

setStackElementByKeyName(id, key) ==
  IF \E k \in 1 .. Len(made[id].items) : made[id].items[k][1] = key
    THEN /\ made' = [made EXCEPT ![id].items[ValueOf(id, key)] = <<key, NoValue>>]
         /\ live' = live \ Reach(made[id].items[ValueOf(id, key)][2])
    ELSE /\ made' = [made EXCEPT ![id].items = Append(@, <<key, NoValue>>)]
         /\ UNCHANGED live

ReadKey ==
  LET colon == eval_ignore_blanks(pos + 1) IN
  /\ Reading("key")
  /\ IF Lexeme(pos)[1] = "str" /\ Lexeme(colon) = <<":">>
       THEN /\ setStackElementByKeyName(open[Len(open)].id, Lexeme(pos)[2])
            /\ open' = [open EXCEPT ![Len(open)].slot = Lexeme(pos)[2]]
            /\ pos' = eval_ignore_blanks(colon + 1)
            /\ want' = "value"
            /\ UNCHANGED <<phase, top>>
       ELSE Refuse

(* After an element: a comma and the next, or the end; a comma may come    *)
(* before the end.                                                         *)
ReadMore ==
  LET p == eval_ignore_blanks(pos)
      c == open[Len(open)]
      q == IF Lexeme(p) = <<",">> THEN eval_ignore_blanks(p + 1) ELSE p
      outer == SubSeq(open, 1, Len(open) - 1)
  IN /\ Reading("more")
     /\ IF Lexeme(q) = Closing(made[c.id].kind)
          THEN /\ pos' = q + 1
               /\ open' = outer
               /\ phase' = IF outer = <<>> THEN "done" ELSE "read"
               /\ UNCHANGED <<want, made, live, top>>
        ELSE IF q = p THEN Refuse
        ELSE NextElement(open, made) /\ pos' = q /\ UNCHANGED <<phase, live, top>>
-----------------------------------------------------------------------------
JsonInit ==
  /\ \/ \E g \in Graphs, formatted \in BOOLEAN :
          /\ "cycle" \in JsonRules => KeepsCycle(g)
          /\ "property" \in JsonRules => KeepsProperty(g)
          /\ text = serialize(g, formatted)
          /\ intended = TreeOfGraph(g, g.root, FALSE)
     \/ \E d \in Documents : text = d[1] /\ intended = d[2]
  /\ damaged = FALSE
  /\ lays = 0
  /\ phase = "lay"
  /\ pos = 1 /\ want = "value" /\ open = <<>>
  /\ made = <<>> /\ live = {} /\ top = NoValue

(* "glued": a comment does not follow a number or a word without a blank.  *)
Lay(i, layout) ==
  /\ phase = "lay" /\ lays < MaxLays
  /\ "glued" \in JsonRules => (i > 1 /\ Lexeme(i - 1)[1] \in {"num", "word"} => layout \in {<<"sp">>, <<"nl">>})
  /\ text' = SubSeq(text, 1, i - 1) \o <<layout>> \o SubSeq(text, i, Len(text))
  /\ lays' = lays + 1
  /\ UNCHANGED <<intended, damaged, phase, readVars>>

Damage(i) ==
  /\ phase = "lay" /\ ~damaged
  /\ text' = SubSeq(text, 1, i - 1) \o SubSeq(text, i + 1, Len(text))
  /\ damaged' = TRUE
  /\ UNCHANGED <<intended, lays, phase, readVars>>

JsonModule_deserialize ==
  /\ phase = "lay"
  /\ phase' = "read"
  /\ UNCHANGED <<textVars, readVars>>

JsonNext ==
  \/ \E i \in 1 .. Len(text) + 1, layout \in Layout : Lay(i, layout)
  \/ \E i \in 1 .. Len(text) : Damage(i)
  \/ JsonModule_deserialize
  \/ ReadString
  \/ ReadBool
  \/ ReadNumber
  \/ OpenContainer
  \/ ReadKey
  \/ ReadMore

JsonSpec == JsonInit /\ [][JsonNext]_jsonVars
-----------------------------------------------------------------------------
RECURSIVE TreeMade(_)
TreeMade(v) ==
  IF v[1] # "object" THEN v
  ELSE LET o == made[v[2]]
       IN CASE o.kind = "str" -> <<"str", o.word>>
            [] o.kind = "arr" -> <<"arr", [k \in 1 .. Len(o.items) |-> TreeMade(o.items[k][2])]>>
            [] o.kind = "obj" -> <<"obj", {<<o.items[k][1], TreeMade(o.items[k][2])>> : k \in 1 .. Len(o.items)}>>

(* What serialize wrote, formatted or not, is read as the same tree of     *)
(* values wherever blanks and comments are put, and so are the documents   *)
(* of others (JsonSerializeModule.cpp, JsonDeserializeModule.cpp).         *)
ReadsBack ==
  ~damaged => phase # "refused" /\ (phase = "done" => TreeMade(top) = intended)

(* Whatever the text, the objects alive are those that the result holds,   *)
(* with one share for each holder; nothing is left of a refused text or of *)
(* a key that comes again (JsonModule.cpp, setStackElementByKeyName).      *)
AllIsHeld ==
  /\ live = Reach(top)
  /\ \A o \in live :
       made[o].shares =
         Cardinality({<<p, k>> \in live \X (1 .. Len(text)) :
                        k <= Len(made[p].items) /\ made[p].items[k][2] = <<"object", o>>})
==============================================================================
