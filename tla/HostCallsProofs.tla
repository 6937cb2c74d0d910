--------------------------- MODULE HostCallsProofs ---------------------------
(***************************************************************************)
(* Proofs about HostCalls, for any number of objects, variables, calls,    *)
(* operands and entries.  The hypothesis on the host and the scripts is    *)
(* that they keep to all rules (KeepsRules).                               *)
(***************************************************************************)
EXTENDS HostCalls, FiniteSetTheorems, FunctionTheorems, SequenceTheorems, WellFoundedInduction, TLAPS

KeepsRules == Keeps = Rules

Node == [shares : Nat, home : Nat, list : Nat]

AFrame == [kind : {"script", "native"}, param : Object \cup {None}, operands : Seq(Object),
           from : {"host", "script"}, extra : Object \cup {None}]

TypeOK ==
  /\ state \in [Object -> {"new", "live", "deleted"}]
  /\ node \in [Object -> Node \cup {None}]
  /\ global \in [Var -> Object \cup {None}]
  /\ frames \in Seq(AFrame)
  /\ entries \in Seq([object : Object, counted : BOOLEAN])
  /\ stray \in [Object -> Nat]
  /\ failed = FALSE

(* Who calls whom: the host calls scripts, scripts call both, and only a   *)
(* call of the host has an extra share, which is its parameter's.          *)
FramesShaped ==
  /\ Depth <= MaxFrames
  /\ \A i \in 1 .. Depth :
       IF frames[i].from = "host"
       THEN /\ frames[i].kind = "script"
            /\ frames[i].extra \in {None, frames[i].param}
            /\ i = 1 \/ frames[i - 1].kind = "native"
       ELSE /\ frames[i].extra = None
            /\ i > 1 /\ frames[i - 1].kind = "script"
  /\ \A i \in 1 .. Depth : frames[i].kind = "native" => frames[i].operands = <<>>

(* Place j of call i has object x: an operand, or the argument of a native *)
(* function (place 0).  These places have no share of their own.           *)
Has(i, j, x) ==
  /\ i \in 1 .. Depth
  /\ \/ j \in 1 .. Len(frames[i].operands) /\ frames[i].operands[j] = x
     \/ j = 0 /\ frames[i].kind = "native" /\ frames[i].param = x

(* No other place of the calls below k has it.                             *)
Sole(i, j, x, k) == \A p, q \in Nat : p < k /\ Has(p, q, x) => p = i /\ q = j

(* The block in which call i works.                                        *)
BlockOf(i) == IF frames[i].kind = "script" THEN i ELSE i - 1

(* Three ways to keep what a place has alive while it can be reached: it   *)
(* has a share that outlives the call, were it one that an error left; it  *)
(* is a temporary of the call; or it was one, and a call of the host above *)
(* has the extra share of it.                                              *)
Anchored(i, x) ==
  \/ GlobalsOf(x) # {} \/ EntriesOf(x) # {} \/ stray[x] # 0
  \/ \E k \in ParamsOf(x) : k <= i

Temporary(i, j, x) ==
  /\ node[x].shares = 0 /\ node[x].list = BlockOf(i)
  /\ \A p, q \in Nat : Has(p, q, x) => p = i /\ q = j

Lent(i, j, x) ==
  \E k \in ExtrasOf(x) : k > i /\ node[x].home = BlockOf(i) /\ Sole(i, j, x, k)

Reached(x) ==
  \A i, j \in Nat : Has(i, j, x) =>
    node[x] # None /\ (Anchored(i, x) \/ Temporary(i, j, x) \/ Lent(i, j, x))

(* What is not alive has no node and is nowhere.                           *)
Known(x) ==
  state[x] # "live" => /\ node[x] = None /\ GlobalsOf(x) = {}
                       /\ ParamsOf(x) = {} /\ EntriesOf(x) = {} /\ stray[x] = 0

(* SharesExact, of one object; what is loose has no share at all.          *)
Counts(x) ==
  state[x] = "live" =>
    IF node[x] = None
    THEN /\ GlobalsOf(x) = {} /\ ParamsOf(x) = {} /\ CountedOf(x) = {}
         /\ Cardinality(EntriesOf(x)) = 1 /\ stray[x] = 0
    ELSE node[x].shares = Shares(x) /\ CountedOf(x) = EntriesOf(x)

(* An object without shares waits in the block of a call in progress.      *)
Listed(x) ==
  node[x] # None => IF node[x].shares = 0 THEN node[x].list \in Blocks ELSE node[x].list = NoList

(* An extra share was given to a temporary of a call below.                *)
Extra(x) ==
  \A k \in ExtrasOf(x) :
    /\ node[x].home \in Blocks /\ node[x].home < k
    /\ \A i \in 1 .. k - 1 : i \notin ParamsOf(x) \cup ExtrasOf(x)

Fits(x) == Known(x) /\ Counts(x) /\ Listed(x) /\ Reached(x) /\ Extra(x)

IInv == TypeOK /\ FramesShaped /\ \A x \in Object : Fits(x)
-----------------------------------------------------------------------------
(* The frames before and after a step.                                     *)

Same(i) == /\ frames[i]' \in AFrame
           /\ frames[i].kind' = frames[i].kind /\ frames[i].param' = frames[i].param
           /\ frames[i].from' = frames[i].from /\ frames[i].extra' = frames[i].extra

SameOperands(i) == frames[i].operands' = frames[i].operands

(* A step leaves the first n frames, but for operands.                     *)
Keep(n) == \A i \in 1 .. n : Same(i)

FrameTypes == frames \in Seq(AFrame) /\ FramesShaped

LEMMA DepthNat == ASSUME FrameTypes PROVE Depth \in Nat /\ \A i \in 1 .. Depth : frames[i] \in AFrame
BY DEF FrameTypes, Depth

(* Operands(s): the running function gets other operands.                  *)
LEMMA OperandsFrames ==
  ASSUME FrameTypes, Depth > 0, Frame.kind = "script", NEW s \in Seq(Object), frames' = Operands(s)
  PROVE  /\ FrameTypes' /\ Depth' = Depth /\ Keep(Depth)
         /\ \A i \in 1 .. Depth : i # Depth => SameOperands(i)
         /\ Frame.operands' = s
<1>1. Depth \in Nat /\ \A i \in 1 .. Depth : frames[i] \in AFrame BY DepthNat
<1> DEFINE top == [frames[Depth] EXCEPT !.operands = s]
<1>2. top \in AFrame BY <1>1 DEF AFrame
<1>3. /\ top.kind = frames[Depth].kind /\ top.param = frames[Depth].param
      /\ top.from = frames[Depth].from /\ top.extra = frames[Depth].extra /\ top.operands = s
  BY <1>1 DEF AFrame
<1>4. frames' = [frames EXCEPT ![Depth] = top] BY DEF Operands
<1> HIDE DEF top
<1>5. Len(frames') = Len(frames) /\ frames' \in Seq(AFrame) /\ frames'[Depth] = top
      /\ \A i \in 1 .. Depth : i # Depth => frames'[i] = frames[i]
  BY <1>1, <1>2, <1>4 DEF FrameTypes, Depth
<1>6. Keep(Depth) BY <1>1, <1>2, <1>3, <1>5 DEF Keep, Same
<1>7. Depth' = Depth BY <1>5 DEF Depth
<1>8. FramesShaped'
  <2>1. \A i \in 1 .. Depth : frames'[i].kind = "native" => frames'[i].operands = <<>>
    BY <1>1, <1>3, <1>5 DEF FrameTypes, FramesShaped, Frame
  <2>2. \A i \in 1 .. Depth : Same(i) BY <1>6 DEF Keep
  <2>3. \A i \in 1 .. Depth : i = 1 \/ Same(i - 1)
    <3> TAKE i \in 1 .. Depth
    <3>1. i = 1 \/ i - 1 \in 1 .. Depth BY <1>1
    <3> QED BY <2>2, <3>1
  <2>4. Depth' = Depth /\ FramesShaped BY <1>7 DEF FrameTypes
  <2> HIDE DEF Depth
  <2>5. Depth' <= MaxFrames BY <2>4 DEF FramesShaped
  <2>6. ASSUME NEW i \in 1 .. Depth, frames[i].from = "host"
        PROVE  /\ frames'[i].from = "host" /\ frames'[i].kind = "script"
               /\ frames'[i].extra \in {None, frames'[i].param}
               /\ i = 1 \/ frames'[i - 1].kind = "native"
    BY <2>2, <2>3, <2>4, <2>6 DEF FramesShaped, Same
  <2>7. ASSUME NEW i \in 1 .. Depth, frames[i].from # "host"
        PROVE  /\ frames'[i].from # "host" /\ frames'[i].extra = None
               /\ i > 1 /\ frames'[i - 1].kind = "script"
    BY <2>2, <2>3, <2>4, <2>7 DEF FramesShaped, Same
  <2> QED BY <2>1, <2>4, <2>5, <2>6, <2>7 DEF FramesShaped
<1> QED BY <1>1, <1>3, <1>5, <1>6, <1>7, <1>8 DEF FrameTypes, SameOperands, Frame

(* A call, by a caller that may have given its operand away.               *)
Enters(caller, kind, param, from, extra) ==
  /\ caller \in Seq(AFrame) /\ Len(caller) = Depth /\ Depth < MaxFrames
  /\ \A i \in 1 .. Depth :
       /\ caller[i].kind = frames[i].kind /\ caller[i].param = frames[i].param
       /\ caller[i].from = frames[i].from /\ caller[i].extra = frames[i].extra
       /\ frames[i].kind = "native" => caller[i].operands = <<>>
  /\ kind \in {"script", "native"} /\ param \in Object \cup {None}
  /\ from \in {"host", "script"} /\ extra \in {None, param}
  /\ IF from = "host" THEN kind = "script" /\ (Depth = 0 \/ Frame.kind = "native")
     ELSE extra = None /\ Depth > 0 /\ Frame.kind = "script"
  /\ frames' = Entered(caller, kind, param, from, extra)

LEMMA EnteredFrames ==
  ASSUME FrameTypes, NEW caller, NEW kind, NEW param, NEW from, NEW extra,
         Enters(caller, kind, param, from, extra)
  PROVE  /\ FrameTypes' /\ Depth' = Depth + 1 /\ Keep(Depth)
         /\ \A i \in 1 .. Depth : frames'[i] = caller[i]
         /\ frames'[Depth + 1] = [kind |-> kind, param |-> param, operands |-> <<>>, from |-> from, extra |-> extra]
<1>1. Depth \in Nat /\ \A i \in 1 .. Depth : frames[i] \in AFrame BY DepthNat
<1> DEFINE new == [kind |-> kind, param |-> param, operands |-> <<>>, from |-> from, extra |-> extra]
<1>2. new \in AFrame BY DEF AFrame, Enters
<1>3. new.kind = kind /\ new.param = param /\ new.operands = <<>> /\ new.from = from /\ new.extra = extra
  OBVIOUS
<1>4. frames' = Append(caller, new) BY DEF Entered, Enters
<1> HIDE DEF new
<1>5. frames' \in Seq(AFrame) /\ Len(frames') = Depth + 1 /\ frames'[Depth + 1] = new
      /\ \A i \in 1 .. Depth : frames'[i] = caller[i]
  BY <1>1, <1>2, <1>4 DEF Enters
<1>6. Depth' = Depth + 1 BY <1>5 DEF Depth
<1>7. Keep(Depth) BY <1>1, <1>5 DEF Keep, Same, Enters
<1>8. MaxFrames \in Nat BY BoundsAssumption
<1>9. FramesShaped'
  <2>1. Depth + 1 <= MaxFrames BY <1>1, <1>8 DEF Enters
  <2>2. ASSUME NEW i \in 1 .. Depth + 1
        PROVE  /\ IF frames'[i].from = "host"
                  THEN /\ frames'[i].kind = "script"
                       /\ frames'[i].extra \in {None, frames'[i].param}
                       /\ i = 1 \/ frames'[i - 1].kind = "native"
                  ELSE /\ frames'[i].extra = None
                       /\ i > 1 /\ frames'[i - 1].kind = "script"
               /\ frames'[i].kind = "native" => frames'[i].operands = <<>>
    <3>1. CASE i = Depth + 1 BY <1>1, <1>3, <1>5, <3>1 DEF Frame, Enters
    <3>2. CASE i # Depth + 1
      <4>1. i \in 1 .. Depth /\ (i > 1 => i - 1 \in 1 .. Depth) BY <1>1, <3>2
      <4>2. /\ frames'[i].kind = frames[i].kind /\ frames'[i].param = frames[i].param
            /\ frames'[i].from = frames[i].from /\ frames'[i].extra = frames[i].extra
            /\ i > 1 => frames'[i - 1].kind = frames[i - 1].kind
            /\ frames[i].kind = "native" => frames'[i].operands = <<>>
        BY <1>5, <4>1 DEF Enters
      <4>3. /\ IF frames[i].from = "host"
               THEN /\ frames[i].kind = "script"
                    /\ frames[i].extra \in {None, frames[i].param}
                    /\ i = 1 \/ frames[i - 1].kind = "native"
               ELSE /\ frames[i].extra = None
                    /\ i > 1 /\ frames[i - 1].kind = "script"
        BY <4>1 DEF FrameTypes, FramesShaped
      <4> QED BY <4>1, <4>2, <4>3
    <3> QED BY <3>1, <3>2
  <2> QED BY <1>6, <2>1, <2>2 DEF FramesShaped
<1> QED BY <1>5, <1>6, <1>7, <1>9 DEF FrameTypes, new

(* The end of the running function.                                        *)
LEMMA EndedFrames ==
  ASSUME FrameTypes, Depth > 0, frames' = SubSeq(frames, 1, Depth - 1)
  PROVE  /\ FrameTypes' /\ Depth' = Depth - 1 /\ Keep(Depth - 1)
         /\ \A i \in 1 .. Depth - 1 : SameOperands(i)
<1>1. Depth \in Nat /\ \A i \in 1 .. Depth : frames[i] \in AFrame BY DepthNat
<1>2. frames' \in Seq(AFrame) /\ Len(frames') = Depth - 1 /\ \A i \in 1 .. Depth - 1 : frames'[i] = frames[i]
  <2> DEFINE n == Depth - 1
  <2>1. n \in 0 .. Len(frames) /\ frames \in Seq(AFrame) BY <1>1 DEF FrameTypes, Depth
  <2> HIDE DEF n
  <2>2. SubSeq(frames, 1, n) \in Seq(AFrame) /\ Len(SubSeq(frames, 1, n)) = n
        /\ \A i \in 1 .. n : SubSeq(frames, 1, n)[i] = frames[i]
    BY <2>1
  <2> QED BY <2>2 DEF n
<1>3. Depth' = Depth - 1 BY <1>2 DEF Depth
<1>4. Keep(Depth - 1) BY <1>1, <1>2 DEF Keep, Same
<1>5. FramesShaped'
  <2>1. Depth - 1 <= MaxFrames BY <1>1, BoundsAssumption DEF FrameTypes, FramesShaped
  <2>2. \A i \in 1 .. Depth - 1 : i \in 1 .. Depth /\ (i > 1 => i - 1 \in 1 .. Depth - 1) BY <1>1
  <2> QED BY <1>1, <1>2, <1>3, <2>1, <2>2 DEF FrameTypes, FramesShaped
<1> QED BY <1>2, <1>3, <1>4, <1>5 DEF FrameTypes, SameOperands
-----------------------------------------------------------------------------
(* What follows for the shares and places of an object.                    *)

LEMMA KeepSets ==
  ASSUME FrameTypes, FrameTypes', NEW n \in Nat, n <= Depth, n <= Depth', Keep(n)
  PROVE  /\ \A x \in Object : \A k \in 1 .. n : (k \in ParamsOf(x)') <=> (k \in ParamsOf(x))
         /\ \A x \in Object : \A k \in 1 .. n : (k \in ExtrasOf(x)') <=> (k \in ExtrasOf(x))
         /\ \A k \in 1 .. n : (k \in Blocks') <=> (k \in Blocks)
         /\ \A k \in 1 .. n : BlockOf(k)' = BlockOf(k)
<1>1. Depth \in Nat /\ Depth' \in Nat BY DepthNat DEF FrameTypes, Depth
<1>2. \A k \in 1 .. n : k \in 1 .. Depth /\ k \in 1 .. Depth' BY <1>1
<1>3. \A k \in 1 .. n : /\ frames'[k].kind = frames[k].kind /\ frames'[k].param = frames[k].param
                        /\ frames'[k].extra = frames[k].extra
  BY DEF Keep, Same
<1>4. \A x \in Object : \A k \in 1 .. n : (k \in ParamsOf(x)') <=> (k \in ParamsOf(x)) BY <1>2, <1>3 DEF ParamsOf
<1>5. \A x \in Object : \A k \in 1 .. n : (k \in ExtrasOf(x)') <=> (k \in ExtrasOf(x)) BY <1>2, <1>3 DEF ExtrasOf
<1>6. \A k \in 1 .. n : (k \in Blocks') <=> (k \in Blocks) BY <1>2, <1>3 DEF Blocks
<1>7. \A k \in 1 .. n : BlockOf(k)' = BlockOf(k) BY <1>3 DEF BlockOf
<1> QED BY <1>4, <1>5, <1>6, <1>7

(* The entries of an object are as many and count as before.               *)
SameEntries(x) ==
  /\ (EntriesOf(x)' = {}) <=> (EntriesOf(x) = {})
  /\ (CountedOf(x)' = {}) <=> (CountedOf(x) = {})
  /\ (CountedOf(x) = EntriesOf(x)) => (CountedOf(x)' = EntriesOf(x)')
  /\ Cardinality(EntriesOf(x)') = Cardinality(EntriesOf(x))
  /\ Cardinality(CountedOf(x)') = Cardinality(CountedOf(x))

LEMMA UnchangedEntries == ASSUME entries' = entries PROVE \A x : SameEntries(x) /\ EntriesOf(x)' = EntriesOf(x) /\ CountedOf(x)' = CountedOf(x)
BY DEF SameEntries, EntriesOf, CountedOf

(* Calls begin or end, one at a time and without an error, and the others  *)
(* stay.                                                                   *)
FramesStep ==
  /\ FrameTypes /\ FrameTypes' /\ stray' = stray
  /\ \E n \in Nat : n <= Depth /\ n <= Depth' /\ n \in {Depth, Depth'} /\ Keep(n)

(* An object whose shares and node a step leaves alone, and that is in no  *)
(* new place.                                                              *)
LEMMA Untouched ==
  ASSUME FramesStep, NEW x \in Object, Fits(x),
         state[x]' = state[x], node[x]' = node[x], GlobalsOf(x)' = GlobalsOf(x), SameEntries(x),
         ParamsOf(x)' = ParamsOf(x), ExtrasOf(x)' = ExtrasOf(x),
         node[x] # None /\ node[x].shares = 0 => node[x].list \in Blocks',
         \A i, j \in Nat : Has(i, j, x)' => Has(i, j, x)
  PROVE  Fits(x)'
<1>0. FrameTypes /\ FrameTypes' BY DEF FramesStep
<1>n. PICK n \in Nat : n <= Depth /\ n <= Depth' /\ n \in {Depth, Depth'} /\ Keep(n) BY DEF FramesStep
<1>1. Depth \in Nat /\ Depth' \in Nat BY <1>0, DepthNat DEF FrameTypes, Depth
<1>2. /\ \A k \in 1 .. n : (k \in Blocks') <=> (k \in Blocks)
      /\ \A k \in 1 .. n : BlockOf(k)' = BlockOf(k)
  BY <1>0, <1>n, KeepSets
<1>3. Known(x)' BY DEF Fits, Known, SameEntries, FramesStep
<1>4. Counts(x)' BY DEF Fits, Counts, SameEntries, Shares, FramesStep
<1>5. Listed(x)' BY DEF Fits, Listed
<1>6. Reached(x)'
  <2> SUFFICES ASSUME NEW i \in Nat, NEW j \in Nat, Has(i, j, x)'
               PROVE  (node[x] # None /\ (Anchored(i, x) \/ Temporary(i, j, x) \/ Lent(i, j, x)))'
    BY DEF Reached
  <2>1. Has(i, j, x) OBVIOUS
  <2>2. i \in 1 .. n BY <1>1, <1>n, <2>1 DEF Has
  <2>3. node[x] # None /\ (Anchored(i, x) \/ Temporary(i, j, x) \/ Lent(i, j, x))
    BY <2>1 DEF Fits, Reached
  <2>4. Anchored(i, x) => Anchored(i, x)' BY DEF Anchored, SameEntries, FramesStep
  <2>5. Temporary(i, j, x) => Temporary(i, j, x)' BY <1>2, <2>2 DEF Temporary
  <2>6. Lent(i, j, x) => Lent(i, j, x)' BY <1>2, <2>2 DEF Lent, Sole
  <2> QED BY <2>3, <2>4, <2>5, <2>6
<1>7. Extra(x)'
  <2> SUFFICES ASSUME NEW k \in ExtrasOf(x)
               PROVE  (node[x].home \in Blocks /\ node[x].home < k
                       /\ \A i \in 1 .. k - 1 : i \notin ParamsOf(x) \cup ExtrasOf(x))'
    BY DEF Extra
  <2>1. node[x].home \in Blocks /\ node[x].home < k /\ \A i \in 1 .. k - 1 : i \notin ParamsOf(x) \cup ExtrasOf(x)
    BY DEF Fits, Extra
  <2>2. k \in 1 .. n
    <3>1. k \in 1 .. Depth BY DEF ExtrasOf
    <3>2. k \in 1 .. Depth' BY DEF ExtrasOf
    <3> QED BY <1>n, <3>1, <3>2
  <2>3. node[x].home \in 1 .. n BY <1>1, <2>1, <2>2 DEF Blocks
  <2> QED BY <1>2, <2>1, <2>3
<1> QED BY <1>3, <1>4, <1>5, <1>6, <1>7 DEF Fits
-----------------------------------------------------------------------------
(* Counting.                                                               *)

LEMMA SetsFinite ==
  ASSUME TypeOK, NEW x \in Object
  PROVE  /\ IsFiniteSet(GlobalsOf(x)) /\ IsFiniteSet(ParamsOf(x)) /\ IsFiniteSet(ExtrasOf(x))
         /\ IsFiniteSet(EntriesOf(x)) /\ IsFiniteSet(CountedOf(x))
         /\ Cardinality(GlobalsOf(x)) \in Nat /\ Cardinality(ParamsOf(x)) \in Nat
         /\ Cardinality(ExtrasOf(x)) \in Nat /\ Cardinality(CountedOf(x)) \in Nat
         /\ Cardinality(EntriesOf(x)) \in Nat
<1>1. Depth \in Nat /\ Len(entries) \in Nat BY DEF TypeOK, Depth
<1>2. IsFiniteSet(1 .. Depth) /\ IsFiniteSet(1 .. Len(entries)) BY <1>1, FS_Interval
<1>3. /\ GlobalsOf(x) \subseteq Var /\ ParamsOf(x) \subseteq 1 .. Depth /\ ExtrasOf(x) \subseteq 1 .. Depth
      /\ EntriesOf(x) \subseteq 1 .. Len(entries) /\ CountedOf(x) \subseteq 1 .. Len(entries)
  BY DEF GlobalsOf, ParamsOf, ExtrasOf, EntriesOf, CountedOf
<1>4. /\ IsFiniteSet(GlobalsOf(x)) /\ IsFiniteSet(ParamsOf(x)) /\ IsFiniteSet(ExtrasOf(x))
      /\ IsFiniteSet(EntriesOf(x)) /\ IsFiniteSet(CountedOf(x))
  BY <1>2, <1>3, VarAssumption, FS_Subset
<1> QED BY <1>4, FS_CardinalityType

(* An object with a node: its shares are those of somebody, and of nobody  *)
(* else when it has one.                                                   *)
LEMMA NodeCounts ==
  ASSUME TypeOK, NEW x \in Object, Fits(x), node[x] # None
  PROVE  /\ node[x] \in Node /\ state[x] = "live" /\ CountedOf(x) = EntriesOf(x)
         /\ node[x].shares = Cardinality(GlobalsOf(x)) + Cardinality(ParamsOf(x))
                             + Cardinality(ExtrasOf(x)) + Cardinality(EntriesOf(x)) + stray[x]
         /\ stray[x] \in Nat
         /\ node[x].shares = 0 <=> /\ GlobalsOf(x) = {} /\ ParamsOf(x) = {}
                                   /\ ExtrasOf(x) = {} /\ EntriesOf(x) = {} /\ stray[x] = 0
         /\ \A v \in GlobalsOf(x) : node[x].shares <= 1 =>
              /\ GlobalsOf(x) = {v} /\ ParamsOf(x) = {} /\ ExtrasOf(x) = {} /\ EntriesOf(x) = {}
              /\ stray[x] = 0
         /\ \A k \in ParamsOf(x) : node[x].shares <= 1 =>
              /\ GlobalsOf(x) = {} /\ ParamsOf(x) = {k} /\ ExtrasOf(x) = {} /\ EntriesOf(x) = {}
              /\ stray[x] = 0
         /\ \A k \in EntriesOf(x) : node[x].shares <= 1 =>
              /\ GlobalsOf(x) = {} /\ ParamsOf(x) = {} /\ ExtrasOf(x) = {} /\ EntriesOf(x) = {k}
              /\ stray[x] = 0
<1>1. node[x] \in Node BY DEF TypeOK
<1>2. state[x] = "live" BY DEF Fits, Known
<1>3. CountedOf(x) = EntriesOf(x) /\ node[x].shares = Shares(x) BY <1>2 DEF Fits, Counts
<1>4. \A S : IsFiniteSet(S) => (Cardinality(S) = 0 <=> S = {}) BY FS_EmptySet
<1>5. ASSUME NEW S, IsFiniteSet(S), NEW k \in S
      PROVE  Cardinality(S) >= 1 /\ (Cardinality(S) <= 1 => S = {k})
  <2>1. IsFiniteSet(S \ {k}) /\ Cardinality(S \ {k}) = Cardinality(S) - 1 BY <1>5, FS_RemoveElement
  <2>2. Cardinality(S \ {k}) \in Nat /\ Cardinality(S) \in Nat BY <1>5, <2>1, FS_CardinalityType
  <2>3. Cardinality(S) >= 1 BY <2>1, <2>2
  <2>4. Cardinality(S) <= 1 => Cardinality(S \ {k}) = 0 BY <2>1, <2>2
  <2>5. Cardinality(S) <= 1 => S \ {k} = {} BY <2>1, <2>4, <1>4
  <2> QED BY <2>3, <2>5
<1>6. node[x].shares = Cardinality(GlobalsOf(x)) + Cardinality(ParamsOf(x))
                       + Cardinality(ExtrasOf(x)) + Cardinality(EntriesOf(x)) + stray[x]
  BY <1>3 DEF Shares
<1> DEFINE g == Cardinality(GlobalsOf(x))
           p == Cardinality(ParamsOf(x))
           e == Cardinality(ExtrasOf(x))
           c == Cardinality(EntriesOf(x))
           s == stray[x]
<1>7. g \in Nat /\ p \in Nat /\ e \in Nat /\ c \in Nat /\ s \in Nat BY SetsFinite DEF TypeOK
<1>8. (g = 0 <=> GlobalsOf(x) = {}) /\ (p = 0 <=> ParamsOf(x) = {}) /\ (e = 0 <=> ExtrasOf(x) = {})
      /\ (c = 0 <=> EntriesOf(x) = {})
  BY SetsFinite, <1>4
<1>9. /\ \A k \in GlobalsOf(x) : g >= 1 /\ (g <= 1 => GlobalsOf(x) = {k})
      /\ \A k \in ParamsOf(x) : p >= 1 /\ (p <= 1 => ParamsOf(x) = {k})
      /\ \A k \in EntriesOf(x) : c >= 1 /\ (c <= 1 => EntriesOf(x) = {k})
  BY SetsFinite, <1>5
<1>10. node[x].shares = g + p + e + c + s BY <1>6
<1>13. s = stray[x] OBVIOUS
<1> HIDE DEF g, p, e, c, s
<1>11. node[x].shares = 0 <=> g = 0 /\ p = 0 /\ e = 0 /\ c = 0 /\ s = 0 BY <1>7, <1>10
<1>12. node[x].shares <= 1 => /\ (g >= 1 => g <= 1 /\ p = 0 /\ e = 0 /\ c = 0 /\ s = 0)
                              /\ (p >= 1 => p <= 1 /\ g = 0 /\ e = 0 /\ c = 0 /\ s = 0)
                              /\ (c >= 1 => c <= 1 /\ g = 0 /\ e = 0 /\ p = 0 /\ s = 0)
  BY <1>7, <1>10
<1> QED BY <1>1, <1>2, <1>3, <1>6, <1>7, <1>8, <1>9, <1>11, <1>12, <1>13
-----------------------------------------------------------------------------
(* The operations of the share manager.                                    *)

HeapTypes == [state : [Object -> {"new", "live", "deleted"}], node : [Object -> Node \cup {None}]]

NodeWith(s, h, l) == [shares |-> s, home |-> h, list |-> l]

LEMMA HeapIsTyped == ASSUME TypeOK PROVE Heap \in HeapTypes
BY DEF TypeOK, Heap, HeapTypes

LEMMA NodeIsNode == \A s, h, l \in Nat : NodeWith(s, h, l) \in Node /\ NodeWith(s, h, l) # None
BY NodeAssumption DEF NodeWith, Node

LEMMA NodeExcept ==
  ASSUME NEW r \in Node, NEW s
  PROVE  [r EXCEPT !.shares = s] = NodeWith(s, r.home, r.list)
<1>1. r = [shares |-> r.shares, home |-> r.home, list |-> r.list] BY DEF Node
<1> QED BY <1>1 DEF NodeWith

LEMMA NodeListed ==
  ASSUME NEW r \in Node, NEW s, NEW l
  PROVE  [[r EXCEPT !.shares = s] EXCEPT !.list = l] = NodeWith(s, r.home, l)
<1> DEFINE one == [r EXCEPT !.shares = s]
<1>1. one = NodeWith(s, r.home, r.list) BY NodeExcept
<1> HIDE DEF one
<1>2. [one EXCEPT !.list = l] = NodeWith(s, r.home, l) BY <1>1 DEF NodeWith
<1> QED BY <1>2 DEF one

LEMMA SharedHeap ==
  ASSUME NEW h \in HeapTypes, NEW o \in Object, h.node[o] \in Node
  PROVE  /\ Shared(h, o).state = h.state
         /\ Shared(h, o).node = [h.node EXCEPT ![o] = NodeWith(h.node[o].shares + 1, h.node[o].home, NoList)]
<1>1. o # None BY ObjectAssumption
<1>2. /\ DOMAIN h = {"state", "node"} /\ o \in DOMAIN h.node
      /\ DOMAIN h.node[o] = {"shares", "home", "list"}
  BY DEF HeapTypes, Node
<1> DEFINE two == [[h.node[o] EXCEPT !.shares = h.node[o].shares + 1] EXCEPT !.list = NoList]
<1>3. two = NodeWith(h.node[o].shares + 1, h.node[o].home, NoList)
  <2> DEFINE r == h.node[o]
  <2>1. r \in Node OBVIOUS
  <2> HIDE DEF r
  <2>2. [[r EXCEPT !.shares = r.shares + 1] EXCEPT !.list = NoList] = NodeWith(r.shares + 1, r.home, NoList)
    BY <2>1, NodeListed
  <2> QED BY <2>2 DEF r
<1>4. Shared(h, o) = [h EXCEPT !.node = [h.node EXCEPT ![o] = two]]
  <2>1. Shared(h, o) = [[h EXCEPT !.node[o].shares = @ + 1] EXCEPT !.node[o].list = NoList]
    BY <1>1 DEF Shared
  <2> QED BY <2>1, <1>2
<1> HIDE DEF two
<1> QED BY <1>2, <1>3, <1>4

LEMMA CreatedHeap ==
  ASSUME NEW h \in HeapTypes, NEW o \in Object, NEW block
  PROVE  /\ Created(h, o, block).state = h.state
         /\ Created(h, o, block).node = [h.node EXCEPT ![o] = NodeWith(0, block, block)]
<1>1. DOMAIN h = {"state", "node"} BY DEF HeapTypes
<1>2. Created(h, o, block) = [h EXCEPT !.node = [h.node EXCEPT ![o] = NodeWith(0, block, block)]]
  BY <1>1 DEF Created, NodeWith
<1> QED BY <1>1, <1>2

LEMMA DeletedHeap ==
  ASSUME NEW h \in HeapTypes, NEW o \in Object
  PROVE  /\ Deleted(h, o).state = [h.state EXCEPT ![o] = "deleted"]
         /\ Deleted(h, o).node = [h.node EXCEPT ![o] = None]
<1>1. DOMAIN h = {"state", "node"} BY DEF HeapTypes
<1>2. Deleted(h, o) = [[h EXCEPT !.state = [h.state EXCEPT ![o] = "deleted"]]
                         EXCEPT !.node = [h.node EXCEPT ![o] = None]]
  BY <1>1 DEF Deleted
<1> QED BY <1>1, <1>2

(* vm_unref_shared_object: a share less; the last one sends to a block or  *)
(* deletes.                                                                *)
LEMMA UnrefLess ==
  ASSUME NEW h \in HeapTypes, NEW o \in Object, h.node[o] \in Node, NEW block, h.node[o].shares > 1
  PROVE  /\ Unref(h, o, block).state = h.state
         /\ Unref(h, o, block).node =
              [h.node EXCEPT ![o] = NodeWith(h.node[o].shares - 1, h.node[o].home, h.node[o].list)]
<1>1. o # None BY ObjectAssumption
<1>2. DOMAIN h = {"state", "node"} BY DEF HeapTypes
<1> DEFINE less == [h.node[o] EXCEPT !.shares = h.node[o].shares - 1]
<1>3. less = NodeWith(h.node[o].shares - 1, h.node[o].home, h.node[o].list)
  <2> DEFINE r == h.node[o]
  <2>1. r \in Node OBVIOUS
  <2> HIDE DEF r
  <2>2. [r EXCEPT !.shares = r.shares - 1] = NodeWith(r.shares - 1, r.home, r.list) BY <2>1, NodeExcept
  <2> QED BY <2>2 DEF r
<1>4. Unref(h, o, block) = [h EXCEPT !.node = [h.node EXCEPT ![o] = less]]
  BY <1>1, <1>2 DEF Unref
<1> HIDE DEF less
<1> QED BY <1>2, <1>3, <1>4

LEMMA UnrefParks ==
  ASSUME NEW h \in HeapTypes, NEW o \in Object, h.node[o] \in Node, NEW block,
         ~(h.node[o].shares > 1), block # NoList
  PROVE  /\ Unref(h, o, block).state = h.state
         /\ Unref(h, o, block).node = [h.node EXCEPT ![o] = NodeWith(0, h.node[o].home, block)]
<1>1. o # None BY ObjectAssumption
<1>2. DOMAIN h = {"state", "node"} /\ o \in DOMAIN h.node BY DEF HeapTypes
<1> DEFINE zero == [[h.node[o] EXCEPT !.shares = 0] EXCEPT !.list = block]
<1>3. zero = NodeWith(0, h.node[o].home, block)
  <2> DEFINE r == h.node[o]
  <2>1. r \in Node OBVIOUS
  <2> HIDE DEF r
  <2>2. [[r EXCEPT !.shares = 0] EXCEPT !.list = block] = NodeWith(0, r.home, block) BY <2>1, NodeListed
  <2> QED BY <2>2 DEF r
<1>4. Unref(h, o, block) = [[h EXCEPT !.node[o].shares = 0] EXCEPT !.node[o].list = block]
  BY <1>1 DEF Unref
<1>5. Unref(h, o, block) = [h EXCEPT !.node = [h.node EXCEPT ![o] = zero]] BY <1>2, <1>4
<1> HIDE DEF zero
<1> QED BY <1>2, <1>3, <1>5

LEMMA UnrefDeletes ==
  ASSUME NEW h \in HeapTypes, NEW o \in Object, ~(h.node[o].shares > 1)
  PROVE  /\ Unref(h, o, NoList).state = [h.state EXCEPT ![o] = "deleted"]
         /\ Unref(h, o, NoList).node = [h.node EXCEPT ![o] = None]
BY DeletedHeap, ObjectAssumption DEF Unref

LEMMA SweptHeap ==
  ASSUME NEW h \in HeapTypes, NEW block, NEW kept
  PROVE  \A x \in Object :
           IF h.node[x] # None /\ h.node[x].list = block
           THEN /\ Swept(h, block, kept).node[x] = None
                /\ Swept(h, block, kept).state[x] = IF x = kept THEN h.state[x] ELSE "deleted"
           ELSE /\ Swept(h, block, kept).node[x] = h.node[x]
                /\ Swept(h, block, kept).state[x] = h.state[x]
BY DEF Swept, HeapTypes
-----------------------------------------------------------------------------
(* Facts of a state.                                                       *)

LEMMA ScriptBlock ==
  ASSUME FrameTypes, ScriptRuns
  PROVE  /\ Depth \in Nat /\ Depth > 0 /\ Depth \in Blocks /\ Block = Depth /\ Frame.kind = "script"
         /\ Frame \in AFrame
<1>1. Depth \in Nat /\ Depth > 0 /\ Frame.kind = "script" BY DepthNat DEF ScriptRuns
<1>2. Depth \in Blocks BY <1>1 DEF Blocks, Frame
<1>3. Blocks \subseteq 1 .. Depth BY DEF Blocks
<1>4. \A b \in Blocks : (\A c \in Blocks : c <= b) => b = Depth BY <1>1, <1>2, <1>3
<1>5. \A c \in Blocks : c <= Depth BY <1>1, <1>3
<1>6. Block = Depth BY <1>2, <1>4, <1>5 DEF Block
<1> QED BY <1>1, <1>2, <1>6, DepthNat DEF Frame

LEMMA ExtrasAreParams == ASSUME FrameTypes, NEW x \in Object PROVE ExtrasOf(x) \subseteq ParamsOf(x)
<1> SUFFICES ASSUME NEW k \in ExtrasOf(x) PROVE k \in ParamsOf(x) OBVIOUS
<1>1. k \in 1 .. Depth /\ frames[k].extra = x BY DEF ExtrasOf
<1>2. frames[k].extra # None BY <1>1, ObjectAssumption
<1>3. frames[k].from = "host" /\ frames[k].kind = "script" /\ frames[k].extra \in {None, frames[k].param}
  BY <1>1, <1>2 DEF FrameTypes, FramesShaped
<1> QED BY <1>1, <1>2, <1>3 DEF ParamsOf

(* An object without a node is in no variable and no function.             *)
LEMMA NoNode ==
  ASSUME FrameTypes, NEW x \in Object, Fits(x), node[x] = None
  PROVE  /\ GlobalsOf(x) = {} /\ ParamsOf(x) = {} /\ ExtrasOf(x) = {} /\ stray[x] = 0
         /\ \A i, j \in Nat : ~Has(i, j, x)
BY ExtrasAreParams DEF Fits, Known, Counts, Reached

LEMMA NoPlaces ==
  ASSUME FrameTypes, KeepsRules, NEW x \in Object, KeepsOperands(x)
  PROVE  \A i, j \in Nat : ~Has(i, j, x)
<1>1. x \notin Waiting \cup NativeArguments BY ObjectAssumption DEF KeepsRules, Rules, KeepsOperands
<1> QED BY <1>1 DEF Has, Waiting, NativeArguments

LEMMA Gone ==
  ASSUME NEW x \in Object, state[x]' # "live", node[x]' = None, GlobalsOf(x)' = {}, ParamsOf(x)' = {},
         ExtrasOf(x)' = {}, EntriesOf(x)' = {}, stray[x]' = 0, \A i, j \in Nat : ~Has(i, j, x)'
  PROVE  Fits(x)'
BY DEF Fits, Known, Counts, Listed, Reached, Extra

(* Places after the running function got other operands.                   *)
LEMMA OperandsPlaces ==
  ASSUME FrameTypes, ScriptRuns, NEW s \in Seq(Object), frames' = Operands(s), stray' = stray
  PROVE  /\ FramesStep /\ Depth' = Depth /\ Blocks' = Blocks
         /\ \A x \in Object : ParamsOf(x)' = ParamsOf(x) /\ ExtrasOf(x)' = ExtrasOf(x)
         /\ \A i \in 1 .. Depth : BlockOf(i)' = BlockOf(i)
         /\ \A x \in Object : \A i, j \in Nat :
              Has(i, j, x)' <=> \/ i # Depth /\ Has(i, j, x)
                                \/ i = Depth /\ j \in 1 .. Len(s) /\ s[j] = x
<1>1. Depth \in Nat /\ Depth > 0 /\ Frame.kind = "script" BY ScriptBlock
<1>2. /\ FrameTypes' /\ Depth' = Depth /\ Keep(Depth)
      /\ \A i \in 1 .. Depth : i # Depth => SameOperands(i)
      /\ Frame.operands' = s
  BY <1>1, OperandsFrames
<1>3. /\ \A x \in Object : \A k \in 1 .. Depth : (k \in ParamsOf(x)') <=> (k \in ParamsOf(x))
      /\ \A x \in Object : \A k \in 1 .. Depth : (k \in ExtrasOf(x)') <=> (k \in ExtrasOf(x))
      /\ \A k \in 1 .. Depth : (k \in Blocks') <=> (k \in Blocks)
      /\ \A k \in 1 .. Depth : BlockOf(k)' = BlockOf(k)
  <2>1. PICK n \in Nat : n = Depth BY <1>1
  <2>2. FrameTypes' /\ Keep(n) /\ n <= Depth /\ n <= Depth' BY <1>1, <1>2, <2>1 DEF Keep
  <2>3. /\ \A x \in Object : \A k \in 1 .. n : (k \in ParamsOf(x)') <=> (k \in ParamsOf(x))
        /\ \A x \in Object : \A k \in 1 .. n : (k \in ExtrasOf(x)') <=> (k \in ExtrasOf(x))
        /\ \A k \in 1 .. n : (k \in Blocks') <=> (k \in Blocks)
        /\ \A k \in 1 .. n : BlockOf(k)' = BlockOf(k)
    BY <2>2, KeepSets
  <2> QED BY <2>1, <2>3
<1>4. /\ \A x : ParamsOf(x) \subseteq 1 .. Depth /\ ParamsOf(x)' \subseteq 1 .. Depth
      /\ \A x : ExtrasOf(x) \subseteq 1 .. Depth /\ ExtrasOf(x)' \subseteq 1 .. Depth
      /\ Blocks \subseteq 1 .. Depth /\ Blocks' \subseteq 1 .. Depth
  BY <1>2 DEF ParamsOf, ExtrasOf, Blocks
<1>5. \A x \in Object : ParamsOf(x)' = ParamsOf(x) /\ ExtrasOf(x)' = ExtrasOf(x) BY <1>3, <1>4
<1>6. Blocks' = Blocks BY <1>3, <1>4
<1>7. ASSUME NEW x \in Object, NEW i \in Nat, NEW j \in Nat
      PROVE  Has(i, j, x)' <=> \/ i # Depth /\ Has(i, j, x)
                               \/ i = Depth /\ j \in 1 .. Len(s) /\ s[j] = x
  <2>1. CASE i \in 1 .. Depth /\ i # Depth
    BY <1>2, <2>1 DEF Has, Keep, Same, SameOperands
  <2>2. CASE i = Depth
    <3>1. i \in 1 .. Depth /\ frames[i]'.operands = s /\ frames[i].kind' = "script"
      BY <1>1, <1>2, <2>2 DEF Frame, Keep, Same
    <3> QED BY <1>2, <2>2, <3>1 DEF Has
  <2>3. CASE i \notin 1 .. Depth BY <1>1, <1>2, <2>3 DEF Has
  <2> QED BY <2>1, <2>2, <2>3
<1>8. FramesStep
  <2>1. PICK n \in Nat : n = Depth BY <1>1
  <2> QED BY <1>1, <1>2, <2>1 DEF FramesStep, Keep
<1> QED BY <1>2, <1>3, <1>5, <1>6, <1>7, <1>8

(* Places after a call.                                                    *)
LEMMA EnteredPlaces ==
  ASSUME FrameTypes, NEW caller, NEW kind, NEW param, NEW from, NEW extra,
         Enters(caller, kind, param, from, extra), stray' = stray
  PROVE  /\ FramesStep /\ Depth' = Depth + 1 /\ Blocks \subseteq Blocks'
         /\ \A x \in Object :
              ParamsOf(x)' = ParamsOf(x) \cup (IF kind = "script" /\ param = x THEN {Depth + 1} ELSE {})
         /\ \A x \in Object : ExtrasOf(x)' = ExtrasOf(x) \cup (IF extra = x THEN {Depth + 1} ELSE {})
         /\ \A i \in 1 .. Depth : BlockOf(i)' = BlockOf(i)
         /\ \A i \in Nat : i = Depth + 1 => BlockOf(i)' = IF kind = "script" THEN i ELSE Depth
         /\ \A x \in Object : \A i, j \in Nat :
              Has(i, j, x)' <=>
                \/ /\ i \in 1 .. Depth
                   /\ \/ j \in 1 .. Len(caller[i].operands) /\ caller[i].operands[j] = x
                      \/ j = 0 /\ frames[i].kind = "native" /\ frames[i].param = x
                \/ i = Depth + 1 /\ j = 0 /\ kind = "native" /\ param = x
<1>1. Depth \in Nat BY DepthNat
<1> DEFINE new == [kind |-> kind, param |-> param, operands |-> <<>>, from |-> from, extra |-> extra]
<1>2. /\ FrameTypes' /\ Depth' = Depth + 1 /\ Keep(Depth)
      /\ \A i \in 1 .. Depth : frames'[i] = caller[i]
      /\ frames'[Depth + 1] = new
  BY EnteredFrames
<1>3. new.kind = kind /\ new.param = param /\ new.operands = <<>> /\ new.from = from /\ new.extra = extra
  OBVIOUS
<1> HIDE DEF new
<1>4. PICK n \in Nat : n = Depth BY <1>1
<1>5. n <= Depth /\ n <= Depth' /\ Keep(n) /\ n \in {Depth, Depth'} BY <1>1, <1>2, <1>4 DEF Keep
<1>6. FramesStep BY <1>2, <1>5 DEF FramesStep
<1>7. /\ \A x \in Object : \A k \in 1 .. n : (k \in ParamsOf(x)') <=> (k \in ParamsOf(x))
      /\ \A x \in Object : \A k \in 1 .. n : (k \in ExtrasOf(x)') <=> (k \in ExtrasOf(x))
      /\ \A k \in 1 .. n : (k \in Blocks') <=> (k \in Blocks)
      /\ \A k \in 1 .. n : BlockOf(k)' = BlockOf(k)
  BY <1>2, <1>5, KeepSets
<1>8. 1 .. Depth' = 1 .. n \cup {n + 1} /\ 1 .. Depth = 1 .. n /\ n + 1 \notin 1 .. n BY <1>1, <1>2, <1>4
<1>9. /\ \A x : (n + 1 \in ParamsOf(x)') <=> (kind = "script" /\ param = x)
      /\ \A x : (n + 1 \in ExtrasOf(x)') <=> extra = x
  BY <1>2, <1>3, <1>4, <1>8 DEF ParamsOf, ExtrasOf
<1>10. /\ \A x : ParamsOf(x) \subseteq 1 .. n /\ ParamsOf(x)' \subseteq 1 .. n \cup {n + 1}
       /\ \A x : ExtrasOf(x) \subseteq 1 .. n /\ ExtrasOf(x)' \subseteq 1 .. n \cup {n + 1}
       /\ Blocks \subseteq 1 .. n
  BY <1>8 DEF ParamsOf, ExtrasOf, Blocks
<1>11. \A x \in Object :
         ParamsOf(x)' = ParamsOf(x) \cup (IF kind = "script" /\ param = x THEN {n + 1} ELSE {})
  BY <1>7, <1>8, <1>9, <1>10
<1>12. \A x \in Object : ExtrasOf(x)' = ExtrasOf(x) \cup (IF extra = x THEN {n + 1} ELSE {})
  BY <1>7, <1>8, <1>9, <1>10
<1>13. Blocks \subseteq Blocks' BY <1>7, <1>10
<1>14. \A i \in Nat : i = Depth + 1 => BlockOf(i)' = IF kind = "script" THEN i ELSE Depth
  BY <1>1, <1>2, <1>3, <1>4 DEF BlockOf
<1>15. ASSUME NEW x \in Object, NEW i \in Nat, NEW j \in Nat
       PROVE  Has(i, j, x)' <=>
                \/ /\ i \in 1 .. Depth
                   /\ \/ j \in 1 .. Len(caller[i].operands) /\ caller[i].operands[j] = x
                      \/ j = 0 /\ frames[i].kind = "native" /\ frames[i].param = x
                \/ i = Depth + 1 /\ j = 0 /\ kind = "native" /\ param = x
  <2>1. CASE i \in 1 .. Depth
    <3>1. i \in 1 .. Depth' /\ i # Depth + 1 BY <1>1, <1>2, <2>1
    <3>2. frames'[i] = caller[i] /\ caller[i].kind = frames[i].kind /\ caller[i].param = frames[i].param
      BY <1>2, <2>1 DEF Enters
    <3> QED BY <2>1, <3>1, <3>2 DEF Has
  <2>2. CASE i = Depth + 1
    <3>1. i \in 1 .. Depth' /\ i \notin 1 .. Depth BY <1>1, <1>2, <2>2
    <3>2. frames'[i] = new BY <1>2, <2>2
    <3>3. ~(j \in 1 .. Len(new.operands)) BY <1>3
    <3> QED BY <1>3, <2>2, <3>1, <3>2, <3>3 DEF Has
  <2>3. CASE i \notin 1 .. Depth /\ i # Depth + 1
    <3>1. i \notin 1 .. Depth' BY <1>1, <1>2, <2>3
    <3> QED BY <2>3, <3>1 DEF Has
  <2> QED BY <2>1, <2>2, <2>3
<1> QED BY <1>2, <1>4, <1>6, <1>7, <1>11, <1>12, <1>13, <1>14, <1>15

(* Places after the running function has ended.                            *)
LEMMA EndedPlaces ==
  ASSUME FrameTypes, Depth > 0, frames' = SubSeq(frames, 1, Depth - 1), stray' = stray
  PROVE  /\ FramesStep /\ Depth' = Depth - 1
         /\ Blocks' = Blocks \ {Depth}
         /\ \A x \in Object : ParamsOf(x)' = ParamsOf(x) \ {Depth} /\ ExtrasOf(x)' = ExtrasOf(x) \ {Depth}
         /\ \A i \in 1 .. Depth - 1 : BlockOf(i)' = BlockOf(i)
         /\ \A x \in Object : \A i, j \in Nat : Has(i, j, x)' <=> i # Depth /\ Has(i, j, x)
<1>1. Depth \in Nat BY DepthNat
<1>2. /\ FrameTypes' /\ Depth' = Depth - 1 /\ Keep(Depth - 1)
      /\ \A i \in 1 .. Depth - 1 : SameOperands(i)
  BY EndedFrames
<1>4. PICK n \in Nat : n = Depth - 1 BY <1>1
<1>5. n <= Depth /\ n <= Depth' /\ Keep(n) /\ n \in {Depth, Depth'} BY <1>1, <1>2, <1>4 DEF Keep
<1>6. FramesStep BY <1>2, <1>5 DEF FramesStep
<1>7. /\ \A x \in Object : \A k \in 1 .. n : (k \in ParamsOf(x)') <=> (k \in ParamsOf(x))
      /\ \A x \in Object : \A k \in 1 .. n : (k \in ExtrasOf(x)') <=> (k \in ExtrasOf(x))
      /\ \A k \in 1 .. n : (k \in Blocks') <=> (k \in Blocks)
      /\ \A k \in 1 .. n : BlockOf(k)' = BlockOf(k)
  BY <1>2, <1>5, KeepSets
<1>8. 1 .. Depth = 1 .. n \cup {Depth} /\ 1 .. Depth' = 1 .. n /\ Depth \notin 1 .. n BY <1>1, <1>2, <1>4
<1>9. /\ \A x : ParamsOf(x)' \subseteq 1 .. n /\ ParamsOf(x) \subseteq 1 .. n \cup {Depth}
      /\ \A x : ExtrasOf(x)' \subseteq 1 .. n /\ ExtrasOf(x) \subseteq 1 .. n \cup {Depth}
      /\ Blocks' \subseteq 1 .. n /\ Blocks \subseteq 1 .. n \cup {Depth}
  BY <1>8 DEF ParamsOf, ExtrasOf, Blocks
<1>10. \A x \in Object : ParamsOf(x)' = ParamsOf(x) \ {Depth} /\ ExtrasOf(x)' = ExtrasOf(x) \ {Depth}
  BY <1>7, <1>8, <1>9
<1>11. Blocks' = Blocks \ {Depth} BY <1>7, <1>8, <1>9
<1>12. ASSUME NEW x \in Object, NEW i \in Nat, NEW j \in Nat
       PROVE  Has(i, j, x)' <=> i # Depth /\ Has(i, j, x)
  <2>1. CASE i \in 1 .. n BY <1>2, <1>4, <1>8, <2>1 DEF Has, Keep, Same, SameOperands
  <2>2. CASE i \notin 1 .. n BY <1>8, <2>2 DEF Has
  <2> QED BY <2>1, <2>2
<1> QED BY <1>2, <1>4, <1>6, <1>7, <1>10, <1>11, <1>12
(* Places after a push.                                                    *)
LEMMA PushedPlaces ==
  ASSUME FrameTypes, ScriptRuns, NEW o \in Object, frames' = Pushed(o), stray' = stray
  PROVE  /\ FramesStep /\ Depth' = Depth /\ Blocks' = Blocks
         /\ \A x \in Object : ParamsOf(x)' = ParamsOf(x) /\ ExtrasOf(x)' = ExtrasOf(x)
         /\ \A i \in 1 .. Depth : BlockOf(i)' = BlockOf(i)
         /\ \A x \in Object : \A i, j \in Nat : Has(i, j, x)' =>
              Has(i, j, x) \/ (x = o /\ i = Depth /\ j = Len(Frame.operands) + 1)
<1>1. Depth \in Nat /\ Depth > 0 /\ Frame \in AFrame BY ScriptBlock
<1>2. Frame.operands \in Seq(Object) BY <1>1 DEF AFrame
<1>3. Append(Frame.operands, o) \in Seq(Object) BY <1>2
<1>4. PICK s \in Seq(Object) : s = Append(Frame.operands, o) BY <1>3
<1>5. /\ FramesStep /\ Depth' = Depth /\ Blocks' = Blocks
      /\ \A x \in Object : ParamsOf(x)' = ParamsOf(x) /\ ExtrasOf(x)' = ExtrasOf(x)
      /\ \A i \in 1 .. Depth : BlockOf(i)' = BlockOf(i)
      /\ \A x \in Object : \A i, j \in Nat :
           Has(i, j, x)' <=> \/ i # Depth /\ Has(i, j, x)
                             \/ i = Depth /\ j \in 1 .. Len(s) /\ s[j] = x
  BY <1>4, OperandsPlaces DEF Pushed
<1>6. Len(s) = Len(Frame.operands) + 1 /\ s[Len(s)] = o
      /\ \A j \in 1 .. Len(Frame.operands) : s[j] = Frame.operands[j]
  BY <1>2, <1>4
<1>7. \A j \in 1 .. Len(s) : j = Len(s) \/ j \in 1 .. Len(Frame.operands) BY <1>2, <1>6
<1>8. ASSUME NEW x \in Object, NEW i \in Nat, NEW j \in Nat, Has(i, j, x)', ~Has(i, j, x)
      PROVE  x = o /\ i = Depth /\ j = Len(Frame.operands) + 1
  <2>1. i = Depth /\ j \in 1 .. Len(s) /\ s[j] = x BY <1>5, <1>8
  <2>2. j \notin 1 .. Len(Frame.operands)
    <3> SUFFICES ASSUME j \in 1 .. Len(Frame.operands) PROVE Has(i, j, x) BY <1>8
    <3>1. Frame.operands[j] = x BY <1>6, <2>1
    <3>2. i \in 1 .. Depth BY <1>1, <2>1
    <3> QED BY <2>1, <3>1, <3>2 DEF Has, Frame
  <2> QED BY <1>6, <1>7, <2>1, <2>2
<1> QED BY <1>5, <1>8

-----------------------------------------------------------------------------
(* The steps of script code.                                               *)

LEMMA Typed == ASSUME IInv PROVE FrameTypes /\ Heap \in HeapTypes /\ ~failed /\ \A x \in Object : Fits(x)
BY HeapIsTyped DEF IInv, TypeOK, FrameTypes

(* A new object waits in the block of the call that makes it.              *)
LEMMA NewStep ==
  ASSUME IInv, NEW o \in Object, New(o)
  PROVE  IInv'
<1>1. FrameTypes /\ Heap \in HeapTypes /\ ScriptRuns BY Typed DEF New
<1>2. /\ Depth \in Nat /\ Depth > 0 /\ Depth \in Blocks /\ Block = Depth /\ Frame.kind = "script"
      /\ Frame \in AFrame
  BY <1>1, ScriptBlock
<1>5. /\ FramesStep /\ Depth' = Depth /\ Blocks' = Blocks
      /\ \A x \in Object : ParamsOf(x)' = ParamsOf(x) /\ ExtrasOf(x)' = ExtrasOf(x)
      /\ \A i \in 1 .. Depth : BlockOf(i)' = BlockOf(i)
      /\ \A x \in Object : \A i, j \in Nat : Has(i, j, x)' =>
           Has(i, j, x) \/ (x = o /\ i = Depth /\ j = Len(Frame.operands) + 1)
  BY <1>1, PushedPlaces DEF New
<1>6. /\ state[o] = "new" /\ global' = global /\ entries' = entries /\ failed' = failed /\ stray' = stray
      /\ state' = [state EXCEPT ![o] = "live"]
      /\ node' = [node EXCEPT ![o] = NodeWith(0, Depth, Depth)]
  <2> DEFINE h == [Heap EXCEPT !.state[o] = "live"]
  <2>1. h = [state |-> [state EXCEPT ![o] = "live"], node |-> node] BY DEF Heap
  <2>2. h \in HeapTypes BY <2>1 DEF HeapTypes, IInv, TypeOK
  <2>3. state' = Created(h, o, Block).state /\ node' = Created(h, o, Block).node BY DEF New, Now
  <2> HIDE DEF h
  <2>4. state' = h.state /\ node' = [h.node EXCEPT ![o] = NodeWith(0, Block, Block)]
    BY <2>2, <2>3, CreatedHeap
  <2> QED BY <2>1, <2>4, <1>2 DEF New
<1>7. TypeOK'
  <2>1. node' \in [Object -> Node \cup {None}] BY <1>2, <1>6, NodeIsNode DEF IInv, TypeOK
  <2> QED BY <1>5, <1>6, <2>1 DEF IInv, TypeOK, FramesStep, FrameTypes
<1>8. \A x : SameEntries(x) /\ EntriesOf(x)' = EntriesOf(x) /\ CountedOf(x)' = CountedOf(x)
  BY <1>6, UnchangedEntries
<1>9. \A x : GlobalsOf(x)' = GlobalsOf(x) BY <1>6 DEF GlobalsOf
<1>11. ASSUME NEW x \in Object, x # o PROVE Fits(x)'
  <2>1. state[x]' = state[x] /\ node[x]' = node[x] BY <1>6, <1>11 DEF IInv, TypeOK
  <2>2. node[x] # None /\ node[x].shares = 0 => node[x].list \in Blocks'
    BY <1>5, Typed DEF Fits, Listed
  <2>3. \A i, j \in Nat : Has(i, j, x)' => Has(i, j, x) BY <1>5, <1>11
  <2> QED BY <1>5, <1>8, <1>9, <2>1, <2>2, <2>3, Typed, Untouched
<1>12. Fits(o)'
  <2>1. node[o] = None /\ Fits(o) BY <1>6, Typed DEF Fits, Known
  <2>2. /\ GlobalsOf(o)' = {} /\ ParamsOf(o)' = {} /\ ExtrasOf(o)' = {} /\ EntriesOf(o)' = {}
        /\ CountedOf(o)' = {} /\ \A i, j \in Nat : ~Has(i, j, o)
    <3>1. /\ GlobalsOf(o) = {} /\ ParamsOf(o) = {} /\ ExtrasOf(o) = {} /\ \A i, j \in Nat : ~Has(i, j, o)
      BY <1>1, <2>1, NoNode
    <3>2. EntriesOf(o) = {} BY <1>6, <2>1 DEF Fits, Known
    <3>3. CountedOf(o) = {} BY <3>2 DEF CountedOf
    <3> QED BY <1>5, <1>8, <1>9, <3>1, <3>2, <3>3
  <2>3. node'[o] = NodeWith(0, Depth, Depth) /\ state'[o] = "live" /\ node'[o] # None
    BY <1>2, <1>6, NodeIsNode DEF IInv, TypeOK
  <2>4. node'[o].shares = 0 /\ node'[o].list = Depth BY <2>3 DEF NodeWith
  <2>5. Known(o)' BY <2>3 DEF Known
  <2>6. Counts(o)'
    <3>1. Cardinality({}) = 0 BY FS_EmptySet
    <3>2. stray[o] = 0 BY <1>6, <2>1 DEF Fits, Known
    <3>3. Shares(o)' = 0 BY <1>6, <2>2, <3>1, <3>2 DEF Shares
    <3> QED BY <2>2, <2>3, <2>4, <3>3 DEF Counts
  <2>7. Listed(o)' BY <1>2, <1>5, <2>3, <2>4 DEF Listed
  <2>8. Reached(o)'
    <3> SUFFICES ASSUME NEW i \in Nat, NEW j \in Nat, Has(i, j, o)'
                 PROVE  (node[o] # None /\ Temporary(i, j, o))'
      BY DEF Reached
    <3>1. i = Depth /\ j = Len(Frame.operands) + 1 BY <1>5, <2>2
    <3>2. \A p, q \in Nat : Has(p, q, o)' => p = i /\ q = j BY <1>5, <2>2, <3>1
    <3>3. BlockOf(i) = Depth BY <1>2, <3>1 DEF BlockOf, Frame
    <3>4. BlockOf(i)' = Depth BY <1>2, <1>5, <3>1, <3>3
    <3> QED BY <2>3, <2>4, <3>2, <3>4 DEF Temporary
  <2>9. Extra(o)' BY <2>2 DEF Extra
  <2> QED BY <2>5, <2>6, <2>7, <2>8, <2>9 DEF Fits
<1> QED BY <1>5, <1>7, <1>11, <1>12 DEF IInv, FramesStep, FrameTypes

(* A push of what a variable or the parameter holds.                       *)
LEMMA PushStep ==
  ASSUME IInv, NEW o \in Object, Push(o)
  PROVE  IInv'
<1>1. FrameTypes /\ ScriptRuns BY Typed DEF Push
<1>2. /\ Depth \in Nat /\ Depth > 0 /\ Frame.kind = "script" BY <1>1, ScriptBlock
<1>5. /\ FramesStep /\ Depth' = Depth /\ Blocks' = Blocks
      /\ \A x \in Object : ParamsOf(x)' = ParamsOf(x) /\ ExtrasOf(x)' = ExtrasOf(x)
      /\ \A i \in 1 .. Depth : BlockOf(i)' = BlockOf(i)
      /\ \A x \in Object : \A i, j \in Nat : Has(i, j, x)' =>
           Has(i, j, x) \/ (x = o /\ i = Depth /\ j = Len(Frame.operands) + 1)
  BY <1>1, PushedPlaces DEF Push
<1>6. state' = state /\ node' = node /\ global' = global /\ entries' = entries /\ failed' = failed
      /\ stray' = stray
  BY DEF Push
<1>7. TypeOK' BY <1>5, <1>6 DEF IInv, TypeOK, FramesStep, FrameTypes
<1>8. \A x : SameEntries(x) /\ EntriesOf(x)' = EntriesOf(x) /\ CountedOf(x)' = CountedOf(x)
  BY <1>6, UnchangedEntries
<1>9. \A x : GlobalsOf(x)' = GlobalsOf(x) BY <1>6 DEF GlobalsOf
<1>10. \A x \in Object : node[x] # None /\ node[x].shares = 0 => node[x].list \in Blocks'
  BY <1>5, Typed DEF Fits, Listed
<1>11. ASSUME NEW x \in Object, x # o PROVE Fits(x)'
  <2>1. \A i, j \in Nat : Has(i, j, x)' => Has(i, j, x) BY <1>5, <1>11
  <2> QED BY <1>5, <1>6, <1>8, <1>9, <1>10, <2>1, Typed, Untouched
<1>12. Fits(o)'
  <2>1. GlobalsOf(o) # {} \/ Depth \in ParamsOf(o)
    <3>1. o = Frame.param \/ \E v \in Var : global[v] = o BY DEF Push
    <3>2. o = Frame.param => Depth \in ParamsOf(o) BY <1>2 DEF ParamsOf, Frame
    <3>3. (\E v \in Var : global[v] = o) => GlobalsOf(o) # {} BY DEF GlobalsOf
    <3> QED BY <3>1, <3>2, <3>3
  <2>2. Fits(o) /\ TypeOK BY Typed DEF IInv
  <2>3. node[o] # None BY <1>1, <2>1, <2>2, NoNode
  <2>4. node[o].shares # 0 BY <2>1, <2>2, <2>3, NodeCounts
  <2>5. Known(o)' BY <1>6, <2>3, <2>2 DEF Known, Fits
  <2>6. Counts(o)' BY <1>5, <1>6, <1>8, <1>9, <2>2 DEF Counts, Fits, Shares
  <2>7. Listed(o)' BY <1>5, <1>6, <2>2 DEF Listed, Fits
  <2>8. Extra(o)' BY <1>5, <1>6, <2>2 DEF Extra, Fits
  <2>9. Reached(o)'
    <3> SUFFICES ASSUME NEW i \in Nat, NEW j \in Nat, Has(i, j, o)'
                 PROVE  (Anchored(i, o) \/ Lent(i, j, o))'
      BY <1>6, <2>3 DEF Reached
    <3>1. CASE i = Depth
      <4>1. Anchored(i, o) BY <1>2, <2>1, <3>1 DEF Anchored
      <4> QED BY <1>5, <1>6, <1>8, <1>9, <4>1 DEF Anchored
    <3>2. CASE i # Depth
      <4>1. Has(i, j, o) BY <1>5, <3>2
      <4>2. Anchored(i, o) \/ Lent(i, j, o) BY <2>2, <2>4, <4>1 DEF Fits, Reached, Temporary
      <4>3. Anchored(i, o) => Anchored(i, o)' BY <1>5, <1>6, <1>8, <1>9 DEF Anchored
      <4>4. Lent(i, j, o) => Lent(i, j, o)'
        <5> SUFFICES ASSUME NEW k \in ExtrasOf(o), k > i, node[o].home = BlockOf(i), Sole(i, j, o, k)
                     PROVE  (k \in ExtrasOf(o) /\ k > i /\ node[o].home = BlockOf(i) /\ Sole(i, j, o, k))'
          BY DEF Lent
        <5>1. k \in 1 .. Depth /\ i \in 1 .. Depth BY <4>1 DEF ExtrasOf, Has
        <5>2. \A p, q \in Nat : p < k /\ Has(p, q, o)' => Has(p, q, o) BY <1>2, <1>5, <5>1
        <5>3. Sole(i, j, o, k)' BY <5>2 DEF Sole
        <5> QED BY <1>5, <1>6, <5>1, <5>3
      <4> QED BY <4>2, <4>3, <4>4
    <3> QED BY <3>1, <3>2
  <2> QED BY <2>5, <2>6, <2>7, <2>8, <2>9 DEF Fits
<1> QED BY <1>5, <1>7, <1>11, <1>12 DEF IInv, FramesStep, FrameTypes

(* The object a variable loses: it is nowhere else on the stack, so it may *)
(* wait in the block that runs.                                            *)
LEMMA LosesVariable ==
  ASSUME IInv, FramesStep, ScriptRuns, Depth' = Depth, Blocks' = Blocks, entries' = entries,
         NEW b \in Object, NEW v \in Var, global[v] = b, KeepsRules, KeepsOperands(b),
         GlobalsOf(b)' = GlobalsOf(b) \ {v}, ParamsOf(b)' = ParamsOf(b), ExtrasOf(b)' = ExtrasOf(b),
         state[b]' = state[b],
         node[b]' = IF node[b].shares > 1 THEN NodeWith(node[b].shares - 1, node[b].home, node[b].list)
                    ELSE NodeWith(0, node[b].home, Block),
         \A i, j \in Nat : Has(i, j, b)' => Has(i, j, b)
  PROVE  Fits(b)' /\ node[b] \in Node /\ node[b]' \in Node
<1>1. FrameTypes /\ Fits(b) /\ TypeOK BY Typed DEF IInv
<1>2. v \in GlobalsOf(b) BY DEF GlobalsOf
<1>3. node[b] # None BY <1>1, <1>2, NoNode
<1>4. /\ node[b] \in Node /\ state[b] = "live" /\ CountedOf(b) = EntriesOf(b)
      /\ node[b].shares = Cardinality(GlobalsOf(b)) + Cardinality(ParamsOf(b))
                             + Cardinality(ExtrasOf(b)) + Cardinality(EntriesOf(b)) + stray[b]
      /\ stray[b] \in Nat /\ node[b].shares # 0
      /\ node[b].shares <= 1 =>
           GlobalsOf(b) = {v} /\ ParamsOf(b) = {} /\ ExtrasOf(b) = {} /\ EntriesOf(b) = {}
  BY <1>1, <1>2, <1>3, NodeCounts
<1>5. Depth \in Nat /\ Depth \in Blocks /\ Block = Depth BY <1>1, ScriptBlock
<1>6. node[b].shares \in Nat /\ node[b].home \in Nat /\ node[b].list \in Nat BY <1>4 DEF Node
<1>7. IF node[b].shares > 1
      THEN /\ node[b]'.shares = node[b].shares - 1 /\ node[b]'.home = node[b].home
           /\ node[b]'.list = node[b].list /\ node[b].shares - 1 \in Nat
           /\ node[b]' \in Node
      ELSE /\ node[b]'.shares = 0 /\ node[b]'.home = node[b].home /\ node[b]'.list = Depth
           /\ node[b]' \in Node
  <2>1. CASE node[b].shares > 1
    <3>1. node[b]' = NodeWith(node[b].shares - 1, node[b].home, node[b].list) BY <2>1
    <3>2. node[b].shares - 1 \in Nat BY <1>6, <2>1
    <3>3. node[b]' \in Node BY <1>6, <3>1, <3>2, NodeIsNode
    <3> QED BY <2>1, <3>1, <3>2, <3>3 DEF NodeWith
  <2>2. CASE ~(node[b].shares > 1)
    <3>1. node[b]' = NodeWith(0, node[b].home, Depth) BY <1>5, <2>2
    <3>2. node[b]' \in Node BY <1>5, <1>6, <3>1, NodeIsNode
    <3> QED BY <2>2, <3>1, <3>2 DEF NodeWith
  <2> QED BY <2>1, <2>2
<1>8. node[b]' \in Node /\ node[b]' # None BY <1>7, NodeAssumption DEF Node
<1>9. \A i, j \in Nat : ~Has(i, j, b)' BY <1>1, NoPlaces
<1>10. EntriesOf(b)' = EntriesOf(b) /\ CountedOf(b)' = CountedOf(b) BY UnchangedEntries
<1>11. Known(b)' BY <1>4 DEF Known
<1>12. Counts(b)'
  <2>1. IsFiniteSet(GlobalsOf(b)) /\ Cardinality(GlobalsOf(b)) \in Nat /\ Cardinality(ParamsOf(b)) \in Nat
        /\ Cardinality(ExtrasOf(b)) \in Nat /\ Cardinality(EntriesOf(b)) \in Nat
    BY <1>1, SetsFinite
  <2>2. Cardinality(GlobalsOf(b)') = Cardinality(GlobalsOf(b)) - 1
    BY <1>2, <2>1, FS_RemoveElement
  <2>3. node[b]'.shares = node[b].shares - 1
    <3>1. CASE node[b].shares > 1 BY <3>1, <1>7
    <3>2. CASE ~(node[b].shares > 1)
      <4>1. node[b].shares = 1 BY <1>4, <1>6, <3>2
      <4> QED BY <1>7, <3>2, <4>1
    <3> QED BY <3>1, <3>2
  <2>4. Shares(b)' = Cardinality(GlobalsOf(b)') + Cardinality(ParamsOf(b)) + Cardinality(ExtrasOf(b))
                     + Cardinality(EntriesOf(b)) + stray[b]
    BY <1>4, <1>10 DEF Shares, FramesStep
  <2>5. node[b]'.shares = Shares(b)' BY <1>4, <1>6, <2>1, <2>2, <2>3, <2>4
  <2> QED BY <1>4, <1>8, <1>10, <2>5 DEF Counts
<1>13. Listed(b)'
  <2>1. node[b].shares # 0 => node[b].list = NoList BY <1>1, <1>3 DEF Fits, Listed
  <2>2. CASE node[b].shares > 1
    <3>1. node[b]'.shares # 0 BY <1>6, <1>7, <2>2
    <3> QED BY <1>4, <1>7, <2>1, <2>2, <3>1 DEF Listed, NoList
  <2>3. CASE ~(node[b].shares > 1) BY <1>5, <1>7, <2>3 DEF Listed
  <2> QED BY <2>2, <2>3
<1>14. Reached(b)' BY <1>9 DEF Reached
<1>15. Extra(b)'
  <2>1. node[b]'.home = node[b].home BY <1>7
  <2> QED BY <1>1, <2>1 DEF Extra, Fits
<1> QED BY <1>4, <1>8, <1>11, <1>12, <1>13, <1>14, <1>15 DEF Fits

(* The object a variable gets from the operands.                           *)
LEMMA GainsVariable ==
  ASSUME IInv, FramesStep, Depth' = Depth, Blocks' = Blocks, entries' = entries,
         NEW a \in Object, NEW v \in Var, global[v] # a, node[a] # None,
         GlobalsOf(a)' = GlobalsOf(a) \cup {v}, ParamsOf(a)' = ParamsOf(a), ExtrasOf(a)' = ExtrasOf(a),
         state[a]' = state[a],
         node[a]' = NodeWith(node[a].shares + 1, node[a].home, NoList)
  PROVE  Fits(a)' /\ node[a] \in Node /\ node[a]' \in Node
<1>1. FrameTypes /\ Fits(a) /\ TypeOK BY Typed DEF IInv
<1>2. /\ node[a] \in Node /\ state[a] = "live" /\ CountedOf(a) = EntriesOf(a)
      /\ node[a].shares = Cardinality(GlobalsOf(a)) + Cardinality(ParamsOf(a))
                             + Cardinality(ExtrasOf(a)) + Cardinality(EntriesOf(a)) + stray[a]
      /\ stray[a] \in Nat
  BY <1>1, NodeCounts
<1>3. node[a].shares \in Nat /\ node[a].home \in Nat /\ NoList \in Nat
  BY <1>2, BoundsAssumption DEF Node, NoList
<1>4. node[a]'.shares = node[a].shares + 1 /\ node[a]'.home = node[a].home /\ node[a]'.list = NoList
  BY DEF NodeWith
<1>5. node[a]' \in Node /\ node[a]' # None /\ node[a]'.shares # 0 BY <1>3, <1>4, NodeIsNode
<1>6. EntriesOf(a)' = EntriesOf(a) /\ CountedOf(a)' = CountedOf(a) BY UnchangedEntries
<1>7. Known(a)' BY <1>2 DEF Known
<1>8. Counts(a)'
  <2>1. IsFiniteSet(GlobalsOf(a)) /\ Cardinality(GlobalsOf(a)) \in Nat /\ Cardinality(ParamsOf(a)) \in Nat
        /\ Cardinality(ExtrasOf(a)) \in Nat /\ Cardinality(EntriesOf(a)) \in Nat
    BY <1>1, SetsFinite
  <2>2. v \notin GlobalsOf(a) BY DEF GlobalsOf
  <2>3. Cardinality(GlobalsOf(a)') = Cardinality(GlobalsOf(a)) + 1
    BY <2>1, <2>2, FS_AddElement
  <2>4. Shares(a)' = Cardinality(GlobalsOf(a)') + Cardinality(ParamsOf(a)) + Cardinality(ExtrasOf(a))
                     + Cardinality(EntriesOf(a)) + stray[a]
    BY <1>2, <1>6 DEF Shares, FramesStep
  <2>5. node[a]'.shares = Shares(a)' BY <1>2, <1>3, <1>4, <2>1, <2>3, <2>4
  <2> QED BY <1>2, <1>5, <1>6, <2>5 DEF Counts
<1>9. Listed(a)' BY <1>4, <1>5 DEF Listed, NoList
<1>10. Reached(a)' BY <1>5 DEF Reached, Anchored
<1>11. Extra(a)' BY <1>1, <1>4 DEF Extra, Fits
<1> QED BY <1>2, <1>5, <1>7, <1>8, <1>9, <1>10, <1>11 DEF Fits

LEMMA OperandPlace ==
  ASSUME IInv, ScriptRuns, Frame.operands # <<>>
  PROVE  /\ Operand \in Object /\ node[Operand] # None /\ Has(Depth, Len(Frame.operands), Operand)
         /\ Len(Frame.operands) \in Nat /\ Len(Frame.operands) > 0
<1>1. FrameTypes /\ \A x \in Object : Fits(x) BY Typed
<1>2. /\ Depth \in Nat /\ Depth > 0 /\ Frame \in AFrame BY <1>1, ScriptBlock
<1>3. Frame.operands \in Seq(Object) BY <1>2 DEF AFrame
<1>4. Len(Frame.operands) \in Nat /\ Len(Frame.operands) > 0 BY <1>3
<1>5. Operand \in Object BY <1>3, <1>4 DEF Operand
<1>6. Has(Depth, Len(Frame.operands), Operand) BY <1>2, <1>4 DEF Has, Operand, Frame
<1>7. node[Operand] # None BY <1>1, <1>2, <1>4, <1>5, <1>6 DEF Fits, Reached
<1> QED BY <1>4, <1>5, <1>6, <1>7

(* The heap after a variable's object has lost a share.                    *)
LEMMA LostHeap ==
  ASSUME NEW h \in HeapTypes, FrameTypes, ScriptRuns, NEW b \in Object, h.node[b] \in Node,
         state' = Unref(h, b, Block).state, node' = Unref(h, b, Block).node
  PROVE  /\ state' = h.state
         /\ node' = [h.node EXCEPT ![b] =
                      IF h.node[b].shares > 1 THEN NodeWith(h.node[b].shares - 1, h.node[b].home, h.node[b].list)
                      ELSE NodeWith(0, h.node[b].home, Block)]
<1>1. Block = Depth /\ Depth \in Nat BY ScriptBlock
<1>2. Block # NoList BY <1>1, BoundsAssumption DEF NoList, FrameTypes, FramesShaped
<1>3. CASE h.node[b].shares > 1
  <2>1. /\ Unref(h, b, Block).state = h.state
        /\ Unref(h, b, Block).node =
             [h.node EXCEPT ![b] = NodeWith(h.node[b].shares - 1, h.node[b].home, h.node[b].list)]
    BY <1>3, UnrefLess
  <2> QED BY <1>3, <2>1
<1>4. CASE ~(h.node[b].shares > 1)
  <2>1. /\ Unref(h, b, Block).state = h.state
        /\ Unref(h, b, Block).node = [h.node EXCEPT ![b] = NodeWith(0, h.node[b].home, Block)]
    BY <1>2, <1>4, UnrefParks
  <2> QED BY <1>4, <2>1
<1> QED BY <1>3, <1>4

LEMMA ClearStep ==
  ASSUME IInv, KeepsRules, NEW v \in Var, Clear(v)
  PROVE  IInv'
<1>1. /\ FrameTypes /\ ScriptRuns /\ Heap \in HeapTypes /\ TypeOK /\ (\A x \in Object : Fits(x))
  BY Typed DEF Clear, IInv
<1>2. PICK b \in Object : b = global[v] /\ KeepsOperands(b) BY <1>1 DEF Clear, TypeOK
<1>3. /\ frames' = frames /\ entries' = entries /\ failed' = failed /\ stray' = stray
      /\ global' = [global EXCEPT ![v] = None]
  BY DEF Clear
<1>4. FrameTypes' /\ FramesStep /\ Depth' = Depth /\ Blocks' = Blocks
  <2>1. \A i \in 1 .. Depth : Same(i) BY <1>1, <1>3, DepthNat DEF Same
  <2>2. Depth' = Depth /\ Blocks' = Blocks /\ FrameTypes' BY <1>1, <1>3 DEF Depth, Blocks, FrameTypes, FramesShaped
  <2>3. PICK n \in Nat : n = Depth BY <1>1, DepthNat
  <2> QED BY <1>1, <1>3, <2>1, <2>2, <2>3 DEF FramesStep, Keep
<1>5. \A x : ParamsOf(x)' = ParamsOf(x) /\ ExtrasOf(x)' = ExtrasOf(x)
  BY <1>3, <1>4 DEF ParamsOf, ExtrasOf
<1>6. \A x, i, j : Has(i, j, x)' => Has(i, j, x) BY <1>3, <1>4 DEF Has
<1>7. node[b] # None
  <2>1. v \in GlobalsOf(b) BY <1>2 DEF GlobalsOf
  <2> QED BY <1>1, <2>1, NoNode
<1>8. node[b] \in Node BY <1>1, <1>7 DEF TypeOK
<1>9. /\ state' = state
      /\ node' = [node EXCEPT ![b] =
                   IF node[b].shares > 1 THEN NodeWith(node[b].shares - 1, node[b].home, node[b].list)
                   ELSE NodeWith(0, node[b].home, Block)]
  <2>1. state' = Unref(Heap, b, Block).state /\ node' = Unref(Heap, b, Block).node BY <1>2 DEF Clear, Now
  <2>2. Heap.node = node /\ Heap.state = state BY DEF Heap
  <2> QED BY <1>1, <1>8, <2>1, <2>2, LostHeap
<1>10. ASSUME NEW x \in Object, x # b PROVE Fits(x)'
  <2>1. state[x]' = state[x] /\ node[x]' = node[x] BY <1>1, <1>9, <1>10 DEF TypeOK
  <2>2. GlobalsOf(x)' = GlobalsOf(x) BY <1>1, <1>2, <1>3, <1>10, ObjectAssumption DEF GlobalsOf, TypeOK
  <2>3. node[x] # None /\ node[x].shares = 0 => node[x].list \in Blocks' BY <1>1, <1>4 DEF Fits, Listed
  <2> QED BY <1>1, <1>3, <1>4, <1>5, <1>6, <2>1, <2>2, <2>3, UnchangedEntries, Untouched
<1>11. Fits(b)' /\ node[b] \in Node /\ node[b]' \in Node
  <2>1. GlobalsOf(b)' = GlobalsOf(b) \ {v} BY <1>1, <1>2, <1>3, ObjectAssumption DEF GlobalsOf, TypeOK
  <2>2. /\ state[b]' = state[b]
        /\ node[b]' = IF node[b].shares > 1 THEN NodeWith(node[b].shares - 1, node[b].home, node[b].list)
                      ELSE NodeWith(0, node[b].home, Block)
    BY <1>1, <1>9 DEF TypeOK
  <2> QED BY <1>1, <1>2, <1>3, <1>4, <1>5, <1>6, <2>1, <2>2, LosesVariable
<1>12. TypeOK'
  <2>1. node' \in [Object -> Node \cup {None}] BY <1>1, <1>9, <1>11 DEF TypeOK
  <2> QED BY <1>1, <1>3, <1>9, <2>1 DEF TypeOK
<1> QED BY <1>4, <1>10, <1>11, <1>12 DEF IInv, FrameTypes

LEMMA StoreStep ==
  ASSUME IInv, KeepsRules, NEW v \in Var, Store(v)
  PROVE  IInv'
<1>1. /\ FrameTypes /\ ScriptRuns /\ Heap \in HeapTypes /\ TypeOK /\ (\A x \in Object : Fits(x))
  BY Typed DEF Store, IInv
<1>2. PICK a \in Object : a = Operand /\ node[a] # None BY <1>1, OperandPlace DEF Store
<1>3. /\ entries' = entries /\ failed' = failed /\ stray' = stray
      /\ global' = [global EXCEPT ![v] = a] /\ frames' = Operands(<<>>)
  BY <1>2 DEF Store
<1>4. /\ FramesStep /\ Depth' = Depth /\ Blocks' = Blocks
      /\ \A x \in Object : ParamsOf(x)' = ParamsOf(x) /\ ExtrasOf(x)' = ExtrasOf(x)
      /\ \A x \in Object : \A i, j \in Nat : Has(i, j, x)' => Has(i, j, x)
  <2>0. <<>> \in Seq(Object) OBVIOUS
  <2>1. PICK s \in Seq(Object) : s = <<>> BY <2>0, Zenon
  <2>2. /\ FramesStep /\ Depth' = Depth /\ Blocks' = Blocks
        /\ \A x \in Object : ParamsOf(x)' = ParamsOf(x) /\ ExtrasOf(x)' = ExtrasOf(x)
        /\ \A x \in Object : \A i, j \in Nat :
              Has(i, j, x)' <=> \/ i # Depth /\ Has(i, j, x)
                                \/ i = Depth /\ j \in 1 .. Len(s) /\ s[j] = x
    BY <1>1, <1>3, <2>1, OperandsPlaces
  <2>3. \A j \in Nat : j \notin 1 .. Len(s) BY <2>1
  <2> QED BY <2>2, <2>3
<1>5. \A x \in Object : node[x] # None /\ node[x].shares = 0 => node[x].list \in Blocks'
  BY <1>1, <1>4 DEF Fits, Listed
<1>6. node[a] \in Node BY <1>1, <1>2 DEF TypeOK
<1>7. \A x \in Object : x # a /\ x # global[v] => GlobalsOf(x)' = GlobalsOf(x)
  BY <1>1, <1>3 DEF GlobalsOf, TypeOK
<1>8. CASE global[v] = a
  <2>1. state' = state /\ node' = node BY <1>2, <1>8 DEF Store
  <2>2. \A x : GlobalsOf(x)' = GlobalsOf(x) BY <1>1, <1>3, <1>8 DEF GlobalsOf, TypeOK
  <2>3. ASSUME NEW x \in Object PROVE Fits(x)'
    BY <1>1, <1>3, <1>4, <1>5, <2>1, <2>2, UnchangedEntries, Untouched
  <2>4. TypeOK' BY <1>1, <1>3, <1>4, <2>1 DEF TypeOK, FramesStep, FrameTypes
  <2> QED BY <1>4, <2>3, <2>4 DEF IInv, FramesStep, FrameTypes
<1>9. CASE global[v] # a
  <2>1. /\ Shared(Heap, a).state = state
        /\ Shared(Heap, a).node = [node EXCEPT ![a] = NodeWith(node[a].shares + 1, node[a].home, NoList)]
    BY <1>1, <1>6, SharedHeap DEF Heap
  <2>2. NodeWith(node[a].shares + 1, node[a].home, NoList) \in Node
    <3>1. node[a].shares + 1 \in Nat /\ node[a].home \in Nat /\ NoList \in Nat
      BY <1>6, BoundsAssumption DEF Node, NoList
    <3> QED BY <3>1, NodeIsNode
  <2>3. GlobalsOf(a)' = GlobalsOf(a) \cup {v} BY <1>1, <1>3 DEF GlobalsOf, TypeOK
  <2>4. state' = Unref(Shared(Heap, a), global[v], Block).state
        /\ node' = Unref(Shared(Heap, a), global[v], Block).node
    BY <1>2, <1>9 DEF Store, Now
  <2>5. CASE global[v] = None
    <3>1. state' = state /\ node' = [node EXCEPT ![a] = NodeWith(node[a].shares + 1, node[a].home, NoList)]
      BY <2>1, <2>4, <2>5 DEF Unref
    <3>2. ASSUME NEW x \in Object, x # a PROVE Fits(x)'
      <4>1. state[x]' = state[x] /\ node[x]' = node[x] BY <1>1, <3>1, <3>2 DEF TypeOK
      <4>2. GlobalsOf(x)' = GlobalsOf(x) BY <1>7, <2>5, <3>2, ObjectAssumption
      <4> QED BY <1>1, <1>3, <1>4, <1>5, <4>1, <4>2, UnchangedEntries, Untouched
    <3>3. Fits(a)' /\ node[a]' \in Node
      <4>1. state[a]' = state[a] /\ node[a]' = NodeWith(node[a].shares + 1, node[a].home, NoList)
        BY <1>1, <3>1 DEF TypeOK
      <4> QED BY <1>2, <1>3, <1>4, <1>9, <2>3, <4>1, GainsVariable
    <3>4. TypeOK'
      <4>1. node' \in [Object -> Node \cup {None}] BY <1>1, <2>2, <3>1 DEF TypeOK
      <4> QED BY <1>1, <1>3, <1>4, <3>1, <4>1 DEF TypeOK, FramesStep, FrameTypes
    <3> QED BY <1>4, <3>2, <3>3, <3>4 DEF IInv, FramesStep, FrameTypes
  <2>6. CASE global[v] # None
    <3>1. PICK b \in Object : b = global[v] /\ b # a /\ KeepsOperands(b)
      BY <1>1, <1>2, <1>9, <2>6 DEF TypeOK, Store
    <3>2. node[b] \in Node
      <4>1. v \in GlobalsOf(b) BY <3>1 DEF GlobalsOf
      <4> QED BY <1>1, <4>1, NoNode DEF TypeOK
    <3> DEFINE h == Shared(Heap, a)
    <3>3. h \in HeapTypes /\ h.node[b] = node[b]
      <4>1. h = [state |-> h.state, node |-> h.node] BY <1>1 DEF Heap, Shared
      <4>2. h.node \in [Object -> Node \cup {None}] /\ h.state \in [Object -> {"new", "live", "deleted"}]
        BY <1>1, <2>1, <2>2 DEF TypeOK
      <4> QED BY <1>1, <2>1, <3>1, <4>1, <4>2 DEF HeapTypes, TypeOK
    <3> HIDE DEF h
    <3>4. state' = Unref(h, b, Block).state /\ node' = Unref(h, b, Block).node BY <2>4, <3>1 DEF h
    <3>5. /\ state' = h.state
          /\ node' = [h.node EXCEPT ![b] =
                        IF node[b].shares > 1 THEN NodeWith(node[b].shares - 1, node[b].home, node[b].list)
                        ELSE NodeWith(0, node[b].home, Block)]
      BY <1>1, <3>2, <3>3, <3>4, LostHeap
    <3>6. /\ state' = state
          /\ node'[a] = NodeWith(node[a].shares + 1, node[a].home, NoList)
          /\ node'[b] = IF node[b].shares > 1 THEN NodeWith(node[b].shares - 1, node[b].home, node[b].list)
                        ELSE NodeWith(0, node[b].home, Block)
          /\ \A x \in Object : x # a /\ x # b => node'[x] = node[x]
          /\ node' = [x \in Object |-> node'[x]]
      BY <1>1, <2>1, <3>1, <3>5 DEF h, TypeOK
    <3>7. ASSUME NEW x \in Object, x # a, x # b PROVE Fits(x)'
      <4>1. state[x]' = state[x] /\ node[x]' = node[x] BY <3>6, <3>7
      <4>2. GlobalsOf(x)' = GlobalsOf(x) BY <1>7, <3>1, <3>7
      <4> QED BY <1>1, <1>3, <1>4, <1>5, <4>1, <4>2, UnchangedEntries, Untouched
    <3>8. Fits(a)' /\ node[a]' \in Node
      BY <1>2, <1>3, <1>4, <1>9, <2>3, <3>6, GainsVariable
    <3>9. Fits(b)' /\ node[b]' \in Node
      <4>1. GlobalsOf(b)' = GlobalsOf(b) \ {v} BY <1>1, <1>3, <3>1 DEF GlobalsOf, TypeOK
      <4> QED BY <1>1, <1>3, <1>4, <3>1, <3>6, <4>1, LosesVariable
    <3>10. TypeOK'
      <4>1. \A x \in Object : node'[x] \in Node \cup {None} BY <1>1, <3>6, <3>8, <3>9 DEF TypeOK
      <4>2. node' \in [Object -> Node \cup {None}] BY <3>6, <4>1
      <4> QED BY <1>1, <1>3, <1>4, <3>6, <4>2 DEF TypeOK, FramesStep, FrameTypes
    <3> QED BY <1>4, <3>7, <3>8, <3>9, <3>10 DEF IInv, FramesStep, FrameTypes
  <2> QED BY <2>5, <2>6
<1> QED BY <1>8, <1>9
-----------------------------------------------------------------------------
(* Calls.                                                                  *)

LEMMA CallerFrames ==
  ASSUME FrameTypes, ScriptRuns, NEW s \in Seq(Object)
  PROVE  /\ Operands(s) \in Seq(AFrame) /\ Len(Operands(s)) = Depth
         /\ \A i \in 1 .. Depth : i # Depth => Operands(s)[i] = frames[i]
         /\ Operands(s)[Depth].kind = "script" /\ Operands(s)[Depth].param = Frame.param
         /\ Operands(s)[Depth].from = Frame.from /\ Operands(s)[Depth].extra = Frame.extra
         /\ Operands(s)[Depth].operands = s
<1>1. Depth \in Nat /\ Depth > 0 /\ Frame.kind = "script" BY ScriptBlock
<1>2. \A i \in 1 .. Depth : frames[i] \in AFrame BY DepthNat
<1> DEFINE top == [frames[Depth] EXCEPT !.operands = s]
<1>3. top \in AFrame BY <1>1, <1>2 DEF AFrame
<1>4. /\ top.kind = "script" /\ top.param = frames[Depth].param
      /\ top.from = frames[Depth].from /\ top.extra = frames[Depth].extra /\ top.operands = s
  BY <1>1, <1>2 DEF AFrame, Frame
<1>5. Operands(s) = [frames EXCEPT ![Depth] = top] BY DEF Operands
<1> HIDE DEF top
<1>6. Len(Operands(s)) = Len(frames) /\ Operands(s) \in Seq(AFrame) /\ Operands(s)[Depth] = top
      /\ \A i \in 1 .. Depth : i # Depth => Operands(s)[i] = frames[i]
  BY <1>1, <1>3, <1>5 DEF FrameTypes, Depth
<1> QED BY <1>4, <1>6 DEF Frame, Depth

(* A script function calls with its last operand, which leaves its place.  *)
LEMMA CalledPlaces ==
  ASSUME FrameTypes, ScriptRuns, Depth < MaxFrames, NEW o \in Arguments, NEW kind \in {"script", "native"},
         frames' = Entered(Operands(Dropped(IF o = None THEN 0 ELSE 1)), kind, o, "script", None),
         stray' = stray
  PROVE  /\ FramesStep /\ Depth' = Depth + 1 /\ Blocks \subseteq Blocks'
         /\ \A x \in Object :
              ParamsOf(x)' = ParamsOf(x) \cup (IF kind = "script" /\ o = x THEN {Depth + 1} ELSE {})
         /\ \A x \in Object : ExtrasOf(x)' = ExtrasOf(x)
         /\ \A i \in 1 .. Depth : BlockOf(i)' = BlockOf(i)
         /\ \A i \in Nat : i = Depth + 1 => BlockOf(i)' = IF kind = "script" THEN i ELSE Depth
         /\ \A x \in Object : \A i, j \in Nat : Has(i, j, x)' =>
              \/ Has(i, j, x) /\ ~(o # None /\ i = Depth /\ j = Len(Frame.operands))
              \/ i = Depth + 1 /\ j = 0 /\ kind = "native" /\ o = x
<1>1. Depth \in Nat /\ Depth > 0 /\ Frame.kind = "script" /\ Frame \in AFrame BY ScriptBlock
<1>2. Frame.operands \in Seq(Object) BY <1>1 DEF AFrame
<1>3. o \in Object \cup {None}
  BY <1>2 DEF Arguments, Operand
<1> DEFINE s == Dropped(IF o = None THEN 0 ELSE 1)
<1>4. s \in Seq(Object) /\ (\A j \in 1 .. Len(s) : s[j] = Frame.operands[j] /\ j \in 1 .. Len(Frame.operands)
                                                  /\ (o # None => j # Len(Frame.operands)))
  <2>1. CASE o = None
    <3>1. s = SubSeq(Frame.operands, 1, Len(Frame.operands)) BY <1>2, <2>1 DEF Dropped
    <3>2. s = Frame.operands BY <1>2, <3>1
    <3> QED BY <1>2, <2>1, <3>2
  <2>2. CASE o # None
    <3>1. Frame.operands # <<>> BY <2>2 DEF Arguments
    <3>2. Len(Frame.operands) \in Nat /\ Len(Frame.operands) > 0 BY <1>2, <3>1
    <3>3. s = SubSeq(Frame.operands, 1, Len(Frame.operands) - 1) BY <2>2 DEF Dropped
    <3> HIDE DEF s
    <3>4. PICK m \in Nat : m = Len(Frame.operands) - 1 BY <3>2
    <3>5. m \in 0 .. Len(Frame.operands) /\ m < Len(Frame.operands) BY <3>2, <3>4
    <3>6. SubSeq(Frame.operands, 1, m) \in Seq(Object) /\ Len(SubSeq(Frame.operands, 1, m)) = m
          /\ \A j \in 1 .. m : SubSeq(Frame.operands, 1, m)[j] = Frame.operands[j]
      BY <1>2, <3>5
    <3> QED BY <3>2, <3>3, <3>4, <3>5, <3>6
  <2> QED BY <2>1, <2>2
<1> HIDE DEF s
<1>5. PICK t \in Seq(Object) : t = s BY <1>4
<1>6. PICK caller : caller = Operands(t) OBVIOUS
<1>7. /\ caller \in Seq(AFrame) /\ Len(caller) = Depth
      /\ \A i \in 1 .. Depth : i # Depth => caller[i] = frames[i]
      /\ caller[Depth].kind = "script" /\ caller[Depth].param = Frame.param
      /\ caller[Depth].from = Frame.from /\ caller[Depth].extra = Frame.extra
      /\ caller[Depth].operands = t
  BY <1>6, CallerFrames
<1>8. Enters(caller, kind, o, "script", None)
  <2>1. frames' = Entered(caller, kind, o, "script", None) BY <1>5, <1>6 DEF s
  <2>2. \A i \in 1 .. Depth :
          /\ caller[i].kind = frames[i].kind /\ caller[i].param = frames[i].param
          /\ caller[i].from = frames[i].from /\ caller[i].extra = frames[i].extra
          /\ frames[i].kind = "native" => caller[i].operands = <<>>
    BY <1>1, <1>7 DEF Frame, FrameTypes, FramesShaped
  <2> QED BY <1>1, <1>3, <1>7, <2>1, <2>2 DEF Enters
<1>9. PICK from : from = "script" OBVIOUS
<1>10. PICK extra : extra = None OBVIOUS
<1>11. Enters(caller, kind, o, from, extra) BY <1>8, <1>9, <1>10
<1>12. /\ FramesStep /\ Depth' = Depth + 1 /\ Blocks \subseteq Blocks'
       /\ \A x \in Object :
            ParamsOf(x)' = ParamsOf(x) \cup (IF kind = "script" /\ o = x THEN {Depth + 1} ELSE {})
       /\ \A x \in Object : ExtrasOf(x)' = ExtrasOf(x) \cup (IF extra = x THEN {Depth + 1} ELSE {})
       /\ \A i \in 1 .. Depth : BlockOf(i)' = BlockOf(i)
       /\ \A i \in Nat : i = Depth + 1 => BlockOf(i)' = IF kind = "script" THEN i ELSE Depth
       /\ \A x \in Object : \A i, j \in Nat :
            Has(i, j, x)' <=>
              \/ /\ i \in 1 .. Depth
                 /\ \/ j \in 1 .. Len(caller[i].operands) /\ caller[i].operands[j] = x
                    \/ j = 0 /\ frames[i].kind = "native" /\ frames[i].param = x
              \/ i = Depth + 1 /\ j = 0 /\ kind = "native" /\ o = x
  BY <1>11, EnteredPlaces
<1>13. ASSUME NEW x \in Object PROVE ExtrasOf(x)' = ExtrasOf(x)
  <2>1. extra # x BY <1>10, ObjectAssumption
  <2>2. ExtrasOf(x)' = ExtrasOf(x) \cup (IF extra = x THEN {Depth + 1} ELSE {}) BY <1>12
  <2>3. (IF extra = x THEN {Depth + 1} ELSE {}) = {} BY <2>1
  <2> QED BY <2>2, <2>3
<1>14. ASSUME NEW x \in Object, NEW i \in Nat, NEW j \in Nat, Has(i, j, x)',
              ~(i = Depth + 1 /\ j = 0 /\ kind = "native" /\ o = x)
       PROVE  Has(i, j, x) /\ ~(o # None /\ i = Depth /\ j = Len(Frame.operands))
  <2>1. /\ i \in 1 .. Depth
        /\ \/ j \in 1 .. Len(caller[i].operands) /\ caller[i].operands[j] = x
           \/ j = 0 /\ frames[i].kind = "native" /\ frames[i].param = x
    BY <1>12, <1>14
  <2>2. CASE i # Depth BY <1>7, <2>1, <2>2 DEF Has
  <2>3. CASE i = Depth
    <3>1. j \in 1 .. Len(t) /\ t[j] = x BY <1>1, <1>7, <2>1, <2>3 DEF Frame
    <3>2. j \in 1 .. Len(Frame.operands) /\ Frame.operands[j] = x /\ (o # None => j # Len(Frame.operands))
      BY <1>4, <1>5, <3>1
    <3> QED BY <2>1, <2>3, <3>2 DEF Has, Frame
  <2> QED BY <2>2, <2>3
<1> QED BY <1>12, <1>13, <1>14

(* The parameter of a new call gets a share of its own.                    *)
LEMMA GainsCall ==
  ASSUME IInv, FramesStep, Depth' = Depth + 1, Blocks \subseteq Blocks', entries' = entries,
         \A i \in 1 .. Depth : BlockOf(i)' = BlockOf(i),
         NEW a \in Object, node[a] # None,
         GlobalsOf(a)' = GlobalsOf(a), ParamsOf(a)' = ParamsOf(a) \cup {Depth + 1},
         ExtrasOf(a)' = ExtrasOf(a), state[a]' = state[a],
         node[a]' = NodeWith(node[a].shares + 1, node[a].home, NoList),
         \A i, j \in Nat : Has(i, j, a)' => Has(i, j, a) /\ ~Temporary(i, j, a)
  PROVE  Fits(a)' /\ node[a]' \in Node
<1>1. FrameTypes /\ Fits(a) /\ TypeOK BY Typed DEF IInv
<1>2. /\ node[a] \in Node /\ state[a] = "live" /\ CountedOf(a) = EntriesOf(a)
      /\ node[a].shares = Cardinality(GlobalsOf(a)) + Cardinality(ParamsOf(a))
                             + Cardinality(ExtrasOf(a)) + Cardinality(EntriesOf(a)) + stray[a]
      /\ stray[a] \in Nat
  BY <1>1, NodeCounts
<1>3. node[a].shares \in Nat /\ node[a].home \in Nat /\ NoList \in Nat
  BY <1>2, BoundsAssumption DEF Node, NoList
<1>4. node[a]'.shares = node[a].shares + 1 /\ node[a]'.home = node[a].home /\ node[a]'.list = NoList
  BY DEF NodeWith
<1>5. node[a]' \in Node /\ node[a]' # None /\ node[a]'.shares # 0 BY <1>3, <1>4, NodeIsNode
<1>6. EntriesOf(a)' = EntriesOf(a) /\ CountedOf(a)' = CountedOf(a) BY UnchangedEntries
<1>7. Known(a)' BY <1>2 DEF Known
<1>8. Depth \in Nat /\ ParamsOf(a) \subseteq 1 .. Depth /\ ExtrasOf(a) \subseteq 1 .. Depth
  BY <1>1, DepthNat DEF ParamsOf, ExtrasOf
<1>9. Counts(a)'
  <2>1. IsFiniteSet(ParamsOf(a)) /\ Cardinality(GlobalsOf(a)) \in Nat /\ Cardinality(ParamsOf(a)) \in Nat
        /\ Cardinality(ExtrasOf(a)) \in Nat /\ Cardinality(EntriesOf(a)) \in Nat
    BY <1>1, SetsFinite
  <2>2. Depth + 1 \notin ParamsOf(a) BY <1>8
  <2>3. Cardinality(ParamsOf(a)') = Cardinality(ParamsOf(a)) + 1
    BY <2>1, <2>2, FS_AddElement
  <2>4. Shares(a)' = Cardinality(GlobalsOf(a)) + Cardinality(ParamsOf(a)') + Cardinality(ExtrasOf(a))
                     + Cardinality(EntriesOf(a)) + stray[a]
    BY <1>2, <1>6 DEF Shares, FramesStep
  <2>5. node[a]'.shares = Shares(a)' BY <1>2, <1>3, <1>4, <2>1, <2>3, <2>4
  <2> QED BY <1>2, <1>5, <1>6, <2>5 DEF Counts
<1>10. Listed(a)' BY <1>4, <1>5 DEF Listed, NoList
<1>11. Reached(a)'
  <2> SUFFICES ASSUME NEW i \in Nat, NEW j \in Nat, Has(i, j, a)'
               PROVE  (Anchored(i, a) \/ Lent(i, j, a))'
    BY <1>5 DEF Reached
  <2>1. Has(i, j, a) /\ i \in 1 .. Depth BY DEF Has
  <2>2. Anchored(i, a) \/ Lent(i, j, a) BY <1>1, <2>1 DEF Fits, Reached
  <2>3. Anchored(i, a) => Anchored(i, a)' BY <1>6 DEF Anchored, FramesStep
  <2>4. Lent(i, j, a) => Lent(i, j, a)' BY <1>4, <2>1 DEF Lent, Sole
  <2> QED BY <2>2, <2>3, <2>4
<1>12. Extra(a)'
  <2> SUFFICES ASSUME NEW k \in ExtrasOf(a)
               PROVE  (node[a].home \in Blocks /\ node[a].home < k
                       /\ \A i \in 1 .. k - 1 : i \notin ParamsOf(a) \cup ExtrasOf(a))'
    BY DEF Extra
  <2>1. node[a].home \in Blocks /\ node[a].home < k /\ \A i \in 1 .. k - 1 : i \notin ParamsOf(a) \cup ExtrasOf(a)
    BY <1>1 DEF Fits, Extra
  <2>2. \A i \in 1 .. k - 1 : i # Depth + 1 BY <1>8
  <2> QED BY <1>4, <2>1, <2>2
<1> QED BY <1>5, <1>7, <1>9, <1>10, <1>11, <1>12 DEF Fits

LEMMA CallStep ==
  ASSUME IInv, NEW o \in Object \cup {None}, Call(o)
  PROVE  IInv'
<1>1. /\ FrameTypes /\ ScriptRuns /\ Heap \in HeapTypes /\ TypeOK /\ (\A x \in Object : Fits(x))
  BY Typed DEF Call, IInv
<1>2. /\ FramesStep /\ Depth' = Depth + 1 /\ Blocks \subseteq Blocks'
      /\ \A x \in Object :
           ParamsOf(x)' = ParamsOf(x) \cup (IF o = x THEN {Depth + 1} ELSE {})
      /\ \A x \in Object : ExtrasOf(x)' = ExtrasOf(x)
      /\ \A i \in 1 .. Depth : BlockOf(i)' = BlockOf(i)
      /\ \A x \in Object : \A i, j \in Nat : Has(i, j, x)' =>
           Has(i, j, x) /\ ~(o # None /\ i = Depth /\ j = Len(Frame.operands))
  <2>1. PICK kind \in {"script", "native"} : kind = "script" OBVIOUS
  <2>2. o \in Arguments /\ Depth < MaxFrames
        /\ frames' = Entered(Operands(Dropped(IF o = None THEN 0 ELSE 1)), kind, o, "script", None)
        /\ stray' = stray
    BY <2>1 DEF Call
  <2>3. /\ FramesStep /\ Depth' = Depth + 1 /\ Blocks \subseteq Blocks'
        /\ \A x \in Object :
             ParamsOf(x)' = ParamsOf(x) \cup (IF kind = "script" /\ o = x THEN {Depth + 1} ELSE {})
        /\ \A x \in Object : ExtrasOf(x)' = ExtrasOf(x)
        /\ \A i \in 1 .. Depth : BlockOf(i)' = BlockOf(i)
        /\ \A x \in Object : \A i, j \in Nat : Has(i, j, x)' =>
             \/ Has(i, j, x) /\ ~(o # None /\ i = Depth /\ j = Len(Frame.operands))
             \/ i = Depth + 1 /\ j = 0 /\ kind = "native" /\ o = x
    BY <1>1, <2>2, CalledPlaces
  <2> QED BY <2>1, <2>3
<1>3. global' = global /\ entries' = entries /\ failed' = failed /\ stray' = stray BY DEF Call
<1>4. \A x : GlobalsOf(x)' = GlobalsOf(x) BY <1>3 DEF GlobalsOf
<1>5. \A x \in Object : node[x] # None /\ node[x].shares = 0 => node[x].list \in Blocks'
  BY <1>1, <1>2 DEF Fits, Listed
<1>6. ASSUME NEW x \in Object, x # o, state[x]' = state[x], node[x]' = node[x] PROVE Fits(x)'
  <2>1. ParamsOf(x)' = ParamsOf(x) BY <1>2, <1>6
  <2> QED BY <1>1, <1>2, <1>3, <1>4, <1>5, <1>6, <2>1, UnchangedEntries, Untouched
<1>7. CASE o = None
  <2>1. state' = state /\ node' = node BY <1>7 DEF Call, Now, Shared, Heap
  <2>2. \A x \in Object : Fits(x)' BY <1>6, <1>7, <2>1, ObjectAssumption
  <2>3. TypeOK' BY <1>1, <1>2, <1>3, <2>1 DEF TypeOK, FramesStep, FrameTypes
  <2> QED BY <1>2, <2>2, <2>3 DEF IInv, FramesStep, FrameTypes
<1>8. CASE o # None
  <2>1. PICK a \in Object : a = o /\ a = Operand /\ node[a] # None /\ Has(Depth, Len(Frame.operands), a)
    BY <1>1, <1>8, OperandPlace DEF Call, Arguments
  <2>2. node[a] \in Node BY <1>1, <2>1 DEF TypeOK
  <2>3. state' = state /\ node' = [node EXCEPT ![a] = NodeWith(node[a].shares + 1, node[a].home, NoList)]
    <3>1. state' = Shared(Heap, a).state /\ node' = Shared(Heap, a).node BY <2>1 DEF Call, Now
    <3> QED BY <1>1, <2>2, <3>1, SharedHeap DEF Heap
  <2>4. ASSUME NEW x \in Object, x # a PROVE Fits(x)'
    <3>1. state[x]' = state[x] /\ node[x]' = node[x] BY <1>1, <2>3, <2>4 DEF TypeOK
    <3> QED BY <1>6, <2>1, <2>4, <3>1
  <2>5. Fits(a)' /\ node[a]' \in Node
    <3>1. state[a]' = state[a] /\ node[a]' = NodeWith(node[a].shares + 1, node[a].home, NoList)
      BY <1>1, <2>3 DEF TypeOK
    <3>2. ASSUME NEW i \in Nat, NEW j \in Nat, Has(i, j, a)' PROVE Has(i, j, a) /\ ~Temporary(i, j, a)
      <4>1. Has(i, j, a) /\ ~(i = Depth /\ j = Len(Frame.operands)) BY <1>2, <1>8, <3>2
      <4>2. Depth \in Nat /\ Len(Frame.operands) \in Nat BY <1>1, <1>8, ScriptBlock, OperandPlace DEF Call, Arguments
      <4> QED BY <2>1, <4>1, <4>2 DEF Temporary
    <3>3. ParamsOf(a)' = ParamsOf(a) \cup {Depth + 1} BY <1>2, <2>1
    <3> QED BY <1>2, <1>3, <1>4, <2>1, <3>1, <3>2, <3>3, GainsCall
  <2>6. TypeOK'
    <3>1. node' \in [Object -> Node \cup {None}] BY <1>1, <2>3, <2>5 DEF TypeOK
    <3> QED BY <1>1, <1>2, <1>3, <2>3, <3>1 DEF TypeOK, FramesStep, FrameTypes
  <2> QED BY <1>2, <2>4, <2>5, <2>6 DEF IInv, FramesStep, FrameTypes
<1> QED BY <1>7, <1>8

(* A native function gets the operand as it is.                            *)
LEMMA CallNativeStep ==
  ASSUME IInv, NEW o \in Object \cup {None}, CallNative(o)
  PROVE  IInv'
<1>1. /\ FrameTypes /\ ScriptRuns /\ TypeOK /\ (\A x \in Object : Fits(x))
  BY Typed DEF CallNative, IInv
<1>2. /\ FramesStep /\ Depth' = Depth + 1 /\ Blocks \subseteq Blocks'
      /\ \A x \in Object : ParamsOf(x)' = ParamsOf(x)
      /\ \A x \in Object : ExtrasOf(x)' = ExtrasOf(x)
      /\ \A i \in 1 .. Depth : BlockOf(i)' = BlockOf(i)
      /\ \A i \in Nat : i = Depth + 1 => BlockOf(i)' = Depth
      /\ \A x \in Object : \A i, j \in Nat : Has(i, j, x)' =>
           \/ Has(i, j, x) /\ ~(o # None /\ i = Depth /\ j = Len(Frame.operands))
           \/ i = Depth + 1 /\ j = 0 /\ o = x
  <2>1. PICK kind \in {"script", "native"} : kind = "native" OBVIOUS
  <2>2. o \in Arguments /\ Depth < MaxFrames
        /\ frames' = Entered(Operands(Dropped(IF o = None THEN 0 ELSE 1)), kind, o, "script", None)
        /\ stray' = stray
    BY <2>1 DEF CallNative
  <2>3. /\ FramesStep /\ Depth' = Depth + 1 /\ Blocks \subseteq Blocks'
        /\ \A x \in Object :
             ParamsOf(x)' = ParamsOf(x) \cup (IF kind = "script" /\ o = x THEN {Depth + 1} ELSE {})
        /\ \A x \in Object : ExtrasOf(x)' = ExtrasOf(x)
        /\ \A i \in 1 .. Depth : BlockOf(i)' = BlockOf(i)
        /\ \A i \in Nat : i = Depth + 1 => BlockOf(i)' = IF kind = "script" THEN i ELSE Depth
        /\ \A x \in Object : \A i, j \in Nat : Has(i, j, x)' =>
             \/ Has(i, j, x) /\ ~(o # None /\ i = Depth /\ j = Len(Frame.operands))
             \/ i = Depth + 1 /\ j = 0 /\ kind = "native" /\ o = x
    BY <1>1, <2>2, CalledPlaces
  <2>4. \A x \in Object : ParamsOf(x)' = ParamsOf(x)
    <3>1. kind # "script" BY <2>1
    <3> QED BY <2>3, <3>1
  <2> QED BY <2>1, <2>3, <2>4
<1>3. state' = state /\ node' = node /\ global' = global /\ entries' = entries /\ failed' = failed
      /\ stray' = stray
  BY DEF CallNative
<1>4. \A x : GlobalsOf(x)' = GlobalsOf(x) BY <1>3 DEF GlobalsOf
<1>5. \A x \in Object : node[x] # None /\ node[x].shares = 0 => node[x].list \in Blocks'
  BY <1>1, <1>2 DEF Fits, Listed
<1>6. ASSUME NEW x \in Object, x # o PROVE Fits(x)'
  <2>1. \A i, j \in Nat : Has(i, j, x)' => Has(i, j, x) BY <1>2, <1>6
  <2> QED BY <1>1, <1>2, <1>3, <1>4, <1>5, <1>6, <2>1, UnchangedEntries, Untouched
<1>7. ASSUME o # None PROVE o \in Object /\ Fits(o)'
  <2>1. PICK a \in Object : a = o /\ a = Operand /\ node[a] # None /\ Has(Depth, Len(Frame.operands), a)
    BY <1>1, <1>7, OperandPlace DEF CallNative, Arguments
  <2>2. Depth \in Nat /\ Depth > 0 /\ Frame.kind = "script" /\ Len(Frame.operands) \in Nat
    BY <1>1, <1>7, ScriptBlock, OperandPlace DEF CallNative, Arguments
  <2>3. EntriesOf(a)' = EntriesOf(a) /\ CountedOf(a)' = CountedOf(a) BY <1>3, UnchangedEntries
  <2>4. Known(a)' BY <1>2, <1>3, <1>4, <1>1, <2>3 DEF Known, Fits
  <2>5. Counts(a)' BY <1>1, <1>2, <1>3, <1>4, <2>3 DEF Counts, Fits, Shares
  <2>6. Listed(a)' BY <1>1, <1>2, <1>3 DEF Listed, Fits
  <2>7. Extra(a)' BY <1>1, <1>2, <1>3 DEF Extra, Fits
  <2>8. Reached(a)'
    <3> SUFFICES ASSUME NEW i \in Nat, NEW j \in Nat, Has(i, j, a)'
                 PROVE  (Anchored(i, a) \/ Temporary(i, j, a) \/ Lent(i, j, a))'
      BY <1>3, <2>1 DEF Reached
    <3>1. \/ Has(i, j, a) /\ ~(i = Depth /\ j = Len(Frame.operands))
          \/ i = Depth + 1 /\ j = 0
      BY <1>2, <1>7
    <3>2. CASE Has(i, j, a) /\ ~(i = Depth /\ j = Len(Frame.operands))
      <4>1. i \in 1 .. Depth BY <3>2 DEF Has
      <4>2. ~Temporary(i, j, a) BY <2>1, <2>2, <3>2 DEF Temporary
      <4>3. Anchored(i, a) \/ Lent(i, j, a) BY <1>1, <3>2, <4>2 DEF Fits, Reached
      <4>4. Anchored(i, a) => Anchored(i, a)' BY <1>2, <1>3, <1>4, <2>3 DEF Anchored
      <4>5. Lent(i, j, a) => Lent(i, j, a)'
        <5> SUFFICES ASSUME NEW k \in ExtrasOf(a), k > i, node[a].home = BlockOf(i), Sole(i, j, a, k)
                     PROVE  (k \in ExtrasOf(a) /\ k > i /\ node[a].home = BlockOf(i) /\ Sole(i, j, a, k))'
          BY DEF Lent
        <5>1. k \in 1 .. Depth BY DEF ExtrasOf
        <5>2. \A p, q \in Nat : p < k /\ Has(p, q, a)' => Has(p, q, a) BY <1>2, <2>2, <5>1
        <5>3. Sole(i, j, a, k)' BY <5>2 DEF Sole
        <5> QED BY <1>2, <1>3, <4>1, <5>1, <5>3
      <4> QED BY <4>3, <4>4, <4>5
    <3>3. CASE i = Depth + 1 /\ j = 0
      <4>1. Anchored(Depth, a) \/ Temporary(Depth, Len(Frame.operands), a) \/ Lent(Depth, Len(Frame.operands), a)
        BY <1>1, <2>1, <2>2 DEF Fits, Reached
      <4>2. ~Lent(Depth, Len(Frame.operands), a) BY <2>2 DEF Lent, ExtrasOf
      <4>3. Anchored(Depth, a) => Anchored(i, a)'
        <5>1. \A k \in ParamsOf(a) : k <= i BY <2>2, <3>3 DEF ParamsOf
        <5> QED BY <1>2, <1>3, <1>4, <2>3, <5>1 DEF Anchored
      <4>4. ASSUME Temporary(Depth, Len(Frame.operands), a) PROVE Temporary(i, j, a)'
        <5>1. BlockOf(i)' = Depth BY <1>2, <3>3
        <5>2. node[a].shares = 0 /\ node[a].list = Depth
              /\ \A p, q \in Nat : Has(p, q, a) => p = Depth /\ q = Len(Frame.operands)
          BY <2>2, <4>4 DEF Temporary, BlockOf, Frame
        <5>3. \A p, q \in Nat : Has(p, q, a)' => p = i /\ q = j BY <1>2, <1>7, <3>3, <5>2
        <5> QED BY <1>3, <5>1, <5>2, <5>3 DEF Temporary
      <4> QED BY <4>1, <4>2, <4>3, <4>4
    <3> QED BY <3>1, <3>2, <3>3
  <2> QED BY <2>1, <2>4, <2>5, <2>6, <2>7, <2>8 DEF Fits
<1>8. TypeOK' BY <1>1, <1>2, <1>3 DEF TypeOK, FramesStep, FrameTypes
<1>9. \A x \in Object : Fits(x)' BY <1>6, <1>7, ObjectAssumption
<1> QED BY <1>2, <1>8, <1>9 DEF IInv, FramesStep, FrameTypes
-----------------------------------------------------------------------------
(* Calls of the host.                                                      *)

LEMMA HostPlaces ==
  ASSUME FrameTypes, HostRuns, Depth < MaxFrames, NEW o \in Object \cup {None}, NEW e \in {None, o},
         frames' = Entered(frames, "script", o, "host", e), stray' = stray
  PROVE  /\ FramesStep /\ Depth' = Depth + 1 /\ Blocks \subseteq Blocks'
         /\ \A x \in Object :
              ParamsOf(x)' = ParamsOf(x) \cup (IF o = x THEN {Depth + 1} ELSE {})
         /\ \A x \in Object : ExtrasOf(x)' = ExtrasOf(x) \cup (IF e = x THEN {Depth + 1} ELSE {})
         /\ \A i \in 1 .. Depth : BlockOf(i)' = BlockOf(i)
         /\ \A x \in Object : \A i, j \in Nat : Has(i, j, x)' => Has(i, j, x)
<1>1. Depth \in Nat BY DepthNat
<1>2. PICK caller : caller = frames OBVIOUS
<1>3. PICK kind \in {"script", "native"} : kind = "script" OBVIOUS
<1>4. PICK from \in {"host", "script"} : from = "host" OBVIOUS
<1>5. Enters(caller, kind, o, from, e)
  <2>1. frames' = Entered(caller, kind, o, from, e) BY <1>2, <1>3, <1>4
  <2>2. caller \in Seq(AFrame) /\ Len(caller) = Depth BY <1>2 DEF FrameTypes, Depth
  <2>3. \A i \in 1 .. Depth :
          /\ caller[i].kind = frames[i].kind /\ caller[i].param = frames[i].param
          /\ caller[i].from = frames[i].from /\ caller[i].extra = frames[i].extra
          /\ frames[i].kind = "native" => caller[i].operands = <<>>
    BY <1>2 DEF FrameTypes, FramesShaped
  <2>4. Depth = 0 \/ Frame.kind = "native" BY <1>1 DEF HostRuns
  <2> QED BY <1>3, <1>4, <2>1, <2>2, <2>3, <2>4 DEF Enters
<1>6. /\ FramesStep /\ Depth' = Depth + 1 /\ Blocks \subseteq Blocks'
      /\ \A x \in Object :
           ParamsOf(x)' = ParamsOf(x) \cup (IF kind = "script" /\ o = x THEN {Depth + 1} ELSE {})
      /\ \A x \in Object : ExtrasOf(x)' = ExtrasOf(x) \cup (IF e = x THEN {Depth + 1} ELSE {})
      /\ \A i \in 1 .. Depth : BlockOf(i)' = BlockOf(i)
      /\ \A x \in Object : \A i, j \in Nat :
           Has(i, j, x)' <=>
             \/ /\ i \in 1 .. Depth
                /\ \/ j \in 1 .. Len(caller[i].operands) /\ caller[i].operands[j] = x
                   \/ j = 0 /\ frames[i].kind = "native" /\ frames[i].param = x
             \/ i = Depth + 1 /\ j = 0 /\ kind = "native" /\ o = x
  BY <1>5, EnteredPlaces
<1>7. \A x \in Object : \A i, j \in Nat : Has(i, j, x)' => Has(i, j, x) BY <1>2, <1>3, <1>6 DEF Has
<1>8. \A x \in Object : ParamsOf(x)' = ParamsOf(x) \cup (IF o = x THEN {Depth + 1} ELSE {}) BY <1>3, <1>6
<1> QED BY <1>6, <1>7, <1>8

(* A temporary that the host passes on is shared twice, and every place    *)
(* that has it has lent it.                                                *)
LEMMA LendsTemporary ==
  ASSUME IInv, FramesStep, Depth' = Depth + 1, Blocks \subseteq Blocks', entries' = entries,
         \A i \in 1 .. Depth : BlockOf(i)' = BlockOf(i),
         NEW a \in Object, node[a] # None, node[a].shares = 0, AtHome(a),
         GlobalsOf(a)' = GlobalsOf(a), ParamsOf(a)' = ParamsOf(a) \cup {Depth + 1},
         ExtrasOf(a)' = ExtrasOf(a) \cup {Depth + 1}, state[a]' = state[a],
         node[a]' = NodeWith(2, node[a].home, NoList),
         \A i, j \in Nat : Has(i, j, a)' => Has(i, j, a)
  PROVE  Fits(a)' /\ node[a]' \in Node
<1>1. FrameTypes /\ Fits(a) /\ TypeOK BY Typed DEF IInv
<1>2. /\ node[a] \in Node /\ state[a] = "live"
      /\ GlobalsOf(a) = {} /\ ParamsOf(a) = {} /\ ExtrasOf(a) = {} /\ EntriesOf(a) = {}
      /\ stray[a] = 0
  BY <1>1, NodeCounts
<1>3. node[a].home \in Nat /\ NoList \in Nat BY <1>2, BoundsAssumption DEF Node, NoList
<1>4. node[a]'.shares = 2 /\ node[a]'.home = node[a].home /\ node[a]'.list = NoList BY DEF NodeWith
<1>5. node[a]' \in Node /\ node[a]' # None BY <1>3, NodeIsNode
<1>6. node[a].home = node[a].list /\ node[a].home \in Blocks BY <1>1, <1>2 DEF AtHome, Fits, Listed
<1>7. PICK d \in Nat : d = Depth BY <1>1, DepthNat
<1>8. /\ GlobalsOf(a)' = {} /\ ParamsOf(a)' = {d + 1} /\ ExtrasOf(a)' = {d + 1}
      /\ EntriesOf(a)' = {} /\ CountedOf(a)' = {}
  <2>1. EntriesOf(a)' = EntriesOf(a) BY UnchangedEntries
  <2>2. CountedOf(a)' = {} BY <1>2, <2>1 DEF CountedOf
  <2> QED BY <1>2, <1>7, <2>1, <2>2
<1>9. Known(a)' BY <1>2 DEF Known
<1>10. Counts(a)'
  <2>1. Cardinality({}) = 0 /\ Cardinality({d + 1}) = 1 BY FS_EmptySet, FS_Singleton
  <2>2. stray[a]' = 0 BY <1>2 DEF FramesStep
  <2>3. Shares(a)' = 0 + Cardinality({d + 1}) + Cardinality({d + 1}) + 0 + stray[a]' BY <1>8, <2>1 DEF Shares
  <2>4. Shares(a)' = 2 BY <2>1, <2>2, <2>3
  <2> QED BY <1>4, <1>5, <1>8, <2>4 DEF Counts
<1>11. Listed(a)' BY <1>4 DEF Listed, NoList
<1>12. Reached(a)'
  <2> SUFFICES ASSUME NEW i \in Nat, NEW j \in Nat, Has(i, j, a)'
               PROVE  Lent(i, j, a)'
    BY <1>5 DEF Reached
  <2>1. Has(i, j, a) /\ i \in 1 .. Depth BY DEF Has
  <2>2. Temporary(i, j, a) BY <1>1, <1>2, <2>1 DEF Fits, Reached, Anchored, Lent
  <2>3. node[a].list = BlockOf(i) /\ \A p, q \in Nat : Has(p, q, a) => p = i /\ q = j BY <2>2 DEF Temporary
  <2>4. node[a]'.home = BlockOf(i)' BY <1>4, <1>6, <2>1, <2>3
  <2>5. d + 1 \in ExtrasOf(a)' /\ d + 1 > i BY <1>7, <1>8, <2>1
  <2>6. \A k : Sole(i, j, a, k)' BY <2>3 DEF Sole
  <2> QED BY <2>4, <2>5, <2>6 DEF Lent
<1>13. Extra(a)'
  <2> SUFFICES ASSUME NEW k \in ExtrasOf(a)'
               PROVE  (node[a].home \in Blocks /\ node[a].home < k
                       /\ \A i \in 1 .. k - 1 : i \notin ParamsOf(a) \cup ExtrasOf(a))'
    BY DEF Extra
  <2>1. k = d + 1 BY <1>8
  <2>2. node[a].home < k BY <1>6, <1>7, <2>1 DEF Blocks
  <2>3. \A i \in 1 .. k - 1 : i # d + 1 BY <2>1
  <2> QED BY <1>4, <1>6, <1>8, <2>2, <2>3
<1> QED BY <1>5, <1>9, <1>10, <1>11, <1>12, <1>13 DEF Fits

(* The heap after the host's argument has been shared, a temporary twice.  *)
LEMMA ArgumentHeap ==
  ASSUME TypeOK, NEW a \in Object, node[a] # None
  PROVE  /\ Argument(a).state = state
         /\ NodeWith(IF node[a].shares = 0 THEN 2 ELSE node[a].shares + 1, node[a].home, NoList) \in Node
         /\ Argument(a).node =
              [node EXCEPT ![a] = NodeWith(IF node[a].shares = 0 THEN 2 ELSE node[a].shares + 1,
                                           node[a].home, NoList)]
<1>1. Heap \in HeapTypes BY HeapIsTyped
<1>2. a # None BY ObjectAssumption
<1>3. node[a] \in Node BY DEF TypeOK
<1>4. NoList \in Nat /\ node[a].shares \in Nat /\ node[a].home \in Nat
  BY <1>3, BoundsAssumption DEF NoList, Node
<1> DEFINE h == Shared(Heap, a)
<1>5. h.state = state /\ h.node = [node EXCEPT ![a] = NodeWith(node[a].shares + 1, node[a].home, NoList)]
  BY <1>1, <1>3, SharedHeap DEF Heap
<1>6. NodeWith(node[a].shares + 1, node[a].home, NoList) \in Node BY <1>4, NodeIsNode
<1>7. h \in HeapTypes /\ h.node[a] = NodeWith(node[a].shares + 1, node[a].home, NoList)
  <2>1. h = [state |-> h.state, node |-> h.node] BY <1>2 DEF Heap, Shared
  <2>2. h.node \in [Object -> Node \cup {None}] /\ h.state \in [Object -> {"new", "live", "deleted"}]
    BY <1>5, <1>6 DEF TypeOK
  <2> QED BY <1>5, <2>1, <2>2 DEF HeapTypes, TypeOK
<1>8. CASE node[a].shares = 0
  <2>1. Argument(a) = Shared(h, a) BY <1>2, <1>8 DEF Argument, IsTemporary
  <2> HIDE DEF h
  <2>2. h.node[a].shares = 1 /\ h.node[a].home = node[a].home BY <1>7, <1>8 DEF NodeWith
  <2>3. /\ Shared(h, a).state = h.state
        /\ Shared(h, a).node = [h.node EXCEPT ![a] = NodeWith(h.node[a].shares + 1, h.node[a].home, NoList)]
    BY <1>6, <1>7, SharedHeap
  <2>4. h.node[a].shares + 1 = 2 BY <2>2
  <2>5. Shared(h, a).node = [h.node EXCEPT ![a] = NodeWith(2, node[a].home, NoList)] BY <2>2, <2>3, <2>4
  <2>6. Shared(h, a).node = [node EXCEPT ![a] = NodeWith(2, node[a].home, NoList)] BY <1>5, <2>5 DEF TypeOK
  <2>7. NodeWith(2, node[a].home, NoList) \in Node BY <1>4, NodeIsNode
  <2> QED BY <1>5, <1>8, <2>1, <2>3, <2>6, <2>7
<1>9. CASE node[a].shares # 0
  <2>1. Argument(a) = h BY <1>2, <1>9 DEF Argument, IsTemporary
  <2> HIDE DEF h
  <2> QED BY <1>5, <1>6, <1>9, <2>1
<1> QED BY <1>8, <1>9

LEMMA HostCallStep ==
  ASSUME IInv, KeepsRules, NEW o \in Object \cup {None}, HostCall(o)
  PROVE  IInv'
<1>1. /\ FrameTypes /\ HostRuns /\ Heap \in HeapTypes /\ TypeOK /\ (\A x \in Object : Fits(x))
  BY Typed DEF HostCall, IInv
<1>2. PICK e \in {None, o} : e = IF IsTemporary(o) THEN o ELSE None OBVIOUS
<1>3. /\ FramesStep /\ Depth' = Depth + 1 /\ Blocks \subseteq Blocks'
      /\ \A x \in Object : ParamsOf(x)' = ParamsOf(x) \cup (IF o = x THEN {Depth + 1} ELSE {})
      /\ \A x \in Object : ExtrasOf(x)' = ExtrasOf(x) \cup (IF e = x THEN {Depth + 1} ELSE {})
      /\ \A i \in 1 .. Depth : BlockOf(i)' = BlockOf(i)
      /\ \A x \in Object : \A i, j \in Nat : Has(i, j, x)' => Has(i, j, x)
  <2>1. Depth < MaxFrames /\ frames' = Entered(frames, "script", o, "host", e) /\ stray' = stray BY <1>2 DEF HostCall
  <2> QED BY <1>1, <2>1, HostPlaces
<1>4. global' = global /\ entries' = entries /\ failed' = failed /\ stray' = stray BY DEF HostCall
<1>5. \A x : GlobalsOf(x)' = GlobalsOf(x) BY <1>4 DEF GlobalsOf
<1>6. \A x \in Object : node[x] # None /\ node[x].shares = 0 => node[x].list \in Blocks'
  BY <1>1, <1>3 DEF Fits, Listed
<1>7. ASSUME NEW x \in Object, x # o, state[x]' = state[x], node[x]' = node[x] PROVE Fits(x)'
  <2>1. x # e BY <1>2, <1>7, ObjectAssumption
  <2>2. ParamsOf(x)' = ParamsOf(x) /\ ExtrasOf(x)' = ExtrasOf(x)
    <3>1. /\ ParamsOf(x)' = ParamsOf(x) \cup (IF o = x THEN {Depth + 1} ELSE {})
          /\ ExtrasOf(x)' = ExtrasOf(x) \cup (IF e = x THEN {Depth + 1} ELSE {})
      BY <1>3
    <3>2. (IF o = x THEN {Depth + 1} ELSE {}) = {} /\ (IF e = x THEN {Depth + 1} ELSE {}) = {} BY <1>7, <2>1
    <3> QED BY <3>1, <3>2
  <2> QED BY <1>1, <1>3, <1>4, <1>5, <1>6, <1>7, <2>2, UnchangedEntries, Untouched
<1>8. CASE o = None
  <2>1. state' = state /\ node' = node BY <1>8 DEF HostCall, Now, Argument, Heap
  <2>2. \A x \in Object : Fits(x)' BY <1>7, <1>8, <2>1, ObjectAssumption
  <2>3. TypeOK' BY <1>1, <1>3, <1>4, <2>1 DEF TypeOK, FramesStep, FrameTypes
  <2> QED BY <1>3, <2>2, <2>3 DEF IInv, FramesStep, FrameTypes
<1>9. CASE o # None
  <2>1. PICK a \in Object : a = o BY <1>9
  <2>2. node[a] # None /\ AtHome(a) BY <1>9, <2>1 DEF HostCall, Passable, KeepsRules, Rules
  <2>3. node[a] \in Node BY <1>1, <2>2 DEF TypeOK
  <2>4. NoList \in Nat /\ node[a].shares \in Nat /\ node[a].home \in Nat
    BY <2>3, BoundsAssumption DEF NoList, Node
  <2>5. ParamsOf(a)' = ParamsOf(a) \cup {Depth + 1} BY <1>3, <2>1
  <2>9. PICK r \in Node : /\ r = node'[a] /\ state' = state /\ node' = [node EXCEPT ![a] = r]
                          /\ IF node[a].shares = 0
                             THEN r = NodeWith(2, node[a].home, NoList)
                             ELSE r = NodeWith(node[a].shares + 1, node[a].home, NoList)
    <3>1. state' = Argument(a).state /\ node' = Argument(a).node BY <2>1 DEF HostCall, Now
    <3>2. PICK r \in Node : r = NodeWith(IF node[a].shares = 0 THEN 2 ELSE node[a].shares + 1,
                                         node[a].home, NoList)
      BY <1>1, <2>2, ArgumentHeap
    <3>3. state' = state /\ node' = [node EXCEPT ![a] = r] BY <1>1, <2>2, <3>1, <3>2, ArgumentHeap
    <3> QED BY <1>1, <3>2, <3>3 DEF TypeOK
  <2>10. ASSUME NEW x \in Object, x # a PROVE Fits(x)'
    <3>1. state[x]' = state[x] /\ node[x]' = node[x] BY <1>1, <2>9, <2>10 DEF TypeOK
    <3> QED BY <1>7, <2>1, <2>10, <3>1
  <2>11. Fits(a)'
    <3>1. state[a]' = state[a] BY <2>9
    <3>2. CASE node[a].shares = 0
      <4>1. e = a BY <1>2, <1>9, <2>1, <2>2, <3>2 DEF IsTemporary
      <4>2. ExtrasOf(a)' = ExtrasOf(a) \cup {Depth + 1} BY <1>3, <4>1
      <4>3. node[a]' = NodeWith(2, node[a].home, NoList) BY <2>9, <3>2
      <4> QED BY <1>3, <1>4, <1>5, <2>2, <2>5, <3>1, <3>2, <4>2, <4>3, LendsTemporary
    <3>3. CASE node[a].shares # 0
      <4>1. e # a BY <1>2, <2>1, <3>3, ObjectAssumption DEF IsTemporary
      <4>2. ExtrasOf(a)' = ExtrasOf(a)
        <5>1. ExtrasOf(a)' = ExtrasOf(a) \cup (IF e = a THEN {Depth + 1} ELSE {}) BY <1>3
        <5> QED BY <4>1, <5>1
      <4>3. node[a]' = NodeWith(node[a].shares + 1, node[a].home, NoList) BY <2>9, <3>3
      <4>4. \A i, j \in Nat : ~Temporary(i, j, a) BY <3>3 DEF Temporary
      <4> QED BY <1>3, <1>4, <1>5, <2>2, <2>5, <3>1, <4>2, <4>3, <4>4, GainsCall
    <3> QED BY <3>2, <3>3
  <2>12. TypeOK'
    <3>1. node' \in [Object -> Node \cup {None}] BY <1>1, <2>9 DEF TypeOK
    <3> QED BY <1>1, <1>3, <1>4, <2>9, <3>1 DEF TypeOK, FramesStep, FrameTypes
  <2> QED BY <1>3, <2>10, <2>11, <2>12 DEF IInv, FramesStep, FrameTypes
<1> QED BY <1>8, <1>9
-----------------------------------------------------------------------------
(* Returns, errors, and what the host gives back.                          *)

LEMMA NativeReturnStep ==
  ASSUME IInv, NativeReturn
  PROVE  IInv'
<1>1. FrameTypes /\ TypeOK /\ (\A x \in Object : Fits(x)) BY Typed DEF IInv
<1>2. /\ FramesStep /\ Depth' = Depth - 1 /\ Blocks' = Blocks \ {Depth}
      /\ \A x \in Object : ParamsOf(x)' = ParamsOf(x) \ {Depth} /\ ExtrasOf(x)' = ExtrasOf(x) \ {Depth}
      /\ \A x \in Object : \A i, j \in Nat : Has(i, j, x)' <=> i # Depth /\ Has(i, j, x)
  BY <1>1, EndedPlaces DEF NativeReturn
<1>3. Depth \notin Blocks /\ \A x \in Object : Depth \notin ParamsOf(x) /\ Depth \notin ExtrasOf(x)
  <2>1. Frame.kind = "native" BY DEF NativeReturn, HostRuns
  <2>2. Depth \notin Blocks /\ \A x \in Object : Depth \notin ParamsOf(x) BY <2>1 DEF Blocks, ParamsOf, Frame
  <2> QED BY <1>1, <2>2, ExtrasAreParams
<1>4. state' = state /\ node' = node /\ global' = global /\ entries' = entries /\ failed' = failed
      /\ stray' = stray
  BY DEF NativeReturn
<1>5. \A x : GlobalsOf(x)' = GlobalsOf(x) BY <1>4 DEF GlobalsOf
<1>6. ASSUME NEW x \in Object PROVE Fits(x)'
  <2>1. ParamsOf(x)' = ParamsOf(x) /\ ExtrasOf(x)' = ExtrasOf(x) /\ Blocks' = Blocks BY <1>2, <1>3
  <2>2. node[x] # None /\ node[x].shares = 0 => node[x].list \in Blocks' BY <1>1, <2>1 DEF Fits, Listed
  <2> QED BY <1>1, <1>2, <1>4, <1>5, <2>1, <2>2, UnchangedEntries, Untouched
<1>7. TypeOK' BY <1>1, <1>2, <1>4 DEF TypeOK, FramesStep, FrameTypes
<1> QED BY <1>2, <1>6, <1>7 DEF IInv, FramesStep, FrameTypes

(* The shares that a call which does not start took of the heap: taken.    *)
Takes(h, taken) ==
  /\ h \in HeapTypes /\ taken \in [Object -> Nat] /\ h.state = state
  /\ \A x \in Object :
       IF node[x] = None THEN h.node[x] = None /\ taken[x] = 0
       ELSE /\ h.node[x] \in Node /\ h.node[x] # None
            /\ h.node[x].shares = node[x].shares + taken[x]
            /\ h.node[x].shares # 0 => h.node[x].list = NoList

(* All calls end at once, with the shares of their parameters.  What has   *)
(* another share keeps its node, were it the share of a variable, of the   *)
(* host, or one that is nobody's now; all else goes.                       *)
LEMMA UnwoundStep ==
  ASSUME IInv, NEW h, NEW taken, Takes(h, taken), Unwound(h, taken)
  PROVE  IInv'
<1>1. FrameTypes /\ TypeOK /\ (\A x \in Object : Fits(x)) BY Typed DEF IInv
<1>2. frames' = <<>> /\ global' = global /\ entries' = entries /\ failed' = failed BY DEF Unwound
<1>3. /\ Depth' = 0 /\ Blocks' = {}
      /\ \A x : ParamsOf(x)' = {} /\ ExtrasOf(x)' = {}
      /\ \A x, i, j : ~Has(i, j, x)'
  BY <1>2 DEF Depth, Blocks, ParamsOf, ExtrasOf, Has
<1>4. FrameTypes'
  <2>1. MaxFrames \in Nat BY BoundsAssumption
  <2>2. frames' \in Seq(AFrame) BY <1>2
  <2> QED BY <1>3, <2>1, <2>2 DEF FrameTypes, FramesShaped
<1>5. \A x : GlobalsOf(x)' = GlobalsOf(x) BY <1>2 DEF GlobalsOf
<1>6. \A x : EntriesOf(x)' = EntriesOf(x) /\ CountedOf(x)' = CountedOf(x) BY <1>2, UnchangedEntries
<1>7. ASSUME NEW x \in Object
      PROVE  /\ stray[x]' = stray[x] + Cardinality(ExtrasOf(x)) + taken[x]
             /\ stray[x] \in Nat /\ taken[x] \in Nat /\ stray[x]' \in Nat
  <2>1. stray[x]' = stray[x] + Cardinality(ExtrasOf(x)) + taken[x] BY DEF Unwound
  <2>2. stray[x] \in Nat /\ taken[x] \in Nat /\ Cardinality(ExtrasOf(x)) \in Nat
    BY <1>1, SetsFinite DEF TypeOK, Takes
  <2> QED BY <2>1, <2>2
<1>8. ASSUME NEW x \in Object PROVE Fits(x)' /\ node[x]' \in Node \cup {None} /\ state[x]' \in {"new", "live", "deleted"}
  <2> DEFINE n == Cardinality(ParamsOf(x))
  <2>1. n \in Nat BY <1>1, SetsFinite
  <2>2. CASE node[x] = None
    <3>0. h.node[x] = None /\ taken[x] = 0 /\ h.state[x] = state[x] BY <2>2 DEF Takes
    <3>1. state[x]' = state[x] /\ node[x]' = None BY <3>0 DEF Unwound
    <3>2. GlobalsOf(x) = {} /\ ExtrasOf(x) = {} /\ stray[x] = 0 BY <1>1, <2>2, NoNode
    <3>3. stray[x]' = 0
      <4>1. Cardinality({}) = 0 BY FS_EmptySet
      <4> QED BY <1>7, <3>0, <3>2, <4>1
    <3>4. Known(x)' BY <1>1, <1>3, <1>5, <1>6, <2>2, <3>1, <3>3 DEF Fits, Known
    <3>5. Counts(x)' BY <1>1, <1>3, <1>5, <1>6, <2>2, <3>1, <3>3 DEF Fits, Counts
    <3>6. Listed(x)' /\ Reached(x)' /\ Extra(x)' BY <1>3, <3>1 DEF Listed, Reached, Extra
    <3> QED BY <1>1, <3>1, <3>4, <3>5, <3>6 DEF Fits, TypeOK
  <2>3. CASE node[x] # None
    <3>1. /\ node[x] \in Node /\ state[x] = "live" /\ CountedOf(x) = EntriesOf(x)
          /\ node[x].shares = Cardinality(GlobalsOf(x)) + Cardinality(ParamsOf(x))
                             + Cardinality(ExtrasOf(x)) + Cardinality(EntriesOf(x)) + stray[x]
      BY <1>1, <2>3, NodeCounts
    <3>2. /\ h.node[x] \in Node /\ h.node[x] # None /\ h.state[x] = state[x]
          /\ h.node[x].shares = node[x].shares + taken[x]
          /\ h.node[x].shares # 0 => h.node[x].list = NoList
      BY <2>3 DEF Takes
    <3>3. /\ IsFiniteSet(GlobalsOf(x)) /\ IsFiniteSet(EntriesOf(x)) /\ IsFiniteSet(ExtrasOf(x))
          /\ Cardinality({}) = 0
      BY <1>1, SetsFinite, FS_EmptySet
    <3>4. PICK g \in Nat : g = Cardinality(GlobalsOf(x)) BY <1>1, SetsFinite
    <3>5. PICK e \in Nat : e = Cardinality(ExtrasOf(x)) BY <1>1, SetsFinite
    <3>6. PICK c \in Nat : c = Cardinality(EntriesOf(x)) BY <1>1, SetsFinite
    <3>7. PICK s \in Nat : s = stray[x] BY <1>7
    <3>8. PICK t \in Nat : t = taken[x] BY <1>7
    <3>9. h.node[x].shares = g + n + e + c + s + t /\ stray[x]' = s + e + t
      BY <1>7, <3>1, <3>2, <3>4, <3>5, <3>6, <3>7, <3>8
    <3> HIDE DEF n
    <3>10. CASE h.node[x].shares <= n
      <4>0. PICK m \in Nat : m = n /\ g + m + e + c + s + t <= m BY <2>1, <3>9, <3>10
      <4>1. g = 0 /\ c = 0 /\ s + e + t = 0
        <5>1. g + e + c + s + t <= 0 BY <4>0
        <5> QED BY <5>1
      <4>2. GlobalsOf(x) = {} /\ EntriesOf(x) = {} BY <3>3, <3>4, <3>6, <4>1, FS_EmptySet
      <4>3. state[x]' = "deleted" /\ node[x]' = None BY <3>2, <3>10 DEF Unwound, n
      <4>4. stray[x]' = 0 BY <3>9, <4>1
      <4>5. Fits(x)' BY <1>3, <1>5, <1>6, <4>2, <4>3, <4>4, Gone
      <4> QED BY <4>3, <4>5
    <3>11. CASE ~(h.node[x].shares <= n)
      <4>1. state[x]' = state[x] /\ node[x]' = [h.node[x] EXCEPT !.shares = h.node[x].shares - n]
        BY <3>2, <3>11 DEF Unwound, n
      <4>2. h.node[x].shares \in Nat /\ h.node[x].home \in Nat /\ h.node[x].list \in Nat BY <3>2 DEF Node
      <4>3. h.node[x].shares - n \in Nat /\ h.node[x].shares - n # 0 BY <2>1, <4>2, <3>11
      <4>4. node[x]' = NodeWith(h.node[x].shares - n, h.node[x].home, h.node[x].list)
        <5> DEFINE r == h.node[x]
        <5>1. r \in Node BY <3>2
        <5> HIDE DEF r
        <5>2. [r EXCEPT !.shares = r.shares - n] = NodeWith(r.shares - n, r.home, r.list) BY <5>1, NodeExcept
        <5> QED BY <4>1, <5>2 DEF r
      <4>5. node[x]' \in Node /\ node[x]' # None BY <4>2, <4>3, <4>4, NodeIsNode
      <4>6. node[x]'.shares = h.node[x].shares - n /\ node[x]'.list = h.node[x].list BY <4>4 DEF NodeWith
      <4>7. Known(x)' BY <3>1, <4>1 DEF Known
      <4>8. Shares(x)' = g + 0 + 0 + c + stray[x]'
        BY <1>3, <1>5, <1>6, <3>1, <3>3, <3>4, <3>6 DEF Shares
      <4>9. node[x]'.shares = Shares(x)'
        BY <2>1, <3>4, <3>5, <3>6, <3>7, <3>8, <3>9, <4>2, <4>6, <4>8
      <4>10. Counts(x)' BY <1>6, <3>1, <4>5, <4>9 DEF Counts
      <4>11. h.node[x].list = NoList
        <5>1. h.node[x].shares # 0 BY <2>1, <4>2, <3>11
        <5> QED BY <3>2, <5>1
      <4>12. Listed(x)' BY <4>3, <4>6, <4>11 DEF Listed, NoList
      <4>13. Reached(x)' /\ Extra(x)' BY <1>3 DEF Reached, Extra
      <4> QED BY <1>1, <3>1, <4>1, <4>5, <4>7, <4>10, <4>12, <4>13 DEF Fits, TypeOK
    <3> QED BY <3>10, <3>11
  <2> QED BY <2>2, <2>3
<1>9. /\ state' \in [Object -> {"new", "live", "deleted"}] /\ node' \in [Object -> Node \cup {None}]
      /\ stray' \in [Object -> Nat]
  <2>1. /\ state' = [x \in Object |-> state'[x]] /\ node' = [x \in Object |-> node'[x]]
        /\ stray' = [x \in Object |-> stray'[x]]
    BY DEF Unwound
  <2> QED BY <1>7, <1>8, <2>1
<1>10. TypeOK' BY <1>1, <1>2, <1>4, <1>9 DEF TypeOK, FrameTypes
<1> QED BY <1>4, <1>8, <1>10 DEF IInv, FrameTypes

LEMMA TakenTyped ==
  ASSUME NEW o \in Object \cup {None}, NEW n \in Nat
  PROVE  /\ Taken(o, n) \in [Object -> Nat]
         /\ \A x \in Object : Taken(o, n)[x] = IF x = o THEN n ELSE 0
BY DEF Taken

(* An object is shared n times more, and taken counts these shares.        *)
LEMMA TakesOne ==
  ASSUME TypeOK, \A x \in Object : Listed(x), NEW a \in Object, node[a] # None, NEW n \in Nat, NEW h,
         h = [state |-> h.state, node |-> h.node], h.state = state,
         NodeWith(node[a].shares + n, node[a].home, NoList) \in Node,
         h.node = [node EXCEPT ![a] = NodeWith(node[a].shares + n, node[a].home, NoList)]
  PROVE  Takes(h, Taken(a, n))
<1> DEFINE r == NodeWith(node[a].shares + n, node[a].home, NoList)
<1>1. r \in Node /\ r.shares = node[a].shares + n /\ r.list = NoList BY DEF NodeWith
<1>2. h.node = [node EXCEPT ![a] = r] OBVIOUS
<1> HIDE DEF r
<1>3. r # None BY <1>1, NodeAssumption DEF Node
<1>4. h \in HeapTypes
  <2>1. h.node \in [Object -> Node \cup {None}] /\ h.state \in [Object -> {"new", "live", "deleted"}]
    BY <1>1, <1>2 DEF TypeOK
  <2> QED BY <2>1 DEF HeapTypes
<1>5. /\ Taken(a, n) \in [Object -> Nat]
      /\ \A x \in Object : Taken(a, n)[x] = IF x = a THEN n ELSE 0
  BY TakenTyped
<1>6. ASSUME NEW x \in Object
      PROVE  IF node[x] = None THEN h.node[x] = None /\ Taken(a, n)[x] = 0
             ELSE /\ h.node[x] \in Node /\ h.node[x] # None
                  /\ h.node[x].shares = node[x].shares + Taken(a, n)[x]
                  /\ h.node[x].shares # 0 => h.node[x].list = NoList
  <2>1. CASE x = a
    <3>1. h.node[x] = r BY <1>2, <2>1 DEF TypeOK
    <3> QED BY <1>1, <1>3, <1>5, <2>1, <3>1
  <2>2. CASE x # a
    <3>1. h.node[x] = node[x] /\ Taken(a, n)[x] = 0 BY <1>2, <1>5, <2>2 DEF TypeOK
    <3>2. CASE node[x] = None BY <3>1, <3>2
    <3>3. CASE node[x] # None
      <4>1. node[x] \in Node /\ node[x].shares \in Nat BY <3>3 DEF TypeOK, Node
      <4>2. node[x].shares # 0 => node[x].list = NoList BY <3>3 DEF Listed
      <4> QED BY <3>1, <3>3, <4>1, <4>2
    <3> QED BY <3>2, <3>3
  <2> QED BY <2>1, <2>2
<1> QED BY <1>4, <1>5, <1>6 DEF Takes

LEMMA TakesNone ==
  ASSUME TypeOK, \A x \in Object : Listed(x), NEW n \in Nat
  PROVE  Takes(Heap, Taken(None, n))
<1>1. Heap \in HeapTypes /\ Heap.state = state /\ Heap.node = node BY HeapIsTyped DEF Heap
<1>2. /\ Taken(None, n) \in [Object -> Nat] /\ \A x \in Object : Taken(None, n)[x] = 0
  BY TakenTyped, ObjectAssumption
<1>3. ASSUME NEW x \in Object, node[x] # None
      PROVE  /\ node[x] \in Node /\ node[x].shares = node[x].shares + Taken(None, n)[x]
             /\ node[x].shares # 0 => node[x].list = NoList
  <2>1. node[x] \in Node /\ node[x].shares \in Nat BY <1>3 DEF TypeOK, Node
  <2>2. node[x].shares # 0 => node[x].list = NoList BY <1>3 DEF Listed
  <2> QED BY <1>2, <2>1, <2>2
<1> QED BY <1>1, <1>2, <1>3 DEF Takes

LEMMA ThrowStep ==
  ASSUME IInv, Throw
  PROVE  IInv'
<1>1. TypeOK /\ \A x \in Object : Listed(x) BY Typed DEF IInv, Fits
<1>2. Takes(Heap, Taken(None, 0)) BY <1>1, TakesNone
<1> QED BY <1>2, UnwoundStep DEF Throw

(* A call that does not start leaves the share of its argument.            *)
LEMMA CallFailsStep ==
  ASSUME IInv, NEW o \in Object \cup {None}, CallFails(o)
  PROVE  IInv'
<1>1. TypeOK /\ ScriptRuns /\ Heap \in HeapTypes /\ \A x \in Object : Listed(x)
  BY Typed DEF IInv, Fits, CallFails
<1>2. PICK a \in Object : a = o /\ node[a] # None BY <1>1, OperandPlace DEF CallFails, Arguments
<1>3. node[a] \in Node /\ a # None BY <1>1, <1>2, ObjectAssumption DEF TypeOK
<1>4. PICK h : h = Shared(Heap, a) OBVIOUS
<1>5. h.state = state /\ h.node = [node EXCEPT ![a] = NodeWith(node[a].shares + 1, node[a].home, NoList)]
  BY <1>1, <1>3, <1>4, SharedHeap DEF Heap
<1>6. h = [state |-> h.state, node |-> h.node] BY <1>3, <1>4 DEF Shared, Heap
<1>7. NodeWith(node[a].shares + 1, node[a].home, NoList) \in Node
  <2>1. node[a].shares + 1 \in Nat /\ node[a].home \in Nat /\ NoList \in Nat
    BY <1>3, BoundsAssumption DEF Node, NoList
  <2> QED BY <2>1, NodeIsNode
<1>8. PICK n \in Nat : n = 1 OBVIOUS
<1>9. Takes(h, Taken(a, n)) BY <1>1, <1>2, <1>5, <1>6, <1>7, <1>8, TakesOne
<1>10. Unwound(h, Taken(a, n)) BY <1>2, <1>4, <1>8 DEF CallFails
<1> QED BY <1>9, <1>10, UnwoundStep

(* A call of the host that does not start leaves the shares of its         *)
(* argument, both of a temporary.                                          *)
LEMMA HostCallFailsStep ==
  ASSUME IInv, KeepsRules, NEW o \in Object \cup {None}, HostCallFails(o)
  PROVE  IInv'
<1>1. TypeOK /\ \A x \in Object : Listed(x) BY Typed DEF IInv, Fits
<1>2. CASE o = None
  <2>1. ~IsTemporary(o) /\ Argument(o) = Heap BY <1>2 DEF IsTemporary, Argument
  <2>2. PICK n \in Nat : n = 1 OBVIOUS
  <2>3. Unwound(Heap, Taken(None, n)) BY <1>2, <2>1, <2>2 DEF HostCallFails
  <2>4. Takes(Heap, Taken(None, n)) BY <1>1, TakesNone
  <2> QED BY <2>3, <2>4, UnwoundStep
<1>3. CASE o # None
  <2>1. PICK a \in Object : a = o BY <1>3
  <2>2. node[a] # None BY <1>3, <2>1 DEF HostCallFails, Passable, KeepsRules, Rules
  <2>3. node[a] \in Node /\ node[a].shares \in Nat BY <1>1, <2>2 DEF TypeOK, Node
  <2>4. PICK n \in Nat : n = IF node[a].shares = 0 THEN 2 ELSE 1 OBVIOUS
  <2>5. (IF node[a].shares = 0 THEN 2 ELSE node[a].shares + 1) = node[a].shares + n BY <2>3, <2>4
  <2>6. PICK h : h = Argument(a) OBVIOUS
  <2>7. /\ h.state = state
        /\ NodeWith(node[a].shares + n, node[a].home, NoList) \in Node
        /\ h.node = [node EXCEPT ![a] = NodeWith(node[a].shares + n, node[a].home, NoList)]
    BY <1>1, <2>2, <2>5, <2>6, ArgumentHeap
  <2>8. h = [state |-> h.state, node |-> h.node]
    <3>1. Shared(Heap, a) = [state |-> Shared(Heap, a).state, node |-> Shared(Heap, a).node]
      BY <1>3, <2>1 DEF Shared, Heap
    <3>2. Shared(Shared(Heap, a), a) = [state |-> Shared(Shared(Heap, a), a).state,
                                        node |-> Shared(Shared(Heap, a), a).node]
      BY <1>3, <2>1 DEF Shared, Heap
    <3> QED BY <1>3, <2>1, <2>2, <2>6, <3>1, <3>2 DEF Argument
  <2>9. Takes(h, Taken(a, n)) BY <1>1, <2>2, <2>7, <2>8, TakesOne
  <2>10. Unwound(h, Taken(a, n))
    <3>1. IsTemporary(a) <=> node[a].shares = 0 BY <1>3, <2>1, <2>2 DEF IsTemporary
    <3> QED BY <2>1, <2>4, <2>6, <3>1 DEF HostCallFails
  <2> QED BY <2>9, <2>10, UnwoundStep
<1> QED BY <1>2, <1>3

(* Without its item i, a sequence has the items of the others, shifted.    *)
Shifted(i, j) == IF j < i THEN j ELSE j + 1
Without(s, i) == SubSeq(s, 1, i - 1) \o SubSeq(s, i + 1, Len(s))

LEMMA WithoutItem ==
  ASSUME NEW S, NEW s \in Seq(S), NEW i \in 1 .. Len(s)
  PROVE  /\ Without(s, i) \in Seq(S) /\ Len(Without(s, i)) = Len(s) - 1
         /\ \A j \in 1 .. Len(s) - 1 : Without(s, i)[j] = s[Shifted(i, j)]
<1>0. PICK t : t = Without(s, i) OBVIOUS
<1>1. PICK n \in Nat : n = Len(s) OBVIOUS
<1> DEFINE u == SubSeq(s, 1, i - 1)
           w == SubSeq(s, i + 1, n)
<1>2. u \in Seq(S) /\ Len(u) = i - 1 /\ \A j \in 1 .. i - 1 : u[j] = s[j]
  <2>1. PICK m \in Nat : m = i - 1 BY <1>1
  <2>2. m \in 0 .. Len(s) BY <1>1, <2>1
  <2> QED BY <2>1, <2>2
<1>3. w \in Seq(S) /\ Len(w) = n - i /\ \A j \in 1 .. n - i : w[j] = s[i + j]
  BY <1>1
<1>4. t = u \o w BY <1>0, <1>1 DEF Without
<1> HIDE DEF u, w
<1>5. t \in Seq(S) /\ Len(t) = n - 1
      /\ \A j \in 1 .. n - 1 : t[j] = IF j <= i - 1 THEN u[j] ELSE w[j - (i - 1)]
  <2>1. /\ u \o w \in Seq(S) /\ Len(u \o w) = Len(u) + Len(w)
        /\ \A j \in 1 .. Len(u) + Len(w) : (u \o w)[j] = IF j <= Len(u) THEN u[j] ELSE w[j - Len(u)]
    BY <1>2, <1>3, ConcatProperties
  <2>2. Len(u) + Len(w) = n - 1 BY <1>1, <1>2, <1>3
  <2> QED BY <1>2, <1>4, <2>1, <2>2
<1>6. ASSUME NEW j \in 1 .. n - 1 PROVE t[j] = s[Shifted(i, j)]
  <2>1. CASE j < i
    <3>1. j \in 1 .. i - 1 /\ j <= i - 1 BY <1>1, <2>1
    <3> QED BY <1>2, <1>5, <2>1, <3>1 DEF Shifted
  <2>2. CASE ~(j < i)
    <3>1. ~(j <= i - 1) /\ j - (i - 1) \in 1 .. n - i /\ i + (j - (i - 1)) = j + 1 BY <1>1, <2>2
    <3>2. t[j] = s[i + (j - (i - 1))] BY <1>3, <1>5, <3>1
    <3> QED BY <2>2, <3>1, <3>2 DEF Shifted
  <2> QED BY <2>1, <2>2
<1> QED BY <1>0, <1>1, <1>5, <1>6

LEMMA ShiftedSets ==
  ASSUME NEW n \in Nat, NEW i \in 1 .. n, NEW S \in SUBSET (1 .. n), i \notin S, NEW T \in SUBSET (1 .. n - 1),
         \A j \in 1 .. n - 1 : j \in T <=> Shifted(i, j) \in S
  PROVE  Cardinality(T) = Cardinality(S) /\ (T = {} <=> S = {})
<1> DEFINE f == [j \in T |-> Shifted(i, j)]
<1>1. f \in [T -> S] BY DEF Shifted
<1>2. \A a, b \in T : f[a] = f[b] => a = b BY DEF Shifted
<1>3. ASSUME NEW k \in S PROVE \E j \in T : f[j] = k
  <2>1. CASE k < i
    <3>1. k \in 1 .. n - 1 /\ Shifted(i, k) = k BY <2>1 DEF Shifted
    <3>2. k \in T BY <3>1
    <3> QED BY <3>1, <3>2
  <2>2. CASE ~(k < i)
    <3>1. k # i BY <1>3
    <3>2. k - 1 \in 1 .. n - 1 /\ Shifted(i, k - 1) = k BY <2>2, <3>1 DEF Shifted
    <3>3. k - 1 \in T BY <3>2
    <3> QED BY <3>2, <3>3
  <2> QED BY <2>1, <2>2
<1> HIDE DEF f
<1>4. f \in Bijection(T, S)
  <2>1. f \in Injection(T, S) BY <1>1, <1>2, Fun_IsInj
  <2>2. f \in Surjection(T, S) BY <1>1, <1>3, Fun_IsSurj
  <2> QED BY <2>1, <2>2 DEF Bijection
<1>5. ExistsBijection(T, S) BY <1>4 DEF ExistsBijection
<1>6. IsFiniteSet(1 .. n - 1) BY FS_Interval
<1>7. IsFiniteSet(T) BY <1>6, FS_Subset
<1>8. Cardinality(T) = Cardinality(S) BY <1>5, <1>7, FS_Bijection
<1>9. T = {} <=> S = {} BY <1>1, <1>3, Zenon
<1> QED BY <1>8, <1>9

(* The entries of an object when another one's is taken out, and its own.  *)
LEMMA EntriesWithout ==
  ASSUME TypeOK, NEW i \in 1 .. Len(entries),
         entries' = SubSeq(entries, 1, i - 1) \o SubSeq(entries, i + 1, Len(entries))
  PROVE  /\ entries' \in Seq([object : Object, counted : BOOLEAN])
         /\ \A x \in Object : i \notin EntriesOf(x) => SameEntries(x)
         /\ \A x \in Object : i \in EntriesOf(x) =>
              /\ Cardinality(EntriesOf(x)') = Cardinality(EntriesOf(x)) - 1
              /\ Cardinality(EntriesOf(x)) \in Nat
              /\ CountedOf(x) = EntriesOf(x) => CountedOf(x)' = EntriesOf(x)'
              /\ EntriesOf(x)' = {} <=> EntriesOf(x) = {i}
<1>1. PICK n \in Nat : n = Len(entries) BY DEF TypeOK
<1>2. PICK t : t = entries' OBVIOUS
<1>3. /\ t \in Seq([object : Object, counted : BOOLEAN]) /\ Len(t) = n - 1
      /\ \A j \in 1 .. n - 1 : t[j] = entries[Shifted(i, j)]
  <2>1. PICK R : R = [object : Object, counted : BOOLEAN] OBVIOUS
  <2>2. PICK es \in Seq(R) : es = entries BY <2>1 DEF TypeOK
  <2>3. i \in 1 .. Len(es) /\ t = Without(es, i) BY <1>2, <2>2 DEF Without
  <2>4. /\ Without(es, i) \in Seq(R) /\ Len(Without(es, i)) = Len(es) - 1
        /\ \A j \in 1 .. Len(es) - 1 : Without(es, i)[j] = es[Shifted(i, j)]
    BY <2>2, <2>3, WithoutItem
  <2> QED BY <1>1, <2>1, <2>2, <2>3, <2>4
<1>4. \A j \in 1 .. n - 1 : Shifted(i, j) \in 1 .. n /\ Shifted(i, j) # i BY <1>1 DEF Shifted
<1>5. ASSUME NEW x \in Object
      PROVE  /\ EntriesOf(x)' \in SUBSET (1 .. n - 1) /\ CountedOf(x)' \in SUBSET (1 .. n - 1)
             /\ EntriesOf(x) \in SUBSET (1 .. n) /\ CountedOf(x) \in SUBSET (1 .. n)
             /\ \A j \in 1 .. n - 1 : j \in EntriesOf(x)' <=> Shifted(i, j) \in EntriesOf(x)
             /\ \A j \in 1 .. n - 1 : j \in CountedOf(x)' <=> Shifted(i, j) \in CountedOf(x)
  <2>1. Len(entries') = n - 1 /\ \A j \in 1 .. n - 1 : entries'[j] = entries[Shifted(i, j)] BY <1>2, <1>3
  <2>2. \A j \in 1 .. n - 1 : j \in EntriesOf(x)' <=> Shifted(i, j) \in EntriesOf(x)
    BY <1>1, <1>4, <2>1 DEF EntriesOf
  <2>3. \A j \in 1 .. n - 1 : entries'[j].counted = entries[Shifted(i, j)].counted BY <2>1
  <2>4. EntriesOf(x)' \subseteq 1 .. n - 1 /\ EntriesOf(x) \subseteq 1 .. n BY <1>1, <2>1 DEF EntriesOf
  <2>5. \A j : /\ j \in CountedOf(x)' <=> j \in EntriesOf(x)' /\ entries'[j].counted
               /\ j \in CountedOf(x) <=> j \in EntriesOf(x) /\ entries[j].counted
    BY DEF CountedOf
  <2> QED BY <2>2, <2>3, <2>4, <2>5
<1>6. ASSUME NEW x \in Object, CountedOf(x) = EntriesOf(x) PROVE CountedOf(x)' = EntriesOf(x)'
  BY <1>5, <1>6
<1>7. ASSUME NEW x \in Object, i \notin EntriesOf(x) PROVE SameEntries(x)
  <2>1. PICK S \in SUBSET (1 .. n), T \in SUBSET (1 .. n - 1) : S = EntriesOf(x) /\ T = EntriesOf(x)'
    BY <1>5
  <2>2. PICK U \in SUBSET (1 .. n), V \in SUBSET (1 .. n - 1) : U = CountedOf(x) /\ V = CountedOf(x)'
    BY <1>5
  <2>n. i \in 1 .. n BY <1>1
  <2>t. /\ \A j \in 1 .. n - 1 : j \in T <=> Shifted(i, j) \in S
        /\ \A j \in 1 .. n - 1 : j \in V <=> Shifted(i, j) \in U
    BY <1>5, <2>1, <2>2
  <2>s. i \notin S BY <1>7, <2>1
  <2>3. Cardinality(T) = Cardinality(S) /\ (T = {} <=> S = {}) BY <2>n, <2>s, <2>t, ShiftedSets
  <2>4. i \notin U BY <1>7, <2>2 DEF CountedOf
  <2>5. Cardinality(V) = Cardinality(U) /\ (V = {} <=> U = {}) BY <2>n, <2>t, <2>4, ShiftedSets
  <2> QED BY <1>6, <2>1, <2>2, <2>3, <2>5 DEF SameEntries
<1>8. ASSUME NEW x \in Object, i \in EntriesOf(x)
      PROVE  /\ Cardinality(EntriesOf(x)') = Cardinality(EntriesOf(x)) - 1
             /\ Cardinality(EntriesOf(x)) \in Nat
             /\ EntriesOf(x)' = {} <=> EntriesOf(x) = {i}
  <2>1. PICK S \in SUBSET (1 .. n), T \in SUBSET (1 .. n - 1) : S = EntriesOf(x) \ {i} /\ T = EntriesOf(x)'
    BY <1>5
  <2>2. \A j \in 1 .. n - 1 : j \in T <=> Shifted(i, j) \in S BY <1>4, <1>5, <2>1
  <2>n. i \in 1 .. n /\ i \notin S BY <1>1, <2>1
  <2>3. Cardinality(T) = Cardinality(S) /\ (T = {} <=> S = {}) BY <2>n, <2>2, ShiftedSets
  <2>4. IsFiniteSet(EntriesOf(x)) /\ Cardinality(EntriesOf(x)) \in Nat BY SetsFinite
  <2>5. Cardinality(S) = Cardinality(EntriesOf(x)) - 1 BY <1>8, <2>1, <2>4, FS_RemoveElement
  <2>6. S = {} <=> EntriesOf(x) = {i} BY <1>8, <2>1
  <2> QED BY <2>1, <2>3, <2>4, <2>5, <2>6
<1> QED BY <1>2, <1>3, <1>6, <1>7, <1>8

LEMMA Least == ASSUME NEW S \in SUBSET Nat, S # {} PROVE \E m \in S : \A k \in S : m <= k
<1> DEFINE R == {r \in Nat \X Nat : r[1] < r[2]}
<1>1. IsWellFoundedOn(R, Nat) BY NatLessThanWellFounded DEF OpToRel
<1> HIDE DEF R
<1>2. PICK m \in S : \A k \in S : ~ (<<k, m>> \in R) BY <1>1, WFMin
<1>3. \A k \in S : ~ (k < m) BY <1>2 DEF R
<1> QED BY <1>3

(* The object the host gives back an entry of: it is in no place, and was  *)
(* loose or loses a share.                                                 *)
LEMMA GivenBack ==
  ASSUME IInv, FramesStep, frames' = frames, NEW o \in Object, NEW i \in EntriesOf(o),
         KeepsRules, KeepsOperands(o),
         GlobalsOf(o)' = GlobalsOf(o), ParamsOf(o)' = ParamsOf(o), ExtrasOf(o)' = ExtrasOf(o),
         Cardinality(EntriesOf(o)') = Cardinality(EntriesOf(o)) - 1,
         Cardinality(EntriesOf(o)) \in Nat,
         CountedOf(o) = EntriesOf(o) => CountedOf(o)' = EntriesOf(o)',
         EntriesOf(o)' = {} <=> EntriesOf(o) = {i},
         IF node[o] # None /\ node[o].shares > 1
         THEN state[o]' = state[o] /\ node[o]' = NodeWith(node[o].shares - 1, node[o].home, node[o].list)
         ELSE state[o]' = "deleted" /\ node[o]' = None
  PROVE  Fits(o)' /\ node[o]' \in Node \cup {None} /\ state[o]' \in {"live", "deleted"}
         /\ (node[o] # None => node[o].shares # 0)
<1>1. FrameTypes /\ Fits(o) /\ TypeOK BY Typed DEF IInv
<1>2. \A p, q \in Nat : ~Has(p, q, o)' BY <1>1, NoPlaces DEF Has, Depth
<1>3. CASE node[o] = None
  <2>1. state[o]' = "deleted" /\ node[o]' = None BY <1>3
  <2>2. GlobalsOf(o) = {} /\ ParamsOf(o) = {} /\ ExtrasOf(o) = {} /\ stray[o]' = 0
    BY <1>1, <1>3, NoNode DEF FramesStep
  <2>3. state[o] = "live" BY <1>1 DEF Fits, Known
  <2>4. Cardinality(EntriesOf(o)) = 1 BY <1>1, <1>3, <2>3 DEF Fits, Counts
  <2>5. EntriesOf(o)' = {}
    <3>1. IsFiniteSet(EntriesOf(o)) BY <1>1, SetsFinite
    <3>2. IsFiniteSet(EntriesOf(o) \ {i}) /\ Cardinality(EntriesOf(o) \ {i}) = 0 BY <2>4, <3>1, FS_RemoveElement
    <3>3. EntriesOf(o) \ {i} = {} BY <3>2, FS_EmptySet
    <3> QED BY <3>3
  <2>6. state[o]' # "live" BY <2>1
  <2>7. Fits(o)' BY <1>2, <2>1, <2>2, <2>5, <2>6, Gone
  <2> QED BY <1>3, <2>1, <2>7
<1>4. CASE node[o] # None
  <2>1. /\ node[o] \in Node /\ state[o] = "live" /\ CountedOf(o) = EntriesOf(o)
        /\ node[o].shares = Cardinality(GlobalsOf(o)) + Cardinality(ParamsOf(o))
                               + Cardinality(ExtrasOf(o)) + Cardinality(EntriesOf(o)) + stray[o]
        /\ stray[o] \in Nat /\ node[o].shares # 0
        /\ node[o].shares <= 1 =>
             /\ GlobalsOf(o) = {} /\ ParamsOf(o) = {} /\ ExtrasOf(o) = {} /\ EntriesOf(o) = {i}
             /\ stray[o] = 0
    BY <1>1, <1>4, NodeCounts
  <2>2. node[o].shares \in Nat /\ node[o].home \in Nat /\ node[o].list \in Nat BY <2>1 DEF Node
  <2>3. CASE ~(node[o].shares > 1)
    <3>1. state[o]' = "deleted" /\ node[o]' = None /\ state[o]' # "live" BY <2>3
    <3>2. node[o].shares <= 1 BY <2>2, <2>3
    <3>3. stray[o]' = 0 BY <2>1, <3>2 DEF FramesStep
    <3>4. Fits(o)' BY <1>2, <2>1, <3>1, <3>2, <3>3, Gone
    <3> QED BY <2>1, <3>1, <3>4
  <2>4. CASE node[o].shares > 1
    <3>1. state[o]' = state[o] /\ node[o]' = NodeWith(node[o].shares - 1, node[o].home, node[o].list)
      BY <1>4, <2>4
    <3>2. node[o].shares - 1 \in Nat /\ node[o].shares - 1 # 0 BY <2>2, <2>4
    <3>3. node[o]' \in Node /\ node[o]' # None BY <2>2, <3>1, <3>2, NodeIsNode
    <3>4. node[o]'.shares = node[o].shares - 1 /\ node[o]'.home = node[o].home /\ node[o]'.list = node[o].list
      BY <3>1 DEF NodeWith
    <3>5. Known(o)' BY <2>1, <3>1 DEF Known
    <3>6. Counts(o)'
      <4>1. Cardinality(GlobalsOf(o)) \in Nat /\ Cardinality(ParamsOf(o)) \in Nat
            /\ Cardinality(ExtrasOf(o)) \in Nat
        BY <1>1, SetsFinite
      <4>2. Shares(o)' = Cardinality(GlobalsOf(o)) + Cardinality(ParamsOf(o)) + Cardinality(ExtrasOf(o))
                         + (Cardinality(EntriesOf(o)) - 1) + stray[o]
        BY <2>1 DEF Shares, FramesStep
      <4>3. node[o]'.shares = Shares(o)' BY <2>1, <2>2, <3>4, <4>1, <4>2
      <4> QED BY <2>1, <3>1, <3>3, <4>3 DEF Counts
    <3>7. Listed(o)'
      <4>1. node[o].list = NoList BY <1>1, <1>4, <2>1 DEF Fits, Listed
      <4> QED BY <3>2, <3>4, <4>1 DEF Listed, NoList
    <3>8. Reached(o)' BY <1>2 DEF Reached
    <3>9. Extra(o)'
      <4>1. Blocks' = Blocks BY DEF Blocks, Depth
      <4> QED BY <1>1, <3>4, <4>1 DEF Extra, Fits
    <3> QED BY <2>1, <3>1, <3>3, <3>5, <3>6, <3>7, <3>8, <3>9 DEF Fits
  <2> QED BY <2>3, <2>4
<1> QED BY <1>3, <1>4

LEMMA UnrefLifetimeStep ==
  ASSUME IInv, KeepsRules, NEW o \in Object, UnrefLifetime(o)
  PROVE  IInv'
<1>1. /\ FrameTypes /\ Heap \in HeapTypes /\ TypeOK /\ (\A x \in Object : Fits(x)) BY Typed DEF IInv
<1>2. frames' = frames /\ global' = global /\ stray' = stray /\ KeepsOperands(o) BY DEF UnrefLifetime
<1>3. PICK i \in EntriesOf(o) : entries' = SubSeq(entries, 1, i - 1) \o SubSeq(entries, i + 1, Len(entries))
  <2>0. EntriesOf(o) # {} BY DEF UnrefLifetime
  <2>1. EntriesOf(o) \in SUBSET Nat /\ EntriesOf(o) # {} BY <2>0 DEF EntriesOf
  <2>2. \E j \in EntriesOf(o) : \A k \in EntriesOf(o) : j <= k BY <2>1, Least
  <2> DEFINE c == CHOOSE j \in EntriesOf(o) : \A k \in EntriesOf(o) : j <= k
  <2>3. c \in EntriesOf(o) BY <2>2
  <2>4. entries' = SubSeq(entries, 1, c - 1) \o SubSeq(entries, c + 1, Len(entries)) BY DEF UnrefLifetime
  <2> HIDE DEF c
  <2> QED BY <2>3, <2>4
<1>4. FrameTypes' /\ FramesStep /\ Depth' = Depth /\ Blocks' = Blocks
  <2>1. \A j \in 1 .. Depth : Same(j) BY <1>1, <1>2, DepthNat DEF Same
  <2>2. Depth' = Depth /\ Blocks' = Blocks /\ FrameTypes' BY <1>1, <1>2 DEF Depth, Blocks, FrameTypes, FramesShaped
  <2>3. PICK n \in Nat : n = Depth BY <1>1, DepthNat
  <2> QED BY <1>1, <1>2, <2>1, <2>2, <2>3 DEF FramesStep, Keep
<1>5. \A x : ParamsOf(x)' = ParamsOf(x) /\ ExtrasOf(x)' = ExtrasOf(x)
  BY <1>2, <1>4 DEF ParamsOf, ExtrasOf
<1>6. \A x : GlobalsOf(x)' = GlobalsOf(x) BY <1>2 DEF GlobalsOf
<1>7. \A x, p, q : Has(p, q, x)' => Has(p, q, x) BY <1>2, <1>4 DEF Has
<1>8. i \in 1 .. Len(entries) BY DEF EntriesOf
<1>9. /\ entries' \in Seq([object : Object, counted : BOOLEAN])
      /\ \A x \in Object : i \notin EntriesOf(x) => SameEntries(x)
      /\ \A x \in Object : i \in EntriesOf(x) =>
           /\ Cardinality(EntriesOf(x)') = Cardinality(EntriesOf(x)) - 1
           /\ Cardinality(EntriesOf(x)) \in Nat
           /\ CountedOf(x) = EntriesOf(x) => CountedOf(x)' = EntriesOf(x)'
           /\ EntriesOf(x)' = {} <=> EntriesOf(x) = {i}
  BY <1>1, <1>3, <1>8, EntriesWithout
<1>10. node[o] # None => node[o].shares # 0
  BY <1>1, NodeCounts, <1>3
<1>11. failed' = failed BY <1>10 DEF UnrefLifetime
<1>12. IF node[o] # None /\ node[o].shares > 1
       THEN /\ state' = state
            /\ node' = [node EXCEPT ![o] = NodeWith(node[o].shares - 1, node[o].home, node[o].list)]
       ELSE state' = [state EXCEPT ![o] = "deleted"] /\ node' = [node EXCEPT ![o] = None]
  <2>1. Heap.node = node /\ Heap.state = state BY DEF Heap
  <2>2. CASE node[o] = None
    <3>1. state' = Deleted(Heap, o).state /\ node' = Deleted(Heap, o).node BY <2>2 DEF UnrefLifetime, Now
    <3> QED BY <1>1, <2>1, <2>2, <3>1, DeletedHeap
  <2>3. CASE node[o] # None
    <3>1. state' = Unref(Heap, o, NoList).state /\ node' = Unref(Heap, o, NoList).node
      BY <1>10, <2>3 DEF UnrefLifetime, Now
    <3>2. node[o] \in Node BY <1>1, <2>3 DEF TypeOK
    <3>3. CASE node[o].shares > 1 BY <1>1, <2>1, <2>3, <3>1, <3>2, <3>3, UnrefLess
    <3>4. CASE ~(node[o].shares > 1) BY <1>1, <2>1, <2>3, <3>1, <3>4, UnrefDeletes
    <3> QED BY <3>3, <3>4
  <2> QED BY <2>2, <2>3
<1>13. ASSUME NEW x \in Object, x # o PROVE Fits(x)' /\ state[x]' = state[x] /\ node[x]' = node[x]
  <2>1. state[x]' = state[x] /\ node[x]' = node[x] BY <1>1, <1>12, <1>13 DEF TypeOK
  <2>2. i \notin EntriesOf(x) BY <1>3, <1>13 DEF EntriesOf
  <2>3. SameEntries(x) BY <1>9, <2>2
  <2>4. node[x] # None /\ node[x].shares = 0 => node[x].list \in Blocks' BY <1>1, <1>4 DEF Fits, Listed
  <2> QED BY <1>1, <1>4, <1>5, <1>6, <1>7, <2>1, <2>3, <2>4, Untouched
<1>14. Fits(o)' /\ node[o]' \in Node \cup {None} /\ state[o]' \in {"live", "deleted"}
  <2>1. IF node[o] # None /\ node[o].shares > 1
        THEN state[o]' = state[o] /\ node[o]' = NodeWith(node[o].shares - 1, node[o].home, node[o].list)
        ELSE state[o]' = "deleted" /\ node[o]' = None
    BY <1>1, <1>12 DEF TypeOK
  <2> QED BY <1>2, <1>4, <1>5, <1>6, <1>9, <2>1, GivenBack
<1>15. TypeOK'
  <2>1. state' \in [Object -> {"new", "live", "deleted"}] /\ node' \in [Object -> Node \cup {None}]
    <3>1. /\ DOMAIN state' = Object /\ DOMAIN node' = Object
          /\ state' = [x \in DOMAIN state' |-> state'[x]] /\ node' = [x \in DOMAIN node' |-> node'[x]]
      BY <1>1, <1>12 DEF TypeOK
    <3>2. \A x \in Object : state'[x] \in {"new", "live", "deleted"} /\ node'[x] \in Node \cup {None}
      BY <1>1, <1>13, <1>14 DEF TypeOK
    <3> QED BY <3>1, <3>2
  <2> QED BY <1>1, <1>2, <1>4, <1>9, <1>11, <2>1 DEF TypeOK, FrameTypes
<1> QED BY <1>4, <1>13, <1>14, <1>15 DEF IInv, FrameTypes
-----------------------------------------------------------------------------
(* Returns.                                                                *)

(* The places after a function has returned, to the host or to a script    *)
(* function, which may get one more operand.                               *)
Ends(o) ==
  /\ FramesStep /\ Depth' = Depth - 1 /\ Blocks' = Blocks \ {Depth}
  /\ \A x \in Object : ParamsOf(x)' = ParamsOf(x) \ {Depth} /\ ExtrasOf(x)' = ExtrasOf(x) \ {Depth}
  /\ \A i \in 1 .. Depth - 1 : BlockOf(i)' = BlockOf(i)
  /\ \A x \in Object : \A i, j \in Nat : Has(i, j, x)' =>
       \/ i # Depth /\ Has(i, j, x)
       \/ x = o /\ i = Depth - 1 /\ j = Len(frames[Depth - 1].operands) + 1

LEMMA ReturnedPlaces ==
  ASSUME FrameTypes, Depth > 1, frames[Depth - 1].kind = "script", NEW o \in Object \cup {None},
         frames' = [SubSeq(frames, 1, Depth - 1) EXCEPT ![Depth - 1].operands =
                      IF o = None \/ Len(@) = MaxOperands THEN @ ELSE Append(@, o)],
         stray' = stray
  PROVE  Ends(o)
<1>1. Depth \in Nat /\ \A i \in 1 .. Depth : frames[i] \in AFrame BY DepthNat
<1>2. PICK n \in Nat : n = Depth - 1 BY <1>1
<1>3. n \in 1 .. Depth /\ n > 0 /\ n # Depth /\ Len(frames) = n + 1 BY <1>1, <1>2 DEF Depth
<1> DEFINE f == SubSeq(frames, 1, n)
           l == Len(frames[n].operands)
           s == IF o = None \/ l = MaxOperands THEN frames[n].operands ELSE Append(frames[n].operands, o)
           top == [frames[n] EXCEPT !.operands = s]
<1>4. frames[n] \in AFrame /\ frames[n].operands \in Seq(Object) /\ l \in Nat BY <1>1, <1>3 DEF AFrame
<1>5. /\ s \in Seq(Object)
      /\ \A j \in 1 .. Len(s) : (j \in 1 .. l /\ s[j] = frames[n].operands[j]) \/ (j = l + 1 /\ s[j] = o)
  <2>1. CASE o = None \/ l = MaxOperands BY <1>4, <2>1
  <2>2. CASE ~(o = None \/ l = MaxOperands)
    <3>1. s = Append(frames[n].operands, o) /\ o \in Object BY <2>2
    <3> QED BY <1>4, <3>1
  <2> QED BY <2>1, <2>2
<1> HIDE DEF s
<1>6. /\ top \in AFrame /\ top.kind = frames[n].kind /\ top.param = frames[n].param
      /\ top.from = frames[n].from /\ top.extra = frames[n].extra /\ top.operands = s
  BY <1>4, <1>5 DEF AFrame
<1>7. f \in Seq(AFrame) /\ Len(f) = n /\ \A i \in 1 .. n : f[i] = frames[i]
  <2>1. n \in 0 .. Len(frames) /\ frames \in Seq(AFrame) BY <1>3 DEF FrameTypes
  <2> QED BY <2>1
<1>8. frames' = [f EXCEPT ![n] = top]
  <2>1. n \in DOMAIN f /\ f[n] = frames[n] BY <1>3, <1>7
  <2>2. frames' = [f EXCEPT ![n].operands = s] BY <1>2, <2>1 DEF s
  <2> QED BY <2>1, <2>2
<1> HIDE DEF f, top, l
<1>9. frames' \in Seq(AFrame) /\ Len(frames') = n /\ frames'[n] = top
      /\ \A i \in 1 .. n : i # n => frames'[i] = frames[i]
  <2>1. n \in 1 .. Len(f) /\ n \in Nat BY <1>3, <1>7
  <2>2. [f EXCEPT ![n] = top] \in Seq(AFrame) BY <1>6, <1>7, <2>1
  <2>3. /\ Len([f EXCEPT ![n] = top]) = n /\ [f EXCEPT ![n] = top][n] = top
        /\ \A i \in 1 .. n : i # n => [f EXCEPT ![n] = top][i] = f[i]
    BY <1>7, <2>1
  <2> QED BY <1>7, <1>8, <2>2, <2>3
<1>10. Depth' = n BY <1>9 DEF Depth
<1>11. Keep(n)
  <2>1. \A i \in 1 .. n : frames[i] \in AFrame BY <1>1, <1>3
  <2> QED BY <1>6, <1>9, <2>1 DEF Keep, Same
<1>12. FramesShaped'
  <2>1. n <= MaxFrames BY <1>1, <1>2, BoundsAssumption DEF FrameTypes, FramesShaped
  <2>2. \A i \in 1 .. n : i \in 1 .. Depth /\ (i > 1 => i - 1 \in 1 .. n) BY <1>1, <1>2
  <2>3. \A i \in 1 .. n : frames'[i].kind = "native" => frames'[i].operands = <<>>
    <3>1. frames'[n].kind = "script" BY <1>2, <1>6, <1>9
    <3> QED BY <1>9, <2>2, <3>1 DEF FrameTypes, FramesShaped
  <2>4. \A i \in 1 .. n : /\ frames'[i].kind = frames[i].kind /\ frames'[i].param = frames[i].param
                          /\ frames'[i].from = frames[i].from /\ frames'[i].extra = frames[i].extra
    BY <1>11 DEF Keep, Same
  <2>5. ASSUME NEW i \in 1 .. n
        PROVE  IF frames'[i].from = "host"
               THEN /\ frames'[i].kind = "script"
                    /\ frames'[i].extra \in {None, frames'[i].param}
                    /\ i = 1 \/ frames'[i - 1].kind = "native"
               ELSE /\ frames'[i].extra = None
                    /\ i > 1 /\ frames'[i - 1].kind = "script"
    <3>1. IF frames[i].from = "host"
          THEN /\ frames[i].kind = "script"
               /\ frames[i].extra \in {None, frames[i].param}
               /\ i = 1 \/ frames[i - 1].kind = "native"
          ELSE /\ frames[i].extra = None
               /\ i > 1 /\ frames[i - 1].kind = "script"
      BY <2>2 DEF FrameTypes, FramesShaped
    <3>2. i = 1 \/ i > 1 OBVIOUS
    <3> QED BY <2>2, <2>4, <3>1, <3>2
  <2> QED BY <1>10, <2>1, <2>3, <2>5 DEF FramesShaped
<1>13. FrameTypes' BY <1>9, <1>12 DEF FrameTypes
<1>14. n <= Depth /\ n <= Depth' /\ n \in {Depth, Depth'} BY <1>1, <1>2, <1>10
<1>15. FramesStep BY <1>11, <1>13, <1>14 DEF FramesStep
<1>16. /\ \A x \in Object : \A k \in 1 .. n : (k \in ParamsOf(x)') <=> (k \in ParamsOf(x))
       /\ \A x \in Object : \A k \in 1 .. n : (k \in ExtrasOf(x)') <=> (k \in ExtrasOf(x))
       /\ \A k \in 1 .. n : (k \in Blocks') <=> (k \in Blocks)
       /\ \A k \in 1 .. n : BlockOf(k)' = BlockOf(k)
  BY <1>11, <1>13, <1>14, KeepSets
<1>17. 1 .. Depth = 1 .. n \cup {Depth} /\ 1 .. Depth' = 1 .. n /\ Depth \notin 1 .. n BY <1>1, <1>2, <1>10
<1>18. /\ \A x : ParamsOf(x)' \subseteq 1 .. n /\ ParamsOf(x) \subseteq 1 .. n \cup {Depth}
       /\ \A x : ExtrasOf(x)' \subseteq 1 .. n /\ ExtrasOf(x) \subseteq 1 .. n \cup {Depth}
       /\ Blocks' \subseteq 1 .. n /\ Blocks \subseteq 1 .. n \cup {Depth}
  BY <1>17 DEF ParamsOf, ExtrasOf, Blocks
<1>19. \A x \in Object : ParamsOf(x)' = ParamsOf(x) \ {Depth} /\ ExtrasOf(x)' = ExtrasOf(x) \ {Depth}
  BY <1>16, <1>17, <1>18
<1>20. Blocks' = Blocks \ {Depth} BY <1>16, <1>17, <1>18
<1>21. ASSUME NEW x \in Object, NEW i \in Nat, NEW j \in Nat, Has(i, j, x)'
       PROVE  \/ i # Depth /\ Has(i, j, x)
              \/ x = o /\ i = Depth - 1 /\ j = Len(frames[Depth - 1].operands) + 1
  <2>1. i \in 1 .. n /\ i # Depth /\ i \in 1 .. Depth BY <1>17, <1>21 DEF Has
  <2>2. CASE i # n
    <3>1. frames'[i] = frames[i] BY <1>9, <2>1, <2>2
    <3> QED BY <1>21, <2>1, <3>1 DEF Has
  <2>3. CASE i = n
    <3>1. frames'[i] = top /\ top.kind = "script" BY <1>2, <1>6, <1>9, <2>3
    <3>2. j \in 1 .. Len(s) /\ s[j] = x BY <1>6, <1>21, <3>1 DEF Has
    <3>3. CASE j \in 1 .. l /\ s[j] = frames[n].operands[j]
      BY <2>1, <2>3, <3>2, <3>3 DEF Has, l
    <3>4. CASE j = l + 1 /\ s[j] = o BY <1>2, <2>3, <3>2, <3>4 DEF l
    <3> QED BY <1>5, <3>2, <3>3, <3>4
  <2> QED BY <2>2, <2>3
<1> QED BY <1>2, <1>10, <1>15, <1>16, <1>19, <1>20, <1>21 DEF Ends

LEMMA EndedIsEnds ==
  ASSUME FrameTypes, Depth > 0, frames' = SubSeq(frames, 1, Depth - 1), stray' = stray
  PROVE  \A o : Ends(o)
BY EndedPlaces DEF Ends

(* What goes with the running function: its parameter with the last share, *)
(* and what waits in its block.                                            *)
Doomed(x) ==
  node[x] # None /\ IF x = Frame.param THEN node[x].shares <= 1
                    ELSE node[x].shares = 0 /\ node[x].list = Depth

LEMMA ParamFacts ==
  ASSUME IInv, ScriptRuns, NEW p \in Object, p = Frame.param
  PROVE  Depth \in ParamsOf(p) /\ node[p] \in Node /\ node[p] # None /\ node[p].shares # 0
<1>1. FrameTypes /\ TypeOK /\ Fits(p) BY Typed DEF IInv
<1>2. Depth \in Nat /\ Depth > 0 /\ Frame.kind = "script" BY <1>1, ScriptBlock
<1>3. Depth \in ParamsOf(p) BY <1>2 DEF ParamsOf, Frame
<1>4. node[p] # None BY <1>1, <1>3, NoNode
<1> QED BY <1>1, <1>3, <1>4, NodeCounts

LEMMA SharedNotListed ==
  ASSUME IInv, ScriptRuns, NEW x \in Object, node[x] # None, node[x].shares # 0
  PROVE  node[x].list = NoList /\ NoList # Depth
<1>1. FrameTypes /\ Fits(x) BY Typed
<1>2. node[x].list = NoList BY <1>1 DEF Fits, Listed
<1>3. Depth \in Nat BY <1>1, DepthNat
<1> QED BY <1>1, <1>2, <1>3, BoundsAssumption DEF NoList, FrameTypes, FramesShaped

LEMMA PoppedHeap ==
  ASSUME IInv, ScriptRuns, NEW o \in Object \cup {None}, NEW h, h = Popped(Heap, Frame.param, Depth, o)
  PROVE  /\ h \in HeapTypes
         /\ \A x \in Object :
              IF Doomed(x) THEN h.node[x] = None /\ h.state[x] = IF x = o THEN state[x] ELSE "deleted"
              ELSE /\ h.state[x] = state[x]
                   /\ h.node[x] = IF x = Frame.param
                                  THEN NodeWith(node[x].shares - 1, node[x].home, node[x].list)
                                  ELSE node[x]
<1>1. FrameTypes /\ TypeOK /\ Heap \in HeapTypes /\ (\A x \in Object : Fits(x)) BY Typed DEF IInv
<1>2. Depth \in Nat /\ Frame \in AFrame BY <1>1, ScriptBlock
<1>3. PICK p \in Object \cup {None} : p = Frame.param BY <1>2 DEF AFrame
<1>4. Heap.node = node /\ Heap.state = state BY DEF Heap
<1>5. PICK left : left = IF p = None \/ Heap.node[p] = None THEN Heap
                         ELSE IF p # None /\ p = o /\ Heap.node[p] # None /\ Heap.node[p].shares <= 1
                         THEN [Heap EXCEPT !.node[p] = None]
                         ELSE Unref(Heap, p, NoList)
  OBVIOUS
<1>6. h = Swept(left, Depth, o) BY <1>3, <1>5 DEF Popped
<1>7. /\ left \in HeapTypes
      /\ \A x \in Object :
           IF x # p THEN left.node[x] = node[x] /\ left.state[x] = state[x]
           ELSE IF node[p].shares <= 1
           THEN left.node[x] = None /\ left.state[x] = IF x = o THEN state[x] ELSE "deleted"
           ELSE /\ left.node[x] = NodeWith(node[p].shares - 1, node[p].home, node[p].list)
                /\ left.state[x] = state[x]
  <2>1. CASE p = None BY <1>1, <1>4, <1>5, <2>1, ObjectAssumption
  <2>2. CASE p # None
    <3>1. PICK q \in Object : q = p BY <2>2
    <3>2. node[q] \in Node /\ node[q] # None BY <1>3, <3>1, ParamFacts
    <3>3. node[q].shares \in Nat /\ node[q].home \in Nat /\ node[q].list \in Nat BY <3>2 DEF Node
    <3>4. CASE node[q].shares <= 1 /\ q = o
      <4>1. left = [Heap EXCEPT !.node[q] = None] BY <1>4, <1>5, <2>2, <3>1, <3>2, <3>4
      <4>2. left = [state |-> state, node |-> [node EXCEPT ![q] = None]] BY <4>1 DEF Heap
      <4>3. left \in HeapTypes BY <1>1, <4>2 DEF HeapTypes, TypeOK
      <4> QED BY <1>1, <3>1, <3>4, <4>2, <4>3 DEF TypeOK
    <3>5. CASE node[q].shares <= 1 /\ q # o
      <4>1. left = Unref(Heap, q, NoList) BY <1>4, <1>5, <2>2, <3>1, <3>2, <3>5
      <4>2. ~(node[q].shares > 1) BY <3>3, <3>5
      <4>3. left.state = [state EXCEPT ![q] = "deleted"] /\ left.node = [node EXCEPT ![q] = None]
        BY <1>1, <1>4, <4>1, <4>2, UnrefDeletes
      <4>4. left = Deleted(Heap, q) BY <1>4, <2>2, <3>1, <4>1, <4>2 DEF Unref
      <4>5. left = [state |-> left.state, node |-> left.node] BY <4>4 DEF Deleted, Heap
      <4>6. left \in HeapTypes BY <1>1, <4>3, <4>5 DEF HeapTypes, TypeOK
      <4> QED BY <1>1, <3>1, <3>5, <4>3, <4>6 DEF TypeOK
    <3>6. CASE ~(node[q].shares <= 1)
      <4>1. left = Unref(Heap, q, NoList) BY <1>4, <1>5, <2>2, <3>1, <3>2, <3>6
      <4>2. node[q].shares > 1 /\ node[q].shares - 1 \in Nat BY <3>3, <3>6
      <4>3. /\ left.state = state
            /\ left.node = [node EXCEPT ![q] = NodeWith(node[q].shares - 1, node[q].home, node[q].list)]
        BY <1>1, <1>4, <3>2, <4>1, <4>2, UnrefLess
      <4>4. NodeWith(node[q].shares - 1, node[q].home, node[q].list) \in Node BY <3>3, <4>2, NodeIsNode
      <4>5. left = [Heap EXCEPT !.node[q].shares = @ - 1] BY <1>4, <2>2, <3>1, <4>1, <4>2 DEF Unref
      <4>6. left = [state |-> left.state, node |-> left.node] BY <4>5 DEF Heap
      <4>7. left \in HeapTypes
        <5>1. state \in [Object -> {"new", "live", "deleted"}] /\ node \in [Object -> Node \cup {None}]
          BY <1>1 DEF TypeOK
        <5>2. left.node \in [Object -> Node \cup {None}] BY <4>3, <4>4, <5>1
        <5> QED BY <4>3, <4>6, <5>1, <5>2 DEF HeapTypes
      <4> QED BY <1>1, <3>1, <3>6, <4>3, <4>7 DEF TypeOK
    <3> QED BY <3>4, <3>5, <3>6
  <2> QED BY <2>1, <2>2
<1>8. \A x \in Object :
        IF left.node[x] # None /\ left.node[x].list = Depth
        THEN h.node[x] = None /\ h.state[x] = IF x = o THEN left.state[x] ELSE "deleted"
        ELSE h.node[x] = left.node[x] /\ h.state[x] = left.state[x]
  BY <1>6, <1>7, SweptHeap
<1>9. ASSUME NEW x \in Object
      PROVE  IF Doomed(x) THEN h.node[x] = None /\ h.state[x] = IF x = o THEN state[x] ELSE "deleted"
             ELSE /\ h.state[x] = state[x]
                  /\ h.node[x] = IF x = Frame.param
                                 THEN NodeWith(node[x].shares - 1, node[x].home, node[x].list)
                                 ELSE node[x]
  <2>1. CASE x = p
    <3>1. node[x] \in Node /\ node[x] # None /\ node[x].shares # 0 BY <1>3, <2>1, ParamFacts
    <3>2. node[x].list = NoList /\ NoList # Depth BY <3>1, SharedNotListed
    <3>3. Doomed(x) <=> node[x].shares <= 1 BY <1>3, <2>1, <3>1 DEF Doomed
    <3>4. CASE node[x].shares <= 1
      <4>1. left.node[x] = None /\ left.state[x] = IF x = o THEN state[x] ELSE "deleted" BY <1>7, <2>1, <3>4
      <4> QED BY <1>8, <3>3, <3>4, <4>1
    <3>5. CASE ~(node[x].shares <= 1)
      <4>1. /\ left.node[x] = NodeWith(node[x].shares - 1, node[x].home, node[x].list)
            /\ left.state[x] = state[x]
        BY <1>7, <2>1, <3>5
      <4>2. left.node[x].list = NoList BY <3>2, <4>1 DEF NodeWith
      <4> QED BY <1>3, <1>8, <2>1, <3>2, <3>3, <3>5, <4>1, <4>2
    <3> QED BY <3>4, <3>5
  <2>2. CASE x # p
    <3>1. left.node[x] = node[x] /\ left.state[x] = state[x] BY <1>7, <2>2
    <3>2. Doomed(x) <=> node[x] # None /\ node[x].shares = 0 /\ node[x].list = Depth
      BY <1>3, <2>2 DEF Doomed
    <3>3. node[x] # None /\ node[x].list = Depth => node[x].shares = 0 BY SharedNotListed
    <3> QED BY <1>3, <1>8, <2>2, <3>1, <3>2, <3>3
  <2> QED BY <2>1, <2>2
<1>10. h \in HeapTypes
  <2>1. h = [state |-> h.state, node |-> h.node] /\ DOMAIN h.state = Object /\ DOMAIN h.node = Object
        /\ h.state = [x \in Object |-> h.state[x]] /\ h.node = [x \in Object |-> h.node[x]]
    BY <1>6 DEF Swept
  <2>2. \A x \in Object : left.node[x] \in Node \cup {None} /\ left.state[x] \in {"new", "live", "deleted"}
    BY <1>7 DEF HeapTypes
  <2>3. \A x \in Object : h.node[x] \in Node \cup {None} /\ h.state[x] \in {"new", "live", "deleted"}
    BY <1>8, <2>2
  <2>4. h.state \in [Object -> {"new", "live", "deleted"}] /\ h.node \in [Object -> Node \cup {None}]
    BY <2>1, <2>3
  <2> QED BY <2>1, <2>4 DEF HeapTypes
<1> QED BY <1>9, <1>10

LEMMA DoomedAlone ==
  ASSUME IInv, ScriptRuns, NEW x \in Object, Doomed(x)
  PROVE  /\ GlobalsOf(x) = {} /\ EntriesOf(x) = {} /\ ParamsOf(x) \ {Depth} = {} /\ ExtrasOf(x) = {}
         /\ stray[x] = 0 /\ state[x] = "live" /\ \A i, j \in Nat : Has(i, j, x) => i = Depth
<1>1. FrameTypes /\ TypeOK /\ Fits(x) /\ node[x] # None BY Typed DEF IInv, Doomed
<1>2. Depth \in Nat /\ Frame \in AFrame BY <1>1, ScriptBlock
<1>3. /\ GlobalsOf(x) = {} /\ EntriesOf(x) = {} /\ ExtrasOf(x) = {} /\ state[x] = "live"
      /\ stray[x] = 0
      /\ ParamsOf(x) \subseteq {Depth}
      /\ x # Frame.param => node[x].shares = 0 /\ node[x].list = Depth
      /\ x = Frame.param => node[x].shares # 0
  <2>1. CASE x = Frame.param
    <3>1. Depth \in ParamsOf(x) /\ node[x].shares # 0 BY <2>1, ParamFacts
    <3>2. node[x].shares <= 1 BY <2>1 DEF Doomed
    <3> QED BY <1>1, <2>1, <3>1, <3>2, NodeCounts
  <2>2. CASE x # Frame.param
    <3>1. node[x].shares = 0 /\ node[x].list = Depth BY <2>2 DEF Doomed
    <3> QED BY <1>1, <2>2, <3>1, NodeCounts
  <2> QED BY <2>1, <2>2
<1>4. ASSUME NEW i \in Nat, NEW j \in Nat, Has(i, j, x), i # Depth PROVE FALSE
  <2>1. i \in 1 .. Depth /\ i < Depth BY <1>2, <1>4 DEF Has
  <2>2. Anchored(i, x) \/ Temporary(i, j, x) \/ Lent(i, j, x) BY <1>1, <1>4 DEF Fits, Reached
  <2>3. ~Anchored(i, x)
    <3>1. \A k \in ParamsOf(x) : ~(k <= i) BY <1>2, <1>3, <2>1
    <3> QED BY <1>3, <3>1 DEF Anchored
  <2>4. ~Lent(i, j, x) BY <1>3 DEF Lent
  <2>5. Temporary(i, j, x) BY <2>2, <2>3, <2>4
  <2>6. BlockOf(i) = Depth BY <1>3, <2>5 DEF Temporary
  <2> QED BY <1>2, <2>1, <2>6 DEF BlockOf
<1> QED BY <1>3, <1>4

(* What is returned and does not go with the function is held by others.   *)
LEMMA ReturnedIsHeld ==
  ASSUME IInv, ScriptRuns, NEW o \in Object, Has(Depth, 1, o), ~Doomed(o)
  PROVE  /\ node[o] # None /\ node[o].shares # 0
         /\ o = Frame.param => node[o].shares > 1
         /\ Frame.extra # o => \/ GlobalsOf(o) # {} \/ EntriesOf(o) # {} \/ stray[o] # 0
                               \/ \E k \in ParamsOf(o) : k <= Depth - 1
<1>1. FrameTypes /\ TypeOK /\ Fits(o) BY Typed DEF IInv
<1>2. Depth \in Nat /\ Depth > 0 /\ Frame \in AFrame /\ Frame.kind = "script" BY <1>1, ScriptBlock
<1>3. node[o] # None /\ (Anchored(Depth, o) \/ Temporary(Depth, 1, o) \/ Lent(Depth, 1, o))
  BY <1>1, <1>2 DEF Fits, Reached
<1>4. ~Lent(Depth, 1, o) BY <1>2 DEF Lent, ExtrasOf
<1>5. node[o] \in Node /\ node[o].shares \in Nat BY <1>1, <1>3 DEF TypeOK, Node
<1>6. ~Temporary(Depth, 1, o)
  <2> SUFFICES ASSUME Temporary(Depth, 1, o) PROVE FALSE OBVIOUS
  <2>1. node[o].shares = 0 /\ node[o].list = Depth BY <1>2 DEF Temporary, BlockOf, Frame
  <2>2. o # Frame.param BY <2>1, ParamFacts
  <2> QED BY <1>3, <2>1, <2>2 DEF Doomed
<1>7. Anchored(Depth, o) BY <1>3, <1>4, <1>6
<1>8. node[o].shares # 0
  <2>1. node[o].shares = 0 => GlobalsOf(o) = {} /\ ParamsOf(o) = {} /\ EntriesOf(o) = {}
    BY <1>1, <1>3, NodeCounts
  <2>2. node[o].shares = 0 => stray[o] = 0 BY <1>1, <1>3, NodeCounts
  <2> QED BY <1>7, <2>1, <2>2 DEF Anchored
<1>9. o = Frame.param => node[o].shares > 1 BY <1>3, <1>5 DEF Doomed
<1>10. ASSUME Frame.extra # o, GlobalsOf(o) = {}, EntriesOf(o) = {}, stray[o] = 0, \A k \in ParamsOf(o) : ~(k <= Depth - 1)
       PROVE  FALSE
  <2>1. ParamsOf(o) \subseteq 1 .. Depth BY DEF ParamsOf
  <2>2. ParamsOf(o) \subseteq {Depth} BY <1>2, <1>10, <2>1
  <2>3. Depth \in ParamsOf(o) BY <1>7, <1>10, <2>2 DEF Anchored
  <2>4. ParamsOf(o) = {Depth} BY <2>2, <2>3
  <2>5. Depth \notin ExtrasOf(o) BY <1>10 DEF ExtrasOf, Frame
  <2>6. ExtrasOf(o) = {} BY <1>1, <2>2, <2>5, ExtrasAreParams
  <2>7. Cardinality({}) = 0 /\ Cardinality({Depth}) = 1 BY FS_EmptySet, FS_Singleton
  <2>8. node[o].shares = 1
    <3>1. node[o].shares = Cardinality(GlobalsOf(o)) + Cardinality(ParamsOf(o))
                           + Cardinality(ExtrasOf(o)) + Cardinality(EntriesOf(o)) + stray[o]
      BY <1>1, <1>3, NodeCounts
    <3> QED BY <1>10, <2>4, <2>6, <2>7, <3>1
  <2>9. o = Frame.param BY <2>3 DEF ParamsOf, Frame
  <2> QED BY <1>9, <2>8, <2>9
<1> QED BY <1>3, <1>8, <1>9, <1>10

(* All but the places: an object that keeps its node.                      *)
LEMMA Settled ==
  ASSUME IInv, ScriptRuns, NEW o, Ends(o), NEW x \in Object, node[x] # None, state[x]' = state[x],
         node[x]' \in Node, node[x]'.home = node[x].home, node[x]'.shares = Shares(x)',
         CountedOf(x)' = EntriesOf(x)',
         IF node[x]'.shares = 0 THEN node[x]'.list \in Blocks' ELSE node[x]'.list = NoList,
         Reached(x)'
  PROVE  Fits(x)'
<1>1. FrameTypes /\ TypeOK /\ Fits(x) BY Typed DEF IInv
<1>2. state[x] = "live" BY <1>1 DEF Fits, Known
<1>3. node[x]' # None BY NodeAssumption DEF Node
<1>4. Known(x)' BY <1>2 DEF Known
<1>5. Counts(x)' BY <1>3 DEF Counts
<1>6. Listed(x)' BY DEF Listed
<1>7. Extra(x)'
  <2> SUFFICES ASSUME NEW k \in ExtrasOf(x)'
               PROVE  (node[x].home \in Blocks /\ node[x].home < k
                       /\ \A i \in 1 .. k - 1 : i \notin ParamsOf(x) \cup ExtrasOf(x))'
    BY DEF Extra
  <2>1. k \in ExtrasOf(x) /\ k # Depth BY DEF Ends
  <2>2. node[x].home \in Blocks /\ node[x].home < k /\ \A i \in 1 .. k - 1 : i \notin ParamsOf(x) \cup ExtrasOf(x)
    BY <1>1, <2>1 DEF Fits, Extra
  <2>3. Depth \in Nat /\ k \in 1 .. Depth /\ node[x].home \in 1 .. Depth BY <1>1, <2>1, <2>2, DepthNat DEF ExtrasOf, Blocks
  <2>4. node[x].home # Depth BY <2>1, <2>2, <2>3
  <2> QED BY <2>2, <2>4 DEF Ends
<1> QED BY <1>4, <1>5, <1>6, <1>7 DEF Fits

(* An object that keeps its node, without the parameter's share when it    *)
(* was the parameter, and with no extra share of the function.             *)
LEMMA StaysAfterReturn ==
  ASSUME IInv, ScriptRuns, NEW o, Ends(o), NEW x \in Object, x = o => Has(Depth, 1, x),
         node[x] # None, ~Doomed(x), Frame.extra # x, SameEntries(x),
         GlobalsOf(x)' = GlobalsOf(x), state[x]' = state[x],
         node[x]' = IF x = Frame.param THEN NodeWith(node[x].shares - 1, node[x].home, node[x].list)
                    ELSE node[x]
  PROVE  Fits(x)'
<1>1. FrameTypes /\ TypeOK /\ Fits(x) BY Typed DEF IInv
<1>2. Depth \in Nat /\ Depth > 0 /\ Frame \in AFrame BY <1>1, ScriptBlock
<1>3. /\ node[x] \in Node /\ state[x] = "live" /\ CountedOf(x) = EntriesOf(x)
      /\ node[x].shares = Cardinality(GlobalsOf(x)) + Cardinality(ParamsOf(x))
                             + Cardinality(ExtrasOf(x)) + Cardinality(EntriesOf(x)) + stray[x]
      /\ stray[x] \in Nat /\ stray[x]' = stray[x]
  BY <1>1, NodeCounts DEF Ends, FramesStep
<1>4. node[x].shares \in Nat /\ node[x].home \in Nat /\ node[x].list \in Nat BY <1>3 DEF Node
<1>5. CountedOf(x)' = EntriesOf(x)' BY <1>3 DEF SameEntries
<1>6. ExtrasOf(x)' = ExtrasOf(x) /\ Depth \notin ExtrasOf(x)
  <2>1. Depth \notin ExtrasOf(x) BY DEF ExtrasOf, Frame
  <2> QED BY <2>1 DEF Ends
<1>7. /\ node[x]' \in Node /\ node[x]'.home = node[x].home /\ node[x]'.list = node[x].list
      /\ IF x = Frame.param THEN node[x].shares > 1 /\ node[x]'.shares = node[x].shares - 1
         ELSE node[x]' = node[x]
  <2>1. CASE x = Frame.param
    <3>1. node[x].shares > 1 BY <1>4, <2>1 DEF Doomed
    <3>2. node[x].shares - 1 \in Nat BY <1>4, <3>1
    <3>3. node[x]' = NodeWith(node[x].shares - 1, node[x].home, node[x].list) BY <2>1
    <3>4. node[x]' \in Node BY <1>4, <3>2, <3>3, NodeIsNode
    <3> QED BY <2>1, <3>1, <3>3, <3>4 DEF NodeWith
  <2>2. CASE x # Frame.param BY <1>3, <2>2
  <2> QED BY <2>1, <2>2
<1>8. node[x]'.shares = Shares(x)'
  <2>1. /\ IsFiniteSet(ParamsOf(x)) /\ Cardinality(GlobalsOf(x)) \in Nat /\ Cardinality(ParamsOf(x)) \in Nat
        /\ Cardinality(ExtrasOf(x)) \in Nat /\ Cardinality(EntriesOf(x)) \in Nat
    BY <1>1, SetsFinite
  <2>2. ParamsOf(x)' = ParamsOf(x) \ {Depth} BY DEF Ends
  <2>3. Shares(x)' = Cardinality(GlobalsOf(x)) + Cardinality(ParamsOf(x)')
                     + Cardinality(ExtrasOf(x)) + Cardinality(EntriesOf(x)) + stray[x]
    BY <1>3, <1>6 DEF Shares, SameEntries
  <2>4. CASE x = Frame.param
    <3>1. Depth \in ParamsOf(x) BY <2>4, ParamFacts
    <3>2. Cardinality(ParamsOf(x)') = Cardinality(ParamsOf(x)) - 1 BY <2>1, <2>2, <3>1, FS_RemoveElement
    <3> QED BY <1>3, <1>4, <1>7, <2>1, <2>3, <2>4, <3>2
  <2>5. CASE x # Frame.param
    <3>1. Depth \notin ParamsOf(x) BY <2>5 DEF ParamsOf, Frame
    <3>2. ParamsOf(x)' = ParamsOf(x) BY <2>2, <3>1
    <3> QED BY <1>3, <1>7, <2>3, <2>5, <3>2
  <2> QED BY <2>4, <2>5
<1>9. IF node[x]'.shares = 0 THEN node[x]'.list \in Blocks' ELSE node[x]'.list = NoList
  <2>1. CASE x = Frame.param
    <3>1. node[x].shares # 0 /\ node[x]'.shares # 0 BY <1>4, <1>7, <2>1
    <3> QED BY <1>7, <3>1, SharedNotListed
  <2>2. CASE x # Frame.param
    <3>1. IF node[x].shares = 0 THEN node[x].list \in Blocks ELSE node[x].list = NoList BY <1>1 DEF Fits, Listed
    <3>2. node[x].shares = 0 => node[x].list # Depth BY <2>2 DEF Doomed
    <3> QED BY <1>7, <2>2, <3>1, <3>2 DEF Ends
  <2> QED BY <2>1, <2>2
<1>10. Reached(x)'
  <2>0. node[x]' # None BY <1>7, NodeAssumption DEF Node
  <2> SUFFICES ASSUME NEW i \in Nat, NEW j \in Nat, Has(i, j, x)'
               PROVE  (Anchored(i, x) \/ Temporary(i, j, x) \/ Lent(i, j, x))'
    BY <2>0 DEF Reached
  <2>1. \A k \in ParamsOf(x) : k # Depth => k \in ParamsOf(x)' BY DEF Ends
  <2>2. CASE i # Depth /\ Has(i, j, x)
    <3>1. i \in 1 .. Depth - 1 /\ i < Depth BY <1>2, <2>2 DEF Has
    <3>2. BlockOf(i)' = BlockOf(i) BY <3>1 DEF Ends
    <3>3. Anchored(i, x) \/ Temporary(i, j, x) \/ Lent(i, j, x) BY <1>1, <2>2 DEF Fits, Reached
    <3>4. Anchored(i, x) => Anchored(i, x)'
      <4>1. \A k \in ParamsOf(x) : k <= i => k \in ParamsOf(x)' BY <1>2, <2>1, <3>1
      <4> QED BY <1>3, <4>1 DEF Anchored, SameEntries
    <3>5. ASSUME Temporary(i, j, x) PROVE Temporary(i, j, x)'
      <4>1. node[x].shares = 0 /\ node[x].list = BlockOf(i) /\ \A p, q \in Nat : Has(p, q, x) => p = i /\ q = j
        BY <3>5 DEF Temporary
      <4>2. node[x]' = node[x] BY <1>7, <4>1
      <4>3. x # o BY <1>2, <2>2, <4>1
      <4>4. \A p, q \in Nat : Has(p, q, x)' => Has(p, q, x) BY <4>3 DEF Ends
      <4> QED BY <3>2, <4>1, <4>2, <4>4 DEF Temporary
    <3>6. ASSUME Lent(i, j, x) PROVE Lent(i, j, x)'
      <4>1. PICK k \in ExtrasOf(x) : k > i /\ node[x].home = BlockOf(i) /\ Sole(i, j, x, k) BY <3>6 DEF Lent
      <4>2. k \in 1 .. Depth /\ k # Depth BY <1>6 DEF ExtrasOf
      <4>3. ASSUME NEW p \in Nat, NEW q \in Nat, p < k, Has(p, q, x)' PROVE Has(p, q, x)
        <5>1. p # Depth - 1 BY <1>2, <4>2, <4>3
        <5> QED BY <4>3, <5>1 DEF Ends
      <4>4. Sole(i, j, x, k)' BY <4>1, <4>3 DEF Sole
      <4> QED BY <1>6, <1>7, <3>2, <4>1, <4>4 DEF Lent
    <3> QED BY <3>3, <3>4, <3>5, <3>6
  <2>3. CASE x = o /\ i = Depth - 1
    <3>1. Has(Depth, 1, x) BY <2>3
    <3>2. GlobalsOf(x) # {} \/ EntriesOf(x) # {} \/ stray[x] # 0 \/ \E k \in ParamsOf(x) : k <= Depth - 1
      BY <3>1, ReturnedIsHeld
    <3>3. \A k \in ParamsOf(x) : k <= Depth - 1 => k \in ParamsOf(x)' BY <1>2, <2>1
    <3> QED BY <1>3, <2>3, <3>2, <3>3 DEF Anchored, SameEntries
  <2> QED BY <2>2, <2>3 DEF Ends
<1> QED BY <1>5, <1>7, <1>8, <1>9, <1>10, Settled

(* What only waited in the block that ends and is returned to a script     *)
(* function waits in that one's block.                                     *)
LEMMA WaitsInCaller ==
  ASSUME IInv, ScriptRuns, NEW o \in Object, Ends(o), Doomed(o), SameEntries(o), Depth - 1 \in Blocks,
         GlobalsOf(o)' = GlobalsOf(o), state[o]' = state[o],
         node[o]' = NodeWith(0, Depth - 1, Depth - 1)
  PROVE  Fits(o)' /\ node[o]' \in Node
<1>1. FrameTypes BY Typed
<1>2. PICK d \in Nat : d = Depth BY <1>1, DepthNat
<1>3. d - 1 \in Nat /\ d - 1 \in Blocks' /\ d - 1 \in 1 .. Depth - 1 BY <1>2 DEF Ends, Blocks
<1>4. /\ GlobalsOf(o) = {} /\ EntriesOf(o) = {} /\ ParamsOf(o) \ {Depth} = {} /\ ExtrasOf(o) = {}
      /\ state[o] = "live" /\ \A i, j \in Nat : Has(i, j, o) => i = Depth
  BY DoomedAlone
<1>5. /\ GlobalsOf(o)' = {} /\ EntriesOf(o)' = {} /\ ParamsOf(o)' = {} /\ ExtrasOf(o)' = {}
      /\ CountedOf(o)' = {} /\ stray[o]' = 0
  BY <1>4, DoomedAlone DEF Ends, SameEntries, CountedOf, FramesStep
<1>6. node[o]' \in Node /\ node[o]' # None BY <1>2, <1>3, NodeIsNode
<1>7. node[o]'.shares = 0 /\ node[o]'.list = d - 1 BY <1>2 DEF NodeWith
<1>8. Known(o)' BY <1>4 DEF Known
<1>9. Counts(o)'
  <2>1. Cardinality({}) = 0 BY FS_EmptySet
  <2>2. Shares(o)' = 0 BY <1>5, <2>1 DEF Shares
  <2> QED BY <1>5, <1>6, <1>7, <2>2 DEF Counts
<1>10. Listed(o)' BY <1>3, <1>7 DEF Listed
<1>11. Reached(o)'
  <2> SUFFICES ASSUME NEW i \in Nat, NEW j \in Nat, Has(i, j, o)'
               PROVE  Temporary(i, j, o)'
    BY <1>6 DEF Reached
  <2>1. \A p, q \in Nat : Has(p, q, o)' => p = d - 1 /\ q = Len(frames[Depth - 1].operands) + 1
    BY <1>2, <1>4 DEF Ends
  <2>2. i = d - 1 /\ \A p, q \in Nat : Has(p, q, o)' => p = i /\ q = j BY <2>1
  <2>3. BlockOf(i) = d - 1
    <3>1. frames[i].kind = "script" BY <1>2, <2>2 DEF Blocks
    <3> QED BY <2>2, <3>1 DEF BlockOf
  <2>4. BlockOf(i)' = d - 1 BY <1>3, <2>2, <2>3 DEF Ends
  <2> QED BY <1>7, <2>2, <2>4 DEF Temporary
<1>12. Extra(o)' BY <1>5 DEF Extra
<1> QED BY <1>6, <1>8, <1>9, <1>10, <1>11, <1>12 DEF Fits

(* Returned to the host, it is loose: its entry does not count.            *)
LEMMA IsLoose ==
  ASSUME IInv, ScriptRuns, NEW o \in Object, \A x \in Object : \A i, j \in Nat : Has(i, j, x)' => i # Depth /\ Has(i, j, x),
         Ends(None), Doomed(o), state[o]' = state[o], node[o]' = None, GlobalsOf(o)' = GlobalsOf(o),
         NEW i \in Nat, EntriesOf(o)' = EntriesOf(o) \cup {i}, CountedOf(o)' = CountedOf(o)
  PROVE  Fits(o)'
<1>1. /\ GlobalsOf(o) = {} /\ EntriesOf(o) = {} /\ ParamsOf(o) \ {Depth} = {} /\ ExtrasOf(o) = {}
      /\ state[o] = "live" /\ \A p, q \in Nat : Has(p, q, o) => p = Depth
  BY DoomedAlone
<1>2. /\ GlobalsOf(o)' = {} /\ EntriesOf(o)' = {i} /\ ParamsOf(o)' = {} /\ ExtrasOf(o)' = {}
      /\ CountedOf(o)' = {} /\ stray[o]' = 0
  BY <1>1, DoomedAlone DEF Ends, CountedOf, FramesStep
<1>3. \A p, q \in Nat : ~Has(p, q, o)' BY <1>1
<1>4. Cardinality({i}) = 1 BY FS_Singleton
<1>5. Known(o)' BY <1>1 DEF Known
<1>6. Counts(o)' BY <1>2, <1>4 DEF Counts
<1>7. Listed(o)' /\ Reached(o)' /\ Extra(o)' BY <1>2, <1>3 DEF Listed, Reached, Extra
<1> QED BY <1>5, <1>6, <1>7 DEF Fits

(* What others hold gets a counted entry when it is returned to the host.  *)
(* The shares the function had of it go.                                   *)
LEMMA IsCounted ==
  ASSUME IInv, ScriptRuns, NEW o \in Object, Has(Depth, 1, o), Ends(None), ~Doomed(o), state[o]' = state[o],
         GlobalsOf(o)' = GlobalsOf(o),
         NEW i \in Nat, i \notin EntriesOf(o), EntriesOf(o)' = EntriesOf(o) \cup {i},
         CountedOf(o)' = CountedOf(o) \cup {i}, NEW r \in Node, node[o]' = r,
         r.home = node[o].home, r.list = node[o].list,
         r.shares = IF o = Frame.param
                    THEN IF Frame.extra = o THEN node[o].shares - 1 ELSE node[o].shares
                    ELSE node[o].shares + 1
  PROVE  Fits(o)'
<1>1. FrameTypes /\ TypeOK /\ Fits(o) BY Typed DEF IInv
<1>2. Depth \in Nat /\ Depth > 0 /\ Frame \in AFrame BY <1>1, ScriptBlock
<1>3. /\ node[o] # None /\ node[o].shares # 0
      /\ o = Frame.param => node[o].shares > 1
  BY ReturnedIsHeld
<1>4. /\ node[o] \in Node /\ state[o] = "live" /\ CountedOf(o) = EntriesOf(o)
      /\ node[o].shares = Cardinality(GlobalsOf(o)) + Cardinality(ParamsOf(o))
                             + Cardinality(ExtrasOf(o)) + Cardinality(EntriesOf(o)) + stray[o]
      /\ stray[o] \in Nat /\ stray[o]' = stray[o]
  BY <1>1, <1>3, NodeCounts DEF Ends, FramesStep
<1>5. node[o].shares \in Nat BY <1>4 DEF Node
<1>6. /\ IsFiniteSet(ParamsOf(o)) /\ IsFiniteSet(ExtrasOf(o)) /\ IsFiniteSet(EntriesOf(o))
      /\ Cardinality(GlobalsOf(o)) \in Nat /\ Cardinality(ParamsOf(o)) \in Nat
      /\ Cardinality(ExtrasOf(o)) \in Nat /\ Cardinality(EntriesOf(o)) \in Nat
  BY <1>1, SetsFinite
<1>7. Cardinality(EntriesOf(o)') = Cardinality(EntriesOf(o)) + 1 BY <1>6, FS_AddElement
<1>8. CountedOf(o)' = EntriesOf(o)' BY <1>4
<1>9. Shares(o)' = Cardinality(GlobalsOf(o)) + Cardinality(ParamsOf(o)') + Cardinality(ExtrasOf(o)')
                   + (Cardinality(EntriesOf(o)) + 1) + stray[o]
  BY <1>4, <1>7, <1>8 DEF Shares
<1>10. r.shares = Shares(o)' /\ r.shares # 0
  <2>1. ParamsOf(o)' = ParamsOf(o) \ {Depth} /\ ExtrasOf(o)' = ExtrasOf(o) \ {Depth} BY DEF Ends
  <2>2. Depth \in ExtrasOf(o) <=> Frame.extra = o BY <1>2 DEF ExtrasOf, Frame
  <2>3. CASE o = Frame.param
    <3>1. Depth \in ParamsOf(o) BY <2>3, ParamFacts
    <3>2. Cardinality(ParamsOf(o)') = Cardinality(ParamsOf(o)) - 1
      <4>1. Cardinality(ParamsOf(o) \ {Depth}) = Cardinality(ParamsOf(o)) - 1 BY <1>6, <3>1, FS_RemoveElement
      <4> QED BY <2>1, <4>1
    <3>3. CASE Frame.extra = o
      <4>1. Cardinality(ExtrasOf(o)') = Cardinality(ExtrasOf(o)) - 1
        <5>1. Depth \in ExtrasOf(o) BY <2>2, <3>3
        <5>2. Cardinality(ExtrasOf(o) \ {Depth}) = Cardinality(ExtrasOf(o)) - 1 BY <1>6, <5>1, FS_RemoveElement
        <5> QED BY <2>1, <5>2
      <4>2. r.shares = node[o].shares - 1 BY <2>3, <3>3
      <4> QED BY <1>3, <1>4, <1>5, <1>6, <1>9, <2>3, <3>2, <4>1, <4>2
    <3>4. CASE Frame.extra # o
      <4>1. ExtrasOf(o)' = ExtrasOf(o) BY <2>1, <2>2, <3>4
      <4>2. r.shares = node[o].shares BY <2>3, <3>4
      <4> QED BY <1>3, <1>4, <1>5, <1>6, <1>9, <2>3, <3>2, <4>1, <4>2
    <3> QED BY <3>3, <3>4
  <2>4. CASE o # Frame.param
    <3>1. Depth \notin ParamsOf(o) BY <2>4 DEF ParamsOf, Frame
    <3>2. Depth \notin ExtrasOf(o) BY <1>1, <3>1, ExtrasAreParams
    <3>3. ParamsOf(o)' = ParamsOf(o) /\ ExtrasOf(o)' = ExtrasOf(o) BY <2>1, <3>1, <3>2
    <3>4. r.shares = node[o].shares + 1 BY <2>4
    <3> QED BY <1>4, <1>5, <1>6, <1>9, <3>3, <3>4
  <2> QED BY <2>3, <2>4
<1>11. r.list = NoList BY <1>3, SharedNotListed
<1>12. Reached(o)'
  <2>1. r # None BY NodeAssumption DEF Node
  <2>2. EntriesOf(o)' # {} OBVIOUS
  <2> QED BY <2>1, <2>2 DEF Reached, Anchored
<1> QED BY <1>3, <1>8, <1>10, <1>11, <1>12, Settled

(* A temporary the host had passed on loses both shares of the call. When  *)
(* nobody else holds it, it waits where it waited before.                  *)
LEMMA ExtraEnds ==
  ASSUME IInv, ScriptRuns, NEW p \in Object, p = Frame.param, Frame.extra = p, Ends(None), SameEntries(p),
         GlobalsOf(p)' = GlobalsOf(p), state[p]' = state[p], NEW r \in Node, node[p]' = r,
         r.shares = node[p].shares - 2, r.home = node[p].home,
         r.list = IF r.shares = 0 THEN node[p].home ELSE node[p].list
  PROVE  Fits(p)'
<1>1. FrameTypes /\ TypeOK /\ Fits(p) BY Typed DEF IInv
<1>2. Depth \in Nat /\ Depth > 0 /\ Frame \in AFrame BY <1>1, ScriptBlock
<1>3. Depth \in ParamsOf(p) /\ node[p] # None /\ node[p].shares # 0 BY ParamFacts
<1>4. Depth \in ExtrasOf(p) BY <1>2 DEF ExtrasOf, Frame
<1>5. /\ node[p] \in Node /\ state[p] = "live" /\ CountedOf(p) = EntriesOf(p)
      /\ node[p].shares = Cardinality(GlobalsOf(p)) + Cardinality(ParamsOf(p))
                             + Cardinality(ExtrasOf(p)) + Cardinality(EntriesOf(p)) + stray[p]
      /\ stray[p] \in Nat /\ stray[p]' = stray[p]
  BY <1>1, <1>3, NodeCounts DEF Ends, FramesStep
<1>6. node[p].shares \in Nat /\ r.shares \in Nat BY <1>5 DEF Node
<1>7. node[p].home \in Blocks /\ node[p].home < Depth
      /\ \A i \in 1 .. Depth - 1 : i \notin ParamsOf(p) \cup ExtrasOf(p)
  BY <1>1, <1>4 DEF Fits, Extra
<1>8. ParamsOf(p) = {Depth} /\ ExtrasOf(p) = {Depth}
  <2>1. ParamsOf(p) \subseteq 1 .. Depth /\ ExtrasOf(p) \subseteq 1 .. Depth BY DEF ParamsOf, ExtrasOf
  <2>2. \A i \in 1 .. Depth : i = Depth \/ i \in 1 .. Depth - 1 BY <1>2
  <2> QED BY <1>3, <1>4, <1>7, <2>1, <2>2
<1>9. ParamsOf(p)' = {} /\ ExtrasOf(p)' = {} BY <1>8 DEF Ends
<1>10. CountedOf(p)' = EntriesOf(p)' BY <1>5 DEF SameEntries
<1>11. /\ IsFiniteSet(GlobalsOf(p)) /\ IsFiniteSet(EntriesOf(p))
       /\ Cardinality(GlobalsOf(p)) \in Nat /\ Cardinality(EntriesOf(p)) \in Nat
       /\ Cardinality({}) = 0 /\ Cardinality({Depth}) = 1
  BY <1>1, SetsFinite, FS_EmptySet, FS_Singleton
<1>12. node[p].shares = Cardinality(GlobalsOf(p)) + 1 + 1 + Cardinality(EntriesOf(p)) + stray[p]
  BY <1>5, <1>8, <1>11
<1>13. Shares(p)' = Cardinality(GlobalsOf(p)) + 0 + 0 + Cardinality(EntriesOf(p)) + stray[p]
  BY <1>5, <1>9, <1>11 DEF Shares, SameEntries
<1>14. r.shares = Shares(p)' BY <1>5, <1>6, <1>11, <1>12, <1>13
<1>15. IF r.shares = 0 THEN r.list \in Blocks' ELSE r.list = NoList
  <2>1. node[p].list = NoList BY <1>3, SharedNotListed
  <2>2. node[p].home \in Blocks' BY <1>2, <1>7 DEF Ends, Blocks
  <2> QED BY <2>1, <2>2
<1>16. Reached(p)'
  <2>0. r # None BY NodeAssumption DEF Node
  <2> SUFFICES ASSUME NEW i \in Nat, NEW j \in Nat, Has(i, j, p)'
               PROVE  (Anchored(i, p) \/ Temporary(i, j, p))'
    BY <2>0 DEF Reached
  <2>1. \A a, b \in Nat : Has(a, b, p)' => a # Depth /\ Has(a, b, p) BY ObjectAssumption DEF Ends
  <2>2. i \in 1 .. Depth - 1 BY <1>2, <2>1 DEF Has
  <2>3. BlockOf(i)' = BlockOf(i) BY <2>2 DEF Ends
  <2>4. CASE r.shares # 0
    <3>1. PICK g \in Nat, e \in Nat, s \in Nat :
            g = Cardinality(GlobalsOf(p)) /\ e = Cardinality(EntriesOf(p)) /\ s = stray[p]
      BY <1>5, <1>11
    <3>2. g + e + s # 0 BY <1>6, <1>12, <2>4, <3>1
    <3>3. ~(g = 0 /\ e = 0 /\ s = 0) BY <3>2
    <3>4. GlobalsOf(p) # {} \/ EntriesOf(p) # {} \/ stray[p] # 0 BY <1>11, <3>1, <3>3
    <3> QED BY <1>5, <3>4 DEF Anchored, SameEntries
  <2>5. CASE r.shares = 0
    <3>1. Cardinality(GlobalsOf(p)) = 0 /\ Cardinality(EntriesOf(p)) = 0 /\ stray[p] = 0
      <4>1. PICK g \in Nat, e \in Nat, s \in Nat :
              g = Cardinality(GlobalsOf(p)) /\ e = Cardinality(EntriesOf(p)) /\ s = stray[p]
        BY <1>5, <1>11
      <4>2. g + 0 + 0 + e + s = 0 BY <1>13, <1>14, <2>5, <4>1
      <4>3. g = 0 /\ e = 0 /\ s = 0 BY <4>2
      <4> QED BY <4>1, <4>3
    <3>2. GlobalsOf(p) = {} /\ EntriesOf(p) = {} BY <1>11, <3>1, FS_EmptySet
    <3>3. ~Anchored(i, p)
      <4>1. \A k \in ParamsOf(p) : ~(k <= i) BY <1>2, <1>8, <2>2
      <4> QED BY <3>1, <3>2, <4>1 DEF Anchored
    <3>4. ~Temporary(i, j, p) BY <1>3 DEF Temporary
    <3>5. Lent(i, j, p) BY <1>1, <2>1, <3>3, <3>4 DEF Fits, Reached
    <3>6. node[p].home = BlockOf(i) /\ Sole(i, j, p, Depth) BY <1>8, <3>5 DEF Lent
    <3>7. \A a, b \in Nat : Has(a, b, p)' => a = i /\ b = j
      <4>1. \A a, b \in Nat : Has(a, b, p)' => a < Depth BY <1>2, <2>1 DEF Has
      <4> QED BY <2>1, <3>6, <4>1 DEF Sole
    <3> QED BY <2>3, <2>5, <3>6, <3>7 DEF Temporary
  <2> QED BY <2>4, <2>5
<1> QED BY <1>3, <1>10, <1>14, <1>15, <1>16, Settled

LEMMA ReturnFacts ==
  ASSUME IInv, NEW o \in Object \cup {None}, Return(o)
  PROVE  ScriptRuns /\ (o # None => o \in Object /\ Has(Depth, 1, o) /\ node[o] # None)
<1>1. FrameTypes /\ ScriptRuns /\ (\A x \in Object : Fits(x)) BY Typed DEF Return
<1>2. Depth \in Nat /\ Depth > 0 /\ Frame \in AFrame BY <1>1, ScriptBlock
<1>3. ASSUME o # None PROVE o \in Object /\ Has(Depth, 1, o) /\ node[o] # None
  <2>1. o = Operand /\ Frame.operands # <<>> /\ Len(Frame.operands) <= 1 BY <1>3 DEF Return, Arguments
  <2>2. Frame.operands \in Seq(Object) BY <1>2 DEF AFrame
  <2>3. Len(Frame.operands) = 1
    <3>1. PICK s \in Seq(Object) : s = Frame.operands BY <2>2
    <3>2. s # <<>> /\ Len(s) <= 1 BY <2>1, <3>1
    <3>3. PICK l \in Nat : l = Len(s) /\ l # 0 BY <3>2
    <3>4. l <= 1 BY <3>2, <3>3
    <3>5. l = 1 BY <3>3, <3>4
    <3> QED BY <3>1, <3>3, <3>5
  <2>4. o = Frame.operands[1] BY <2>1, <2>3 DEF Operand
  <2>5. Has(Depth, 1, o) BY <1>2, <2>3, <2>4 DEF Has, Frame
  <2> QED BY <1>1, <1>2, <1>3, <2>5 DEF Fits, Reached
<1> QED BY <1>1, <1>3

(* The objects a return takes with it, and those it does not touch.        *)
LEMMA DoomedGoes ==
  ASSUME IInv, ScriptRuns, NEW o, Ends(o), NEW x \in Object, x # o, Doomed(x), SameEntries(x),
         GlobalsOf(x)' = GlobalsOf(x), state[x]' = "deleted", node[x]' = None
  PROVE  Fits(x)'
<1>1. /\ GlobalsOf(x) = {} /\ EntriesOf(x) = {} /\ ParamsOf(x) \ {Depth} = {} /\ ExtrasOf(x) = {}
      /\ \A i, j \in Nat : Has(i, j, x) => i = Depth
  BY DoomedAlone
<1>2. GlobalsOf(x)' = {} /\ EntriesOf(x)' = {} /\ ParamsOf(x)' = {} /\ ExtrasOf(x)' = {}
      /\ stray[x]' = 0
  BY <1>1, DoomedAlone DEF Ends, SameEntries, FramesStep
<1>3. \A i, j \in Nat : ~Has(i, j, x)' BY <1>1 DEF Ends
<1>4. state[x]' # "live" OBVIOUS
<1> QED BY <1>2, <1>3, <1>4, Gone

LEMMA WithoutNode ==
  ASSUME IInv, ScriptRuns, NEW o, Ends(o), NEW x \in Object, x # o, node[x] = None, SameEntries(x),
         GlobalsOf(x)' = GlobalsOf(x), state[x]' = state[x], node[x]' = node[x]
  PROVE  Fits(x)'
<1>1. FrameTypes /\ Fits(x) BY Typed
<1>2. ParamsOf(x) = {} /\ ExtrasOf(x) = {} BY <1>1, NoNode
<1>3. ParamsOf(x)' = ParamsOf(x) /\ ExtrasOf(x)' = ExtrasOf(x) BY <1>2 DEF Ends
<1>4. FramesStep /\ \A i, j \in Nat : Has(i, j, x)' => Has(i, j, x) BY DEF Ends
<1> QED BY <1>1, <1>3, <1>4, Untouched

LEMMA ReturnToScriptStep ==
  ASSUME IInv, NEW o \in Object \cup {None}, Return(o), Frame.from = "script"
  PROVE  IInv'
<1>1. /\ FrameTypes /\ TypeOK /\ Heap \in HeapTypes /\ ScriptRuns /\ (\A x \in Object : Fits(x))
      /\ (o # None => o \in Object /\ Has(Depth, 1, o) /\ node[o] # None)
  BY Typed, ReturnFacts DEF IInv
<1>2. Depth \in Nat /\ Depth > 0 /\ Frame \in AFrame BY <1>1, ScriptBlock
<1>3. ReturnToScript(o) BY DEF Return
<1>4. Depth > 1 /\ frames[Depth - 1].kind = "script" /\ Frame.extra = None
  BY <1>1, <1>2 DEF FrameTypes, FramesShaped, Frame
<1>5. Ends(o)
  <2>1. frames' = [SubSeq(frames, 1, Depth - 1) EXCEPT ![Depth - 1].operands =
                      IF o = None \/ Len(@) = MaxOperands THEN @ ELSE Append(@, o)]
        /\ stray' = stray
    BY <1>3 DEF ReturnToScript
  <2> QED BY <1>1, <1>4, <2>1, ReturnedPlaces
<1>6. Depth - 1 \in Blocks BY <1>2, <1>4 DEF Blocks
<1>7. global' = global /\ entries' = entries /\ failed' = failed /\ stray' = stray BY <1>3 DEF ReturnToScript
<1>8. \A x : GlobalsOf(x)' = GlobalsOf(x) /\ SameEntries(x) BY <1>7, UnchangedEntries DEF GlobalsOf
<1>9. PICK h : h = Popped(Heap, Frame.param, Depth, o) OBVIOUS
<1>10. /\ h \in HeapTypes
       /\ \A x \in Object :
            IF Doomed(x) THEN h.node[x] = None /\ h.state[x] = IF x = o THEN state[x] ELSE "deleted"
            ELSE /\ h.state[x] = state[x]
                 /\ h.node[x] = IF x = Frame.param
                                THEN NodeWith(node[x].shares - 1, node[x].home, node[x].list)
                                ELSE node[x]
  BY <1>1, <1>9, PoppedHeap
<1>11. /\ state' = h.state
       /\ node' = IF o # None /\ h.node[o] = None THEN [h.node EXCEPT ![o] = NodeWith(0, Depth - 1, Depth - 1)]
                  ELSE h.node
  <2>1. Now(IF o # None /\ h.node[o] = None THEN Created(h, o, Depth - 1) ELSE h) BY <1>3, <1>9 DEF ReturnToScript
  <2>2. CASE o # None /\ h.node[o] = None BY <1>1, <1>10, <2>1, <2>2, CreatedHeap DEF Now
  <2>3. CASE ~(o # None /\ h.node[o] = None) BY <2>1, <2>3 DEF Now
  <2> QED BY <2>2, <2>3
<1>12. ASSUME o # None PROVE h.node[o] = None <=> Doomed(o)
  <2>1. o \in Object /\ Has(Depth, 1, o) /\ node[o] # None BY <1>1, <1>12
  <2>2. CASE Doomed(o) BY <1>10, <2>1, <2>2
  <2>3. CASE ~Doomed(o)
    <3>1. CASE o = Frame.param
      <4>1. node[o] \in Node /\ node[o].shares > 1 BY <1>1, <2>1, <2>3, <3>1, ReturnedIsHeld DEF TypeOK
      <4>2. node[o].shares - 1 \in Nat /\ node[o].home \in Nat /\ node[o].list \in Nat BY <4>1 DEF Node
      <4>3. NodeWith(node[o].shares - 1, node[o].home, node[o].list) # None BY <4>2, NodeIsNode
      <4> QED BY <1>10, <2>1, <2>3, <3>1, <4>3
    <3>2. CASE o # Frame.param BY <1>10, <2>1, <2>3, <3>2
    <3> QED BY <3>1, <3>2
  <2> QED BY <2>2, <2>3
<1>13. node' \in [Object -> Node \cup {None}] /\ state' \in [Object -> {"new", "live", "deleted"}]
  <2>1. NodeWith(0, Depth - 1, Depth - 1) \in Node BY <1>2, NodeIsNode
  <2> QED BY <1>10, <1>11, <2>1 DEF HeapTypes
<1>14. TypeOK' BY <1>1, <1>5, <1>7, <1>13 DEF TypeOK, Ends, FramesStep, FrameTypes
<1>15. ASSUME NEW x \in Object PROVE Fits(x)'
  <2>1. state[x]' = h.state[x] BY <1>11
  <2>2. x # o => node[x]' = h.node[x] BY <1>10, <1>11 DEF HeapTypes
  <2>3. CASE x # o /\ Doomed(x)
    <3>1. state[x]' = "deleted" /\ node[x]' = None BY <1>10, <2>1, <2>2, <2>3
    <3> QED BY <1>1, <1>5, <1>8, <2>3, <3>1, DoomedGoes
  <2>4. CASE x # o /\ node[x] = None
    <3>1. x # Frame.param BY <1>1, <2>4, ParamFacts
    <3>2. ~Doomed(x) BY <2>4 DEF Doomed
    <3>3. state[x]' = state[x] /\ node[x]' = node[x] BY <1>10, <2>1, <2>2, <2>4, <3>1, <3>2
    <3> QED BY <1>1, <1>5, <1>8, <2>4, <3>3, WithoutNode
  <2>5. CASE x = o /\ Doomed(x)
    <3>1. state[x]' = state[x] BY <1>10, <2>1, <2>5
    <3>2. o # None BY <2>5, ObjectAssumption
    <3>3. node[x]' = NodeWith(0, Depth - 1, Depth - 1) BY <1>10, <1>11, <1>12, <2>5, <3>2 DEF HeapTypes
    <3> QED BY <1>1, <1>5, <1>6, <1>8, <2>5, <3>1, <3>3, WaitsInCaller
  <2>6. CASE ~Doomed(x) /\ node[x] # None
    <3>1. x = o => Has(Depth, 1, x) BY <1>1, ObjectAssumption
    <3>2. Frame.extra # x BY <1>4, ObjectAssumption
    <3>3. node[x]' = h.node[x]
      <4>1. x = o => o # None BY ObjectAssumption
      <4> QED BY <1>11, <1>12, <2>2, <2>6, <4>1
    <3>4. /\ state[x]' = state[x]
          /\ node[x]' = IF x = Frame.param THEN NodeWith(node[x].shares - 1, node[x].home, node[x].list)
                        ELSE node[x]
      BY <1>10, <2>1, <2>6, <3>3
    <3> QED BY <1>1, <1>5, <1>8, <2>6, <3>1, <3>2, <3>4, StaysAfterReturn
  <2>7. x = o => node[x] # None BY <1>1, ObjectAssumption
  <2> QED BY <2>3, <2>4, <2>5, <2>6, <2>7
<1> QED BY <1>5, <1>14, <1>15 DEF IInv, Ends, FramesStep, FrameTypes

LEMMA NewEntry ==
  ASSUME TypeOK, NEW o \in Object, NEW c \in BOOLEAN,
         entries' = Append(entries, [object |-> o, counted |-> c])
  PROVE  /\ entries' \in Seq([object : Object, counted : BOOLEAN])
         /\ \A x \in Object : x # o => SameEntries(x)
         /\ \E i \in Nat : /\ i \notin EntriesOf(o) /\ EntriesOf(o)' = EntriesOf(o) \cup {i}
                           /\ CountedOf(o)' = IF c THEN CountedOf(o) \cup {i} ELSE CountedOf(o)
<1>1. PICK n \in Nat : n = Len(entries) BY DEF TypeOK
<1> DEFINE new == [object |-> o, counted |-> c]
<1>2. new \in [object : Object, counted : BOOLEAN] /\ new.object = o /\ new.counted = c OBVIOUS
<1> HIDE DEF new
<1>3. entries' = Append(entries, new) BY DEF new
<1>4. /\ entries' \in Seq([object : Object, counted : BOOLEAN]) /\ Len(entries') = n + 1
      /\ entries'[n + 1] = new /\ \A i \in 1 .. n : entries'[i] = entries[i]
  BY <1>1, <1>2, <1>3 DEF TypeOK
<1>5. 1 .. n + 1 = 1 .. n \cup {n + 1} /\ n + 1 \notin 1 .. n BY <1>1
<1>6. ASSUME NEW x \in Object
      PROVE  /\ EntriesOf(x)' = IF x = o THEN EntriesOf(x) \cup {n + 1} ELSE EntriesOf(x)
             /\ CountedOf(x)' = IF x = o /\ c THEN CountedOf(x) \cup {n + 1} ELSE CountedOf(x)
  <2>1. \A i \in 1 .. n + 1 : i \in EntriesOf(x)' <=> (i \in EntriesOf(x) \/ (i = n + 1 /\ x = o))
    BY <1>1, <1>2, <1>4, <1>5 DEF EntriesOf
  <2>2. EntriesOf(x)' \subseteq 1 .. n + 1 /\ EntriesOf(x) \subseteq 1 .. n BY <1>1, <1>4 DEF EntriesOf
  <2>3. EntriesOf(x)' = IF x = o THEN EntriesOf(x) \cup {n + 1} ELSE EntriesOf(x) BY <1>5, <2>1, <2>2
  <2>4. /\ \A i : i \in CountedOf(x)' <=> i \in EntriesOf(x)' /\ entries'[i].counted
        /\ \A i : i \in CountedOf(x) <=> i \in EntriesOf(x) /\ entries[i].counted
    BY DEF CountedOf
  <2>5. \A i \in EntriesOf(x) : entries'[i].counted <=> entries[i].counted BY <1>4, <2>2
  <2>6. entries'[n + 1].counted <=> c BY <1>2, <1>4
  <2>7. n + 1 \notin CountedOf(x) BY <1>5, <2>2 DEF CountedOf
  <2> QED BY <2>3, <2>4, <2>5, <2>6, <2>7
<1>7. n + 1 \in Nat /\ n + 1 \notin EntriesOf(o) BY <1>1, <1>5 DEF EntriesOf
<1>8. \A x \in Object : x # o => SameEntries(x) BY <1>6 DEF SameEntries
<1> QED BY <1>4, <1>6, <1>7, <1>8

(* What the host is told of what is returned.                              *)
LEMMA ToldHeap ==
  ASSUME NEW h \in HeapTypes, NEW o \in Object, h.node[o] # None
  PROVE  /\ [h EXCEPT !.node[o].shares = @ + 1] \in HeapTypes
         /\ [h EXCEPT !.node[o].shares = @ + 1].state = h.state
         /\ [h EXCEPT !.node[o].shares = @ + 1].node =
              [h.node EXCEPT ![o] = NodeWith(h.node[o].shares + 1, h.node[o].home, h.node[o].list)]
<1>1. h.node[o] \in Node /\ DOMAIN h = {"state", "node"} BY DEF HeapTypes
<1> DEFINE more == [h.node[o] EXCEPT !.shares = h.node[o].shares + 1]
<1>2. more = NodeWith(h.node[o].shares + 1, h.node[o].home, h.node[o].list)
  <2> DEFINE r == h.node[o]
  <2>1. r \in Node BY <1>1
  <2> HIDE DEF r
  <2>2. [r EXCEPT !.shares = r.shares + 1] = NodeWith(r.shares + 1, r.home, r.list) BY <2>1, NodeExcept
  <2> QED BY <2>2 DEF r
<1>3. more \in Node
  <2>1. h.node[o].shares + 1 \in Nat /\ h.node[o].home \in Nat /\ h.node[o].list \in Nat BY <1>1 DEF Node
  <2> QED BY <1>2, <2>1, NodeIsNode
<1>4. [h EXCEPT !.node[o].shares = @ + 1] = [h EXCEPT !.node = [h.node EXCEPT ![o] = more]] BY <1>1
<1> HIDE DEF more
<1>5. [h.node EXCEPT ![o] = more] \in [Object -> Node \cup {None}] BY <1>3 DEF HeapTypes
<1> QED BY <1>1, <1>2, <1>4, <1>5 DEF HeapTypes

(* The end of an extra share.                                              *)
LEMMA OverHeap ==
  ASSUME NEW g \in HeapTypes, NEW p \in Object, g.node[p] \in Node, g.node[p].home # NoList
  PROVE  /\ Over(g, p).state = g.state
         /\ Over(g, p).node = [g.node EXCEPT ![p] =
                                IF g.node[p].shares > 1
                                THEN NodeWith(g.node[p].shares - 1, g.node[p].home, g.node[p].list)
                                ELSE NodeWith(0, g.node[p].home, g.node[p].home)]
<1>1. Over(g, p) = Unref(g, p, g.node[p].home) BY ObjectAssumption DEF Over
<1>2. CASE g.node[p].shares > 1 BY <1>1, <1>2, UnrefLess
<1>3. CASE ~(g.node[p].shares > 1) BY <1>1, <1>3, UnrefParks
<1> QED BY <1>2, <1>3

(* The call's extra share is of a parameter that does not go.              *)
LEMMA ExtraFacts ==
  ASSUME IInv, ScriptRuns, NEW p \in Object, Frame.extra = p
  PROVE  /\ p = Frame.param /\ node[p] \in Node /\ node[p] # None /\ node[p].shares > 1 /\ ~Doomed(p)
         /\ node[p].home # NoList
<1>1. FrameTypes /\ TypeOK /\ Fits(p) BY Typed DEF IInv
<1>2. Depth \in Nat /\ Depth > 0 BY <1>1, ScriptBlock
<1>3. Depth \in ExtrasOf(p) BY <1>2 DEF ExtrasOf, Frame
<1>4. Depth \in ParamsOf(p) BY <1>1, <1>3, ExtrasAreParams
<1>5. p = Frame.param BY <1>4 DEF ParamsOf, Frame
<1>6. node[p] \in Node /\ node[p] # None BY <1>5, ParamFacts
<1>7. node[p].shares \in Nat BY <1>6 DEF Node
<1>8. ~(node[p].shares <= 1) BY <1>1, <1>3, <1>4, <1>6, NodeCounts
<1>9. node[p].home # NoList
  <2>1. node[p].home \in Blocks BY <1>1, <1>3 DEF Fits, Extra
  <2>2. node[p].home \in 1 .. Depth BY <2>1 DEF Blocks
  <2> QED BY <1>1, <1>2, <2>2, BoundsAssumption DEF NoList, FrameTypes, FramesShaped
<1>10. node[p].shares > 1 BY <1>7, <1>8
<1> QED BY <1>5, <1>6, <1>8, <1>9, <1>10 DEF Doomed

LEMMA ReturnToHostStep ==
  ASSUME IInv, NEW o \in Object \cup {None}, Return(o), Frame.from # "script"
  PROVE  IInv'
<1>1. /\ FrameTypes /\ TypeOK /\ Heap \in HeapTypes /\ ScriptRuns /\ (\A x \in Object : Fits(x))
      /\ (o # None => o \in Object /\ Has(Depth, 1, o) /\ node[o] # None)
  BY Typed, ReturnFacts DEF IInv
<1>2. Depth \in Nat /\ Depth > 0 /\ Frame \in AFrame BY <1>1, ScriptBlock
<1>3. ReturnToHost(o) BY DEF Return
<1>4. /\ Ends(None)
      /\ \A x \in Object : \A i, j \in Nat : Has(i, j, x)' => i # Depth /\ Has(i, j, x)
  <2>1. frames' = SubSeq(frames, 1, Depth - 1) /\ stray' = stray BY <1>3 DEF ReturnToHost
  <2>2. Ends(None) BY <1>1, <1>2, <2>1, EndedIsEnds
  <2> QED BY <2>2, ObjectAssumption DEF Ends
<1>5. global' = global /\ failed' = failed /\ stray' = stray BY <1>3 DEF ReturnToHost
<1>6. \A x : GlobalsOf(x)' = GlobalsOf(x) BY <1>5 DEF GlobalsOf
<1>7. PICK h : h = Popped(Heap, Frame.param, Depth, o) OBVIOUS
<1>8. /\ h \in HeapTypes
      /\ \A x \in Object :
           IF Doomed(x) THEN h.node[x] = None /\ h.state[x] = IF x = o THEN state[x] ELSE "deleted"
           ELSE /\ h.state[x] = state[x]
                /\ h.node[x] = IF x = Frame.param
                               THEN NodeWith(node[x].shares - 1, node[x].home, node[x].list)
                               ELSE node[x]
  BY <1>1, <1>7, PoppedHeap
<1>9. ASSUME o # None, ~Doomed(o)
      PROVE  /\ h.node[o] \in Node /\ h.node[o] # None /\ h.node[o].shares > 0
             /\ h.node[o].home = node[o].home /\ h.node[o].list = node[o].list
             /\ h.node[o].shares = IF o = Frame.param THEN node[o].shares - 1 ELSE node[o].shares
  <2>1. /\ o \in Object /\ node[o] \in Node /\ node[o] # None /\ node[o].shares # 0
        /\ (o = Frame.param => node[o].shares > 1)
    BY <1>1, <1>9, ReturnedIsHeld DEF TypeOK
  <2>2. node[o].shares \in Nat /\ node[o].home \in Nat /\ node[o].list \in Nat BY <2>1 DEF Node
  <2>3. CASE o = Frame.param
    <3>1. node[o].shares - 1 \in Nat /\ node[o].shares - 1 > 0 BY <2>1, <2>2, <2>3
    <3>2. h.node[o] = NodeWith(node[o].shares - 1, node[o].home, node[o].list) BY <1>8, <1>9, <2>1, <2>3
    <3>3. h.node[o] \in Node /\ h.node[o] # None BY <2>2, <3>1, <3>2, NodeIsNode
    <3>4. h.node[o].shares = node[o].shares - 1 /\ h.node[o].home = node[o].home /\ h.node[o].list = node[o].list
      BY <3>2 DEF NodeWith
    <3> QED BY <2>3, <3>1, <3>3, <3>4
  <2>4. CASE o # Frame.param
    <3>1. h.node[o] = node[o] BY <1>8, <1>9, <2>1, <2>4
    <3> QED BY <2>1, <2>2, <2>4, <3>1
  <2> QED BY <2>3, <2>4
<1>10. PICK g \in HeapTypes :
         /\ Now(Over(g, Frame.extra)) /\ g.state = h.state
         /\ g.node = IF o # None /\ ~Doomed(o)
                     THEN [h.node EXCEPT ![o] = NodeWith(h.node[o].shares + 1, h.node[o].home, h.node[o].list)]
                     ELSE h.node
         /\ IF o = None THEN entries' = entries
            ELSE entries' = Append(entries, [object |-> o, counted |-> ~Doomed(o)])
  <2>1. CASE o = None BY <1>3, <1>7, <1>8, <2>1 DEF ReturnToHost
  <2>2. CASE o # None
    <3>0. o \in Object BY <1>1, <2>2
    <3>1. (h.node[o] # None /\ h.node[o].shares > 0) <=> ~Doomed(o) BY <1>8, <1>9, <2>2, <3>0
    <3>2. Now(Over(Entry(h, o).heap, Frame.extra)) /\ entries' = Entry(h, o).entries
      BY <1>3, <1>7, <2>2 DEF ReturnToHost
    <3>3. /\ Entry(h, o).heap = IF ~Doomed(o) THEN [h EXCEPT !.node[o].shares = @ + 1] ELSE h
          /\ Entry(h, o).entries = Append(entries, [object |-> o, counted |-> ~Doomed(o)])
      <4>1. PICK c \in BOOLEAN : c = (h.node[o] # None /\ h.node[o].shares > 0) OBVIOUS
      <4>2. c = ~Doomed(o) BY <3>1, <4>1 DEF Doomed
      <4>3. /\ Entry(h, o).heap = IF c THEN [h EXCEPT !.node[o].shares = @ + 1] ELSE h
            /\ Entry(h, o).entries = Append(entries, [object |-> o, counted |-> c])
        BY <4>1 DEF Entry
      <4> QED BY <4>2, <4>3
    <3>4. CASE Doomed(o) BY <1>8, <2>2, <3>2, <3>3, <3>4
    <3>5. CASE ~Doomed(o)
      <4>1. h.node[o] # None BY <1>9, <2>2, <3>5
      <4>2. /\ [h EXCEPT !.node[o].shares = @ + 1] \in HeapTypes
            /\ [h EXCEPT !.node[o].shares = @ + 1].state = h.state
            /\ [h EXCEPT !.node[o].shares = @ + 1].node =
                 [h.node EXCEPT ![o] = NodeWith(h.node[o].shares + 1, h.node[o].home, h.node[o].list)]
        BY <1>8, <3>0, <4>1, ToldHeap
      <4>3. PICK g : g = [h EXCEPT !.node[o].shares = @ + 1] OBVIOUS
      <4>4. Entry(h, o).heap = g BY <3>3, <3>5, <4>3
      <4>5. /\ g \in HeapTypes /\ g.state = h.state
            /\ g.node = [h.node EXCEPT ![o] = NodeWith(h.node[o].shares + 1, h.node[o].home, h.node[o].list)]
        BY <4>2, <4>3
      <4>6. Now(Over(g, Frame.extra)) BY <3>2, <4>4
      <4>7. entries' = Append(entries, [object |-> o, counted |-> ~Doomed(o)]) BY <3>2, <3>3
      <4> QED BY <2>2, <3>5, <4>5, <4>6, <4>7
    <3> QED BY <3>4, <3>5
  <2> QED BY <2>1, <2>2
<1>11. \A x \in Object : x # o => SameEntries(x)
  <2>1. CASE o = None BY <1>10, <2>1, UnchangedEntries
  <2>2. CASE o # None
    <3>1. PICK c \in BOOLEAN : c = ~Doomed(o) BY DEF Doomed
    <3>2. entries' = Append(entries, [object |-> o, counted |-> c]) /\ o \in Object BY <1>1, <1>10, <2>2, <3>1
    <3> QED BY <1>1, <3>2, NewEntry
  <2> QED BY <2>1, <2>2
<1>12. ASSUME o # None
       PROVE  /\ entries' \in Seq([object : Object, counted : BOOLEAN])
              /\ \E i \in Nat : /\ i \notin EntriesOf(o) /\ EntriesOf(o)' = EntriesOf(o) \cup {i}
                                /\ CountedOf(o)' = IF ~Doomed(o) THEN CountedOf(o) \cup {i} ELSE CountedOf(o)
  <2>1. PICK c \in BOOLEAN : c = ~Doomed(o) BY DEF Doomed
  <2>2. entries' = Append(entries, [object |-> o, counted |-> c]) /\ o \in Object BY <1>1, <1>10, <1>12, <2>1
  <2>3. /\ entries' \in Seq([object : Object, counted : BOOLEAN])
        /\ \E i \in Nat : /\ i \notin EntriesOf(o) /\ EntriesOf(o)' = EntriesOf(o) \cup {i}
                          /\ CountedOf(o)' = IF c THEN CountedOf(o) \cup {i} ELSE CountedOf(o)
    BY <1>1, <2>2, NewEntry
  <2> QED BY <2>1, <2>3
<1>13. PICK e \in Object \cup {None} : e = Frame.extra BY <1>2 DEF AFrame
<1>14. ASSUME e # None
       PROVE  /\ e \in Object /\ e = Frame.param /\ node[e] \in Node /\ node[e].shares > 1 /\ ~Doomed(e)
              /\ g.node[e] \in Node /\ g.node[e].home = node[e].home /\ g.node[e].list = node[e].list
              /\ g.node[e].home # NoList
              /\ g.node[e].shares = IF e = o THEN node[e].shares ELSE node[e].shares - 1
  <2>1. e \in Object /\ e = Frame.param /\ node[e] \in Node /\ node[e] # None /\ node[e].shares > 1 /\ ~Doomed(e)
        /\ node[e].home # NoList
    BY <1>1, <1>13, <1>14, ExtraFacts
  <2>2. node[e].shares \in Nat /\ node[e].home \in Nat /\ node[e].list \in Nat BY <2>1 DEF Node
  <2>3. node[e].shares - 1 \in Nat /\ (node[e].shares - 1) + 1 = node[e].shares BY <2>1, <2>2
  <2>4. h.node[e] = NodeWith(node[e].shares - 1, node[e].home, node[e].list) BY <1>8, <2>1
  <2>5. CASE e = o
    <3>1. g.node[e] = NodeWith(h.node[e].shares + 1, h.node[e].home, h.node[e].list)
      BY <1>8, <1>10, <2>1, <2>5, ObjectAssumption DEF HeapTypes
    <3>2. /\ h.node[e].shares = node[e].shares - 1 /\ h.node[e].home = node[e].home
          /\ h.node[e].list = node[e].list
      BY <2>4 DEF NodeWith
    <3>3. g.node[e] = NodeWith(node[e].shares, node[e].home, node[e].list) BY <2>3, <3>1, <3>2
    <3>4. g.node[e] \in Node BY <2>2, <3>3, NodeIsNode
    <3> QED BY <2>1, <2>5, <3>3, <3>4 DEF NodeWith
  <2>6. CASE e # o
    <3>1. g.node[e] = NodeWith(node[e].shares - 1, node[e].home, node[e].list)
      BY <1>8, <1>10, <2>1, <2>4, <2>6 DEF HeapTypes
    <3>2. g.node[e] \in Node BY <2>2, <2>3, <3>1, NodeIsNode
    <3> QED BY <2>1, <2>6, <3>1, <3>2 DEF NodeWith
  <2> QED BY <2>5, <2>6
<1>15. /\ state' = h.state
       /\ node' = IF e = None THEN g.node
                  ELSE [g.node EXCEPT ![e] = IF g.node[e].shares > 1
                                             THEN NodeWith(g.node[e].shares - 1, g.node[e].home, g.node[e].list)
                                             ELSE NodeWith(0, g.node[e].home, g.node[e].home)]
  <2>1. state' = Over(g, e).state /\ node' = Over(g, e).node BY <1>10, <1>13 DEF Now
  <2>2. CASE e = None BY <1>10, <2>1, <2>2 DEF Over
  <2>3. CASE e # None BY <1>10, <1>14, <2>1, <2>3, OverHeap
  <2> QED BY <2>2, <2>3
<1>16. ASSUME e # None
       PROVE  /\ node[e]' \in Node /\ node[e]'.home = node[e].home
              /\ node[e]'.shares = IF e = o THEN node[e].shares - 1 ELSE node[e].shares - 2
              /\ node[e]'.list = IF node[e]'.shares = 0 THEN node[e].home ELSE node[e].list
  <2>1. /\ e \in Object /\ node[e] \in Node /\ node[e].shares > 1
        /\ g.node[e] \in Node /\ g.node[e].home = node[e].home /\ g.node[e].list = node[e].list
        /\ g.node[e].shares = IF e = o THEN node[e].shares ELSE node[e].shares - 1
    BY <1>14, <1>16
  <2>2. node[e].shares \in Nat /\ node[e].home \in Nat /\ node[e].list \in Nat BY <2>1 DEF Node
  <2>3. node'[e] = IF g.node[e].shares > 1
                   THEN NodeWith(g.node[e].shares - 1, node[e].home, node[e].list)
                   ELSE NodeWith(0, node[e].home, node[e].home)
    BY <1>15, <1>16, <2>1 DEF HeapTypes
  <2>4. CASE g.node[e].shares > 1
    <3>1. node'[e] = NodeWith(g.node[e].shares - 1, node[e].home, node[e].list) BY <2>3, <2>4
    <3>2. g.node[e].shares - 1 \in Nat /\ g.node[e].shares - 1 # 0
          /\ g.node[e].shares - 1 = IF e = o THEN node[e].shares - 1 ELSE node[e].shares - 2
      BY <2>1, <2>2, <2>4
    <3>3. node'[e] \in Node BY <2>2, <3>1, <3>2, NodeIsNode
    <3>4. node'[e].shares = g.node[e].shares - 1 /\ node'[e].home = node[e].home /\ node'[e].list = node[e].list
      BY <3>1 DEF NodeWith
    <3> QED BY <3>2, <3>3, <3>4
  <2>5. CASE ~(g.node[e].shares > 1)
    <3>1. node'[e] = NodeWith(0, node[e].home, node[e].home) BY <2>3, <2>5
    <3>2. e # o /\ node[e].shares - 2 = 0 BY <2>1, <2>2, <2>5
    <3>3. node'[e] \in Node BY <2>2, <3>1, NodeIsNode
    <3>4. node'[e].shares = 0 /\ node'[e].home = node[e].home /\ node'[e].list = node[e].home
      BY <3>1 DEF NodeWith
    <3> QED BY <3>2, <3>3, <3>4
  <2> QED BY <2>4, <2>5
<1>17. node' \in [Object -> Node \cup {None}] /\ state' \in [Object -> {"new", "live", "deleted"}]
  <2>1. CASE e = None BY <1>8, <1>15, <2>1 DEF HeapTypes
  <2>2. CASE e # None
    <3>1. node'[e] \in Node BY <1>16, <2>2
    <3>2. PICK r : node' = [g.node EXCEPT ![e] = r] BY <1>15, <2>2
    <3>3. node'[e] = r BY <1>14, <2>2, <3>2 DEF HeapTypes
    <3> QED BY <1>8, <1>15, <3>1, <3>2, <3>3 DEF HeapTypes
  <2> QED BY <2>1, <2>2
<1>18. TypeOK'
  <2>1. entries' \in Seq([object : Object, counted : BOOLEAN]) BY <1>1, <1>10, <1>12 DEF TypeOK
  <2> QED BY <1>1, <1>4, <1>5, <1>17, <2>1 DEF TypeOK, Ends, FramesStep, FrameTypes
<1>19. ASSUME NEW x \in Object PROVE Fits(x)'
  <2>0. x # None BY ObjectAssumption
  <2>1. state[x]' = h.state[x] BY <1>15
  <2>2. x # e => node[x]' = g.node[x] BY <1>15 DEF HeapTypes
  <2>3. (x # o \/ Doomed(o)) => g.node[x] = h.node[x] BY <1>8, <1>10 DEF HeapTypes
  <2>4. CASE Doomed(x)
    <3>1. x # e BY <1>14, <2>0, <2>4
    <3>2. node[x]' = None BY <1>8, <2>2, <2>3, <2>4, <3>1
    <3>3. CASE x # o
      <4>1. state[x]' = "deleted" BY <1>8, <2>1, <2>4, <3>3
      <4> QED BY <1>1, <1>4, <1>6, <1>11, <2>0, <2>4, <3>2, <3>3, <4>1, DoomedGoes
    <3>4. CASE x = o
      <4>1. state[x]' = state[x] BY <1>8, <2>1, <2>4, <3>4
      <4>2. PICK i \in Nat : EntriesOf(o)' = EntriesOf(o) \cup {i} /\ CountedOf(o)' = CountedOf(o)
        BY <1>12, <2>0, <2>4, <3>4
      <4> QED BY <1>1, <1>4, <1>6, <2>4, <3>2, <3>4, <4>1, <4>2, IsLoose
    <3> QED BY <3>3, <3>4
  <2>5. CASE ~Doomed(x) /\ x = o
    <3>1. state[x]' = state[x] BY <1>8, <2>1, <2>5
    <3>2. PICK i \in Nat : /\ i \notin EntriesOf(o) /\ EntriesOf(o)' = EntriesOf(o) \cup {i}
                           /\ CountedOf(o)' = CountedOf(o) \cup {i}
      BY <1>12, <2>0, <2>5
    <3>3. PICK r \in Node :
            /\ r = node[x]' /\ r.home = node[x].home /\ r.list = node[x].list
            /\ r.shares = IF x = Frame.param
                          THEN IF Frame.extra = x THEN node[x].shares - 1 ELSE node[x].shares
                          ELSE node[x].shares + 1
      <4>1. CASE x = e
        <5>1. e # None /\ e = o /\ Frame.extra = x BY <1>13, <2>0, <2>5, <4>1
        <5>2. x = Frame.param /\ node[x] \in Node /\ node[x].shares > 1 BY <1>14, <4>1, <5>1
        <5>3. node[x]' \in Node /\ node[x]'.home = node[x].home /\ node[x]'.shares = node[x].shares - 1
              /\ node[x]'.list = IF node[x]'.shares = 0 THEN node[x].home ELSE node[x].list
          BY <1>16, <4>1, <5>1
        <5>4. node[x].shares - 1 # 0 BY <5>2 DEF Node
        <5> QED BY <5>1, <5>2, <5>3, <5>4
      <4>2. CASE x # e
        <5>1. /\ h.node[x] \in Node /\ h.node[x].home = node[x].home /\ h.node[x].list = node[x].list
              /\ h.node[x].shares = IF x = Frame.param THEN node[x].shares - 1 ELSE node[x].shares
          BY <1>9, <2>0, <2>5
        <5>2. node[x]' = NodeWith(h.node[x].shares + 1, h.node[x].home, h.node[x].list)
          BY <1>8, <1>10, <2>0, <2>2, <2>5, <4>2 DEF HeapTypes
        <5>3. h.node[x].shares + 1 \in Nat /\ h.node[x].home \in Nat /\ h.node[x].list \in Nat BY <5>1 DEF Node
        <5>4. node[x]' \in Node BY <5>2, <5>3, NodeIsNode
        <5>5. node[x]'.shares = h.node[x].shares + 1 /\ node[x]'.home = node[x].home /\ node[x]'.list = node[x].list
          BY <5>1, <5>2 DEF NodeWith
        <5>6. node[x] \in Node BY <1>1, <2>0, <2>5 DEF TypeOK
        <5>7. node[x].shares \in Nat BY <5>6 DEF Node
        <5>8. node[x]'.shares = IF x = Frame.param THEN node[x].shares ELSE node[x].shares + 1
          BY <5>1, <5>5, <5>7
        <5>9. Frame.extra # x BY <1>13, <4>2
        <5> QED BY <5>4, <5>5, <5>8, <5>9
      <4> QED BY <4>1, <4>2
    <3>4. Has(Depth, 1, x) BY <1>1, <2>0, <2>5
    <3> QED BY <1>1, <1>4, <1>6, <2>5, <3>1, <3>2, <3>3, <3>4, IsCounted
  <2>6. CASE ~Doomed(x) /\ x # o /\ x = e
    <3>1. state[x]' = state[x] BY <1>8, <2>1, <2>6
    <3>2. x = Frame.param /\ Frame.extra = x BY <1>13, <1>14, <2>0, <2>6
    <3>3. PICK r \in Node : /\ r = node[x]' /\ r.home = node[x].home /\ r.shares = node[x].shares - 2
                            /\ r.list = IF r.shares = 0 THEN node[x].home ELSE node[x].list
      BY <1>16, <2>0, <2>6
    <3> QED BY <1>1, <1>4, <1>6, <1>11, <2>6, <3>1, <3>2, <3>3, ExtraEnds
  <2>7. CASE ~Doomed(x) /\ x # o /\ x # e
    <3>1. /\ state[x]' = state[x]
          /\ node[x]' = IF x = Frame.param THEN NodeWith(node[x].shares - 1, node[x].home, node[x].list)
                        ELSE node[x]
      BY <1>8, <2>1, <2>2, <2>3, <2>7
    <3>2. CASE node[x] = None
      <4>1. x # Frame.param BY <1>1, <3>2, ParamFacts
      <4> QED BY <1>1, <1>4, <1>6, <1>11, <2>0, <2>7, <3>1, <3>2, <4>1, WithoutNode
    <3>3. CASE node[x] # None
      <4>1. Frame.extra # x BY <1>13, <2>7
      <4> QED BY <1>1, <1>4, <1>6, <1>11, <2>0, <2>7, <3>1, <3>3, <4>1, StaysAfterReturn
    <3> QED BY <3>2, <3>3
  <2> QED BY <2>4, <2>5, <2>6, <2>7
<1> QED BY <1>4, <1>18, <1>19 DEF IInv, Ends, FramesStep, FrameTypes

LEMMA ReturnStep ==
  ASSUME IInv, NEW o \in Object \cup {None}, Return(o)
  PROVE  IInv'
BY ReturnToScriptStep, ReturnToHostStep
-----------------------------------------------------------------------------
(* The theorems.                                                           *)

LEMMA Initial == Init => IInv
<1> SUFFICES ASSUME Init PROVE IInv OBVIOUS
<1>1. Depth = 0 /\ MaxFrames \in Nat BY BoundsAssumption DEF Init, Depth
<1>2. TypeOK BY DEF Init, TypeOK
<1>3. FramesShaped BY <1>1 DEF FramesShaped
<1>4. ASSUME NEW x \in Object PROVE Fits(x)
  <2>1. state[x] = "new" /\ node[x] = None /\ stray[x] = 0 BY DEF Init
  <2>2. GlobalsOf(x) = {} BY ObjectAssumption DEF Init, GlobalsOf
  <2>3. /\ ParamsOf(x) = {} /\ ExtrasOf(x) = {} /\ EntriesOf(x) = {} /\ \A i, j \in Nat : ~Has(i, j, x)
    BY <1>1 DEF Init, ParamsOf, ExtrasOf, EntriesOf, Has
  <2> QED BY <2>1, <2>2, <2>3 DEF Fits, Known, Counts, Listed, Reached, Extra
<1> QED BY <1>2, <1>3, <1>4 DEF IInv

LEMMA StutterStep == ASSUME IInv, UNCHANGED vars PROVE IInv'
<1>1. FrameTypes /\ TypeOK /\ (\A x \in Object : Fits(x)) BY Typed DEF IInv
<1>2. /\ state' = state /\ node' = node /\ global' = global /\ frames' = frames
      /\ entries' = entries /\ failed' = failed /\ stray' = stray
  BY DEF vars
<1>3. Depth' = Depth /\ Blocks' = Blocks BY <1>2 DEF Depth, Blocks
<1>4. TypeOK' /\ FramesShaped' BY <1>1, <1>2, <1>3 DEF TypeOK, FrameTypes, FramesShaped
<1>5. \A x : /\ GlobalsOf(x)' = GlobalsOf(x) /\ ParamsOf(x)' = ParamsOf(x) /\ ExtrasOf(x)' = ExtrasOf(x)
             /\ SameEntries(x)
  BY <1>2, <1>3, UnchangedEntries DEF GlobalsOf, ParamsOf, ExtrasOf
<1>6. \A x, i, j : Has(i, j, x)' => Has(i, j, x) BY <1>2, <1>3 DEF Has
<1>7. FramesStep
  <2>1. \A i \in 1 .. Depth : Same(i) BY <1>1, <1>2, DepthNat DEF Same
  <2>2. PICK n \in Nat : n = Depth BY <1>1, DepthNat
  <2>3. FrameTypes' BY <1>4 DEF TypeOK, FrameTypes
  <2> QED BY <1>1, <1>2, <1>3, <2>1, <2>2, <2>3 DEF FramesStep, Keep
<1>8. ASSUME NEW x \in Object PROVE Fits(x)'
  <2>1. node[x] # None /\ node[x].shares = 0 => node[x].list \in Blocks' BY <1>1, <1>3 DEF Fits, Listed
  <2> QED BY <1>1, <1>2, <1>5, <1>6, <1>7, <2>1, Untouched
<1> QED BY <1>4, <1>8 DEF IInv

LEMMA Inductive == KeepsRules /\ IInv /\ [Next]_vars => IInv'
<1> SUFFICES ASSUME KeepsRules, IInv, [Next]_vars PROVE IInv' OBVIOUS
<1>1. ASSUME NEW o \in Object, New(o) PROVE IInv' BY <1>1, NewStep
<1>2. ASSUME NEW o \in Object, Push(o) PROVE IInv' BY <1>2, PushStep
<1>3. ASSUME NEW o \in Object, UnrefLifetime(o) PROVE IInv' BY <1>3, UnrefLifetimeStep
<1>4. ASSUME NEW v \in Var, Store(v) PROVE IInv' BY <1>4, StoreStep
<1>5. ASSUME NEW v \in Var, Clear(v) PROVE IInv' BY <1>5, ClearStep
<1>6. ASSUME NEW o \in Object \cup {None}, Call(o) PROVE IInv' BY <1>6, CallStep
<1>7. ASSUME NEW o \in Object \cup {None}, CallNative(o) PROVE IInv' BY <1>7, CallNativeStep
<1>8. ASSUME NEW o \in Object \cup {None}, HostCall(o) PROVE IInv' BY <1>8, HostCallStep
<1>9. ASSUME NEW o \in Object \cup {None}, Return(o) PROVE IInv' BY <1>9, ReturnStep
<1>10. CASE NativeReturn BY <1>10, NativeReturnStep
<1>11. CASE Throw BY <1>11, ThrowStep
<1>12. ASSUME NEW o \in Object \cup {None}, CallFails(o) PROVE IInv' BY <1>12, CallFailsStep
<1>13. ASSUME NEW o \in Object \cup {None}, HostCallFails(o) PROVE IInv' BY <1>13, HostCallFailsStep
<1>14. CASE UNCHANGED vars BY <1>14, StutterStep
<1> QED BY <1>1, <1>2, <1>3, <1>4, <1>5, <1>6, <1>7, <1>8, <1>9, <1>10, <1>11, <1>12, <1>13, <1>14
    DEF Next

LEMMA Invariance == KeepsRules => (Spec => []IInv)
<1> SUFFICES ASSUME KeepsRules PROVE Spec => []IInv OBVIOUS
<1>1. IInv /\ [Next]_vars => IInv' BY Inductive
<1> QED BY <1>1, Initial, PTL DEF Spec

(* What variables, parameters, waiting operands, arguments of native       *)
(* functions and the host's entries stand for is alive, and                *)
(* vm_unref_lifetime_object never meets a node without a share: a place    *)
(* has a node, and what has a node or an entry is alive.                   *)
THEOREM PlacesAlive == KeepsRules => (Spec => []NothingDangles)
<1> SUFFICES ASSUME KeepsRules PROVE Spec => []NothingDangles OBVIOUS
<1>1. ASSUME IInv PROVE NothingDangles
  <2>1. FrameTypes /\ TypeOK /\ (\A x \in Object : Fits(x)) BY <1>1, Typed DEF IInv
  <2>2. Depth \in Nat /\ \A i \in 1 .. Depth : frames[i] \in AFrame BY <2>1, DepthNat
  <2>3. ASSUME NEW x \in Object,
               \/ node[x] # None \/ GlobalsOf(x) # {} \/ ParamsOf(x) # {} \/ EntriesOf(x) # {}
               \/ \E i, j \in Nat : Has(i, j, x)
        PROVE  x \in Live
    BY <2>1, <2>3 DEF Fits, Known, Reached, Live
  <2>4. Globals \subseteq Live
    <3> SUFFICES ASSUME NEW v \in Var, global[v] # None PROVE global[v] \in Live BY DEF Globals
    <3>1. PICK x \in Object : x = global[v] BY <2>1 DEF TypeOK
    <3>2. v \in GlobalsOf(x) BY <3>1 DEF GlobalsOf
    <3> QED BY <2>3, <3>1, <3>2
  <2>5. HeldByHost \subseteq Live
    <3> SUFFICES ASSUME NEW i \in 1 .. Len(entries) PROVE entries[i].object \in Live BY DEF HeldByHost
    <3>0. PICK R, es : R = [object : Object, counted : BOOLEAN] /\ es \in Seq(R) /\ es = entries BY <2>1 DEF TypeOK
    <3>1. PICK x \in Object : x = es[i].object
      <4>0. es \in Seq(R) /\ i \in 1 .. Len(es) BY <3>0
      <4>1. es[i] \in R BY <4>0
      <4> QED BY <3>0, <4>1
    <3>2. i \in EntriesOf(x) BY <3>0, <3>1 DEF EntriesOf
    <3> QED BY <2>3, <3>0, <3>1, <3>2
  <2>6. Waiting \subseteq Live
    <3> SUFFICES ASSUME NEW i \in 1 .. Depth, NEW j \in 1 .. Len(frames[i].operands)
                 PROVE  frames[i].operands[j] \in Live
      BY DEF Waiting
    <3>1. frames[i].operands \in Seq(Object) BY <2>2 DEF AFrame
    <3>2. PICK x \in Object : x = frames[i].operands[j] BY <3>1
    <3>3. Has(i, j, x) /\ i \in Nat /\ j \in Nat BY <2>2, <3>1, <3>2 DEF Has
    <3> QED BY <2>3, <3>2, <3>3
  <2>7. Parameters \subseteq Live
    <3> SUFFICES ASSUME NEW i \in 1 .. Depth, frames[i].param # None PROVE frames[i].param \in Live
      BY DEF Parameters
    <3>1. PICK x \in Object : x = frames[i].param BY <2>2 DEF AFrame
    <3>2. CASE frames[i].kind = "script"
      <4>1. i \in ParamsOf(x) BY <3>1, <3>2 DEF ParamsOf
      <4> QED BY <2>3, <3>1, <4>1
    <3>3. CASE frames[i].kind = "native"
      <4>1. Has(i, 0, x) /\ i \in Nat BY <2>2, <3>1, <3>3 DEF Has
      <4> QED BY <2>3, <3>1, <4>1
    <3> QED BY <2>2, <3>2, <3>3 DEF AFrame
  <2> QED BY <2>1, <2>4, <2>5, <2>6, <2>7 DEF NothingDangles, TypeOK
<1>2. Spec => []IInv BY Invariance
<1> QED BY <1>1, <1>2, PTL

(* The share count of every object with a node is the number of its        *)
(* variables, parameters, extra shares and entries, all of which count,    *)
(* and of the shares that errors left; one without a node has one entry    *)
(* and nothing else.                                                       *)
THEOREM SharesCounted == KeepsRules => (Spec => []SharesExact)
<1> SUFFICES ASSUME KeepsRules PROVE Spec => []SharesExact OBVIOUS
<1>1. ASSUME IInv PROVE SharesExact
  <2> SUFFICES ASSUME NEW o \in Live
               PROVE  IF node[o] = None THEN Shares(o) = 0 /\ Cardinality(EntriesOf(o)) = 1
                      ELSE node[o].shares = Shares(o) /\ \A i \in EntriesOf(o) : entries[i].counted
    BY DEF SharesExact
  <2>1. o \in Object /\ state[o] = "live" BY DEF Live
  <2>2. FrameTypes /\ Fits(o) BY <1>1, <2>1, Typed
  <2>3. CASE node[o] = None
    <3>1. /\ GlobalsOf(o) = {} /\ ParamsOf(o) = {} /\ CountedOf(o) = {}
          /\ Cardinality(EntriesOf(o)) = 1 /\ stray[o] = 0
      BY <2>1, <2>2, <2>3 DEF Fits, Counts
    <3>2. ExtrasOf(o) = {} BY <2>1, <2>2, <2>3, NoNode
    <3>3. Cardinality({}) = 0 BY FS_EmptySet
    <3>4. Shares(o) = 0 BY <3>1, <3>2, <3>3 DEF Shares
    <3> QED BY <2>3, <3>1, <3>4
  <2>4. CASE node[o] # None
    <3>1. node[o].shares = Shares(o) /\ CountedOf(o) = EntriesOf(o) BY <2>1, <2>2, <2>4 DEF Fits, Counts
    <3>2. \A i \in EntriesOf(o) : entries[i].counted BY <3>1 DEF CountedOf
    <3> QED BY <2>4, <3>1, <3>2
  <2> QED BY <2>3, <2>4
<1>2. Spec => []IInv BY Invariance
<1> QED BY <1>1, <1>2, PTL

(* Between calls nothing is alive but what a variable or the host has, and *)
(* the arguments whose share an error left (stray): without a call in      *)
(* progress no object waits in a block, so one with a node has a share, of *)
(* a variable, of an entry or a stray one.                                 *)
THEOREM NobodyForgotten == KeepsRules => (Spec => []NothingLeaks)
<1> SUFFICES ASSUME KeepsRules PROVE Spec => []NothingLeaks OBVIOUS
<1> DEFINE Left == {o \in Object : stray[o] > 0}
<1>1. ASSUME IInv, NothingDangles PROVE NothingLeaks
  <2> SUFFICES ASSUME Depth = 0 PROVE Live = Globals \cup HeldByHost \cup Left BY DEF NothingLeaks, Left
  <2>1. FrameTypes /\ TypeOK /\ (\A x \in Object : Fits(x)) BY <1>1, Typed DEF IInv
  <2>2. Globals \cup HeldByHost \subseteq Live BY <1>1 DEF NothingDangles
  <2>4. Left \subseteq Live BY <2>1 DEF Fits, Known, Live
  <2>3. ASSUME NEW x \in Live PROVE x \in Globals \cup HeldByHost \cup Left
    <3>1. x \in Object /\ state[x] = "live" /\ Fits(x) BY <2>1 DEF Live
    <3>2. Blocks = {} /\ ParamsOf(x) = {} /\ ExtrasOf(x) = {} BY DEF Blocks, ParamsOf, ExtrasOf
    <3>3. GlobalsOf(x) # {} \/ EntriesOf(x) # {} \/ stray[x] # 0
      <4>1. CASE node[x] = None
        <5>1. Cardinality(EntriesOf(x)) = 1 BY <3>1, <4>1 DEF Fits, Counts
        <5>2. EntriesOf(x) # {} BY <5>1, FS_EmptySet
        <5> QED BY <5>2
      <4>2. CASE node[x] # None
        <5>1. node[x].shares # 0 BY <3>1, <3>2, <4>2 DEF Fits, Listed
        <5> QED BY <2>1, <3>1, <3>2, <4>2, <5>1, NodeCounts
      <4> QED BY <4>1, <4>2
    <3>4. GlobalsOf(x) # {} => x \in Globals BY <3>1, ObjectAssumption DEF GlobalsOf, Globals
    <3>5. EntriesOf(x) # {} => x \in HeldByHost BY DEF EntriesOf, HeldByHost
    <3>6. stray[x] # 0 => x \in Left BY <2>1, <3>1 DEF TypeOK
    <3> QED BY <3>3, <3>4, <3>5, <3>6
  <2> QED BY <2>2, <2>3, <2>4
<1>2. Spec => []IInv BY Invariance
<1>3. Spec => []NothingDangles BY PlacesAlive
<1> QED BY <1>1, <1>2, <1>3, PTL
=============================================================================
