-------------------------------- MODULE MCData --------------------------------
(* Sessions with dates, and texts of Json.                                  *)
EXTENDS Dates, JsonText

MCInputs == {<<2023, 12, 31, 23, 59, 58>>, <<2024, 2, 29, 0, 30, 0>>, <<2023, 2, 29, 0, 0, 0>>,
             <<2024, 1, 15, 24, 0, 0>>, <<2024, 1, 15, 13, 45, 7>>}
MCNow == <<739173, 43200>>   \* 15 October 2024, noon
MCMonths == {-13, -1, 1, 25}
MCUnits == {<<1, -3>>, <<60, 61>>, <<3600, -13>>, <<86400, 366>>, <<86400, 30000>>}
MCFormats == {<<"y", "y", "y", "y", "-", "d", "d", " ", "h", "h", ":", "m", "m", ":", "s", "s", " ", "t", "t">>,
              <<"d", "d", "h", "h", "m", "m", "t", "t">>,
              <<"M", "M", "/", "y", "y", "y", "y">>,
              <<"t", "t", "h", "h">>}

num(n) == <<"num", n>>
str(s) == <<"str", s>>
ref(o) == <<"ref", o>>
arr(items) == [kind |-> "arr", items |-> items]
obj(fields, properties) == [kind |-> "obj", fields |-> fields, properties |-> properties]

(* An object with a function and itself; shared and empty containers; a     *)
(* cycle below the root; a property beside a field; a value alone.          *)
MCGraphs ==
  {[root |-> ref(1),
    objects |-> <<obj(<<<<"a", num(1)>>, <<"f", <<"function">>>>, <<"b", ref(2)>>, <<"c", ref(1)>>>>, <<>>),
                  arr(<<str("x"), ref(3), <<"null">>>>),
                  obj(<<>>, <<<<"p", <<"bool", TRUE>>>>, <<"q", num(2)>>>>)>>],
   [root |-> ref(1), objects |-> <<arr(<<ref(2), ref(2)>>), arr(<<>>)>>],
   [root |-> ref(1), objects |-> <<arr(<<ref(2)>>), obj(<<<<"a", ref(2)>>>>, <<>>)>>],
   [root |-> ref(1), objects |-> <<obj(<<<<"a", num(1)>>>>, <<<<"p", num(2)>>>>)>>],
   [root |-> str("x"), objects |-> <<>>]}

(* A key that comes again, and a comma before the end.                      *)
MCDocuments ==
  {<<<<<<"{">>, str("a"), <<":">>, <<"[">>, str("x"), <<"]">>, <<",">>,
       str("a"), <<":">>, <<"[">>, num(1), <<",">>, <<"]">>, <<"}">>>>,
     <<"obj", {<<"a", <<"arr", <<<<"float", 1>>>>>>>>}>>>>}

NoJson ==
  /\ text = <<>> /\ intended = NoValue /\ damaged = FALSE /\ lays = 0 /\ phase = "none"
  /\ pos = 1 /\ want = "value" /\ open = <<>> /\ made = <<>> /\ live = {} /\ top = NoValue

NoDates ==
  /\ time = [d \in Date |-> localtime(Now)] /\ moved = Date
  /\ meant = [d \in Date |-> Now] /\ told = <<"nothing">> /\ ops = MaxOps
================================================================================
