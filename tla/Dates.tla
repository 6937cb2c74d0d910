-------------------------------- MODULE Dates --------------------------------
(***************************************************************************)
(* Two DateTime objects of a script or of the host, the time spans between *)
(* them, and their printing and reading by a format.  A date is the        *)
(* calendar record (tm) of the C library.  Months and years are added to   *)
(* the record as it stands: only mktime, when dates are compared or        *)
(* subtracted or seconds are added, makes a date of the calendar of it.    *)
(*                                                                         *)
(* A moment is a day, counted from the first of January of year 1, and a   *)
(* second of that day; the C library is taken to work in UTC.              *)
(***************************************************************************)
EXTENDS Integers, Sequences, FiniteSets

CONSTANTS Inputs,    \* the arguments of constructors: <<year, month, day, hour, minute, second>>
          Now,       \* the moment at which the program runs
          Months,    \* numbers of months that are added
          Units,     \* pairs of a unit, in seconds, and how many are added
          Formats,   \* formats, as sequences of characters
          MaxOps,    \* bound on the operations of a session
          DateRules  \* the rules below that the session keeps to

ASSUME DateRulesAssumption == DateRules \subseteq {"day", "width", "clock", "settled", "half", "month"}
ASSUME FormatsAssumption ==
  \A format \in Formats : Len(format) > 0 /\ format[1] \in {"y", "M", "d", "H", "h", "m", "s", "t"}
ASSUME MaxOpsAssumption == MaxOps \in Nat

VARIABLES time,   \* the record of each date
          moved,  \* the dates whose months were added since mktime last saw them
          meant,  \* the moment each date should stand for
          told,   \* what the last operation answered, and what it should answer
          ops     \* operations so far

dateVars == <<time, moved, meant, told, ops>>

Date == {1, 2}
-----------------------------------------------------------------------------
(* mktime and localtime of the C library.                                  *)

DaysBeforeYear(y) == 365 * (y - 1) + ((y - 1) \div 4) - ((y - 1) \div 100) + ((y - 1) \div 400)

LeapDay(y) == DaysBeforeYear(y + 1) - DaysBeforeYear(y) - 365

DaysBeforeMonth(y, mon) ==
  <<0, 31, 59, 90, 120, 151, 181, 212, 243, 273, 304, 334>>[mon + 1]
    + IF mon > 1 THEN LeapDay(y) ELSE 0

DayNumber(year, mon, mday) ==
  LET y == year + (mon \div 12)
  IN DaysBeforeYear(y) + DaysBeforeMonth(y, mon % 12) + mday - 1

mktime(t) == <<DayNumber(t.year, t.mon, t.mday), 3600 * t.hour + 60 * t.min + t.sec>>

localtime(m) ==
  LET year == CHOOSE y \in (m[1] \div 366) .. ((m[1] \div 365) + 1) :
                DaysBeforeYear(y) <= m[1] /\ m[1] < DaysBeforeYear(y + 1)
      mon == CHOOSE n \in 0 .. 11 : /\ DayNumber(year, n, 1) <= m[1]
                                    /\ m[1] < DayNumber(year, n + 1, 1)
  IN [year |-> year, mon |-> mon, mday |-> m[1] - DayNumber(year, mon, 1) + 1,
      hour |-> m[2] \div 3600, min |-> (m[2] % 3600) \div 60, sec |-> m[2] % 60,
      wday |-> (m[1] + 1) % 7, yday |-> m[1] - DaysBeforeYear(year)]

Earlier(m, n) == m[1] < n[1] \/ (m[1] = n[1] /\ m[2] < n[2])
-----------------------------------------------------------------------------
(* The constructor.  A period is "AM", "PM" or "undefined".                *)

IsLeapYear(y) == (y % 4 = 0 /\ y % 100 # 0) \/ y % 400 = 0

Accepts(f, period) ==
  /\ f[2] \in 1 .. 12
  /\ f[3] >= 1
  /\ f[2] \in {1, 3, 5, 7, 8, 10, 12} => f[3] <= 31
  /\ f[2] \in {4, 6, 9, 11} => f[3] <= 30
  /\ f[2] = 2 => f[3] <= (IF IsLeapYear(f[1]) THEN 29 ELSE 28)
  /\ f[4] \in (IF period = "undefined" THEN 0 .. 23 ELSE 1 .. 12)
  /\ f[5] \in 0 .. 59
  /\ f[6] \in 0 .. 59

Hour24(hour, period) ==
  IF hour = 12 /\ period = "AM" THEN 0
  ELSE IF period = "PM" /\ hour < 12 THEN hour + 12
  ELSE hour

Built(f, period) ==
  localtime(mktime([year |-> f[1], mon |-> f[2] - 1, mday |-> f[3],
                    hour |-> Hour24(f[4], period), min |-> f[5], sec |-> f[6]]))

(* The calendar has the date and the clock the time.                       *)
Exists(f) ==
  /\ f[2] \in 1 .. 12
  /\ f[3] \in 1 .. (DayNumber(f[1], f[2], 1) - DayNumber(f[1], f[2] - 1, 1))
  /\ f[4] \in 0 .. 23 /\ f[5] \in 0 .. 59 /\ f[6] \in 0 .. 59

MomentOf(f) == <<DayNumber(f[1], f[2] - 1, f[3]), 3600 * f[4] + 60 * f[5] + f[6]>>
-----------------------------------------------------------------------------
(* Adding to a date.                                                       *)

Truncated(n, d) == IF n >= 0 THEN n \div d ELSE -((-n) \div d)
Remainder(n, d) == n - d * Truncated(n, d)

(* What a wrong addMonths gets: the year after December is not counted.    *)
MonthsAddedInYear(t, n) ==
  LET mon == t.mon + Remainder(n, 12)
  IN [t EXCEPT !.mon = IF mon > 11 THEN mon - 12 ELSE mon,
               !.year = @ + Truncated(n, 12)]

MonthsAdded(t, n) ==
  LET mon == t.mon + Remainder(n, 12)
  IN IF mon > 11
       THEN [t EXCEPT !.mon = mon - 12, !.year = @ + Truncated(n, 12) + 1]
       ELSE [t EXCEPT !.mon = mon, !.year = @ + Truncated(n, 12)]

YearsAdded(t, n) == [t EXCEPT !.year = @ + n]

(* n * unit in an int of 32 bits, for the units 86400 = 128 * 675,         *)
(* 3600 = 16 * 225, 60 = 4 * 15 and 1.                                     *)
Power(unit) == IF unit = 86400 THEN 128 ELSE IF unit = 3600 THEN 16 ELSE IF unit = 60 THEN 4 ELSE 1

InSeconds(unit, n) ==
  IF unit = 1 THEN n
  ELSE LET half == (2 ^ 30 \div Power(unit)) * 2
           low == ((unit \div Power(unit)) * n) % half
           high == (((unit \div Power(unit)) * n) \div half) % 2
       IN (IF high = 1 THEN low - half ELSE low) * Power(unit)

Later(m, s) ==
  LET sum == m[2] + (s % 86400)
  IN <<m[1] + (s \div 86400) + (sum \div 86400), sum % 86400>>

SecondsAdded(t, s) == localtime(Later(mktime(t), s))

(* n units later, without bound.                                           *)
UnitsLater(m, unit, n) ==
  LET day == 86400 \div unit IN Later(<<m[1] + (n \div day), m[2]>>, (n % day) * unit)

SameDay(m, n) ==
  LET c == localtime(m) IN <<DayNumber(c.year, c.mon + n, c.mday), m[2]>>

HasDay(m, n) ==
  LET c == localtime(m)
  IN c.mday <= DayNumber(c.year, c.mon + n + 1, 1) - DayNumber(c.year, c.mon + n, 1)
-----------------------------------------------------------------------------
(* Time spans.                                                             *)

Span(days, hours, minutes, seconds) ==
  [days |-> days, hours |-> hours, minutes |-> minutes, seconds |-> seconds]

SpanFits(s) == s.hours \in -23 .. 23 /\ s.minutes \in -59 .. 59 /\ s.seconds \in -59 .. 59

TotalHours(s) == s.days * 24 + s.hours
TotalMinutes(s) == s.days * 24 * 60 + s.hours * 60 + s.minutes
TotalSeconds(s) == s.days * 86400 + s.hours * 3600 + s.minutes * 60 + s.seconds

SpanLess(s, u) ==
  \/ s.days < u.days
  \/ s.days = u.days /\ s.hours < u.hours
  \/ s.days = u.days /\ s.hours = u.hours /\ s.minutes < u.minutes
  \/ s.days = u.days /\ s.hours = u.hours /\ s.minutes = u.minutes /\ s.seconds < u.seconds

DayDifference(m, n) ==
  LET days == m[1] - n[1]
  IN IF days > 0 /\ m[2] < n[2] THEN days - 1
     ELSE IF days < 0 /\ m[2] > n[2] THEN days + 1
     ELSE days

(* What a wrong difference gets: nothing is borrowed for an earlier date.  *)
DifferenceUnborrowed(t, u) ==
  Span(DayDifference(mktime(t), mktime(u)), t.hour - u.hour,
       (IF t.sec > u.sec THEN 1 ELSE 0) + t.min - u.min, t.sec - u.sec)

Difference(t, u) ==
  LET days == DayDifference(mktime(t), mktime(u))
      borrow(a, b, range) == IF a > b THEN a - b - range ELSE a - b
      carry(a, b) == IF a > b THEN 1 ELSE 0
  IN IF ~Earlier(mktime(t), mktime(u))
       THEN Span(days, t.hour - u.hour, t.min - u.min, t.sec - u.sec)
       ELSE Span(days,
                 carry(t.min, u.min) + borrow(t.hour, u.hour, 24),
                 carry(t.sec, u.sec) + borrow(t.min, u.min, 60),
                 borrow(t.sec, u.sec, 60))
-----------------------------------------------------------------------------
(* Printing and reading by a format.  A run of one letter in the format is *)
(* the place of one unit; other characters are printed as they are.        *)

Letters == {"y", "M", "d", "H", "h", "m", "s", "t"}
LowerCase(c) == IF c = "M" THEN "m" ELSE IF c = "H" THEN "h" ELSE c
Digit == <<"0", "1", "2", "3", "4", "5", "6", "7", "8", "9">>
End(s) == s[Len(s)]

RECURSIVE Digits(_, _)
Digits(n, width) ==
  IF n < 10 /\ width <= 1 THEN <<Digit[n + 1]>>
  ELSE Digits(n \div 10, width - 1) \o <<Digit[(n % 10) + 1]>>

Hour12(t) == IF t.hour = 0 THEN 12 ELSE IF t.hour > 12 THEN t.hour - 12 ELSE t.hour

Shown(t, word) ==
  LET width == Len(word)
  IN CASE word = <<"y", "y", "y", "y">> -> Digits(t.year, 4)
       [] word = <<"y", "y">> -> Digits(t.year % 100, 2)
       [] word[1] = "M" /\ width <= 2 -> Digits(t.mon + 1, width)
       [] word[1] = "d" /\ width <= 2 -> Digits(t.mday, width)
       [] word[1] = "H" /\ width <= 2 -> Digits(t.hour, width)
       [] word[1] = "h" /\ width <= 2 -> Digits(Hour12(t), width)
       [] word[1] = "m" /\ width <= 2 -> Digits(t.min, width)
       [] word[1] = "s" /\ width <= 2 -> Digits(t.sec, width)
       [] word = <<"t", "t">> -> IF t.hour >= 12 THEN <<"P", "M">> ELSE <<"A", "M">>
       [] OTHER -> <<>>

(* The walk over the format, from character i with the run so far.         *)
RECURSIVE PrintedFrom(_, _, _, _)
PrintedFrom(t, format, i, run) ==
  IF i > Len(format) THEN <<>>
  ELSE LET c == LowerCase(format[i])
           letter == c \in Letters
           word == IF letter /\ (run = <<>> \/ c = End(run)) THEN Append(run, c) ELSE run
           ends == word # <<>> /\ (c # End(word) \/ i = Len(format))
           rest == IF ends THEN <<>> ELSE word
       IN (IF ends THEN Shown(t, word) ELSE <<>>)
            \o (IF letter THEN <<>> ELSE <<c>>)
            \o PrintedFrom(t, format, i + 1, IF letter /\ rest = <<>> THEN <<c>> ELSE rest)

Printed(t, format) == PrintedFrom(t, format, 1, <<>>)

RECURSIVE NumberOf(_, _)
NumberOf(text, n) ==
  IF text = <<>> \/ ~\E k \in 1 .. 10 : Digit[k] = text[1] THEN n
  ELSE NumberOf(Tail(text), 10 * n + (CHOOSE k \in 1 .. 10 : Digit[k] = text[1]) - 1)

(* What is read so far: the fields of the constructor and the period.  The *)
(* text was printed by the same format, so its numbers are where they are  *)
(* looked for.                                                             *)
ReadUnit(read, word, text) ==
  LET field == CASE word = <<"y", "y", "y", "y">> -> 1 [] word = <<"M", "M">> -> 2
                 [] word = <<"d", "d">> -> 3 [] word \in {<<"H", "H">>, <<"h", "h">>} -> 4
                 [] word = <<"m", "m">> -> 5 [] word = <<"s", "s">> -> 6 [] OTHER -> 0
  IN [fields |-> IF field = 0 THEN read.fields ELSE [read.fields EXCEPT ![field] = NumberOf(text, 0)],
      period |-> IF word = <<"h", "h">> THEN "AM"
                 ELSE IF word = <<"t", "t">> THEN IF text[1] = "P" THEN "PM" ELSE "AM"
                 ELSE read.period]

RECURSIVE ReadFrom(_, _, _, _, _, _)
ReadFrom(read, text, format, i, run, first) ==
  IF i > Len(format) THEN read
  ELSE LET c == format[i]
           starts == c \in Letters /\ run = <<>>
           word == IF c \in Letters /\ (starts \/ c = End(run)) THEN Append(run, c) ELSE run
           place == IF starts THEN i ELSE first
           last == place + Len(word) - 1
           ends == c # End(word) \/ i = Len(format)
           next == IF ends /\ last <= Len(text)
                     THEN ReadUnit(read, word, SubSeq(text, place, last)) ELSE read
       IN IF ends THEN ReadFrom(next, text, format, i + 1, <<c>>, i)
                  ELSE ReadFrom(next, text, format, i + 1, word, place)

Parsed(text, format) ==
  ReadFrom([fields |-> <<1970, 1, 1, 0, 0, 0>>, period |-> "undefined"], text, format, 1, <<>>, 1)

HasWord(format, word) ==
  \E i \in 1 .. Len(format) - Len(word) + 1 : SubSeq(format, i, i + Len(word) - 1) = word

(* What a date is after it is printed and read: the units of the format.   *)
KeptUnits(m, format) ==
  LET c == localtime(m)
  IN <<IF HasWord(format, <<"y", "y", "y", "y">>) THEN c.year ELSE 1970, 1,
       IF HasWord(format, <<"d", "d">>) THEN c.mday ELSE 1,
       IF HasWord(format, <<"h", "h">>) THEN c.hour ELSE 0,
       IF HasWord(format, <<"m", "m">>) THEN c.min ELSE 0,
       IF HasWord(format, <<"s", "s">>) THEN c.sec ELSE 0>>

(* "month": the format has no upper case letters.  "half": the hour of a   *)
(* half day comes before the half.                                         *)
KeepsMonth(format) == \A i \in 1 .. Len(format) : format[i] \notin {"M", "H"}

KeepsHalf(format) ==
  \A i \in 1 .. Len(format) - 1 : SubSeq(format, i, i + 1) = <<"h", "h">> =>
    \E j \in i + 2 .. Len(format) - 1 : SubSeq(format, j, j + 1) = <<"t", "t">>
(* What a script or the host reads of a date.                              *)
Getters(t) ==
  [year |-> t.year, month |-> t.mon + 1, day |-> t.mday, hour |-> t.hour, minute |-> t.min,
   second |-> t.sec, week_day |-> t.wday, month_day |-> t.mday, year_day |-> t.yday]
-----------------------------------------------------------------------------
DatesInit ==
  /\ time = [d \in Date |-> localtime(Now)]
  /\ moved = {}
  /\ meant = [d \in Date |-> Now]
  /\ told = <<"nothing">>
  /\ ops = 0

Count == ops < MaxOps /\ ops' = ops + 1

Construct(d, f) ==
  /\ Count
  /\ told' = <<"new", Accepts(f, "undefined"), f>>
  /\ IF Accepts(f, "undefined")
       THEN /\ time' = [time EXCEPT ![d] = Built(f, "undefined")]
            /\ moved' = moved \ {d}
            /\ meant' = [meant EXCEPT ![d] = IF Exists(f) THEN MomentOf(f) ELSE @]
       ELSE UNCHANGED <<time, moved, meant>>

setUtc(d) ==
  /\ Count
  /\ time' = [time EXCEPT ![d] = localtime(Now)]
  /\ moved' = moved \ {d}
  /\ meant' = [meant EXCEPT ![d] = Now]
  /\ told' = <<"nothing">>

Copy(d) ==
  /\ Count
  /\ time' = [time EXCEPT ![d] = time[3 - d]]
  /\ moved' = IF 3 - d \in moved THEN moved \cup {d} ELSE moved \ {d}
  /\ meant' = [meant EXCEPT ![d] = meant[3 - d]]
  /\ told' = <<"nothing">>

addMonths(d, n) ==
  /\ Count
  /\ "day" \in DateRules => HasDay(meant[d], n)
  /\ time' = [time EXCEPT ![d] = MonthsAdded(@, n)]
  /\ moved' = moved \cup {d}
  /\ meant' = [meant EXCEPT ![d] = SameDay(@, n)]
  /\ told' = <<"nothing">>

addYears(d, n) ==
  /\ Count
  /\ "day" \in DateRules => HasDay(meant[d], 12 * n)
  /\ time' = [time EXCEPT ![d] = YearsAdded(@, n)]
  /\ moved' = moved \cup {d}
  /\ meant' = [meant EXCEPT ![d] = SameDay(@, 12 * n)]
  /\ told' = <<"nothing">>

addUnits(d, unit, n) ==
  /\ Count
  /\ "width" \in DateRules => n \in -(2147483647 \div unit) .. (2147483647 \div unit)
  /\ time' = [time EXCEPT ![d] = SecondsAdded(@, InSeconds(unit, n))]
  /\ moved' = moved \ {d}
  /\ meant' = [meant EXCEPT ![d] = UnitsLater(@, unit, n)]
  /\ told' = <<"nothing">>

(* mktime makes dates of the calendar of the two records.                  *)
Settle ==
  /\ time' = [d \in Date |-> localtime(mktime(time[d]))]
  /\ moved' = {}
  /\ UNCHANGED meant

Compare ==
  /\ Count
  /\ Settle
  /\ told' = <<"less", Earlier(mktime(time[1]), mktime(time[2])), Earlier(meant[1], meant[2])>>

(* "clock": the clock of the later date shows no earlier time.  The second *)
(* part of the answer is the difference of the moments.                    *)
Subtract(d) ==
  LET m == meant[d] n == meant[3 - d] IN
  /\ Count
  /\ m[1] - n[1] \in -10000 .. 10000
  /\ "clock" \in DateRules => IF Earlier(m, n) THEN m[2] <= n[2] ELSE n[2] <= m[2]
  /\ Settle
  /\ LET s == Difference(time'[d], time'[3 - d])
     IN told' = IF SpanFits(s) THEN <<"span", s, 86400 * (m[1] - n[1]) + m[2] - n[2]>>
                ELSE <<"refused">>

(* "settled": mktime saw the date since its months were added.             *)
PrintAndRead(d, format) ==
  LET read == Parsed(Printed(time[d], format), format)
      kept == KeptUnits(meant[d], format)
  IN /\ Count
     /\ "settled" \in DateRules => d \notin moved
     /\ "month" \in DateRules => KeepsMonth(format)
     /\ "half" \in DateRules => KeepsHalf(format)
     /\ told' = <<"new", Accepts(read.fields, read.period), kept>>
     /\ IF Accepts(read.fields, read.period)
          THEN /\ time' = [time EXCEPT ![3 - d] = Built(read.fields, read.period)]
               /\ meant' = [meant EXCEPT ![3 - d] = MomentOf(kept)]
               /\ moved' = moved \ {3 - d}
          ELSE UNCHANGED <<time, moved, meant>>

DatesNext ==
  \E d \in Date :
    \/ \E f \in Inputs : Construct(d, f)
    \/ setUtc(d)
    \/ Copy(d)
    \/ \E n \in Months : addMonths(d, n) \/ addYears(d, n)
    \/ \E u \in Units : addUnits(d, u[1], u[2])
    \/ Compare
    \/ Subtract(d)
    \/ \E format \in Formats : PrintAndRead(d, format)

DatesSpec == DatesInit /\ [][DatesNext]_dateVars
-----------------------------------------------------------------------------
(* Each date stands for the moment the operations add up to, whenever      *)
(* mktime happened to see it (DateTime.cpp addMonths, addYears,            *)
(* addSeconds); once it did, each unit that is shown is that moment's, and *)
(* a constructor accepts exactly the dates of the calendar.                *)
DatesAreMeant ==
  /\ \A d \in Date : mktime(time[d]) = meant[d]
  /\ \A d \in Date \ moved : Getters(time[d]) = Getters(localtime(meant[d]))
  /\ told[1] = "new" => (told[2] <=> Exists(told[3]))

(* A difference of two dates is as long as the time between them, in each  *)
(* of its totals, and a comparison answers which date is earlier           *)
(* (DateTime.cpp operator- and operator<, TimeSpan.cpp).                   *)
DifferencesAreMeant ==
  /\ told[1] = "less" => told[2] = told[3]
  /\ told[1] = "span" =>
       LET s == told[2]
       IN /\ TotalSeconds(s) = told[3]
          /\ 60 * TotalMinutes(s) + s.seconds = told[3]
          /\ 3600 * TotalHours(s) + 60 * s.minutes + s.seconds = told[3]
          /\ SpanLess(s, Span(0, 0, 0, 0)) <=> told[3] < 0
  /\ told[1] # "refused"
==============================================================================
