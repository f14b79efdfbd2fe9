-------------------------------- MODULE Dates --------------------------------
(***************************************************************************)
(* The values of the date and size conditions of a query: parse_date_range *)
(* and parse_size_filter of search.py, and what README.md and USAGE.md say *)
(* such a value means.                                                     *)
(*                                                                         *)
(* A value is a record of its form, as the regular expressions tell them   *)
(* apart; the Korean names are the English ones.  A moment is counted in   *)
(* DayLength parts of a day, the code's are seconds; days are numbered as  *)
(* by date.toordinal, day 1 being Monday, 1 January of year 1.             *)
(***************************************************************************)
EXTENDS Integers

CONSTANTS
  DayLength,  \* the moments of a day, 86400 in the code
  Days        \* the days the meaning of a value is looked up in

-----------------------------------------------------------------------------
(* datetime *)

IsLeap(y)    == y % 4 = 0 /\ (y % 100 # 0 \/ y % 400 = 0)
MonthLength(y, m) ==
  IF m = 2 THEN IF IsLeap(y) THEN 29 ELSE 28
           ELSE IF m \in {4, 6, 9, 11} THEN 30 ELSE 31

\* The days of a year before a month of it.
DaysBefore(y, m) ==
  (367 * m - 362) \div 12 - (IF m <= 2 THEN 0 ELSE IF IsLeap(y) THEN 1 ELSE 2)

\* datetime(y, m, d) raises ValueError for a date that does not exist.
Exists(y, m, d) == y \in 1..9999 /\ m \in 1..12 /\ d \in 1..MonthLength(y, m)
Ordinal(y, m, d) ==
  365 * (y - 1) + (y - 1) \div 4 - (y - 1) \div 100 + (y - 1) \div 400 + DaysBefore(y, m) + d

\* The date of a day: its year is one of the two that 366 days a year leave.
Civil(n) ==
  LET y == CHOOSE k \in (n - 1) \div 366 + 1..(n - 1) \div 365 + 1 :
             Ordinal(k, 1, 1) <= n /\ n < Ordinal(k + 1, 1, 1)
      m == CHOOSE k \in 1..12 :
             Ordinal(y, k, 1) <= n /\ n < Ordinal(y, k, 1) + MonthLength(y, k)
  IN [year |-> y, month |-> m, day |-> n - Ordinal(y, m, 1) + 1]

\* Nothing is said of the year 9999, the end of which is not a date any more.
ASSUME DatesAssumption ==
  DayLength \in Nat \ {0} /\ Days \subseteq 1..Ordinal(9999, 1, 1) - 1

DayOf(t)   == t \div DayLength
Start(n)   == n * DayLength
Weekday(n) == (n + 6) % 7

-----------------------------------------------------------------------------
(* parse_date_range *)

\* What the regular expressions and the tables of names let through.
DayNames == {"today", "yesterday", "thisweek", "lastweek", "thismonth", "thisyear"}
IsDate(v) == /\ v.form = "ago"   => v.n \in Nat /\ v.unit \in {"d", "m", "y"}
             /\ v.form = "named" => v.name \in DayNames

\* A side of the half-open interval that is None; no moment of ours is.
None == -1

Interval(a, b) == [raises |-> FALSE, after |-> a, before |-> b]
Raises         == [raises |-> TRUE, after |-> None, before |-> None]
NotADate       == Interval(None, None)

\* From the start of a date to that of another.
Between(y1, m1, y2, m2) ==
  IF Exists(y1, m1, 1) /\ Exists(y2, m2, 1)
  THEN Interval(Start(Ordinal(y1, m1, 1)), Start(Ordinal(y2, m2, 1)))
  ELSE Raises

Month(y, m) == IF m = 12 THEN Between(y, m, y + 1, 1) ELSE Between(y, m, y, m + 1)

DaysLong(n, unit) ==
  CASE unit = "d" -> n [] unit = "m" -> n * 30 [] unit = "y" -> n * 365

Named(name, now) ==
  LET today  == DayOf(now)
      monday == today - Weekday(today)
      date   == Civil(today)
  IN CASE name = "today"     -> Interval(Start(today), Start(today + 1))
       [] name = "yesterday" -> Interval(Start(today - 1), Start(today))
       [] name = "thisweek"  -> Interval(Start(monday), Start(monday + 7))
       [] name = "lastweek"  -> Interval(Start(monday - 7), Start(monday))
       [] name = "thismonth" -> Month(date.year, date.month)
       [] name = "thisyear"  -> Between(date.year, 1, date.year + 1, 1)

Simple(v, now) ==
  CASE v.form = "ago"   -> IF DaysLong(v.n, v.unit) < DayOf(now)
                           THEN Interval(now - DayLength * DaysLong(v.n, v.unit), None)
                           ELSE Raises
    [] v.form = "named" -> Named(v.name, now)
    [] v.form = "year"  -> Between(v.year, 1, v.year + 1, 1)
    [] v.form = "month" -> Month(v.year, v.month)
    [] v.form = "day"   -> IF Exists(v.year, v.month, v.day)
                           THEN LET s == Start(Ordinal(v.year, v.month, v.day))
                                IN Interval(s, s + DayLength)
                           ELSE Raises
    [] OTHER            -> NotADate

\* Of a range the end is the end of what its second part names, or the start of it if it
\* has none.  Mutation: the start in any case.
RangeToStart(v, now) ==
  LET a == Simple(v.from, now)
      b == Simple(v.to, now)
  IN IF a.raises \/ b.raises THEN Raises ELSE Interval(a.after, b.after)
DateRange(v, now) ==
  LET a == Simple(v.from, now)
      b == Simple(v.to, now)
  IN IF a.raises \/ b.raises THEN Raises
     ELSE Interval(a.after, IF b.before # None THEN b.before ELSE b.after)

ParseDateRange(v, now) == IF v.form = "range" THEN DateRange(v, now) ELSE Simple(v, now)

-----------------------------------------------------------------------------
(* parse_size_filter of a whole number; the operator and the unit may be missing *)

IsSize(v) == /\ v.op \in {"", ">", ">=", "<", "<="} /\ v.num \in Nat
             /\ v.unit \in {"", "b", "kb", "mb", "gb"}

SizeUnits == [b |-> 1, kb |-> 1024, mb |-> 1024 * 1024, gb |-> 1024 * 1024 * 1024]
ParseSize(v) ==
  [op |-> IF v.op = "" THEN ">=" ELSE v.op,
   bytes |-> v.num * SizeUnits[IF v.unit = "" THEN "b" ELSE v.unit]]

SizePasses(bytes, size) ==
  CASE size.op = ">"  -> bytes > size.bytes
    [] size.op = ">=" -> bytes >= size.bytes
    [] size.op = "<"  -> bytes < size.bytes
    [] size.op = "<=" -> bytes <= size.bytes

-----------------------------------------------------------------------------
(* What the documentation says of a date value, day by day (USAGE.md:281-291) *)

Week(n)  == (n - 1) \div 7
Calendar == [n \in Days |-> Civil(n)]

NamesDay(v, n, now) ==
  LET date  == Calendar[n]
      today == DayOf(now)
      other == Calendar[today]
  IN CASE v.form = "year"  -> date.year = v.year
       [] v.form = "month" -> date.year = v.year /\ date.month = v.month
       [] v.form = "day"   -> date = [year |-> v.year, month |-> v.month, day |-> v.day]
       [] v.form = "named" ->
            CASE v.name = "today"     -> n = today
              [] v.name = "yesterday" -> n + 1 = today
              [] v.name = "thisweek"  -> Week(n) = Week(today)
              [] v.name = "lastweek"  -> Week(n) + 1 = Week(today)
              [] v.name = "thismonth" -> date.year = other.year /\ date.month = other.month
              [] v.name = "thisyear"  -> date.year = other.year
       [] OTHER            -> FALSE

\* Values of which the documentation says which days they are.
NamesDays(v) ==
  v.form \in {"year", "month", "day", "named"}
DaysNamed(v, now) == {n \in Days : NamesDay(v, n, now)}

\* A range reaches from the first day of its first part to the last of its second; a time
\* ago reaches to the end.
MeansMoment(v, t, now) ==
  CASE v.form = "ago"   -> t >= now - DayLength * DaysLong(v.n, v.unit)
    [] v.form = "range" -> /\ \E n \in DaysNamed(v.from, now) : n <= DayOf(t)
                           /\ \E n \in DaysNamed(v.to, now) : DayOf(t) <= n
    [] OTHER            -> DayOf(t) \in DaysNamed(v, now)

\* after: at a moment the value means, or later; before: earlier than all of them.
MeansAfter(v, t, now) ==
  IF v.form = "ago" THEN MeansMoment(v, t, now)
  ELSE \E n \in DaysNamed(v, now) : n <= DayOf(t)
MeansBefore(v, t, now) == ~MeansAfter(v, t, now)
=============================================================================
