------------------------------ MODULE MCQuery ------------------------------
(***************************************************************************)
(* Instances of Query for TLC: users who type words, users who type dates, *)
(* and users who find nothing.                                             *)
(***************************************************************************)
EXTENDS Query, TLC

\* The days about the ends of years, of weeks and of February, in which all of the values
\* below begin and end.
From(y, m, d, n) == Ordinal(y, m, d)..Ordinal(y, m, d) + n - 1
BoundaryDays ==
  From(2023, 12, 24, 16) \cup From(2024, 2, 19, 15) \cup From(2024, 3, 31, 2)
    \cup From(2024, 12, 22, 16)

\* "abc" has two bigrams, which a text may have without it ("ab bc"); "x" has none.
TermGrams == ("ab" :> {"ab"}) @@ ("abc" :> {"ab", "bc"}) @@ ("x" :> {})

Plainest == [has |-> {}, held |-> {}, folders |-> {"f"}, file |-> "a", size |-> 1024,
             attached |-> "no", date |-> Start(Ordinal(2024, 1, 1))]

Year(y)        == [form |-> "year", year |-> y]
MonthOf(y, m)  == [form |-> "month", year |-> y, month |-> m]
Day(y, m, d)   == [form |-> "day", year |-> y, month |-> m, day |-> d]
Ago(n, u)      == [form |-> "ago", n |-> n, unit |-> u]
Name(x)        == [form |-> "named", name |-> x]
To(a, b)       == [form |-> "range", from |-> a, to |-> b]
NoForm         == [form |-> "other"]
Size(o, n, u)  == [form |-> "size", op |-> o, num |-> n, unit |-> u]

\* Words: every text there can be, in two folders and on two days.
AllMails ==
  {[Plainest EXCEPT !.has = t[1], !.held = t[2], !.folders = {p[1]}, !.date = Start(p[2])] :
     t \in {u \in (SUBSET {"ab", "abc", "x"}) \X (SUBSET {"ab", "bc"}) :
              /\ \A w \in u[1] : TermGrams[w] \subseteq u[2]
              /\ "abc" \in u[1] => "ab" \in u[1]
              /\ "ab" \in u[2] <=> "ab" \in u[1]},
     p \in {<<"f", Ordinal(2023, 12, 31)>>, <<"g", Ordinal(2024, 1, 1)>>}}
WordTokens ==
  {Word(t, dash) : t \in DOMAIN TermGrams, dash \in BOOLEAN}
    \cup {Operator(o) : o \in {"and", "or", "not"}} \cup {Folder("f"), Folder("g")}
    \cup {Filter("date", Day(2023, 12, 31)), Filter("date", NoForm)}
Words(n) == [tokens |-> WordTokens, length |-> n, table |-> AllMails,
             now |-> Start(Ordinal(2025, 1, 1))]

\* Dates: each value in each of the three conditions, a mail in each half of each day.
Values ==
  {Year(2023), Year(2024), Year(9999), MonthOf(2024, 2), MonthOf(2024, 12), MonthOf(2023, 13),
   Day(2024, 2, 29), Day(2024, 12, 31), Day(2023, 2, 29), NoForm,
   Ago(3, "d"), Ago(1, "m"), Ago(1, "y"), Ago(9999, "y")}
    \cup {Name(x) : x \in {"today", "yesterday", "thisweek", "lastweek", "thismonth", "thisyear"}}
Ranges ==
  {To(Day(2023, 12, 31), Day(2024, 2, 29)), To(MonthOf(2023, 12), MonthOf(2024, 2)),
   To(Year(2023), Day(2024, 1, 1)), To(Year(2024), Year(2024)), To(Name("yesterday"), Name("today")),
   To(Day(2024, 1, 1), NoForm), To(Day(2024, 12, 31), Day(2024, 1, 1)), To(Ago(3, "d"), Ago(1, "d")),
   To(Year(2024), MonthOf(2024, 13))}
Nows ==
  {Start(Ordinal(2023, 12, 31)), Start(Ordinal(2024, 2, 29)) + 1,
   Start(Ordinal(2024, 12, 30)), Start(Ordinal(2025, 1, 1)) + 1}
AMailAHalfDay == {[Plainest EXCEPT !.date = Start(n) + h] : n \in BoundaryDays, h \in {0, 1}}
DatesOf(v, t) ==
  [tokens |-> {Filter("date", v), Filter("after", v), Filter("before", v)}, length |-> 2,
   table |-> AMailAHalfDay, now |-> t]

\* Nothing: many conditions, and a mail or two that meet some of them.
FewTokens ==
  {Word("abc", FALSE), Word("ab", TRUE), Folder("g"), Operator("not"),
   Filter("after", Day(2024, 1, 1)), Filter("before", MonthOf(2024, 2)),
   Filter("hasattachment", [form |-> "yes"]), Filter("hasattachment", NoForm),
   Filter("size", Size(">", 1, "kb")), Filter("size", Size("", 1024, "")),
   Filter("size", [form |-> "dots"]), Filter("size", NoForm),
   Filter("file", [form |-> "file", file |-> "b"])}
FewTables ==
  {{}, {Plainest},
   {[Plainest EXCEPT !.held = {"ab", "bc"}, !.has = {"ab"}, !.size = 1025],
    [Plainest EXCEPT !.folders = {"g"}, !.attached = "yes", !.date = Start(Ordinal(2023, 12, 31))]},
   {[Plainest EXCEPT !.date = Start(Ordinal(2024, 2, 20)), !.file = "b"]}}
Nothing(t) == [tokens |-> FewTokens, length |-> 3, table |-> t, now |-> Start(Ordinal(2025, 1, 1))]

SessionSet ==
  {[name |-> "words"]} \cup {[name |-> "nothing", table |-> t] : t \in FewTables}
    \cup {[name |-> "dates", value |-> v, now |-> t] : v \in Values \cup Ranges, t \in Nows}
Session(s) == CASE s.name = "words"   -> Words(5)
                [] s.name = "dates"   -> DatesOf(s.value, s.now)
                [] s.name = "nothing" -> Nothing(s.table)

TokensIn == [s \in SessionSet |-> Session(s).tokens]
LengthIn == [s \in SessionSet |-> Session(s).length]
TableIn  == [s \in SessionSet |-> Session(s).table]
NowIn    == [s \in SessionSet |-> Session(s).now]
=============================================================================
