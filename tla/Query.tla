-------------------------------- MODULE Query --------------------------------
(***************************************************************************)
(* A query of search.py: the loop of parse_query, one token a turn, what   *)
(* search makes of the clauses it leaves behind (the MATCH expression of   *)
(* build_match_expression over the bigrams, the WHERE of the settings, and *)
(* verify_candidate over the text itself), and the diagnosis of an answer  *)
(* without hits.                                                           *)
(*                                                                         *)
(* Abstractions.  A token is what the tokenizer and the alias table make   *)
(* of it: an operator, a term (a word, a phrase or field:word, each over   *)
(* its own column), a folder, or another condition, with its value as      *)
(* Dates has it.  A mail is known by the terms its text contains, by the   *)
(* bigrams of that text, and by the columns the conditions are about.      *)
(* What all this is compared with is the history `read`, the query as the  *)
(* user wrote it.                                                          *)
(***************************************************************************)
EXTENDS Dates, Sequences, FiniteSets

CONSTANTS
  Terms,
  Bigrams,
  Grams,        \* Grams[t]: the bigrams of term t; none if it is too short
  Sessions,     \* each a user who asks, with
  TokensOf,     \*   the tokens of which the query is made,
  LengthOf,     \*   bound: the number of them,
  TableOf,      \*   the mails there are,
  NowOf         \*   and the time

\* The values a condition may have; no file is called "none", which stands for None.
IsValue(f, v) ==
  /\ f \in {"date", "after", "before", "size", "file", "hasattachment"}
  /\ f \in {"date", "after", "before"} =>
       /\ IsDate(v)
       /\ v.form = "range" => IsDate(v.from) /\ IsDate(v.to) /\ v.to.form # "range"
  /\ f = "size" => (v.form = "size" => IsSize(v))
  /\ f = "file" => v.file # "none"

Mail == [has : SUBSET Terms, held : SUBSET Bigrams, folders : SUBSET STRING,
         file : STRING, date : Nat, size : Nat, attached : {"yes", "no"}]

ASSUME QueryAssumption ==
  /\ Grams \in [Terms -> SUBSET Bigrams]
  /\ LengthOf \in [Sessions -> Nat] /\ NowOf \in [Sessions -> Nat]
  /\ \A s \in Sessions : /\ DayOf(NowOf[s]) \in Days
                         /\ \A m \in TableOf[s] : m \in Mail /\ DayOf(m.date) \in Days
                         /\ \A k \in TokensOf[s] : k.kind = "filter" => IsValue(k.field, k.value)

\* bigram_tokens over a text gives the bigrams of every part of the text: a substring of
\* a token is a run of its characters.
ASSUME SupersetAssumption ==
  \A s \in Sessions : \A m \in TableOf[s] : \A t \in m.has : Grams[t] \subseteq m.held

VARIABLES
  session,
  clauses,     \* ParsedQuery.clauses
  folders,     \* ParsedQuery.folder
  settings,    \* has_attachment, file_substr, date_after, date_before, size_op
  orWarned,    \* the number of warnings about an OR
  ignored,     \* the number of warnings about a value
  pendingOr, pendingNot,
  raised,      \* an exception has ended parse_query
  read         \* history: the tokens

vars == <<session, clauses, folders, settings, orWarned, ignored, pendingOr, pendingNot,
          raised, read>>

now   == NowOf[session]
table == TableOf[session]

Term(t, neg)  == [kind |-> "term", term |-> t, negate |-> neg]
OrPair(l, r)  == [kind |-> "or", left |-> l, right |-> r]

Operator(o)   == [kind |-> o]
Word(t, dash) == [kind |-> "word", term |-> t, dash |-> dash]
Folder(f)     == [kind |-> "folder", folder |-> f]
Filter(f, v)  == [kind |-> "filter", field |-> f, value |-> v]

-----------------------------------------------------------------------------
(* parse_query: one turn of the loop *)

Take(token) ==
  /\ ~raised /\ Len(read) < LengthOf[session]
  /\ token \in TokensOf[session]
  /\ read' = Append(read, token)
  /\ UNCHANGED session

ReadAnd == /\ Take(Operator("and"))
           /\ UNCHANGED <<clauses, folders, settings, orWarned, ignored, pendingOr, pendingNot, raised>>

ReadOr  == /\ Take(Operator("or")) /\ pendingOr' = TRUE
           /\ UNCHANGED <<clauses, folders, settings, orWarned, ignored, pendingNot, raised>>

ReadNot == /\ Take(Operator("not")) /\ pendingNot' = TRUE
           /\ UNCHANGED <<clauses, folders, settings, orWarned, ignored, pendingOr, raised>>

\* The last clause, if an OR may take it as its left side.
LastIsPairable ==
  clauses # <<>> /\ LET c == clauses[Len(clauses)] IN c.kind = "term" /\ ~c.negate

\* Mutation: an OR in front of an excluded word goes without a warning.
ReadTermUnwarned(t, dash) ==
  LET neg  == pendingNot \/ dash
      pair == pendingOr /\ LastIsPairable /\ ~neg
      n    == Len(clauses)
  IN /\ Take(Word(t, dash))
     /\ clauses' = IF pair THEN [clauses EXCEPT ![n] = OrPair(clauses[n].term, t)]
                           ELSE Append(clauses, Term(t, neg))
     /\ pendingOr' = FALSE /\ pendingNot' = FALSE
     /\ orWarned' = IF pendingOr /\ ~pair /\ ~neg THEN orWarned + 1 ELSE orWarned
     /\ UNCHANGED <<folders, settings, ignored, raised>>
ReadTerm(t, dash) ==
  LET neg  == pendingNot \/ dash
      pair == pendingOr /\ LastIsPairable /\ ~neg
      n    == Len(clauses)
  IN /\ Take(Word(t, dash))
     /\ clauses' = IF pair THEN [clauses EXCEPT ![n] = OrPair(clauses[n].term, t)]
                           ELSE Append(clauses, Term(t, neg))
     /\ pendingOr' = FALSE /\ pendingNot' = FALSE
     /\ orWarned' = IF pendingOr /\ ~pair THEN orWarned + 1 ELSE orWarned
     /\ UNCHANGED <<folders, settings, ignored, raised>>

\* A token that makes no clause: an OR before it has nothing to join, a NOT stays.
\* Mutation: the OR stays too.
KeepOr   == UNCHANGED <<pendingOr, orWarned, pendingNot>>
NoClause ==
  /\ pendingOr' = FALSE
  /\ orWarned' = IF pendingOr THEN orWarned + 1 ELSE orWarned
  /\ UNCHANGED pendingNot

ReadFolder(f) ==
  /\ Take(Folder(f)) /\ NoClause
  /\ folders' = folders \cup {f}
  /\ UNCHANGED <<clauses, settings, ignored, raised>>

\* What the value of a condition sets: nothing if it is not understood.
Sides(i) == [x \in {y \in {"after", "before"} : i[y] # None} |-> i[x]]
Side(name, moment) == [x \in IF moment = None THEN {} ELSE {name} |-> moment]
Sets(field, v) ==
  CASE field = "date"   -> Sides(ParseDateRange(v, now))
    [] field = "after"  -> Side("after", ParseDateRange(v, now).after)
    [] field = "before" -> Side("before", ParseDateRange(v, now).after)
    [] field = "size"   -> [x \in IF v.form = "size" THEN {"size"} ELSE {} |-> ParseSize(v)]
    [] field = "file"   -> [x \in {"file"} |-> v.file]
    [] field = "hasattachment" ->
         [x \in {"attached"} |-> IF v.form \in {"yes", "no"} THEN v.form ELSE "none"]

\* Where datetime() and float() raise.
ValueRaises(field, v) ==
  \/ field \in {"date", "after", "before"} /\ ParseDateRange(v, now).raises
  \/ field = "size" /\ v.form = "dots"

\* A condition that sets something replaces what it set before; one that is not understood
\* is ignored with a warning.
Replace(s) ==
  /\ settings' = [x \in DOMAIN settings |-> IF x \in DOMAIN s THEN s[x] ELSE settings[x]]
  /\ ignored' = IF DOMAIN s = {} THEN ignored + 1 ELSE ignored
ReadFilter(f, v) ==
  /\ Take(Filter(f, v)) /\ ~ValueRaises(f, v)
  /\ NoClause
  /\ Replace(Sets(f, v))
  /\ UNCHANGED <<clauses, folders, raised>>

ReadRaises(f, v) ==
  /\ Take(Filter(f, v)) /\ ValueRaises(f, v)
  /\ raised' = TRUE
  /\ UNCHANGED <<clauses, folders, settings, orWarned, ignored, pendingOr, pendingNot>>

NoSize == [op |-> "none", bytes |-> 0]

Init ==
  /\ session \in Sessions
  /\ clauses = <<>> /\ folders = {}
  /\ settings = [attached |-> "none", file |-> "none", after |-> None, before |-> None,
                 size |-> NoSize]
  /\ orWarned = 0 /\ ignored = 0
  /\ pendingOr = FALSE /\ pendingNot = FALSE /\ raised = FALSE
  /\ read = <<>>

Next ==
  \/ ReadAnd \/ ReadOr \/ ReadNot
  \/ \E k \in TokensOf[session] :
       \/ k.kind = "word" /\ ReadTerm(k.term, k.dash)
       \/ k.kind = "folder" /\ ReadFolder(k.folder)
       \/ k.kind = "filter" /\ (ReadFilter(k.field, k.value) \/ ReadRaises(k.field, k.value))

Spec == Init /\ [][Next]_vars

-----------------------------------------------------------------------------
(* search: which mails the clauses let through *)

Clauses == {clauses[i] : i \in DOMAIN clauses}
AndTerms == {c.term : c \in {d \in Clauses : d.kind = "term" /\ ~d.negate}}
NotTerms == {c.term : c \in {d \in Clauses : d.kind = "term" /\ d.negate}}
Pairs    == {<<c.left, c.right>> : c \in {d \in Clauses : d.kind = "or"}}

Long(t)     == Grams[t] # {}
Hits(m, t)  == Grams[t] \subseteq m.held

\* What a pair adds to the expression: a side too short for a bigram is left out.
PairHits(m, p) == \/ Long(p[1]) /\ Hits(m, p[1])
                  \/ Long(p[2]) /\ Hits(m, p[2])

\* build_match_expression: without a positive part there is no expression.
MatchExpr(m) ==
  LET ands == {t \in AndTerms : Long(t)}
      ors  == {p \in Pairs : Long(p[1]) \/ Long(p[2])}
  IN ands \cup ors = {} \/ /\ \A t \in ands : Hits(m, t)
                           /\ \A p \in ors : PairHits(m, p)
                           /\ \A t \in NotTerms : ~(Long(t) /\ Hits(m, t))

\* verify_candidate.
Verify(m) ==
  /\ AndTerms \subseteq m.has
  /\ \A p \in Pairs : p[1] \in m.has \/ p[2] \in m.has
  /\ NotTerms \cap m.has = {}

\* The WHERE of _scan_candidates.
InDates(m) == /\ settings.after = None \/ m.date >= settings.after
              /\ settings.before = None \/ m.date < settings.before

InFolders(m)  == folders = {} \/ folders \cap m.folders # {}
Attached(m)   == settings.attached \in {"none", m.attached}

Where(m) ==
  /\ InFolders(m) /\ Attached(m) /\ InDates(m)
  /\ settings.file \in {"none", m.file}
  /\ settings.size = NoSize \/ SizePasses(m.size, settings.size)

Found(m) == ~raised /\ MatchExpr(m) /\ Where(m) /\ Verify(m)

\* _diagnose: of an empty answer some conditions are counted each by itself, a word by its
\* bigrams; what no mail meets is blamed.  A word without bigrams, an OR, a NOT, the file
\* and the size are not counted.  Mutation: of a period the start alone.
InDatesFrom(m) == settings.after = None \/ m.date >= settings.after
CountedFrom(c, m) ==
  CASE c = "folder"        -> InFolders(m)
    [] c = "hasattachment" -> Attached(m)
    [] c = "date"          -> InDatesFrom(m)
Counted(c, m) ==
  CASE c = "folder"        -> InFolders(m)
    [] c = "hasattachment" -> Attached(m)
    [] c = "date"          -> InDates(m)

Conditions ==
  (IF folders = {} THEN {} ELSE {"folder"})
    \cup (IF settings.attached = "none" THEN {} ELSE {"hasattachment"})
    \cup (IF settings.after = None /\ settings.before = None THEN {} ELSE {"date"})

BlamedTerms      == {t \in AndTerms : Long(t) /\ \A m \in table : ~Hits(m, t)}
BlamedConditions == {c \in Conditions : \A m \in table : ~Counted(c, m)}

-----------------------------------------------------------------------------
(* What the user wrote, by the tables of README.md and USAGE.md *)

At(i, kind)   == i \in DOMAIN read /\ read[i].kind = kind
Solid(i)      == i \in DOMAIN read /\ read[i].kind \in {"word", "folder", "filter"}
Negated(i)    == At(i, "word") /\ (read[i].dash \/ At(i - 1, "not"))
Plain(i)      == At(i, "word") /\ ~Negated(i)
JoinsWords(i)   == At(i, "or") /\ Plain(i - 1) /\ Plain(i + 1)
JoinsFolders(i) == At(i, "or") /\ At(i - 1, "folder") /\ At(i + 1, "folder")
Required(i)   == Plain(i) /\ ~At(i - 1, "or") /\ ~At(i + 1, "or")

\* The values the documentation has for a condition, and what they mean.
NamesADay(v) == NamesDays(v) /\ DaysNamed(v, now) # {}
IsAgo(v)     == v.form = "ago" /\ DaysLong(v.n, v.unit) < DayOf(now)
Documented(f, v) ==
  CASE f = "date"    -> \/ NamesADay(v)
                        \/ IsAgo(v)
                        \/ v.form = "range" /\ NamesADay(v.from) /\ NamesADay(v.to)
    [] f \in {"after", "before"} -> NamesADay(v) \/ IsAgo(v)
    [] f = "size"    -> v.form = "size"
    [] f = "hasattachment" -> v.form \in {"yes", "no"}
    [] f = "file"    -> TRUE

MeantBy(f, v, m) ==
  CASE f = "date"    -> MeansMoment(v, m.date, now)
    [] f = "after"   -> MeansAfter(v, m.date, now)
    [] f = "before"  -> MeansBefore(v, m.date, now)
    [] f = "size"    -> SizePasses(m.size, ParseSize(v))
    [] f = "hasattachment" -> m.attached = v.form
    [] f = "file"    -> m.file = v.file

Occupied(f) == IF f = "date" THEN {"after", "before"} ELSE {f}

\* NOT before a word; AND between two conditions; OR between two folders, or between two
\* words neither of which has a second OR; a condition made once, with a value it has.
WellFormed ==
  \A i \in DOMAIN read :
    /\ At(i, "not") => At(i + 1, "word")
    /\ At(i, "and") => Solid(i - 1) /\ (Solid(i + 1) \/ At(i + 1, "not"))
    /\ At(i, "or")  => \/ JoinsFolders(i)
                       \/ JoinsWords(i) /\ ~At(i - 2, "or") /\ ~At(i + 2, "or")
    /\ At(i, "filter") =>
         /\ Documented(read[i].field, read[i].value)
         /\ \A k \in DOMAIN read : k # i /\ At(k, "filter") =>
              Occupied(read[i].field) \cap Occupied(read[k].field) = {}

\* What each kind of condition asks of a mail.
MeantDates(m) ==
  \A i \in DOMAIN read : At(i, "filter") /\ read[i].field \in {"date", "after", "before"} =>
    MeantBy(read[i].field, read[i].value, m)
MeantOthers(m) ==
  \A i \in DOMAIN read : At(i, "filter") /\ read[i].field \notin {"date", "after", "before"} =>
    MeantBy(read[i].field, read[i].value, m)
MeantFolders(m) ==
  LET named == {i \in DOMAIN read : At(i, "folder")}
  IN named = {} \/ \E i \in named : read[i].folder \in m.folders
MeantWords(m) ==
  \A i \in DOMAIN read :
    /\ Negated(i) => read[i].term \notin m.has
    /\ Required(i) => read[i].term \in m.has
    /\ JoinsWords(i) => {read[i - 1].term, read[i + 1].term} \cap m.has # {}

Meant(m) == MeantDates(m) /\ MeantOthers(m) /\ MeantFolders(m) /\ MeantWords(m)

-----------------------------------------------------------------------------
(* Properties *)

\* The two ways in which the MATCH expression drops mails verification would keep.
ShortSide     == \E p \in Pairs : Long(p[1]) # Long(p[2])
NotTooWide(m) == \E t \in NotTerms : Long(t) /\ Hits(m, t) /\ t \notin m.has

\* A query as the documentation has it raises nothing and finds only mails it means,
\* though the bigrams of a word may be in a mail without the word and the end of a period
\* is a date of its own; and it finds all of them, but for an OR with a side of one letter
\* and for a mail that has all bigrams of an excluded word without having the word.
FoundIsWhatIsMeant ==
  WellFormed =>
    /\ ~raised
    /\ \A m \in table : /\ Found(m) => Meant(m)
                        /\ Meant(m) /\ ~ShortSide /\ ~NotTooWide(m) => Found(m)

\* "Maybe because of this condition" (README.md:71-73): if nothing is found, what is
\* blamed is what no mail has, and each folder, period or attachment condition that no
\* mail meets is blamed, as the user meant it; a word is unless its bigrams are in a mail.
BlameIsExact ==
  WellFormed /\ (\A m \in table : ~Found(m)) =>
    /\ "folder" \in BlamedConditions <=>
         \E i \in DOMAIN read : At(i, "folder") /\ \A m \in table : ~MeantFolders(m)
    /\ "date" \in BlamedConditions <=>
         /\ \E i \in DOMAIN read : At(i, "filter") /\ read[i].field \in {"date", "after", "before"}
         /\ \A m \in table : ~MeantDates(m)
    /\ "hasattachment" \in BlamedConditions <=>
         \E i \in DOMAIN read : /\ At(i, "filter") /\ read[i].field = "hasattachment"
                                /\ \A m \in table : m.attached # read[i].value.form
    /\ \A i \in DOMAIN read : Required(i) =>
         LET t == read[i].term
             absent == \A m \in table : t \notin m.has
         IN /\ t \in BlamedTerms => absent
            /\ absent /\ (\A m \in table : ~Hits(m, t)) /\ Long(t) => t \in BlamedTerms

\* Where the code parts from the documents without a word: an OR right behind a folder or
\* another condition takes the word in front of that (`A folder:X OR B`), since a condition
\* makes no clause and the last clause is all it looks at (search.py:218).
ReachesBack(i, j) ==
  /\ \E n \in i + 1..j - 1 : At(n, "folder") \/ At(n, "filter")
  /\ \A n \in i + 1..j - 1 : ~At(n, "word")

\* OR joins two adjacent single terms only (README.md:59, search.py:11): whatever is typed,
\* no condition is between the two words of a pair and its OR, but where ReachesBack.
PairsAreNeighbours ==
  \A p \in Pairs : \E i, j, k \in DOMAIN read :
    /\ i < j /\ At(i, "word") /\ read[i].term = p[1] /\ At(j, "or")
    /\ j < k /\ At(k, "word") /\ read[k].term = p[2]
    /\ \A n \in j + 1..k - 1 : ~Solid(n)
    /\ (\A n \in i + 1..j - 1 : ~Solid(n)) \/ ReachesBack(i, j)

\* Whatever is typed, an OR in front of a condition has joined it or left a warning.
EveryOrIsHonouredOrReported ==
  LET after == {k \in DOMAIN read : Solid(k) /\ \E i \in 1..k - 1 :
                  At(i, "or") /\ \A j \in i + 1..k - 1 : ~Solid(j)}
  IN ~raised =>
       Cardinality(after) =
         orWarned + Cardinality({i \in DOMAIN clauses : clauses[i].kind = "or"})

\* OR is one of the two (USAGE.md:301).
OrIsEither ==
  WellFormed /\ NotTerms = {} => \A m \in table : Meant(m) => Found(m)
=============================================================================
