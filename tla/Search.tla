-------------------------------- MODULE Search --------------------------------
(***************************************************************************)
(* MailSearchEngine.search of search.py: one scan for candidates, newest   *)
(* first and cut at scan_limit, a look at each of them by itself, the page *)
(* of the first `limit` that pass, and for sort="relevance" a query more.  *)
(* Each SELECT sees the table as it is then: a writer commits in between.  *)
(*                                                                         *)
(* Abstractions.  One query (what it means is the subject of Query); of a  *)
(* row only what the query makes of it is kept: whether the MATCH          *)
(* expression takes it, whether its text does, whether as whole words, and *)
(* its bm25 score.  A rowid stays with its mail (Storage!RowidNeverMoves)  *)
(* and no row is deleted.                                                  *)
(***************************************************************************)
EXTENDS Integers, Sequences, FiniteSets, SequencesExt

CONSTANTS
  Rowids,               \* 1..n
  Contents,             \* [candidate, matches, whole : BOOLEAN, score : Int]
  Absent,               \* no row: not a member of Contents
  Limit,                \* limit
  ScanFactor,           \* 20, and
  ScanFloor,            \* 500 of max(limit * 20, 500)
  RelevanceCandidates,  \* config.relevance_candidates
  MaxWrites             \* bound: the number of upserts during the searches

ASSUME SearchAssumption ==
  /\ Rowids \subseteq Nat \ {0} /\ IsFiniteSet(Rowids)
  /\ Contents \subseteq [candidate : BOOLEAN, matches : BOOLEAN, whole : BOOLEAN, score : Int]
  /\ \A c \in Contents : (c.matches => c.candidate) /\ (c.whole => c.matches)
  /\ Absent \notin Contents
  /\ {Limit, ScanFactor, ScanFloor, RelevanceCandidates} \subseteq Nat \ {0}
  /\ MaxWrites \in Nat

VARIABLES
  table,
  pc,         \* where the call is
  request,    \* its arguments
  rows,       \* the candidates it has not looked at yet
  verified,   \* those that passed
  hits, more, \* what the last call returned
  shown,      \* history: the hits of the calls of one session, page after page
  cut,        \* history: a scan of the session was cut at its limit
  touched,    \* history: the rows written since the session began; all before the first
  writes

vars == <<table, pc, request, rows, verified, hits, more, shown, cut, touched, writes>>

\* offset_rowid is NoOffset where the code has None.
NoOffset == 0

Present == {r \in Rowids : table[r] # Absent}

\* The rows the SELECT of _scan_candidates finds.  Mutation: the offset row too.
CandidatesFrom(offset) ==
  {r \in Present : table[r].candidate /\ (offset = NoOffset \/ r <= offset)}
Candidates(offset) ==
  {r \in Present : table[r].candidate /\ (offset = NoOffset \/ r < offset)}

\* ORDER BY rowid DESC.  Mutation: the oldest first.
Descending(s)  == \A i, k \in DOMAIN s : i < k => s[i] > s[k]
OldestFirst(S) == CHOOSE s \in [1..Cardinality(S) -> S] : Descending(Reverse(s))
NewestFirst(S) == CHOOSE s \in [1..Cardinality(S) -> S] : Descending(s)

Prefix(s, n) == SubSeq(s, 1, IF n < Len(s) THEN n ELSE Len(s))

-----------------------------------------------------------------------------
(* One call of search *)

ScanLimit(sort, limit) ==
  IF sort = "relevance" THEN RelevanceCandidates
  ELSE IF limit * ScanFactor > ScanFloor THEN limit * ScanFactor ELSE ScanFloor

Scan(req) ==
  /\ request' = req
  /\ rows' = Prefix(NewestFirst(Candidates(req.offset)), ScanLimit(req.sort, req.limit))
  /\ verified' = <<>>
  /\ pc' = "verify"

\* The first page of a query.
Search(sort, whole, limit) ==
  /\ pc = "idle"
  /\ Scan([sort |-> sort, whole |-> whole, limit |-> limit, offset |-> NoOffset])
  /\ shown' = <<>> /\ touched' = {}
  /\ cut' = (Cardinality(Candidates(NoOffset)) > ScanLimit(sort, limit))
  /\ UNCHANGED <<table, hits, more, writes>>

\* The page after the last hit.
PageOffset == Last(hits)

NextPage ==
  /\ pc = "idle" /\ request.sort = "date" /\ hits # <<>>
  /\ LET offset == PageOffset
     IN /\ Scan([request EXCEPT !.offset = offset])
        /\ cut' = (cut \/ Cardinality(Candidates(offset)) > ScanLimit("date", request.limit))
  /\ UNCHANGED <<table, hits, more, shown, touched, writes>>

\* verify_candidate, a SELECT by rowid.
Verify ==
  /\ pc = "verify" /\ rows # <<>>
  /\ LET r == Head(rows)
     IN IF table[r].matches /\ request.whole
        THEN pc' = "whole" /\ UNCHANGED <<rows, verified>>
        ELSE /\ rows' = Tail(rows)
             /\ verified' = IF table[r].matches THEN Append(verified, r) ELSE verified
             /\ UNCHANGED pc
  /\ UNCHANGED <<table, request, hits, more, shown, cut, touched, writes>>

\* _whole_word_ok, a SELECT more.
VerifyWhole ==
  /\ pc = "whole"
  /\ verified' = IF table[Head(rows)].whole THEN Append(verified, Head(rows)) ELSE verified
  /\ rows' = Tail(rows)
  /\ pc' = "verify"
  /\ UNCHANGED <<table, request, hits, more, shown, cut, touched, writes>>

\* Mutation: more_available as soon as the page is full.
PageIsFull    == Len(verified) >= request.limit
MoreAvailable == Len(verified) > request.limit

Answer(page) ==
  /\ hits' = page /\ more' = MoreAvailable
  /\ shown' = shown \o page
  /\ pc' = "idle"
  /\ UNCHANGED <<table, request, rows, verified, cut, touched, writes>>

Return ==
  /\ pc = "verify" /\ rows = <<>> /\ request.sort = "date"
  /\ Answer(Prefix(verified, request.limit))

\* _bm25_sort: the rows of the page that the MATCH expression still takes, best score
\* first; equal scores in any order.  bm25 is the lower the better.  Mutation: the higher.
HighestFirst(s) == \A i, k \in DOMAIN s : i < k => table[s[i]].score >= table[s[k]].score
BestFirst(s)    == \A i, k \in DOMAIN s : i < k => table[s[i]].score <= table[s[k]].score

ReturnSorted ==
  /\ pc = "verify" /\ rows = <<>> /\ request.sort = "relevance"
  /\ LET page == {r \in ToSet(Prefix(verified, request.limit)) : table[r].candidate}
     IN \E s \in SetToSeqs(page) : BestFirst(s) /\ Answer(s)

-----------------------------------------------------------------------------
\* An upsert of an indexing run.
Write(r, c) ==
  /\ writes < MaxWrites
  /\ writes' = writes + 1
  /\ table' = [table EXCEPT ![r] = c]
  /\ touched' = touched \cup {r}
  /\ UNCHANGED <<pc, request, rows, verified, hits, more, shown, cut>>

Init ==
  /\ table \in [Rowids -> Contents \cup {Absent}]
  /\ pc = "idle"
  /\ request = [sort |-> "none", whole |-> FALSE, limit |-> Limit, offset |-> NoOffset]
  /\ rows = <<>> /\ verified = <<>> /\ hits = <<>> /\ more = FALSE
  /\ shown = <<>> /\ cut = FALSE /\ touched = Rowids /\ writes = 0

Next ==
  \/ \E sort \in {"date", "relevance"}, whole \in BOOLEAN : Search(sort, whole, Limit)
  \/ NextPage \/ Verify \/ VerifyWhole \/ Return \/ ReturnSorted
  \/ \E r \in Rowids, c \in Contents : Write(r, c)

Spec == Init /\ [][Next]_vars

-----------------------------------------------------------------------------
(* Properties *)

\* From page to page the hits go down, whatever is written meanwhile: none is shown twice.
NoHitTwice == request.sort = "date" => Descending(shown)

\* The mails the query is after, by the table as it is.
Wanted == {r \in Present : IF request.whole THEN table[r].whole ELSE table[r].matches}

\* Between two calls, no scan of the session having been cut short.
Complete == pc = "idle" /\ ~cut
Settled  == Complete /\ request.sort = "date"

\* The pages so far are the newest of the wanted mails: whatever is written to others, a
\* mail that stayed as it was is on them or older than all of them.
NothingIsSkipped ==
  Settled => \A r \in Wanted \ touched :
               r \in ToSet(shown) \/ \A i \in DOMAIN shown : r < shown[i]

\* more_available tells whether a page more has anything on it.
MoreIsTrue ==
  Settled => /\ ~more => Wanted \subseteq ToSet(shown) \cup touched
             /\ more /\ touched = {} => ~(Wanted \subseteq ToSet(shown))

\* How many rows of S are newer than r.
Newer(S, r) == Cardinality({k \in S : k > r})

\* Among the newest relevance_candidates whatever was written since the scan, or perhaps so.
SurelyRanked(r)  == Newer(Candidates(NoOffset) \cup touched, r) < RelevanceCandidates
PerhapsRanked(r) == Newer(Candidates(NoOffset) \ touched, r) < RelevanceCandidates

\* More matches than fit: the documents then have the best of them on the page, and the
\* code the newest, since it cuts by date before it sorts (search.py:539).
DateCutsThePage == more

\* Relevance is the newest relevance_candidates mails in the order of their scores
\* (README.md:106, README.md:358-360): of the mails that stayed as they were the page has
\* those the query is after and no others, best first, though they are scored by a SELECT
\* of its own.  Which of them it has where they do not fit is left open (DateCutsThePage).
BestOfTheNewest ==
  pc = "idle" /\ request.sort = "relevance" =>
    /\ \A r \in Wanted \ touched : SurelyRanked(r) => r \in ToSet(hits) \/ DateCutsThePage
    /\ \A r \in ToSet(hits) \ touched : r \in Wanted /\ PerhapsRanked(r)
    /\ \A i, k \in DOMAIN hits : i < k /\ {hits[i], hits[k]} \cap touched = {} =>
         table[hits[i]].score <= table[hits[k]].score
=============================================================================
