----------------------------- MODULE SearchProofs -----------------------------
(***************************************************************************)
(* Proofs about Search and Export: NoHitTwice, NothingIsSkipped,           *)
(* MoreIsTrue, BestOfTheNewest and ExportIsWhatWasFound, for any           *)
(* table, limits, file names and number of writes in between.              *)
(***************************************************************************)
EXTENDS Export, SequenceTheorems, FiniteSetTheorems, TLAPS

-----------------------------------------------------------------------------
(* The inductive invariant *)

Scanning == pc # "idle"

Requests ==
  [sort : {"none", "date", "relevance"}, whole : BOOLEAN, limit : Nat \ {0}, offset : Nat]

\* Rows are not deleted: what a search has seen is there.
SearchTypes ==
  /\ table \in [Rowids -> Contents \cup {Absent}]
  /\ pc \in {"idle", "verify", "whole"}
  /\ request \in Requests
  /\ {rows, verified, hits, shown} \subseteq Seq(Present)
  /\ cut \in BOOLEAN /\ more \in BOOLEAN
  /\ touched \subseteq Rowids
  /\ pc = "whole" => request.whole /\ rows # <<>>
  /\ ~Scanning => rows = <<>>
  /\ Scanning => request.sort \in {"date", "relevance"}

\* The passed candidates and those to come go down, below what was shown.
Sorted ==
  /\ Descending(rows) /\ Descending(verified)
  /\ \A i \in DOMAIN verified, k \in DOMAIN rows : verified[i] > rows[k]
  /\ Scanning => \A n \in DOMAIN shown :
                   /\ \A i \in DOMAIN verified : verified[i] < shown[n]
                   /\ \A k \in DOMAIN rows : rows[k] < shown[n]

\* What was shown by date goes down to the last hit, and is above what did not fit.
ShownDown ==
  request.sort = "date" =>
    /\ Descending(shown)
    /\ ~Scanning /\ hits # <<>> => shown # <<>> /\ Last(shown) = Last(hits)
    /\ ~Scanning => \A n \in DOMAIN shown, i \in DOMAIN verified :
                      i > request.limit => verified[i] < shown[n]

\* A wanted mail that stayed as it was is shown, or passed, or still to come; between two
\* calls it is shown or one of those that passed and did not fit.
Kept ==
  ~cut /\ request.sort # "none" =>
    \A r \in Wanted \ touched :
      \/ r \in ToSet(shown)
      \/ Scanning /\ (r \in ToSet(verified) \/ r \in ToSet(rows))
      \/ ~Scanning /\ \E i \in DOMAIN verified : i > request.limit /\ verified[i] = r

\* What passed and stayed as it was is wanted.
Sound == (ToSet(verified) \cup ToSet(shown)) \ touched \subseteq Wanted

\* What the last answer said of itself.
Answered ==
  /\ ~Scanning /\ request.sort = "date" => (more <=> Len(verified) > request.limit)
  /\ ~Scanning /\ request.sort = "relevance" =>
       /\ hits = shown
       /\ ToSet(hits) \subseteq ToSet(Prefix(verified, request.limit))
       /\ \A i, k \in DOMAIN hits :
            i < k /\ hits[i] \notin touched /\ hits[k] \notin touched =>
              table[hits[i]].score <= table[hits[k]].score
  /\ Scanning /\ request.sort = "relevance" => shown = <<>>

SearchInv == SearchTypes /\ Sorted /\ ShownDown /\ Kept /\ Sound /\ Answered

\* Of a search by relevance: the mails that were surely among the newest when it scanned are
\* shown, or passed, or still to come; what it scanned is newer than all but as many; and
\* more_available says whether what passed fits.
Due(r) == r \in Wanted \ touched /\ SurelyRanked(r)

DueKept ==
  \A r \in Rowids : Due(r) =>
    \/ r \in ToSet(shown)
    \/ Scanning /\ (r \in ToSet(verified) \/ r \in ToSet(rows))
    \/ ~Scanning /\ \E i \in DOMAIN verified : i > request.limit /\ verified[i] = r

RankInv ==
  request.sort = "relevance" =>
    /\ DueKept
    /\ \A r \in ToSet(rows) \cup ToSet(verified) \cup ToSet(shown) : PerhapsRanked(r)
    /\ ~Scanning => (more <=> Len(verified) > request.limit)

\* The search of an export is one call, and what came of it is not looked for again.
Exporting ==
  /\ command \in {"search", "query", "all"}
  /\ phase \in {"start", "searching", "nothing", "raised"} \cup Formats
  /\ command = "search" => phase = "start"
  /\ command = "all" => /\ ~Scanning /\ request.sort = "none"
                        /\ verified = <<>> /\ shown = <<>>
                        /\ phase \in {"start"} \cup Formats
  /\ command = "query" =>
       /\ phase # "searching" => ~Scanning
       /\ phase # "start" =>
            /\ request.sort = "date" /\ request.limit = ExportLimit
            /\ shown = IF Scanning THEN <<>> ELSE hits
            /\ ~Scanning => hits = Prefix(verified, request.limit)

ExportInv == SearchInv /\ RankInv /\ Exporting /\ ExportIsWhatWasFound

-----------------------------------------------------------------------------
(* Sequences that go down *)

LEMMA UpTo ==
  ASSUME NEW n \in Nat
  PROVE  IsFiniteSet(1..n) /\ Cardinality(1..n) = n
  BY FS_Interval

\* The members of a finite set of numbers can be put newest first.
LEMMA NewestExists ==
  ASSUME NEW S \in SUBSET Nat, IsFiniteSet(S)
  PROVE  \E s \in [1..Cardinality(S) -> S] : Descending(s)
<1> DEFINE n == Cardinality(S)
           Above(x) == {k \in S : k > x}
           rank == [x \in S |-> Cardinality(Above(x)) + 1]
<1>1. n \in Nat
  BY FS_CardinalityType
<1>2. ASSUME NEW x \in S PROVE rank[x] \in 1..n
  <2>1. Above(x) \subseteq S /\ Above(x) # S
    OBVIOUS
  <2>2. /\ IsFiniteSet(Above(x))
        /\ Cardinality(Above(x)) <= n /\ Cardinality(Above(x)) # n
    BY <2>1, FS_Subset
  <2>3. Cardinality(Above(x)) \in Nat
    BY <2>2, FS_CardinalityType
  <2>. HIDE DEF n, Above
  <2>. QED
    BY <1>1, <2>2, <2>3
<1>3. ASSUME NEW x \in S, NEW y \in S, x < y PROVE rank[y] < rank[x]
  <2>1. Above(y) \subseteq Above(x) /\ y \in Above(x) /\ y \notin Above(y)
    <3>1. \A k \in S : k > y => k > x
      BY <1>3
    <3>2. y > x /\ ~(y > y)
      BY <1>3
    <3>. QED
      BY <3>1, <3>2
  <2>2. IsFiniteSet(Above(x)) /\ IsFiniteSet(Above(y))
    BY FS_Subset
  <2>3. /\ Cardinality(Above(y)) <= Cardinality(Above(x))
        /\ Cardinality(Above(y)) # Cardinality(Above(x))
    BY <2>1, <2>2, FS_Subset
  <2>4. Cardinality(Above(x)) \in Nat /\ Cardinality(Above(y)) \in Nat
    BY <2>2, FS_CardinalityType
  <2>. HIDE DEF Above
  <2>. QED
    BY <2>3, <2>4
<1>4. rank \in Surjection(S, 1..n)
  <2>1. \A x, y \in S : rank[x] = rank[y] => x = y
    <3>1. SUFFICES ASSUME NEW x \in S, NEW y \in S, rank[x] = rank[y], x # y PROVE FALSE
      OBVIOUS
    <3>2. x < y \/ y < x
      BY <3>1
    <3>3. rank[x] \in Nat /\ rank[y] \in Nat
      BY <1>1, <1>2
    <3>. HIDE DEF rank
    <3>. QED
      BY <1>3, <3>1, <3>2, <3>3
  <2>2. rank \in [S -> 1..n]
    BY <1>2
  <2>. HIDE DEF rank
  <2>3. rank \in Injection(S, 1..n)
    BY <2>1, <2>2 DEF Injection, IsInjective
  <2>4. IsFiniteSet(1..n) /\ Cardinality(1..n) = n
    BY <1>1, FS_Interval
  <2>. QED
    BY <2>3, <2>4, FS_Injection
<1>5. \A i \in 1..n : \E x \in S : rank[x] = i
  BY <1>4 DEF Surjection
<1> DEFINE s == [i \in 1..n |-> CHOOSE x \in S : rank[x] = i]
<1>6. \A i \in 1..n : s[i] \in S /\ rank[s[i]] = i
  BY <1>5
<1>7. s \in [1..n -> S]
  BY <1>6
<1>8. DOMAIN s = 1..n
  OBVIOUS
<1>. HIDE DEF s, rank, n
<1>9. ASSUME NEW i \in 1..n, NEW k \in 1..n, i < k PROVE s[i] > s[k]
  <2>1. s[i] \in Nat /\ s[k] \in Nat
    BY <1>6
  <2>2. s[i] # s[k]
    BY <1>6, <1>9
  <2>3. ~(s[i] < s[k])
    <3>1. \A x, y \in S : x < y => rank[y] < rank[x]
      BY <1>3
    <3>2. s[i] < s[k] => k < i
      BY <1>6, <3>1
    <3>. QED
      BY <1>1, <1>9, <3>2
  <2>. QED
    BY <2>1, <2>2, <2>3
<1>. QED
  BY <1>7, <1>8, <1>9 DEF n, Descending

\* ORDER BY rowid DESC gives each row once, and before any as many as are newer.
LEMMA NewestIs ==
  ASSUME NEW S \in SUBSET Nat, IsFiniteSet(S)
  PROVE  LET s == NewestFirst(S)
         IN  /\ s \in Seq(S) /\ Len(s) = Cardinality(S) /\ Cardinality(S) \in Nat
             /\ Descending(s) /\ ToSet(s) = S
             /\ \A i \in DOMAIN s : Cardinality({k \in S : k > s[i]}) <= i - 1
<1> DEFINE s == NewestFirst(S)
           n == Cardinality(S)
<1>1. n \in Nat
  BY FS_CardinalityType
<1>2. s \in [1..n -> S] /\ Descending(s)
  BY NewestExists DEF NewestFirst
<1>. HIDE DEF s, n
<1>3. s \in Seq(S) /\ Len(s) = n /\ DOMAIN s = 1..n
  BY <1>1, <1>2
<1>4. \A i, k \in 1..n : s[i] = s[k] => i = k
  <2>1. \A i, k \in 1..n : i < k => s[i] > s[k]
    BY <1>2, <1>3 DEF Descending
  <2>2. \A i \in 1..n : s[i] \in Nat
    BY <1>2
  <2>. QED
    BY <1>1, <2>1, <2>2
<1>5. ToSet(s) = S
  <2>1. s \in Injection(1..n, S)
    BY <1>2, <1>4 DEF Injection, IsInjective
  <2>2. Cardinality(1..n) = Cardinality(S)
    BY <1>1, FS_Interval DEF n
  <2>3. s \in Surjection(1..n, S)
    BY <2>1, <2>2, FS_Injection
  <2>. QED
    BY <1>2, <1>3, <2>3 DEF Surjection, ToSet
<1>6. ASSUME NEW i \in 1..n PROVE Cardinality({k \in S : k > s[i]}) <= i - 1
  <2> DEFINE A == {k \in S : k > s[i]}
             f == [j \in 1..i - 1 |-> s[j]]
             T == {f[j] : j \in 1..i - 1}
  <2>1. A \subseteq T
    <3>1. SUFFICES ASSUME NEW k \in A PROVE k \in T
      OBVIOUS
    <3>2. PICK j \in 1..n : s[j] = k
      BY <1>3, <1>5, <3>1 DEF ToSet
    <3>3. s[j] > s[i] /\ s[j] \in Nat /\ s[i] \in Nat
      BY <1>2, <3>1, <3>2
    <3>4. \A x, y \in 1..n : x < y => s[x] > s[y]
      BY <1>2, <1>3 DEF Descending
    <3>5. j < i
      BY <1>1, <3>3, <3>4
    <3>. QED
      BY <1>1, <3>2, <3>5
  <2>2. f \in Surjection(1..i - 1, T)
    BY DEF Surjection
  <2>3. IsFiniteSet(1..i - 1) /\ Cardinality(1..i - 1) = i - 1
    BY <1>1, FS_Interval
  <2>. HIDE DEF A, T, f
  <2>4. IsFiniteSet(T) /\ Cardinality(T) <= i - 1
    BY <2>2, <2>3, FS_Surjection
  <2>5. IsFiniteSet(A) /\ Cardinality(A) <= Cardinality(T)
    BY <2>1, <2>4, FS_Subset
  <2>6. Cardinality(A) \in Nat /\ Cardinality(T) \in Nat
    BY <2>4, <2>5, FS_CardinalityType
  <2>7. Cardinality(A) <= i - 1
    BY <1>1, <2>4, <2>5, <2>6
  <2>. QED
    BY <2>7 DEF A
<1>. QED
  BY <1>1, <1>2, <1>3, <1>5, <1>6 DEF s, n

\* What a prefix is.
LEMMA PrefixIs ==
  ASSUME NEW S, NEW s \in Seq(S), NEW n \in Int
  PROVE  LET p == Prefix(s, n)
         IN  /\ p \in Seq(S) /\ DOMAIN p \subseteq DOMAIN s
             /\ Len(p) = IF n < 0 THEN 0 ELSE IF n < Len(s) THEN n ELSE Len(s)
             /\ \A i \in DOMAIN s : i \in DOMAIN p <=> i <= n
             /\ \A i \in DOMAIN p : p[i] = s[i] /\ i <= n
             /\ n >= Len(s) => p = s
  BY DEF Prefix

-----------------------------------------------------------------------------
(* The steps of a search *)

LEMMA InitInv == Init => SearchInv
<1>. SUFFICES ASSUME Init PROVE SearchInv
  OBVIOUS
<1>1. SearchTypes
  <2>1. request \in Requests
    BY SearchAssumption DEF Init, Requests, NoOffset
  <2>2. {rows, verified, hits, shown} \subseteq Seq(Present)
    BY DEF Init
  <2>. QED
    BY <2>1, <2>2 DEF Init, SearchTypes, Scanning
<1>2. Sorted /\ ShownDown /\ Answered
  BY DEF Init, Sorted, ShownDown, Answered, Descending, Scanning
<1>3. Kept /\ Sound
  BY DEF Init, Kept, Sound, ToSet
<1>. QED
  BY <1>1, <1>2, <1>3 DEF SearchInv

LEMMA PresentNumbers == Present \subseteq Nat \ {0} /\ IsFiniteSet(Present)
  BY SearchAssumption, FS_Subset DEF Present

LEMMA NumberSeq ==
  ASSUME NEW s \in Seq(Present)
  PROVE  s \in Seq(Nat)
<1>1. Present \subseteq Nat
  BY PresentNumbers
<1>. QED
  BY <1>1, SeqMonotonic

\* A scan has the newest candidates, and all of them unless it is cut.
LEMMA ScanHas ==
  ASSUME NEW off, NEW n \in Nat
  PROVE  LET s == Prefix(NewestFirst(Candidates(off)), n)
         IN  /\ s \in Seq(Candidates(off)) /\ Descending(s)
             /\ Cardinality(Candidates(off)) <= n => ToSet(s) = Candidates(off)
<1> DEFINE C == Candidates(off)
           t == NewestFirst(C)
           s == Prefix(t, n)
<1>1. C \in SUBSET Nat /\ IsFiniteSet(C)
  BY PresentNumbers, FS_Subset DEF Candidates
<1>2. t \in Seq(C) /\ Len(t) = Cardinality(C) /\ Cardinality(C) \in Nat /\ Descending(t)
      /\ ToSet(t) = C
  BY <1>1, NewestIs
<1>. HIDE DEF C, t
<1>3. /\ s \in Seq(C) /\ DOMAIN s \subseteq DOMAIN t
      /\ \A i \in DOMAIN s : s[i] = t[i]
      /\ n >= Len(t) => s = t
  BY <1>2, PrefixIs
<1>. HIDE DEF s
<1>4. Descending(s)
  BY <1>2, <1>3 DEF Descending
<1>. QED
  BY <1>2, <1>3, <1>4 DEF C, t, s

LEMMA ScanKeeps ==
  ASSUME SearchInv, NEW req \in Requests, req.sort \in {"date", "relevance"}, Scan(req),
         UNCHANGED <<table, hits, more>>, cut' \in BOOLEAN, touched' \subseteq Rowids,
         shown' \in Seq(Present),
         req.sort = "date" => Descending(shown'),
         req.sort = "relevance" => shown' = <<>>,
         \A r \in Candidates(req.offset), n \in DOMAIN shown' : r < shown'[n],
         ~cut' => /\ Cardinality(Candidates(req.offset)) <= ScanLimit(req.sort, req.limit)
                  /\ \A r \in Wanted' \ touched' :
                       r \in ToSet(shown') \/ r \in Candidates(req.offset),
         ToSet(shown') \ touched' \subseteq Wanted'
  PROVE  SearchInv'
<1> DEFINE C == Candidates(req.offset)
<1>1. request' = req /\ verified' = <<>> /\ pc' = "verify"
      /\ rows' = Prefix(NewestFirst(C), ScanLimit(req.sort, req.limit))
  BY DEF Scan
<1>2. ScanLimit(req.sort, req.limit) \in Nat
  BY SearchAssumption DEF ScanLimit, Requests
<1>3. /\ rows' \in Seq(C) /\ Descending(rows')
      /\ Cardinality(C) <= ScanLimit(req.sort, req.limit) => ToSet(rows') = C
  BY <1>1, <1>2, ScanHas
<1>4. C \subseteq Present /\ Present' = Present
  BY DEF Candidates, Present
<1>. HIDE DEF C
<1>5. SearchTypes'
  <2>1. rows' \in Seq(Present)
    BY <1>3, <1>4
  <2>. QED
    BY <1>1, <1>4, <2>1 DEF SearchInv, SearchTypes, Scanning
<1>6. \A k \in DOMAIN rows' : rows'[k] \in C
  BY <1>3
<1>7. Sorted'
  BY <1>1, <1>3, <1>6 DEF Sorted, Descending, Scanning, C
<1>8. ShownDown'
  BY <1>1 DEF ShownDown, Scanning
<1>9. Kept'
  BY <1>1, <1>3 DEF Kept, Scanning, C
<1>10. Sound'
  BY <1>1 DEF Sound, ToSet
<1>11. Answered'
  BY <1>1 DEF Answered, Scanning
<1>. QED
  BY <1>5, <1>7, <1>8, <1>9, <1>10, <1>11 DEF SearchInv

\* What matches is a candidate.
LEMMA WantedIsCandidate ==
  ASSUME SearchTypes, NEW r \in Wanted
  PROVE  r \in Present /\ table[r].matches /\ table[r].candidate
         /\ (request.whole => table[r].whole)
<1>1. r \in Present /\ table[r] \in Contents
  BY DEF Wanted, Present, SearchTypes
<1>. QED
  BY <1>1, SearchAssumption DEF Wanted

LEMMA SearchKeeps ==
  ASSUME SearchInv, NEW sort \in {"date", "relevance"}, NEW whole \in BOOLEAN,
         NEW limit \in Nat \ {0}, Search(sort, whole, limit)
  PROVE  SearchInv'
<1> DEFINE req == [sort |-> sort, whole |-> whole, limit |-> limit, offset |-> NoOffset]
           C == Candidates(NoOffset)
<1>1. Scan(req) /\ shown' = <<>> /\ touched' = {} /\ UNCHANGED <<table, hits, more, writes>>
      /\ cut' = (Cardinality(C) > ScanLimit(sort, limit))
  BY DEF Search
<1>2. req \in Requests
  BY DEF Requests, NoOffset
<1>3. req.sort = sort /\ req.limit = limit /\ req.offset = NoOffset /\ request' = req
      /\ req.whole = whole
  BY <1>1 DEF Scan
<1>4. \A r \in Wanted' : r \in C
  <2>1. SUFFICES ASSUME NEW r \in Wanted' PROVE r \in C
    OBVIOUS
  <2>2. r \in Present /\ table[r] \in Contents
    BY <1>1, <2>1 DEF Wanted, Present, SearchInv, SearchTypes
  <2>3. table[r].matches \/ table[r].whole
    BY <1>1, <2>1 DEF Wanted
  <2>4. table[r].candidate
    BY <2>2, <2>3, SearchAssumption
  <2>. QED
    BY <2>2, <2>4 DEF Candidates
<1>5. cut' \in BOOLEAN /\ (~cut' => Cardinality(C) <= ScanLimit(sort, limit))
  <2>1. Cardinality(C) \in Nat
    BY PresentNumbers, FS_Subset, FS_CardinalityType DEF Candidates
  <2>2. ScanLimit(sort, limit) \in Nat
    BY SearchAssumption DEF ScanLimit
  <2>. HIDE DEF C
  <2>3. cut' \in BOOLEAN
    BY <1>1
  <2>4. ~cut' => ~(Cardinality(C) > ScanLimit(sort, limit))
    BY <1>1
  <2>. QED
    BY <2>1, <2>2, <2>3, <2>4
<1>6. ToSet(shown') = {} /\ shown' \in Seq(Present) /\ Descending(shown') /\ DOMAIN shown' = {}
  BY <1>1 DEF ToSet, Descending
<1>. HIDE DEF req, C
<1>. QED
  BY <1>1, <1>2, <1>3, <1>4, <1>5, <1>6, ScanKeeps DEF C

LEMMA NextPageKeeps ==
  ASSUME SearchInv, NextPage
  PROVE  SearchInv'
<1> DEFINE off == Last(hits)
           req == [request EXCEPT !.offset = off]
           C == Candidates(off)
<1>1. /\ Scan(req) /\ UNCHANGED <<table, hits, more, shown, touched>>
      /\ pc = "idle" /\ request.sort = "date" /\ hits # <<>>
      /\ cut' = (cut \/ Cardinality(C) > ScanLimit("date", request.limit))
  BY DEF NextPage, PageOffset
<1>2. SearchTypes
  BY DEF SearchInv
<1>3. off \in Present
  <2>1. hits \in Seq(Present) /\ hits # <<>>
    BY <1>1, <1>2 DEF SearchTypes
  <2>. QED
    BY <2>1 DEF Last
<1>4. off \in Nat \ {0}
  BY <1>3, PresentNumbers
<1>5. req \in Requests /\ req.sort = "date" /\ req.limit = request.limit /\ req.offset = off
      /\ req.whole = request.whole
  BY <1>1, <1>2, <1>4 DEF SearchTypes, Requests
<1>6. request' = req
  BY <1>1 DEF Scan
<1>. HIDE DEF off, req
<1>7. /\ \A n \in DOMAIN shown : off <= shown[n] /\ shown[n] \in Nat
      /\ off \in ToSet(shown)
  <2>1. shown # <<>> /\ Last(shown) = off /\ Descending(shown)
    BY <1>1 DEF off, SearchInv, ShownDown, Scanning
  <2>2. shown \in Seq(Nat)
    BY <1>2, NumberSeq DEF SearchTypes
  <2>3. Len(shown) \in DOMAIN shown /\ shown[Len(shown)] = off
    BY <2>1, <2>2 DEF Last
  <2>. QED
    BY <2>1, <2>2, <2>3 DEF Descending, ToSet
<1>8. \A r \in C, n \in DOMAIN shown : r < shown[n]
  <2>1. \A r \in C : r \in Nat /\ r < off
    BY <1>4, PresentNumbers DEF Candidates, NoOffset
  <2>. QED
    BY <1>4, <1>7, <2>1
<1>9. cut' \in BOOLEAN /\ (~cut' => ~cut /\ Cardinality(C) <= ScanLimit("date", request.limit))
  <2>1. Cardinality(C) \in Nat
    BY PresentNumbers, FS_Subset, FS_CardinalityType DEF Candidates
  <2>2. ScanLimit("date", request.limit) \in Nat
    BY <1>2, SearchAssumption DEF ScanLimit, SearchTypes, Requests
  <2>. HIDE DEF C
  <2>3. cut' \in BOOLEAN
    BY <1>1
  <2>4. ~cut' => ~cut /\ ~(Cardinality(C) > ScanLimit("date", request.limit))
    BY <1>1
  <2>. QED
    BY <2>1, <2>2, <2>3, <2>4
<1>10. Wanted' = Wanted
  BY <1>1, <1>5, <1>6 DEF Wanted, Present
<1>11. ASSUME ~cut', NEW r \in Wanted \ touched PROVE r \in ToSet(shown) \/ r \in C
  <2>1. SUFFICES ASSUME r \notin ToSet(shown) PROVE r \in C
    OBVIOUS
  <2>2. PICK i \in DOMAIN verified : i > request.limit /\ verified[i] = r
    BY <1>1, <1>9, <1>11, <2>1 DEF SearchInv, Kept, Scanning
  <2>3. \A n \in DOMAIN shown : r < shown[n]
    BY <1>1, <2>2 DEF SearchInv, ShownDown, Scanning
  <2>5. r < off
    BY <1>7, <2>3 DEF ToSet
  <2>. QED
    BY <1>2, <2>5, WantedIsCandidate DEF Candidates
<1>. QED
  BY <1>1, <1>2, <1>5, <1>8, <1>9, <1>10, <1>11, ScanKeeps
  DEF SearchInv, SearchTypes, Sound, ShownDown

\* A sequence without its head.
LEMMA TailIs ==
  ASSUME NEW s \in Seq(Nat), s # <<>>
  PROVE  /\ 1 \in DOMAIN s /\ Head(s) = s[1] /\ Head(s) \in Nat
         /\ Tail(s) \in Seq(Nat) /\ DOMAIN Tail(s) = 1..Len(s) - 1
         /\ \A k \in DOMAIN Tail(s) : k + 1 \in DOMAIN s /\ Tail(s)[k] = s[k + 1]
         /\ Descending(s) => /\ Descending(Tail(s))
                             /\ \A k \in DOMAIN Tail(s) : Tail(s)[k] < Head(s)
         /\ ToSet(s) = ToSet(Tail(s)) \cup {Head(s)}
<1>1. /\ 1 \in DOMAIN s /\ Head(s) = s[1] /\ Head(s) \in Nat
      /\ Tail(s) \in Seq(Nat) /\ DOMAIN Tail(s) = 1..Len(s) - 1
      /\ \A k \in DOMAIN Tail(s) : k + 1 \in DOMAIN s /\ Tail(s)[k] = s[k + 1]
  OBVIOUS
<1>2. ASSUME NEW n \in DOMAIN s, n # 1
      PROVE  n - 1 \in DOMAIN Tail(s) /\ Tail(s)[n - 1] = s[n]
  <2>1. Len(s) \in Nat /\ DOMAIN s = 1..Len(s)
    OBVIOUS
  <2>2. \A k \in 1..Len(s) : k = 1 \/ k - 1 \in 1..Len(s) - 1
    BY <2>1
  <2>3. \A k \in 1..Len(s) - 1 : Tail(s)[k] = s[k + 1]
    BY <1>1
  <2>4. (n - 1) + 1 = n /\ n - 1 \in 1..Len(s) - 1
    BY <1>2, <2>1, <2>2
  <2>5. Tail(s)[n - 1] = s[(n - 1) + 1]
    BY <2>3, <2>4
  <2>. QED
    BY <1>1, <2>4, <2>5
<1>3. ASSUME Descending(s)
      PROVE  Descending(Tail(s)) /\ \A k \in DOMAIN Tail(s) : Tail(s)[k] < Head(s)
  BY <1>1, <1>3 DEF Descending
<1>4. ToSet(s) = ToSet(Tail(s)) \cup {Head(s)}
  <2> DEFINE t == Tail(s)
             h == Head(s)
  <2>1. 1 \in DOMAIN s /\ s[1] = h
    BY <1>1
  <2>2. \A k \in DOMAIN t : k + 1 \in DOMAIN s /\ t[k] = s[k + 1]
    BY <1>1
  <2>3. ASSUME NEW n \in DOMAIN s, n # 1
        PROVE  n - 1 \in DOMAIN t /\ t[n - 1] = s[n]
    BY <1>2, <2>3
  <2>. HIDE DEF t, h
  <2>4. ToSet(s) = ToSet(t) \cup {h}
    BY <2>1, <2>2, <2>3 DEF ToSet
  <2>. QED
    BY <2>4 DEF t, h
<1>. QED
  BY <1>1, <1>3, <1>4

\* A candidate is looked at: it passes, or it is not one of those to keep.
LEMMA PassKeeps ==
  ASSUME SearchInv, rows # <<>>, Scanning, pc' = "verify", rows' = Tail(rows),
         UNCHANGED <<table, request, hits, more, shown, cut, touched>>,
         \/ verified' = verified /\ Head(rows) \notin Wanted \ touched
         \/ verified' = Append(verified, Head(rows)) /\ Head(rows) \in Wanted \cup touched
  PROVE  SearchInv'
<1> DEFINE r == Head(rows)
<1>1. SearchTypes /\ Sorted /\ ShownDown /\ Kept /\ Sound /\ Answered
  BY DEF SearchInv
<1>2. rows \in Seq(Present) /\ verified \in Seq(Present) /\ shown \in Seq(Present)
  BY <1>1 DEF SearchTypes
<1>3. rows \in Seq(Nat) /\ verified \in Seq(Nat) /\ shown \in Seq(Nat)
  BY <1>2, NumberSeq
<1>4. /\ 1 \in DOMAIN rows /\ r = rows[1] /\ r \in Nat
      /\ \A k \in DOMAIN rows' : k + 1 \in DOMAIN rows /\ rows'[k] = rows[k + 1]
      /\ Descending(rows')
      /\ \A k \in DOMAIN rows' : rows'[k] < r
      /\ ToSet(rows) = ToSet(rows') \cup {r}
  BY <1>1, <1>3, TailIs DEF Sorted
<1>5. Present' = Present /\ Wanted' = Wanted /\ (Scanning')
  BY DEF Present, Wanted, Scanning
<1>6. /\ verified' \in Seq(Present) /\ rows' \in Seq(Present)
      /\ ToSet(verified) \subseteq ToSet(verified')
      /\ ToSet(verified') \subseteq ToSet(verified) \cup {r}
      /\ \A i \in DOMAIN verified' :
           \/ i \in DOMAIN verified /\ verified'[i] = verified[i]
           \/ /\ i = Len(verified) + 1 /\ verified'[i] = r
              /\ verified' = Append(verified, r)
  <2>1. r \in Present /\ rows' \in Seq(Present)
    BY <1>2
  <2>2. CASE verified' = verified
    BY <1>2, <2>1, <2>2 DEF ToSet
  <2>3. CASE verified' = Append(verified, r)
    <3>. HIDE DEF r
    <3>1. /\ verified' \in Seq(Present)
          /\ DOMAIN verified' = 1..Len(verified) + 1 /\ DOMAIN verified = 1..Len(verified)
          /\ \A i \in DOMAIN verified : i \in DOMAIN verified' /\ verified'[i] = verified[i]
          /\ verified'[Len(verified) + 1] = r
      BY <1>2, <2>1, <2>3
    <3>2. \A i \in DOMAIN verified' : i \in DOMAIN verified \/ i = Len(verified) + 1
      BY <1>2, <3>1
    <3>. QED
      BY <2>1, <2>3, <3>1, <3>2 DEF ToSet
  <2>. QED
    BY <2>2, <2>3
<1>7. r \in ToSet(verified') \/ r \notin Wanted \ touched
  <2>1. CASE verified' = Append(verified, r)
    <3>1. Len(verified) + 1 \in DOMAIN verified' /\ verified'[Len(verified) + 1] = r
      BY <1>2, <2>1
    <3>. QED
      BY <3>1 DEF ToSet
  <2>. QED
    BY <2>1
<1>. HIDE DEF r
<1>8. SearchTypes'
  BY <1>1, <1>5, <1>6 DEF SearchTypes, Scanning
<1>9. Sorted'
  <2>1. \A k \in DOMAIN rows : rows[k] \in Nat
    BY <1>3
  <2>2. \A i \in DOMAIN verified : verified[i] \in Nat /\ verified[i] > r
    BY <1>1, <1>3, <1>4 DEF Sorted
  <2>3. Descending(verified')
    <3>1. SUFFICES ASSUME NEW i \in DOMAIN verified', NEW k \in DOMAIN verified', i < k
                   PROVE  verified'[i] > verified'[k]
      BY DEF Descending
    <3>2. DOMAIN verified = 1..Len(verified) /\ Len(verified) \in Nat
      BY <1>3
    <3>3. CASE k \in DOMAIN verified
      <4>1. i \in DOMAIN verified
        BY <1>6, <3>1, <3>2, <3>3
      <4>2. verified'[i] = verified[i] /\ verified'[k] = verified[k]
        BY <1>6, <3>2, <3>3, <4>1
      <4>. QED
        BY <1>1, <3>1, <3>3, <4>1, <4>2 DEF Sorted, Descending
    <3>4. CASE k \notin DOMAIN verified
      <4>1. k = Len(verified) + 1 /\ verified'[k] = r
        BY <1>6, <3>4
      <4>2. i \in DOMAIN verified /\ verified'[i] = verified[i]
        BY <1>6, <3>1, <3>2, <4>1
      <4>. QED
        BY <2>2, <4>1, <4>2
    <3>. QED
      BY <3>3, <3>4
  <2>4. \A i \in DOMAIN verified', k \in DOMAIN rows' : verified'[i] > rows'[k]
    <3>1. SUFFICES ASSUME NEW i \in DOMAIN verified', NEW k \in DOMAIN rows'
                   PROVE  verified'[i] > rows'[k]
      OBVIOUS
    <3>2. rows'[k] < r /\ rows'[k] \in Nat
      BY <1>4, <2>1
    <3>3. verified'[i] = r \/ (verified'[i] > r /\ verified'[i] \in Nat)
      BY <1>6, <2>2
    <3>. QED
      BY <1>4, <3>2, <3>3
  <2>5. \A n \in DOMAIN shown : /\ \A i \in DOMAIN verified' : verified'[i] < shown[n]
                                /\ \A k \in DOMAIN rows' : rows'[k] < shown[n]
    BY <1>1, <1>4, <1>6 DEF Sorted
  <2>. QED
    BY <1>4, <2>3, <2>4, <2>5 DEF Sorted
<1>10. ShownDown'
  BY <1>1, <1>5 DEF ShownDown
<1>11. Kept'
  BY <1>1, <1>4, <1>5, <1>6, <1>7 DEF Kept
<1>12. Sound'
  <2>1. verified' = verified \/ r \in Wanted \cup touched
    BY DEF r
  <2>2. ToSet(verified') \ touched \subseteq Wanted
    BY <1>1, <1>6, <2>1 DEF Sound
  <2>. QED
    BY <1>1, <1>5, <2>2 DEF Sound
<1>13. Answered'
  BY <1>1, <1>5 DEF Answered
<1>. QED
  BY <1>8, <1>9, <1>10, <1>11, <1>12, <1>13 DEF SearchInv

LEMMA VerifyKeeps ==
  ASSUME SearchInv, Verify
  PROVE  SearchInv'
<1> DEFINE r == Head(rows)
<1>1. /\ pc = "verify" /\ rows # <<>>
      /\ UNCHANGED <<table, request, hits, more, shown, cut, touched, writes>>
      /\ IF table[r].matches /\ request.whole
         THEN pc' = "whole" /\ UNCHANGED <<rows, verified>>
         ELSE /\ rows' = Tail(rows) /\ pc' = pc
              /\ verified' = IF table[r].matches THEN Append(verified, r) ELSE verified
  BY DEF Verify
<1>2. SearchTypes /\ r \in Present
  <2>1. SearchTypes /\ rows \in Seq(Present)
    BY DEF SearchInv, SearchTypes
  <2>. QED
    BY <1>1, <2>1
<1>3. r \in Wanted => table[r].matches
  BY <1>2, WantedIsCandidate
<1>4. table[r].matches /\ ~request.whole => r \in Wanted
  BY <1>2 DEF Wanted
<1>. HIDE DEF r
<1>5. CASE table[r].matches /\ request.whole
  <2>1. /\ Present' = Present /\ Wanted' = Wanted /\ (Scanning') = Scanning /\ Scanning
        /\ pc' = "whole"
        /\ UNCHANGED <<table, rows, verified, request, hits, more, shown, cut, touched>>
    BY <1>1, <1>5 DEF Present, Wanted, Scanning
  <2>2. SearchTypes'
    BY <1>1, <1>2, <1>5, <2>1 DEF SearchTypes
  <2>3. Sorted' /\ ShownDown' /\ Kept' /\ Sound' /\ Answered'
    BY <2>1 DEF SearchInv, Sorted, ShownDown, Kept, Sound, Answered
  <2>. QED
    BY <2>2, <2>3 DEF SearchInv
<1>6. CASE ~(table[r].matches /\ request.whole)
  <2>1. /\ rows # <<>> /\ Scanning /\ pc' = "verify" /\ rows' = Tail(rows)
        /\ UNCHANGED <<table, request, hits, more, shown, cut, touched>>
    BY <1>1, <1>6 DEF Scanning
  <2>2. \/ verified' = verified /\ r \notin Wanted \ touched
        \/ verified' = Append(verified, r) /\ r \in Wanted \cup touched
    BY <1>1, <1>3, <1>4, <1>6
  <2>. QED
    BY <2>1, <2>2, PassKeeps DEF r
<1>. QED
  BY <1>5, <1>6

LEMMA VerifyWholeKeeps ==
  ASSUME SearchInv, VerifyWhole
  PROVE  SearchInv'
<1> DEFINE r == Head(rows)
<1>1. /\ pc = "whole" /\ pc' = "verify" /\ rows' = Tail(rows)
      /\ UNCHANGED <<table, request, hits, more, shown, cut, touched>>
      /\ verified' = IF table[r].whole THEN Append(verified, r) ELSE verified
  BY DEF VerifyWhole
<1>2. SearchTypes /\ rows # <<>> /\ request.whole
  BY <1>1 DEF SearchInv, SearchTypes
<1>3. r \in Present
  <2>1. rows \in Seq(Present)
    BY <1>2 DEF SearchTypes
  <2>. QED
    BY <1>2, <2>1
<1>4. table[r].whole <=> r \in Wanted
  BY <1>2, <1>3, WantedIsCandidate DEF Wanted
<1>. HIDE DEF r
<1>5. \/ verified' = verified /\ r \notin Wanted \ touched
      \/ verified' = Append(verified, r) /\ r \in Wanted \cup touched
  BY <1>1, <1>4
<1>. QED
  BY <1>1, <1>2, <1>5, PassKeeps DEF r, Scanning

\* What two sequences make one after the other.
LEMMA JoinIs ==
  ASSUME NEW S, NEW s \in Seq(S), NEW t \in Seq(S)
  PROVE  LET u == s \o t
         IN  /\ u \in Seq(S) /\ ToSet(u) = ToSet(s) \cup ToSet(t)
             /\ t # <<>> => u # <<>> /\ Last(u) = Last(t)
             /\ t = <<>> => u = s
             /\ \A n \in DOMAIN u :
                  \/ n \in DOMAIN s /\ u[n] = s[n]
                  \/ n > Len(s) /\ n - Len(s) \in DOMAIN t /\ u[n] = t[n - Len(s)]
<1> DEFINE u == s \o t
<1>1. /\ Len(s) \in Nat /\ Len(t) \in Nat
      /\ DOMAIN s = 1..Len(s) /\ DOMAIN t = 1..Len(t)
  OBVIOUS
<1>2. /\ u \in Seq(S) /\ DOMAIN u = 1..Len(s) + Len(t) /\ Len(u) = Len(s) + Len(t)
      /\ \A i \in 1..Len(s) + Len(t) : u[i] = IF i <= Len(s) THEN s[i] ELSE t[i - Len(s)]
  BY ConcatProperties
<1>. HIDE DEF u
<1>3. ASSUME NEW n \in DOMAIN u
      PROVE  \/ n \in DOMAIN s /\ u[n] = s[n]
             \/ n > Len(s) /\ n - Len(s) \in DOMAIN t /\ u[n] = t[n - Len(s)]
  BY <1>1, <1>2
<1>4. ASSUME NEW n \in DOMAIN s PROVE n \in DOMAIN u /\ u[n] = s[n]
  BY <1>1, <1>2
<1>5. ASSUME NEW n \in DOMAIN t PROVE n + Len(s) \in DOMAIN u /\ u[n + Len(s)] = t[n]
  <2>1. n \in Nat /\ n + Len(s) \in 1..Len(s) + Len(t) /\ ~(n + Len(s) <= Len(s))
        /\ (n + Len(s)) - Len(s) = n
    BY <1>1
  <2>2. u[n + Len(s)] = t[(n + Len(s)) - Len(s)]
    BY <1>2, <2>1
  <2>. QED
    BY <1>2, <2>1, <2>2
<1>6. ToSet(u) = ToSet(s) \cup ToSet(t)
  BY <1>3, <1>4, <1>5 DEF ToSet
<1>7. t # <<>> => u # <<>> /\ Last(u) = Last(t)
  <2>1. SUFFICES ASSUME t # <<>> PROVE u # <<>> /\ Last(u) = Last(t)
    OBVIOUS
  <2>2. Len(t) \in DOMAIN t
    BY <1>1, <2>1
  <2>3. Len(t) + Len(s) = Len(u) /\ Len(u) # 0
    BY <1>1, <1>2, <2>2
  <2>4. u[Len(u)] = t[Len(t)] /\ u # <<>>
    BY <1>5, <2>2, <2>3
  <2>. QED
    BY <2>4 DEF Last
<1>8. t = <<>> => u = s
  BY ConcatEmptySeq DEF u
<1>. QED
  BY <1>2, <1>3, <1>6, <1>7, <1>8 DEF u

LEMMA ReturnKeeps ==
  ASSUME SearchInv, Return
  PROVE  SearchInv'
<1> DEFINE page == Prefix(verified, request.limit)
<1>1. /\ pc = "verify" /\ rows = <<>> /\ request.sort = "date"
      /\ hits' = page /\ more' = MoreAvailable /\ shown' = shown \o page /\ pc' = "idle"
      /\ UNCHANGED <<table, request, rows, verified, cut, touched>>
  BY DEF Return, Answer
<1>2. SearchTypes /\ Sorted /\ ShownDown /\ Kept /\ Sound
  BY DEF SearchInv
<1>3. /\ verified \in Seq(Present) /\ shown \in Seq(Present) /\ rows \in Seq(Present)
      /\ request.limit \in Nat
  BY <1>2 DEF SearchTypes, Requests
<1>4. /\ page \in Seq(Present) /\ DOMAIN page \subseteq DOMAIN verified
      /\ \A i \in DOMAIN verified : i \in DOMAIN page <=> i <= request.limit
      /\ \A i \in DOMAIN page : page[i] = verified[i] /\ i <= request.limit
  BY <1>3, PrefixIs
<1>. HIDE DEF page
<1>5. /\ shown' \in Seq(Present) /\ ToSet(shown') = ToSet(shown) \cup ToSet(page)
      /\ page # <<>> => shown' # <<>> /\ Last(shown') = Last(page)
      /\ \A n \in DOMAIN shown' :
           \/ n \in DOMAIN shown /\ shown'[n] = shown[n]
           \/ /\ n > Len(shown) /\ n - Len(shown) \in DOMAIN page
              /\ shown'[n] = page[n - Len(shown)]
  BY <1>1, <1>3, <1>4, JoinIs
<1>6. Present' = Present /\ Wanted' = Wanted /\ ~(Scanning') /\ Scanning
  BY <1>1 DEF Present, Wanted, Scanning
<1>7. \A i \in DOMAIN verified : verified[i] \in Nat /\ i \in Nat
  BY <1>3, NumberSeq
<1>8. \A n \in DOMAIN shown : shown[n] \in Nat /\ n \in 1..Len(shown)
  BY <1>3, NumberSeq
<1>9. \A n \in DOMAIN shown, i \in DOMAIN verified : verified[i] < shown[n]
  BY <1>2, <1>6 DEF Sorted
<1>10. \A i, k \in DOMAIN verified : i < k => verified[i] > verified[k]
  BY <1>2 DEF Sorted, Descending
<1>11. more' \in BOOLEAN /\ (more' <=> Len(verified) > request.limit)
  <2>1. more' = (Len(verified) > request.limit)
    BY <1>1 DEF MoreAvailable
  <2>2. more' \in BOOLEAN
    BY <2>1
  <2>3. more' <=> Len(verified) > request.limit
    BY Zenon, <2>1
  <2>. QED
    BY <2>2, <2>3
<1>12. SearchTypes'
  <2>1. pc' = "idle" /\ rows' = <<>>
    BY <1>1
  <2>2. {rows', verified', hits', shown'} \subseteq Seq(Present)
    BY <1>1, <1>3, <1>4, <1>5
  <2>. QED
    BY <1>1, <1>2, <1>6, <1>11, <2>1, <2>2 DEF SearchTypes
<1>13. Sorted'
  BY <1>1, <1>2, <1>6 DEF Sorted
<1>14. ShownDown'
  <2>1. Descending(shown')
    <3>1. SUFFICES ASSUME NEW n \in DOMAIN shown', NEW m \in DOMAIN shown', n < m
                   PROVE  shown'[n] > shown'[m]
      BY DEF Descending
    <3>2. \A i, k \in DOMAIN shown : i < k => shown[i] > shown[k]
      BY <1>1, <1>2 DEF ShownDown, Descending
    <3>3. Len(shown) \in Nat /\ n \in Nat /\ m \in Nat
      BY <1>3, <1>5
    <3>4. CASE n \in DOMAIN shown /\ shown'[n] = shown[n]
      <4>1. CASE m \in DOMAIN shown /\ shown'[m] = shown[m]
        BY <3>1, <3>2, <3>4, <4>1
      <4>2. CASE m - Len(shown) \in DOMAIN page /\ shown'[m] = page[m - Len(shown)]
        <5>1. m - Len(shown) \in DOMAIN verified /\ shown'[m] = verified[m - Len(shown)]
          BY <1>4, <4>2
        <5>. QED
          BY <1>7, <1>8, <1>9, <3>4, <5>1
      <4>. QED
        BY <1>5, <4>1, <4>2
    <3>5. CASE /\ n > Len(shown) /\ n - Len(shown) \in DOMAIN page
               /\ shown'[n] = page[n - Len(shown)]
      <4>1. m \notin DOMAIN shown
        BY <1>8, <3>1, <3>3, <3>5
      <4>2. m - Len(shown) \in DOMAIN page /\ shown'[m] = page[m - Len(shown)]
        BY <1>5, <4>1
      <4>3. n - Len(shown) < m - Len(shown)
        BY <3>1, <3>3
      <4>. QED
        BY <1>4, <1>10, <3>5, <4>2, <4>3
    <3>. QED
      BY <1>5, <3>4, <3>5
  <2>2. ASSUME NEW n \in DOMAIN shown', NEW i \in DOMAIN verified, i > request.limit
        PROVE  verified[i] < shown'[n]
    <3>1. CASE n \in DOMAIN shown /\ shown'[n] = shown[n]
      BY <1>9, <3>1
    <3>2. CASE n - Len(shown) \in DOMAIN page /\ shown'[n] = page[n - Len(shown)]
      <4> DEFINE k == n - Len(shown)
      <4>1. k \in DOMAIN verified /\ shown'[n] = verified[k] /\ k <= request.limit
        BY <1>4, <3>2
      <4>. HIDE DEF k
      <4>2. k < i
        BY <1>3, <1>7, <2>2, <4>1
      <4>. QED
        BY <1>7, <1>10, <4>1, <4>2
    <3>. QED
      BY <1>5, <3>1, <3>2
  <2>. QED
    BY <1>1, <1>5, <2>1, <2>2 DEF ShownDown
<1>15. Kept'
  <2>1. SUFFICES ASSUME ~cut, NEW r \in Wanted \ touched
                 PROVE  \/ r \in ToSet(shown')
                        \/ \E i \in DOMAIN verified : i > request.limit /\ verified[i] = r
    BY <1>1, <1>6 DEF Kept
  <2>2. r \in ToSet(shown) \/ r \in ToSet(verified)
    BY <1>1, <1>2, <1>6, <2>1 DEF Kept, ToSet
  <2>3. CASE r \in ToSet(verified)
    <3>1. PICK i \in DOMAIN verified : verified[i] = r
      BY <2>3 DEF ToSet
    <3>2. CASE i <= request.limit
      BY <1>4, <1>5, <3>1, <3>2 DEF ToSet
    <3>. QED
      BY <1>3, <1>7, <3>1, <3>2
  <2>. QED
    BY <1>5, <2>2, <2>3
<1>16. Sound'
  <2>1. ToSet(page) \subseteq ToSet(verified)
    BY <1>4 DEF ToSet
  <2>. QED
    BY <1>1, <1>2, <1>5, <1>6, <2>1 DEF Sound
<1>17. Answered'
  BY <1>1, <1>6, <1>11 DEF Answered
<1>. QED
  BY <1>12, <1>13, <1>14, <1>15, <1>16, <1>17 DEF SearchInv

\* Every order of a finite set has its members.
LEMMA SequencesOf ==
  ASSUME NEW S, IsFiniteSet(S), NEW s \in SetToSeqs(S)
  PROVE  s \in Seq(S) /\ ToSet(s) = S
<1>1. Cardinality(S) \in Nat
  BY FS_CardinalityType
<1>2. s \in [1..Cardinality(S) -> S]
      /\ \A i, j \in 1..Cardinality(S) : i # j => s[i] # s[j]
  BY DEF SetToSeqs
<1>3. s \in Injection(1..Cardinality(S), S)
  BY <1>2 DEF Injection, IsInjective
<1>4. Cardinality(1..Cardinality(S)) = Cardinality(S)
  BY <1>1, FS_Interval
<1>5. s \in Surjection(1..Cardinality(S), S)
  BY <1>3, <1>4, FS_Injection
<1>6. DOMAIN s = 1..Cardinality(S)
  BY <1>2
<1>7. ToSet(s) = S
  BY <1>2, <1>5, <1>6 DEF Surjection, ToSet
<1>. QED
  BY <1>1, <1>2, <1>7

LEMMA ReturnSortedKeeps ==
  ASSUME SearchInv, ReturnSorted
  PROVE  SearchInv'
<1> DEFINE first == Prefix(verified, request.limit)
           page == {r \in ToSet(first) : table[r].candidate}
<1>1. PICK s \in SetToSeqs(page) : BestFirst(s) /\ Answer(s)
  BY DEF ReturnSorted
<1>2. /\ pc = "verify" /\ rows = <<>> /\ request.sort = "relevance"
      /\ hits' = s /\ more' = MoreAvailable /\ shown' = shown \o s /\ pc' = "idle"
      /\ UNCHANGED <<table, request, rows, verified, cut, touched>>
  BY <1>1 DEF ReturnSorted, Answer
<1>3. SearchTypes /\ Sorted /\ ShownDown /\ Kept /\ Sound /\ shown = <<>>
  BY <1>2 DEF SearchInv, Answered, Scanning
<1>4. /\ verified \in Seq(Present) /\ request.limit \in Nat
  BY <1>3 DEF SearchTypes, Requests
<1>5. /\ first \in Seq(Present) /\ DOMAIN first \subseteq DOMAIN verified
      /\ \A i \in DOMAIN verified : i \in DOMAIN first <=> i <= request.limit
      /\ \A i \in DOMAIN first : first[i] = verified[i] /\ i <= request.limit
  BY <1>4, PrefixIs
<1>. HIDE DEF first
<1>6. page \subseteq ToSet(first) /\ page \subseteq Present /\ ToSet(first) \subseteq ToSet(verified)
  BY <1>5 DEF ToSet
<1>7. s \in Seq(page) /\ ToSet(s) = page
  <2>1. IsFiniteSet(page)
    BY <1>6, PresentNumbers, FS_Subset
  <2>. HIDE DEF page
  <2>. QED
    BY <1>1, <2>1, SequencesOf
<1>8. shown' = s
  BY <1>2, <1>3, <1>7, ConcatEmptySeq
<1>9. s \in Seq(Present)
  BY <1>6, <1>7, SeqMonotonic
<1>10. Present' = Present /\ Wanted' = Wanted /\ ~(Scanning') /\ Scanning
  BY <1>2 DEF Present, Wanted, Scanning
<1>11. \A r \in ToSet(first) : r \in page \/ ~table[r].candidate
  OBVIOUS
<1>. HIDE DEF page
<1>12. SearchTypes'
  <2>1. more' \in BOOLEAN
    BY <1>2 DEF MoreAvailable
  <2>2. {rows', verified', hits', shown'} \subseteq Seq(Present)
    BY <1>2, <1>4, <1>8, <1>9
  <2>. QED
    BY <1>2, <1>3, <1>10, <2>1, <2>2 DEF SearchTypes
<1>13. Sorted'
  BY <1>2, <1>3, <1>10 DEF Sorted
<1>14. ShownDown'
  BY <1>2 DEF ShownDown
<1>15. Kept'
  <2>1. SUFFICES ASSUME ~cut, NEW r \in Wanted \ touched
                 PROVE  \/ r \in ToSet(s)
                        \/ \E i \in DOMAIN verified : i > request.limit /\ verified[i] = r
    BY <1>2, <1>8, <1>10 DEF Kept
  <2>2. r \in ToSet(verified)
    BY <1>2, <1>3, <1>10, <2>1 DEF Kept, ToSet
  <2>3. PICK i \in DOMAIN verified : verified[i] = r
    BY <2>2 DEF ToSet
  <2>4. CASE i <= request.limit
    <3>1. r \in ToSet(first)
      BY <1>5, <2>3, <2>4 DEF ToSet
    <3>2. table[r].candidate
      BY <1>3, <2>1, WantedIsCandidate
    <3>. QED
      BY <1>7, <1>11, <3>1, <3>2
  <2>5. i \in Nat
    BY <1>4
  <2>. QED
    BY <1>4, <2>3, <2>4, <2>5
<1>16. Sound'
  BY <1>2, <1>3, <1>6, <1>7, <1>8, <1>10 DEF Sound
<1>17. Answered'
  <2>1. hits' = shown' /\ ToSet(hits') \subseteq ToSet(first)
    BY <1>2, <1>6, <1>7, <1>8
  <2>2. \A i, k \in DOMAIN s : i < k => table[s[i]].score <= table[s[k]].score
    BY <1>1 DEF BestFirst
  <2>. QED
    BY <1>2, <1>10, <2>1, <2>2 DEF Answered, first
<1>. QED
  BY <1>12, <1>13, <1>14, <1>15, <1>16, <1>17 DEF SearchInv

LEMMA WriteKeeps ==
  ASSUME SearchInv, NEW r \in Rowids, NEW c \in Contents, Write(r, c)
  PROVE  SearchInv' /\ Present' = Present \cup {r} /\ Wanted' \ touched' = Wanted \ touched'
<1>1. /\ table' = [table EXCEPT ![r] = c] /\ touched' = touched \cup {r}
      /\ UNCHANGED <<pc, request, rows, verified, hits, more, shown, cut>>
  BY DEF Write
<1>2. SearchTypes /\ Sorted /\ ShownDown /\ Kept /\ Sound /\ Answered
  BY DEF SearchInv
<1>3. \A k \in Rowids : table'[k] = IF k = r THEN c ELSE table[k]
  BY <1>1, <1>2 DEF SearchTypes
<1>4. Present' = Present \cup {r}
  BY <1>3, SearchAssumption DEF Present
<1>5. \A k \in Rowids \ touched' : (k \in Wanted' <=> k \in Wanted) /\ table'[k] = table[k]
  <2>1. SUFFICES ASSUME NEW k \in Rowids \ touched'
                 PROVE  (k \in Wanted' <=> k \in Wanted) /\ table'[k] = table[k]
    OBVIOUS
  <2>2. k # r /\ table'[k] = table[k] /\ (k \in Present' <=> k \in Present)
    BY <1>1, <1>3, <1>4
  <2>. QED
    BY <1>1, <2>2 DEF Wanted
<1>6. Wanted \subseteq Rowids /\ Wanted' \subseteq Rowids
  BY DEF Wanted, Present
<1>7. Wanted' \ touched' = Wanted \ touched'
  BY <1>5, <1>6
<1>8. SearchTypes'
  <2>1. table' \in [Rowids -> Contents \cup {Absent}]
    BY <1>1, <1>2 DEF SearchTypes
  <2>2. \A s \in Seq(Present) : s \in Seq(Present')
    BY <1>4, SeqMonotonic
  <2>3. touched' \subseteq Rowids
    BY <1>1, <1>2 DEF SearchTypes
  <2>. QED
    BY <1>1, <1>2, <2>1, <2>2, <2>3 DEF SearchTypes, Scanning
<1>9. Sorted' /\ ShownDown'
  BY <1>1, <1>2 DEF Sorted, ShownDown, Scanning
<1>10. Kept'
  BY <1>1, <1>2, <1>7 DEF Kept, Scanning
<1>11. Sound'
  BY <1>1, <1>2, <1>7 DEF Sound
<1>12. Answered'
  <2>1. \A i \in DOMAIN hits : hits[i] \in Rowids
    BY <1>2 DEF SearchTypes, Present
  <2>2. \A i \in DOMAIN hits :
          hits[i] \notin touched' => hits[i] \notin touched /\ table'[hits[i]] = table[hits[i]]
    BY <1>1, <1>5, <2>1
  <2>. QED
    BY <1>1, <1>2, <2>2 DEF Answered, Scanning
<1>. QED
  BY <1>4, <1>7, <1>8, <1>9, <1>10, <1>11, <1>12 DEF SearchInv

LEMMA StutterKeeps ==
  ASSUME SearchInv, UNCHANGED vars
  PROVE  SearchInv'
<1>1. Present' = Present /\ Wanted' = Wanted /\ Scanning' = Scanning
  BY DEF vars, Present, Wanted, Scanning
<1>2. SearchTypes'
  BY <1>1 DEF vars, SearchInv, SearchTypes
<1>. QED
  BY <1>1, <1>2 DEF vars, SearchInv, Sorted, ShownDown, Kept, Sound, Answered

\* Every step of the searches and of the writers.
LEMMA NextKeeps ==
  ASSUME SearchInv, Next
  PROVE  SearchInv'
<1>1. ASSUME NEW sort \in {"date", "relevance"}, NEW whole \in BOOLEAN,
             Search(sort, whole, Limit)
      PROVE  SearchInv'
  BY <1>1, SearchKeeps, SearchAssumption
<1>. QED
  BY <1>1, NextPageKeeps, VerifyKeeps, VerifyWholeKeeps, ReturnKeeps, ReturnSortedKeeps,
     WriteKeeps DEF Next

-----------------------------------------------------------------------------
(* What relevance is about *)

\* Counting what is newer: a larger set has no fewer.
LEMMA NewerIs ==
  ASSUME NEW S \in SUBSET Rowids, NEW T \in SUBSET S, NEW r
  PROVE  Newer(S, r) \in Nat /\ Newer(T, r) \in Nat /\ Newer(T, r) <= Newer(S, r)
<1> DEFINE A == {k \in S : k > r}
           B == {k \in T : k > r}
<1>1. IsFiniteSet(A) /\ IsFiniteSet(B) /\ B \subseteq A
  <2>1. A \subseteq Rowids /\ B \subseteq A
    OBVIOUS
  <2>. QED
    BY <2>1, SearchAssumption, FS_Subset
<1>. HIDE DEF A, B
<1>2. Cardinality(A) \in Nat /\ Cardinality(B) \in Nat /\ Cardinality(B) <= Cardinality(A)
  BY <1>1, FS_Subset, FS_CardinalityType
<1>. QED
  BY <1>2 DEF Newer, A, B

\* A scan has the newest n candidates.
LEMMA ScanHasNewest ==
  ASSUME NEW off, NEW n \in Nat \ {0}
  PROVE  LET s == Prefix(NewestFirst(Candidates(off)), n)
         IN  \A r \in Candidates(off) :
               r \in ToSet(s) <=> Newer(Candidates(off), r) < n
<1> DEFINE C == Candidates(off)
           t == NewestFirst(C)
           s == Prefix(t, n)
<1>1. C \in SUBSET Nat /\ IsFiniteSet(C)
  BY PresentNumbers, FS_Subset DEF Candidates
<1>2. /\ t \in Seq(C) /\ Descending(t) /\ ToSet(t) = C
      /\ \A i \in DOMAIN t : Cardinality({k \in C : k > t[i]}) <= i - 1
  BY <1>1, NewestIs
<1>. HIDE DEF C, t
<1>3. /\ s \in Seq(C) /\ DOMAIN s \subseteq DOMAIN t
      /\ \A i \in DOMAIN t : i \in DOMAIN s <=> i <= n
      /\ \A i \in DOMAIN s : s[i] = t[i] /\ i <= n
  BY <1>2, PrefixIs
<1>. HIDE DEF s
<1>4. ASSUME NEW r \in ToSet(s) PROVE Newer(C, r) < n
  <2>1. PICK i \in DOMAIN s : s[i] = r
    BY <1>4 DEF ToSet
  <2>2. i \in DOMAIN t /\ t[i] = r /\ i <= n /\ i \in Nat
    BY <1>2, <1>3, <2>1
  <2>3. Newer(C, r) <= i - 1
    BY <1>2, <2>2 DEF Newer
  <2>4. Newer(C, r) \in Nat
    BY <1>1, FS_Subset, FS_CardinalityType DEF Newer
  <2>. QED
    BY <2>2, <2>3, <2>4
<1>5. ASSUME NEW r \in C, r \notin ToSet(s) PROVE n <= Newer(C, r)
  <2> DEFINE A == {k \in C : k > r}
             f == [j \in 1..n |-> t[j]]
  <2>1. PICK i \in DOMAIN t : t[i] = r
    BY <1>2 DEF ToSet
  <2>2. DOMAIN t = 1..Len(t) /\ Len(t) \in Nat /\ i \in Nat /\ \A j \in DOMAIN t : t[j] \in Nat
    <3>1. t \in Seq(Nat)
      BY <1>1, <1>2, SeqMonotonic
    <3>. QED
      BY <3>1, <2>1
  <2>3. ~(i <= n)
    BY <1>3, <1>5, <2>1 DEF ToSet
  <2>4. \A j \in 1..n : j \in DOMAIN t /\ j < i
    BY <2>1, <2>2, <2>3
  <2>5. \A j \in 1..n : t[j] \in C /\ t[j] > r
    BY <1>2, <2>1, <2>4 DEF Descending
  <2>6. \A j, k \in 1..n : t[j] = t[k] => j = k
    <3>1. \A j, k \in 1..n : j < k => t[j] > t[k]
      BY <1>2, <2>4 DEF Descending
    <3>2. \A j \in 1..n : t[j] \in Nat
      BY <2>2, <2>4
    <3>. QED
      BY <3>1, <3>2
  <2>7. f \in Injection(1..n, A)
    BY <2>5, <2>6 DEF Injection, IsInjective
  <2>8. IsFiniteSet(A) /\ IsFiniteSet(1..n) /\ Cardinality(1..n) = n
    BY <1>1, FS_Subset, UpTo
  <2>. HIDE DEF A, f
  <2>9. n <= Cardinality(A)
    BY <2>7, <2>8, FS_Injection
  <2>. QED
    BY <2>9 DEF Newer, A
<1>6. ASSUME NEW r \in C PROVE Newer(C, r) \in Nat
  BY <1>1, FS_Subset, FS_CardinalityType DEF Newer
<1>7. \A r \in C : r \in ToSet(s) <=> Newer(C, r) < n
  BY <1>4, <1>5, <1>6
<1>. QED
  BY <1>7 DEF C, t, s

\* The scan of a search by relevance.
LEMMA SearchRanks ==
  ASSUME SearchInv, NEW whole \in BOOLEAN, NEW limit, Search("relevance", whole, limit)
  PROVE  RankInv'
<1> DEFINE C == Candidates(NoOffset)
           n == RelevanceCandidates
<1>1. /\ rows' = Prefix(NewestFirst(C), n) /\ verified' = <<>> /\ pc' = "verify"
      /\ shown' = <<>> /\ touched' = {} /\ UNCHANGED table
      /\ request'.whole = whole
  BY DEF Search, Scan, ScanLimit
<1>2. n \in Nat \ {0} /\ C' = C
  BY <1>1, SearchAssumption DEF Candidates, Present
<1>3. /\ rows' \in Seq(C)
      /\ \A r \in C : r \in ToSet(rows') <=> Newer(C, r) < n
  BY <1>1, <1>2, ScanHas, ScanHasNewest
<1>4. Scanning' /\ ToSet(verified') = {} /\ ToSet(shown') = {}
  BY <1>1 DEF Scanning, ToSet
<1>5. C \cup touched' = C /\ C \ touched' = C
  BY <1>1
<1>6. ToSet(rows') \subseteq C
  BY <1>3 DEF ToSet
<1>7. Wanted' \subseteq C
  <2>1. SUFFICES ASSUME NEW r \in Wanted' PROVE r \in C
    OBVIOUS
  <2>2. r \in Present /\ IF whole THEN table[r].whole ELSE table[r].matches
    BY <1>1, <2>1 DEF Wanted, Present
  <2>3. table[r] \in Contents
    BY <2>2 DEF Present, SearchInv, SearchTypes
  <2>4. table[r].candidate
    BY <2>2, <2>3, SearchAssumption
  <2>. QED
    BY <2>2, <2>4 DEF Candidates
<1>. HIDE DEF C
<1>8. DueKept'
  BY <1>2, <1>3, <1>4, <1>5, <1>7 DEF DueKept, Due, SurelyRanked, C
<1>9. \A r \in ToSet(rows') : PerhapsRanked(r)'
  BY <1>2, <1>3, <1>5, <1>6 DEF PerhapsRanked, C
<1>. QED
  BY <1>4, <1>8, <1>9 DEF RankInv

\* A candidate is looked at, or a word more of it.
LEMMA LookRanks ==
  ASSUME SearchInv, RankInv, Verify \/ VerifyWhole
  PROVE  RankInv'
<1> DEFINE r == Head(rows)
<1>1. /\ Scanning /\ Scanning' /\ rows # <<>>
      /\ UNCHANGED <<table, request, hits, more, shown, touched>>
      /\ \/ UNCHANGED <<rows, verified>>
         \/ /\ rows' = Tail(rows)
            /\ \/ verified' = verified /\ r \notin Wanted
               \/ verified' = Append(verified, r)
  <2>1. SearchTypes /\ rows \in Seq(Present)
    BY DEF SearchInv, SearchTypes
  <2>2. rows # <<>>
    BY <2>1 DEF Verify, VerifyWhole, SearchTypes
  <2>3. r \in Present
    BY <2>1, <2>2
  <2>4. r \in Wanted => table[r].matches /\ (request.whole => table[r].whole)
    BY <2>1, WantedIsCandidate
  <2>5. VerifyWhole => request.whole
    BY <2>1 DEF SearchTypes, VerifyWhole
  <2>. QED
    BY <2>2, <2>4, <2>5 DEF Verify, VerifyWhole, Scanning
<1>2. SUFFICES ASSUME request.sort = "relevance" PROVE RankInv'
  BY <1>1 DEF RankInv
<1>3. Wanted' = Wanted /\ \A k : (Due(k)' <=> Due(k)) /\ (PerhapsRanked(k)' <=> PerhapsRanked(k))
  BY <1>1 DEF Wanted, Due, SurelyRanked, PerhapsRanked, Candidates, Present
<1>4. CASE UNCHANGED <<rows, verified>>
  BY <1>1, <1>2, <1>3, <1>4 DEF RankInv, DueKept
<1>5. CASE /\ rows' = Tail(rows)
           /\ \/ verified' = verified /\ r \notin Wanted
              \/ verified' = Append(verified, r)
  <2>1. rows \in Seq(Present) /\ verified \in Seq(Present)
    BY DEF SearchInv, SearchTypes
  <2>2. ToSet(rows) = ToSet(rows') \cup {r}
    <3>1. rows \in Seq(Nat) /\ Descending(rows)
      BY <2>1, NumberSeq DEF SearchInv, Sorted
    <3>. QED
      BY <1>1, <1>5, <3>1, TailIs
  <2>3. /\ ToSet(verified) \subseteq ToSet(verified')
        /\ ToSet(verified') \subseteq ToSet(verified) \cup {r}
        /\ r \in ToSet(verified') \/ r \notin Wanted
    <3>1. CASE verified' = verified /\ r \notin Wanted
      BY <3>1
    <3>2. CASE verified' = Append(verified, r)
      <4>1. r \in Present
        BY <1>1, <2>1
      <4> HIDE DEF r
      <4>2. /\ DOMAIN verified' = 1..Len(verified) + 1 /\ DOMAIN verified = 1..Len(verified)
            /\ \A i \in DOMAIN verified : i \in DOMAIN verified' /\ verified'[i] = verified[i]
            /\ Len(verified) + 1 \in DOMAIN verified' /\ verified'[Len(verified) + 1] = r
        BY <2>1, <3>2, <4>1
      <4>3. \A i \in DOMAIN verified' : i \in DOMAIN verified \/ i = Len(verified) + 1
        BY <2>1, <4>2
      <4>. QED
        BY <4>2, <4>3 DEF ToSet
    <3>. QED
      BY <1>5, <3>1, <3>2
  <2> HIDE DEF r
  <2>4. DueKept'
    <3>1. SUFFICES ASSUME NEW k \in Rowids, Due(k)
                   PROVE  k \in ToSet(shown) \/ k \in ToSet(verified') \/ k \in ToSet(rows')
      BY <1>1, <1>3 DEF DueKept
    <3>2. k \in Wanted
      BY <3>1 DEF Due
    <3>3. k \in ToSet(shown) \/ k \in ToSet(verified) \/ k \in ToSet(rows)
      BY <1>1, <1>2, <3>1 DEF RankInv, DueKept
    <3>. QED
      BY <2>2, <2>3, <3>2, <3>3
  <2>5. \A k \in ToSet(rows') \cup ToSet(verified') \cup ToSet(shown) : PerhapsRanked(k)
    BY <1>2, <2>2, <2>3 DEF RankInv
  <2>. QED
    BY <1>1, <1>3, <2>4, <2>5 DEF RankInv
<1>. QED
  BY <1>1, <1>4, <1>5

\* The answer of a search by relevance.
LEMMA AnswerRanks ==
  ASSUME SearchInv, RankInv, ReturnSorted
  PROVE  RankInv'
<1> DEFINE first == Prefix(verified, request.limit)
           page == {r \in ToSet(first) : table[r].candidate}
<1>1. PICK s \in SetToSeqs(page) : Answer(s)
  BY DEF ReturnSorted
<1>2. /\ pc = "verify" /\ rows = <<>> /\ request.sort = "relevance"
      /\ more' = MoreAvailable /\ shown' = shown \o s /\ pc' = "idle"
      /\ UNCHANGED <<table, request, rows, verified, touched>>
  BY <1>1 DEF ReturnSorted, Answer
<1>3. SearchTypes /\ shown = <<>>
  BY <1>2 DEF SearchInv, Answered, Scanning
<1>4. verified \in Seq(Present) /\ request.limit \in Nat
  BY <1>3 DEF SearchTypes, Requests
<1>5. /\ first \in Seq(Present) /\ DOMAIN first \subseteq DOMAIN verified
      /\ \A i \in DOMAIN verified : i \in DOMAIN first <=> i <= request.limit
      /\ \A i \in DOMAIN first : first[i] = verified[i] /\ i <= request.limit
  BY <1>4, PrefixIs
<1>. HIDE DEF first
<1>6. page \subseteq ToSet(verified) /\ page \subseteq Present
  BY <1>5 DEF ToSet
<1>7. s \in Seq(page) /\ ToSet(s) = page
  <2>1. IsFiniteSet(page)
    BY <1>6, PresentNumbers, FS_Subset
  <2>. HIDE DEF page
  <2>. QED
    BY <1>1, <2>1, SequencesOf
<1>8. shown' = s
  BY <1>2, <1>3, <1>7, ConcatEmptySeq
<1>9. /\ Wanted' = Wanted /\ ~(Scanning') /\ Scanning
      /\ \A k : (Due(k)' <=> Due(k)) /\ (PerhapsRanked(k)' <=> PerhapsRanked(k))
  BY <1>2 DEF Wanted, Due, SurelyRanked, PerhapsRanked, Candidates, Present, Scanning
<1>10. \A r \in ToSet(first) : table[r].candidate => r \in page
  OBVIOUS
<1>. HIDE DEF page
<1>11. DueKept'
  <2>1. SUFFICES ASSUME NEW r \in Rowids, Due(r)
                 PROVE  \/ r \in ToSet(s)
                        \/ \E i \in DOMAIN verified : i > request.limit /\ verified[i] = r
    BY <1>2, <1>8, <1>9 DEF DueKept
  <2>2. r \in ToSet(verified)
    BY <1>2, <1>3, <1>9, <2>1 DEF RankInv, DueKept, ToSet
  <2>3. PICK i \in DOMAIN verified : verified[i] = r
    BY <2>2 DEF ToSet
  <2>4. CASE i <= request.limit
    <3>1. r \in ToSet(first)
      BY <1>5, <2>3, <2>4 DEF ToSet
    <3>2. table[r].candidate
      BY <1>3, <2>1, WantedIsCandidate DEF Due
    <3>. QED
      BY <1>7, <1>10, <3>1, <3>2
  <2>5. i \in Nat
    BY <1>4
  <2>. QED
    BY <1>4, <2>3, <2>4, <2>5
<1>12. \A r \in ToSet(rows) \cup ToSet(verified) \cup ToSet(s) : PerhapsRanked(r)
  BY <1>2, <1>6, <1>7 DEF RankInv
<1>13. more' <=> Len(verified) > request.limit
  BY Zenon, <1>2 DEF MoreAvailable
<1>. QED
  BY <1>2, <1>8, <1>9, <1>11, <1>12, <1>13 DEF RankInv

\* A row is written.
LEMMA WriteRanks ==
  ASSUME SearchInv, RankInv, NEW r \in Rowids, NEW c \in Contents, Write(r, c)
  PROVE  RankInv'
<1> DEFINE C == Candidates(NoOffset)
<1>1. /\ table' = [table EXCEPT ![r] = c] /\ touched' = touched \cup {r}
      /\ UNCHANGED <<pc, request, rows, verified, hits, more, shown>>
      /\ touched \subseteq Rowids /\ table \in [Rowids -> Contents \cup {Absent}]
  BY DEF Write, SearchInv, SearchTypes
<1>2. Wanted' \ touched' = Wanted \ touched'
  BY WriteKeeps
<1>3. \A k \in Rowids : k # r => (k \in C' <=> k \in C)
  BY <1>1 DEF Candidates, Present
<1>4. C \subseteq Rowids /\ C' \subseteq Rowids
  BY DEF Candidates, Present
<1>. HIDE DEF C
<1>5. /\ C \cup touched \subseteq C' \cup touched'
      /\ C' \ touched' \subseteq C \ touched
  BY <1>1, <1>3, <1>4
<1>6. C' \cup touched' \subseteq Rowids /\ C \ touched \subseteq Rowids
  BY <1>1, <1>4
<1>n. RelevanceCandidates \in Nat
  BY SearchAssumption
<1>7. ASSUME NEW k PROVE SurelyRanked(k)' => SurelyRanked(k)
  <2>1. /\ Newer(C \cup touched, k) <= Newer(C' \cup touched', k)
        /\ Newer(C \cup touched, k) \in Nat /\ Newer(C' \cup touched', k) \in Nat
    BY <1>5, <1>6, NewerIs
  <2>2. /\ SurelyRanked(k) <=> Newer(C \cup touched, k) < RelevanceCandidates
        /\ SurelyRanked(k)' <=> Newer(C' \cup touched', k) < RelevanceCandidates
    BY Zenon DEF SurelyRanked, C, Newer
  <2>. QED
    BY <1>n, <2>1, <2>2
<1>8. ASSUME NEW k PROVE PerhapsRanked(k) => PerhapsRanked(k)'
  <2>1. /\ Newer(C' \ touched', k) <= Newer(C \ touched, k)
        /\ Newer(C \ touched, k) \in Nat /\ Newer(C' \ touched', k) \in Nat
    BY <1>5, <1>6, NewerIs
  <2>2. /\ PerhapsRanked(k) <=> Newer(C \ touched, k) < RelevanceCandidates
        /\ PerhapsRanked(k)' <=> Newer(C' \ touched', k) < RelevanceCandidates
    BY Zenon DEF PerhapsRanked, C, Newer
  <2>. QED
    BY <1>n, <2>1, <2>2
<1>9. \A k : Due(k)' => Due(k)
  BY <1>1, <1>2, <1>7 DEF Due
<1>. QED
  BY <1>1, <1>8, <1>9 DEF RankInv, DueKept, Scanning

\* Every step keeps what relevance is about.
LEMMA RankStep ==
  ASSUME SearchInv, RankInv, Next
  PROVE  RankInv'
<1>1. CASE request'.sort # "relevance"
  BY <1>1 DEF RankInv
<1>2. ASSUME NEW sort \in {"date", "relevance"}, NEW whole \in BOOLEAN,
             Search(sort, whole, Limit)
      PROVE  RankInv'
  <2>1. request'.sort = sort
    BY <1>2 DEF Search, Scan
  <2>. QED
    BY <1>1, <1>2, <2>1, SearchRanks
<1>3. ASSUME NextPage PROVE RankInv'
  <2>1. request \in Requests
    BY DEF SearchInv, SearchTypes
  <2>2. request'.sort = "date"
    BY <1>3, <2>1 DEF NextPage, Scan, Requests
  <2>. QED
    BY <1>1, <2>2
<1>4. ASSUME Return PROVE RankInv'
  BY <1>1, <1>4 DEF Return, Answer
<1>. QED
  BY <1>2, <1>3, <1>4, LookRanks, AnswerRanks, WriteRanks DEF Next

\* So does a step that leaves the searches alone.
LEMMA StutterRanks ==
  ASSUME RankInv, UNCHANGED vars
  PROVE  RankInv'
<1>1. Candidates(NoOffset)' = Candidates(NoOffset) /\ Wanted' = Wanted /\ Scanning' = Scanning
  BY DEF vars, Candidates, Wanted, Present, Scanning
<1>. QED
  BY <1>1 DEF vars, RankInv, DueKept, Due, SurelyRanked, PerhapsRanked

-----------------------------------------------------------------------------
(* What the invariant says of the answers *)

LEMMA AnswersAreRight ==
  ASSUME SearchInv, RankInv
  PROVE  NoHitTwice /\ NothingIsSkipped /\ MoreIsTrue /\ BestOfTheNewest
<1>1. SearchTypes /\ Sorted /\ ShownDown /\ Kept /\ Sound /\ Answered
  BY DEF SearchInv
<1>2. /\ verified \in Seq(Present) /\ verified \in Seq(Nat) /\ shown \in Seq(Nat)
      /\ hits \in Seq(Present)
      /\ request.limit \in Nat \ {0} /\ touched \subseteq Rowids
  BY <1>1, NumberSeq DEF SearchTypes, Requests
<1>3. NoHitTwice
  BY <1>1 DEF NoHitTwice, ShownDown
<1>4. NothingIsSkipped
  BY <1>1 DEF NothingIsSkipped, Settled, Complete, Kept, ShownDown, Scanning
<1>5. MoreIsTrue
  <2>1. SUFFICES ASSUME Settled
                 PROVE  /\ ~more => Wanted \subseteq ToSet(shown) \cup touched
                        /\ more /\ touched = {} => ~(Wanted \subseteq ToSet(shown))
    BY DEF MoreIsTrue
  <2>2. ~Scanning /\ ~cut /\ request.sort = "date" /\ (more <=> Len(verified) > request.limit)
    BY <1>1, <2>1 DEF Settled, Complete, Scanning, Answered
  <2>3. ASSUME ~more, NEW r \in Wanted \ touched PROVE r \in ToSet(shown)
    <3>1. \A i \in DOMAIN verified : ~(i > request.limit)
      BY <1>2, <2>2, <2>3
    <3>. QED
      BY <1>1, <2>2, <2>3, <3>1 DEF Kept
  <2>4. ASSUME more, touched = {} PROVE ~(Wanted \subseteq ToSet(shown))
    <3> DEFINE i == request.limit + 1
    <3>1. i \in DOMAIN verified /\ i > request.limit
      BY <1>2, <2>2, <2>4
    <3>. HIDE DEF i
    <3>2. verified[i] \in Wanted
      BY <1>1, <2>4, <3>1 DEF Sound, ToSet
    <3>3. \A n \in DOMAIN shown : verified[i] < shown[n]
      BY <1>1, <2>2, <3>1 DEF ShownDown
    <3>4. verified[i] \in Nat
      BY <1>2, <3>1
    <3>5. verified[i] \notin ToSet(shown)
      BY <3>3, <3>4 DEF ToSet
    <3>. QED
      BY <3>2, <3>5
  <2>. QED
    BY <2>3, <2>4
<1>6. BestOfTheNewest
  <2>1. SUFFICES ASSUME pc = "idle", request.sort = "relevance"
                 PROVE  /\ \A r \in Wanted \ touched :
                             SurelyRanked(r) => r \in ToSet(hits) \/ more
                        /\ \A r \in ToSet(hits) \ touched : r \in Wanted /\ PerhapsRanked(r)
                        /\ \A i, k \in DOMAIN hits :
                             i < k /\ {hits[i], hits[k]} \cap touched = {} =>
                               table[hits[i]].score <= table[hits[k]].score
    BY DEF BestOfTheNewest, DateCutsThePage
  <2>2. /\ ~Scanning /\ hits = shown
        /\ \A i, k \in DOMAIN hits :
            i < k /\ hits[i] \notin touched /\ hits[k] \notin touched =>
              table[hits[i]].score <= table[hits[k]].score
    BY <1>1, <2>1 DEF Scanning, Answered
  <2>3. ASSUME NEW r \in Wanted \ touched, SurelyRanked(r), ~more PROVE r \in ToSet(hits)
    <3>1. r \in Rowids /\ Due(r)
      BY <2>3 DEF Due, Wanted, Present
    <3>2. \/ r \in ToSet(shown)
          \/ \E i \in DOMAIN verified : i > request.limit /\ verified[i] = r
      BY <2>1, <2>2, <3>1 DEF RankInv, DueKept
    <3>3. ~(Len(verified) > request.limit)
      BY <2>1, <2>2, <2>3 DEF RankInv
    <3>4. \A i \in DOMAIN verified : ~(i > request.limit)
      BY <1>2, <3>3
    <3>. QED
      BY <2>2, <3>2, <3>4
  <2>4. \A r \in ToSet(hits) \ touched : r \in Wanted /\ PerhapsRanked(r)
    BY <1>1, <2>1, <2>2 DEF Sound, RankInv
  <2>. QED
    BY <2>2, <2>3, <2>4
<1>. QED
  BY <1>3, <1>4, <1>5, <1>6

-----------------------------------------------------------------------------
(* The steps of an export *)

\* A finite set of numbers has a greatest one.
LEMMA GreatestOf ==
  ASSUME NEW S \in SUBSET Nat, IsFiniteSet(S), S # {}
  PROVE  \E n \in S : \A k \in S : k <= n
<1> DEFINE s == NewestFirst(S)
<1>1. s \in Seq(S) /\ Descending(s) /\ ToSet(s) = S
  BY NewestIs
<1>. HIDE DEF s
<1>2. Len(s) \in Nat /\ DOMAIN s = 1..Len(s) /\ \A i \in 1..Len(s) : s[i] \in S
  BY <1>1
<1>3. Len(s) # 0
  BY <1>1, <1>2 DEF ToSet
<1>4. 1 \in 1..Len(s)
  BY <1>2, <1>3
<1>5. \A i \in 1..Len(s) : s[i] <= s[1]
  <2>1. \A i \in 1..Len(s) : i = 1 \/ 1 < i
    BY <1>2
  <2>2. \A i \in 1..Len(s) : 1 < i => s[1] > s[i]
    BY <1>1, <1>2, <1>4 DEF Descending
  <2>3. \A i \in 1..Len(s) : s[i] \in Nat
    BY <1>2
  <2>. QED
    BY <1>4, <2>1, <2>2, <2>3
<1>. QED
  BY <1>1, <1>2, <1>4, <1>5 DEF ToSet

\* What is in the files of an export, and how many they are.
LEMMA WrittenIs ==
  ASSUME NEW out \in Seq(Rowids), Descending(out), NEW format \in Formats
  PROVE  LET w == Written(out, format)
             Alike(r, k) == format = "eml" /\ NameOf[r] = NameOf[k]
         IN  /\ Range(w) \subseteq ToSet(out)
             /\ \A r \in ToSet(out) : r \in Range(w) \/ \E k \in Range(w) : Alike(r, k)
             /\ \/ Len(out) = Cardinality(DOMAIN w)
                \/ \E r, k \in ToSet(out) : r # k /\ Alike(r, k)
<1> DEFINE w == Written(out, format)
           Alike(r, k) == format = "eml" /\ NameOf[r] = NameOf[k]
           D == 1..Len(out)
<1>1. Len(out) \in Nat /\ DOMAIN out = D /\ \A i \in D : out[i] \in Rowids /\ out[i] \in Nat
  <2>1. Len(out) \in Nat /\ DOMAIN out = D /\ \A i \in D : out[i] \in Rowids
    OBVIOUS
  <2>. QED
    BY <2>1, SearchAssumption
<1>2. IsFiniteSet(D) /\ Cardinality(D) = Len(out)
  BY <1>1, UpTo
<1>3. CASE format = "csv"
  <2>1. w = [i \in D |-> out[i]]
    BY <1>1, <1>3 DEF Written
  <2>2. DOMAIN w = D /\ Range(w) = ToSet(out)
    BY <1>1, <2>1 DEF Range, ToSet
  <2>. HIDE DEF w
  <2>. QED
    BY <1>2, <2>2 DEF w
<1>4. CASE format = "eml"
  <2> DEFINE name == [i \in D |-> NameOf[out[i]]]
             N == {NameOf[out[i]] : i \in DOMAIN out}
             LastOf(n) == CHOOSE i \in DOMAIN out :
                            NameOf[out[i]] = n /\ \A k \in i + 1..Len(out) : NameOf[out[k]] # n
  <2>1. w = [n \in N |-> out[LastOf(n)]]
    BY <1>4 DEF Written
  <2>2. ASSUME NEW n \in N PROVE LastOf(n) \in D /\ name[LastOf(n)] = n
    <3> DEFINE S == {j \in D : NameOf[out[j]] = n}
    <3>1. S \in SUBSET Nat /\ S # {} /\ IsFiniteSet(S)
      <4>1. S \subseteq D /\ S # {}
        BY <1>1
      <4>. HIDE DEF S
      <4>. QED
        BY <1>1, <1>2, <4>1, FS_Subset
    <3>2. PICK j \in S : \A k \in S : k <= j
      BY <3>1, GreatestOf
    <3>3. \A k \in j + 1..Len(out) : NameOf[out[k]] # n
      BY <1>1, <3>2
    <3>4. j \in DOMAIN out /\ NameOf[out[j]] = n
      BY <1>1, <3>2
    <3>5. LastOf(n) \in DOMAIN out /\ NameOf[out[LastOf(n)]] = n
      BY <3>3, <3>4
    <3>. HIDE DEF LastOf
    <3>. QED
      BY <1>1, <3>5
  <2>. HIDE DEF w, LastOf
  <2>3. N = {name[i] : i \in D}
    BY <1>1
  <2>4. DOMAIN w = N /\ \A n \in N : w[n] = out[LastOf(n)]
    BY <2>1
  <2>5. \A i \in D : name[i] = NameOf[out[i]] /\ name[i] \in N
    BY <1>1
  <2>6. Range(w) \subseteq ToSet(out)
    <3>1. \A n \in N : w[n] \in ToSet(out)
      BY <1>1, <2>2, <2>4 DEF ToSet
    <3>. QED
      BY <2>4, <3>1 DEF Range
  <2>7. ASSUME NEW r \in ToSet(out) PROVE \E k \in Range(w) : Alike(r, k)
    <3>1. PICK i \in D : out[i] = r
      BY <1>1, <2>7 DEF ToSet
    <3>2. w[name[i]] \in Range(w)
      BY <2>4, <2>5 DEF Range
    <3>3. NameOf[w[name[i]]] = NameOf[r]
      BY <2>2, <2>4, <2>5, <3>1
    <3>. QED
      BY <1>4, <3>2, <3>3
  <2>8. CASE \A i, k \in D : name[i] = name[k] => i = k
    <3>1. name \in Surjection(D, N)
      BY <2>3 DEF Surjection
    <3>2. name \in Injection(D, N)
      BY <2>8, <3>1 DEF Surjection, Injection, IsInjective
    <3>. HIDE DEF name, N, D
    <3>3. Cardinality(N) = Cardinality(D)
      BY <1>2, <3>1, <3>2, FS_Surjection
    <3>. QED
      BY <1>2, <2>4, <2>6, <2>7, <3>3 DEF w
  <2>9. CASE \E i, k \in D : name[i] = name[k] /\ i # k
    <3>1. PICK i \in D, k \in D : name[i] = name[k] /\ i # k
      BY <2>9
    <3>2. i < k \/ k < i
      BY <1>1, <3>1
    <3>3. out[i] # out[k]
      <4>1. i < k => out[i] > out[k]
        BY <1>1 DEF Descending
      <4>2. k < i => out[k] > out[i]
        BY <1>1 DEF Descending
      <4>. QED
        BY <1>1, <3>2, <4>1, <4>2
    <3>4. out[i] \in ToSet(out) /\ out[k] \in ToSet(out)
      BY <1>1 DEF ToSet
    <3>5. Alike(out[i], out[k])
      BY <1>4, <2>5, <3>1
    <3>. QED
      BY <2>6, <2>7, <3>3, <3>4, <3>5 DEF w
  <2>. QED
    BY <2>8, <2>9
<1>. QED
  BY <1>3, <1>4 DEF Formats

\* An export of S, if S is what was asked for and did not change.
LEMMA WriteOutIs ==
  ASSUME NEW S \in SUBSET Present, NEW format \in Formats, WriteOut(NewestFirst(S), format),
         SearchTypes, UNCHANGED <<command, table, request>>, touched' \subseteq touched,
         LET asked == IF command = "query" THEN Wanted ELSE Present
         IN  command = "query" /\ ~cut' /\ Len(hits') < ExportLimit =>
               asked \ touched' \subseteq S /\ S \subseteq asked \cup touched',
         command # "query" => S = Present
  PROVE  ExportIsWhatWasFound'
<1> DEFINE out == NewestFirst(S)
           w == Range(files')
           asked == IF command = "query" THEN Wanted ELSE Present
           Alike(r, k) == format = "eml" /\ NameOf[r] = NameOf[k]
<1>1. S \in SUBSET Nat /\ IsFiniteSet(S) /\ S \subseteq Rowids
  BY PresentNumbers, FS_Subset DEF Present
<1>2. out \in Seq(S) /\ Descending(out) /\ ToSet(out) = S
  BY <1>1, NewestIs
<1>3. out \in Seq(Rowids)
  BY <1>1, <1>2, SeqMonotonic
<1>4. /\ exported' = out /\ files' = Written(out, format) /\ count' = Len(out)
      /\ phase' = format
  BY DEF WriteOut
<1>. HIDE DEF out
<1>5. /\ w \subseteq S
      /\ \A r \in S : r \in w \/ \E k \in w : Alike(r, k)
      /\ \/ count' = Cardinality(DOMAIN files')
         \/ \E r, k \in S : r # k /\ Alike(r, k)
  BY <1>2, <1>3, <1>4, WrittenIs
<1>6. Present' = Present /\ Wanted' = Wanted
  BY DEF Present, Wanted
<1>7. (phase \in Formats /\ (command = "query" => ~cut /\ Len(hits) < ExportLimit))' =>
        asked \ touched' \subseteq S /\ S \subseteq asked \cup touched'
  OBVIOUS
<1>8. (IF command' = "query" THEN Wanted' ELSE Present') = asked
  BY <1>6
<1>. HIDE DEF asked, w
<1>9. (phase \in Formats /\ (command = "query" => ~cut /\ Len(hits) < ExportLimit))' =>
        /\ \A r \in asked \ touched' : r \in w \/ \E k \in w : Alike(r, k)
        /\ w \subseteq asked \cup touched'
        /\ \/ count' = Cardinality(DOMAIN files')
           \/ \E r, k \in ToSet(exported') : r # k /\ Alike(r, k)
  BY <1>2, <1>4, <1>5, <1>7
<1>. QED
  BY <1>4, <1>8, <1>9 DEF ExportIsWhatWasFound, w

\* A write changes what an export should have only in what it touched.
LEMMA WriteKeepsExport ==
  ASSUME ExportInv, NEW r \in Rowids, NEW c \in Contents, Write(r, c), UNCHANGED exportVars
  PROVE  ExportInv'
<1>1. /\ SearchInv' /\ Present' = Present \cup {r} /\ Wanted' \ touched' = Wanted \ touched'
      /\ touched' = touched \cup {r}
      /\ UNCHANGED <<pc, request, verified, hits, shown, cut>>
      /\ UNCHANGED <<command, phase, exported, files, count>>
  BY WriteKeeps DEF ExportInv, Write, exportVars
<1>2. Exporting'
  BY <1>1 DEF ExportInv, Exporting, Scanning
<1> DEFINE asked == IF command = "query" THEN Wanted ELSE Present
           Alike(i, k) == phase = "eml" /\ NameOf[i] = NameOf[k]
<1>3. /\ asked' \ touched' \subseteq asked \ touched
      /\ asked \cup touched \subseteq asked' \cup touched'
  BY <1>1
<1>4. phase \in Formats /\ (command = "query" => ~cut /\ Len(hits) < ExportLimit) =>
        /\ \A i \in asked \ touched : i \in Range(files) \/ \E k \in Range(files) : Alike(i, k)
        /\ Range(files) \subseteq asked \cup touched
        /\ \/ count = Cardinality(DOMAIN files)
           \/ \E i, k \in ToSet(exported) : i # k /\ Alike(i, k)
  BY DEF ExportInv, ExportIsWhatWasFound
<1>. HIDE DEF asked
<1>5. phase \in Formats /\ (command = "query" => ~cut /\ Len(hits) < ExportLimit) =>
        /\ \A i \in asked' \ touched' : i \in Range(files) \/ \E k \in Range(files) : Alike(i, k)
        /\ Range(files) \subseteq asked' \cup touched'
        /\ \/ count = Cardinality(DOMAIN files)
           \/ \E i, k \in ToSet(exported) : i # k /\ Alike(i, k)
  BY <1>3, <1>4
<1>6. ExportIsWhatWasFound'
  BY <1>1, <1>5 DEF ExportIsWhatWasFound, asked
<1>7. RankInv'
  BY WriteRanks DEF ExportInv
<1>. QED
  BY <1>1, <1>2, <1>6, <1>7 DEF ExportInv

LEMMA ExportStep ==
  ASSUME ExportInv, [ExportNext]_<<vars, exportVars>>
  PROVE  ExportInv'
<1> USE DEF Formats
<1>0. SearchInv /\ RankInv /\ Exporting /\ SearchTypes
  BY DEF ExportInv, SearchInv
<1>1. CASE command = "search" /\ Next /\ UNCHANGED exportVars
  <2>1. SearchInv'
    BY <1>0, <1>1, NextKeeps
  <2>2. Exporting' /\ phase' \notin Formats
    BY <1>0, <1>1 DEF Exporting, exportVars
  <2>3. RankInv'
    BY <1>0, <1>1, RankStep
  <2>. QED
    BY <2>1, <2>2, <2>3 DEF ExportInv, ExportIsWhatWasFound
<1>2. CASE ExportSearch
  <2>1. Search("date", FALSE, ExportLimit) /\ command = "query" /\ command' = command
        /\ phase' = "searching"
    BY <1>2 DEF ExportSearch, ExportedPage
  <2>2. SearchInv'
    BY <1>0, <2>1, SearchKeeps, ExportAssumption
  <2>3. request'.sort = "date" /\ request'.limit = ExportLimit /\ Scanning' /\ shown' = <<>>
    BY <2>1 DEF Search, Scan, Scanning
  <2>4. RankInv'
    BY <2>3 DEF RankInv
  <2>. QED
    BY <2>1, <2>2, <2>3, <2>4 DEF ExportInv, Exporting, ExportIsWhatWasFound
<1>3. CASE ExportSearches
  <2>1. /\ command = "query" /\ phase = "searching"
        /\ UNCHANGED <<command, phase>> /\ Scanning /\ UNCHANGED request
    BY <1>0, <1>3
    DEF ExportSearches, Exporting, Scanning, Verify, Return, Answer, exportVars
  <2>2. SearchInv'
    BY <1>0, <1>3, VerifyKeeps, ReturnKeeps DEF ExportSearches
  <2>3. /\ request'.sort = "date" /\ request'.limit = ExportLimit
        /\ shown = <<>> /\ RankInv'
    BY <1>0, <2>1 DEF Exporting, RankInv
  <2>4. CASE Verify
    <3>1. Scanning' /\ shown' = <<>>
      BY <2>3, <2>4 DEF Verify, Scanning
    <3>. QED
      BY <2>1, <2>2, <2>3, <3>1 DEF ExportInv, Exporting, ExportIsWhatWasFound
  <2>5. CASE Return
    <3>1. ~(Scanning') /\ hits' = Prefix(verified', request'.limit) /\ shown' = <<>> \o hits'
      BY <2>3, <2>5 DEF Return, Answer, Scanning
    <3>2. hits' \in Seq(Present')
      BY <2>2 DEF SearchInv, SearchTypes
    <3>3. shown' = hits'
      BY <3>1, <3>2, ConcatEmptySeq
    <3>. QED
      BY <2>1, <2>2, <2>3, <3>1, <3>3 DEF ExportInv, Exporting, ExportIsWhatWasFound
  <2>. QED
    BY <1>3, <2>4, <2>5 DEF ExportSearches
<1>4. CASE ExportNothing \/ ExportRaises
  <2>1. /\ UNCHANGED vars /\ UNCHANGED command /\ phase = "searching" /\ pc = "idle"
        /\ phase' \in {"nothing", "raised"}
    BY <1>4 DEF ExportNothing, ExportRaises
  <2>2. SearchInv'
    BY <1>0, <2>1, StutterKeeps
  <2>3. Exporting'
    BY <1>0, <2>1 DEF Exporting, vars, Scanning
  <2>4. RankInv'
    BY <1>0, <2>1, StutterRanks
  <2>. QED
    BY <2>1, <2>2, <2>3, <2>4 DEF ExportInv, ExportIsWhatWasFound
<1>5. ASSUME NEW f \in Formats, ExportHits(f) PROVE ExportInv'
  <2>1. /\ UNCHANGED vars /\ UNCHANGED command /\ phase = "searching" /\ pc = "idle"
        /\ WriteOut(NewestFirst(ToSet(hits) \cap Present), f) /\ phase' = f
    BY <1>5 DEF ExportHits, WriteOut
  <2>2. SearchInv'
    BY <1>0, <2>1, StutterKeeps
  <2>3. /\ command = "query" /\ request.sort = "date" /\ request.limit = ExportLimit
        /\ shown = hits /\ hits = Prefix(verified, ExportLimit) /\ ~Scanning
    BY <1>0, <2>1 DEF Exporting, Scanning
  <2>4. Exporting'
    BY <2>1, <2>3 DEF Exporting, vars, Scanning
  <2>5. ToSet(hits) \subseteq Present /\ verified \in Seq(Present)
    BY <1>0 DEF SearchTypes, ToSet
  <2>6. ASSUME ~cut, Len(hits) < ExportLimit
        PROVE  /\ Wanted \ touched \subseteq ToSet(hits)
               /\ ToSet(hits) \subseteq Wanted \cup touched
    <3>1. Len(verified) \in Nat /\ DOMAIN verified = 1..Len(verified) /\ ExportLimit \in Nat
      BY <2>5, ExportAssumption
    <3>2. Len(verified) < ExportLimit
      BY <2>3, <2>5, <2>6, <3>1, PrefixIs
    <3>3. \A i \in DOMAIN verified : ~(i > request.limit)
      BY <2>3, <3>1, <3>2
    <3>. QED
      BY <1>0, <2>3, <2>6, <3>3 DEF SearchInv, Kept, Sound
  <2>7. ExportIsWhatWasFound'
    <3>1. UNCHANGED <<table, request, touched, cut, hits>>
      BY <2>1 DEF vars
    <3>2. ToSet(hits) \cap Present = ToSet(hits)
      BY <2>5
    <3>. QED
      BY <1>0, <2>1, <2>3, <2>5, <2>6, <3>1, <3>2, WriteOutIs
  <2>8. RankInv'
    BY <1>0, <2>1, StutterRanks
  <2>. QED
    BY <2>2, <2>4, <2>7, <2>8 DEF ExportInv
<1>6. ASSUME NEW f \in Formats, ExportAll(f) PROVE ExportInv'
  <2>1. /\ command = "all" /\ phase = "start" /\ WriteOut(NewestFirst(Present), f)
        /\ touched' = {} /\ phase' = f
        /\ UNCHANGED <<command, table, pc, request, rows, verified, hits, more, shown, cut>>
    BY <1>6 DEF ExportAll, WriteOut
  <2>2. ~Scanning /\ request.sort = "none" /\ verified = <<>> /\ shown = <<>>
    BY <1>0, <2>1 DEF Exporting
  <2>3. Exporting'
    BY <2>1, <2>2 DEF Exporting, Scanning
  <2>4. SearchInv'
    <3>1. SearchTypes'
      BY <1>0, <2>1 DEF SearchTypes, Present, Scanning
    <3>2. Sorted' /\ ShownDown' /\ Answered'
      BY <1>0, <2>1, <2>2 DEF SearchInv, Sorted, ShownDown, Answered, Scanning
    <3>3. Kept' /\ Sound'
      BY <2>1, <2>2 DEF Kept, Sound, ToSet
    <3>. QED
      BY <3>1, <3>2, <3>3 DEF SearchInv
  <2>5. ExportIsWhatWasFound'
    BY <1>0, <2>1, WriteOutIs
  <2>6. RankInv'
    BY <2>1, <2>2 DEF RankInv
  <2>. QED
    BY <2>3, <2>4, <2>5, <2>6 DEF ExportInv
<1>7. ASSUME NEW r \in Rowids, NEW c \in Contents, Write(r, c), UNCHANGED exportVars
      PROVE  ExportInv'
  BY <1>7, WriteKeepsExport
<1>8. CASE UNCHANGED <<vars, exportVars>>
  <2>1. UNCHANGED vars /\ UNCHANGED exportVars
    BY <1>8
  <2>2. SearchInv'
    BY <1>0, <2>1, StutterKeeps
  <2>3. Exporting'
    BY <1>0, <2>1 DEF Exporting, vars, exportVars, Scanning
  <2>4. ExportIsWhatWasFound'
    BY <2>1 DEF ExportInv, ExportIsWhatWasFound, vars, exportVars, Wanted, Present
  <2>5. RankInv'
    BY <1>0, <2>1, StutterRanks
  <2>. QED
    BY <2>2, <2>3, <2>4, <2>5 DEF ExportInv
<1>. QED
  BY <1>1, <1>2, <1>3, <1>4, <1>5, <1>6, <1>7, <1>8 DEF ExportNext

-----------------------------------------------------------------------------
(* The theorems *)

LEMMA ExportInductive == ExportSpec => []ExportInv
<1>1. ExportInit => ExportInv
  <2>1. SUFFICES ASSUME ExportInit PROVE ExportInv
    OBVIOUS
  <2>2. SearchInv /\ phase \notin Formats
    BY <2>1, InitInv DEF ExportInit, Formats
  <2>3. Exporting
    BY <2>1 DEF ExportInit, Init, Exporting, Scanning
  <2>4. RankInv
    BY <2>1 DEF ExportInit, Init, RankInv
  <2>. QED
    BY <2>2, <2>3, <2>4 DEF ExportInv, ExportIsWhatWasFound
<1>. QED
  BY <1>1, ExportStep, PTL DEF ExportSpec

\* From page to page of a search by date, whatever is written meanwhile, the rowids of the
\* hits go down, so that none is shown twice.
THEOREM PagesGoDown == ExportSpec => []NoHitTwice
<1>1. ExportInv => NoHitTwice
  BY AnswersAreRight DEF ExportInv
<1>. QED
  BY <1>1, ExportInductive, PTL

\* No page leaves out a wanted mail that stayed as it was and belongs before its last hit.
THEOREM PagesAreWhole == ExportSpec => []NothingIsSkipped
<1>1. ExportInv => NothingIsSkipped
  BY AnswersAreRight DEF ExportInv
<1>. QED
  BY <1>1, ExportInductive, PTL

\* more_available is false only after the last of the wanted mails, and true before it.
THEOREM MoreTells == ExportSpec => []MoreIsTrue
<1>1. ExportInv => MoreIsTrue
  BY AnswersAreRight DEF ExportInv
<1>. QED
  BY <1>1, ExportInductive, PTL

\* A page by relevance has the wanted ones of the newest relevance_candidates mails, unless
\* they do not fit, and no others, best first.
THEOREM RelevanceIsBestOfTheNewest == ExportSpec => []BestOfTheNewest
<1>1. ExportInv => BestOfTheNewest
  BY AnswersAreRight DEF ExportInv
<1>. QED
  BY <1>1, ExportInductive, PTL

\* An export has the mails it was asked for and no others, though it reads them again
\* after its search, and counts its files.
THEOREM ExportHasWhatWasFound == ExportSpec => []ExportIsWhatWasFound
<1>1. ExportInv => ExportIsWhatWasFound
  BY DEF ExportInv
<1>. QED
  BY <1>1, ExportInductive, PTL
=============================================================================
