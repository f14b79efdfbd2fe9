---------------------------- MODULE ViewerProofs ----------------------------
(***************************************************************************)
(* Proofs about Viewer: HeldIsOfTheScreen, ListIsOfTheInput and           *)
(* NothingIsHiddenUnsaid, for any databases, queries, folders, mailboxes,  *)
(* faults and bounds.                                                      *)
(***************************************************************************)
EXTENDS Viewer, FiniteSetTheorems, FunctionTheorems, SequenceTheorems, TLAPS

-----------------------------------------------------------------------------
(* The inductive invariant *)

\* The engine, if there is one, is of the open database.
EngineIsOfTheDb ==
  /\ DOMAIN menu = {"engine", "shown", "ticked"}
  /\ menu.engine # None => menu.engine = db

\* A timer the window knows of is pending.
TimersAreKnown == timers \in Nat /\ (job => timers > 0)

IInv ==
  /\ EngineIsOfTheDb /\ TimersAreKnown /\ HeldIsOfTheScreen /\ ListIsOfTheInput
  /\ query \in Queries /\ NothingIsHiddenUnsaid

\* What a callback may hold when it searches or shows: records of database d only, and a
\* preview of the selected mail.
HeldOf(d, h) ==
  /\ \A m \in DOMAIN h.cache : h.cache[m].db = d
  /\ h.preview # None => h.preview = selected \/ h.unread

LEMMA InitInv == Init => IInv
<1> SUFFICES ASSUME Init PROVE IInv
  OBVIOUS
<1>1. EngineIsOfTheDb
  BY DEF Init, Openings, EngineIsOfTheDb
<1>2. TimersAreKnown /\ HeldIsOfTheScreen /\ ListIsOfTheInput
  BY DEF Init, TimersAreKnown, HeldIsOfTheScreen, ListIsOfTheInput
<1>3. query \in Queries /\ NothingIsHiddenUnsaid
  BY DEF Init, NothingIsHiddenUnsaid
<1>. QED
  BY <1>1, <1>2, <1>3 DEF IInv

\* Opening gives the engine of the database it was asked for, or none.
LEMMA OpeningsAre ==
  ASSUME NEW d, NEW t, NEW n \in Openings(d, t)
  PROVE  DOMAIN n = {"engine", "shown", "ticked"} /\ (n.engine # None => n.engine = d)
BY DEF Openings

\* What is shown is the row asked for, or the preview stays and the row is unread; the
\* records are those held and one of the same database.
LEMMA Shown ==
  ASSUME NEW d, NEW e, e # None => e = d, NEW m, NEW h, ShowPreview(e, m, h),
         \A x \in DOMAIN h.cache : h.cache[x].db = d
  PROVE  /\ \A x \in DOMAIN cache' : cache'[x].db = d
         /\ preview' = m \/ unread'
<1>1. CASE e # None /\ m \in DOMAIN h.cache /\ preview' = m /\ cache' = h.cache
  BY <1>1
<1>2. CASE e # None /\ preview' = m /\
           cache' = [x \in DOMAIN h.cache \cup {m} |->
                       IF x = m THEN [db |-> e, at |-> table[e][m]] ELSE h.cache[x]]
  BY <1>2
<1>3. CASE unread' /\ cache' = h.cache
  BY <1>3
<1>. QED
  BY <1>1, <1>2, <1>3 DEF ShowPreview

-----------------------------------------------------------------------------
(* What a search shows *)

\* The members of a finite set of numbers can be put newest first.
LEMMA NewestExists ==
  ASSUME NEW S \in SUBSET Nat, IsFiniteSet(S)
  PROVE  \E s \in [1..Cardinality(S) -> S] : \A i, k \in DOMAIN s : i < k => s[i] < s[k]
<1> DEFINE n == Cardinality(S)
           Below(x) == {k \in S : k < x}
           rank == [x \in S |-> Cardinality(Below(x)) + 1]
<1>1. n \in Nat
  BY FS_CardinalityType
<1>2. ASSUME NEW x \in S PROVE rank[x] \in 1..n
  <2>1. Below(x) \subseteq S /\ Below(x) # S
    OBVIOUS
  <2>2. /\ IsFiniteSet(Below(x))
        /\ Cardinality(Below(x)) <= n /\ Cardinality(Below(x)) # n
    BY <2>1, FS_Subset
  <2>3. Cardinality(Below(x)) \in Nat
    BY <2>2, FS_CardinalityType
  <2>. HIDE DEF n, Below
  <2>. QED
    BY <1>1, <2>2, <2>3
<1>3. ASSUME NEW x \in S, NEW y \in S, x < y PROVE rank[x] < rank[y]
  <2>1. Below(x) \subseteq Below(y) /\ x \in Below(y) /\ x \notin Below(x)
    <3>1. \A k \in S : k < x => k < y
      BY <1>3
    <3>2. x < y /\ ~(x < x)
      BY <1>3
    <3>. QED
      BY <3>1, <3>2
  <2>2. IsFiniteSet(Below(x)) /\ IsFiniteSet(Below(y))
    BY FS_Subset
  <2>3. /\ Cardinality(Below(x)) <= Cardinality(Below(y))
        /\ Cardinality(Below(x)) # Cardinality(Below(y))
    BY <2>1, <2>2, FS_Subset
  <2>4. Cardinality(Below(x)) \in Nat /\ Cardinality(Below(y)) \in Nat
    BY <2>2, FS_CardinalityType
  <2>. HIDE DEF Below
  <2>. QED
    BY <2>3, <2>4
<1>4. rank \in Surjection(S, 1..n)
  <2>1. \A x, y \in S : rank[x] = rank[y] => x = y
    <3>1. SUFFICES ASSUME NEW x \in S, NEW y \in S, rank[x] = rank[y], x # y PROVE FALSE
      OBVIOUS
    <3>2. x < y \/ y < x
      BY <3>1
    <3>3. rank[x] \in Nat /\ rank[y] \in Nat
      BY <1>1, <1>2
    <3>. HIDE DEF rank
    <3>. QED
      BY <1>3, <3>1, <3>2, <3>3
  <2>2. rank \in [S -> 1..n]
    BY <1>2
  <2>. HIDE DEF rank
  <2>3. rank \in Injection(S, 1..n)
    BY <2>1, <2>2 DEF Injection, IsInjective
  <2>4. IsFiniteSet(1..n) /\ Cardinality(1..n) = n
    BY <1>1, FS_Interval
  <2>. QED
    BY <2>3, <2>4, FS_Injection
<1>5. \A i \in 1..n : \E x \in S : rank[x] = i
  BY <1>4 DEF Surjection
<1> DEFINE s == [i \in 1..n |-> CHOOSE x \in S : rank[x] = i]
<1>6. \A i \in 1..n : s[i] \in S /\ rank[s[i]] = i
  BY <1>5
<1>7. s \in [1..n -> S]
  BY <1>6
<1>8. DOMAIN s = 1..n
  OBVIOUS
<1>. HIDE DEF s, rank, n
<1>9. ASSUME NEW i \in 1..n, NEW k \in 1..n, i < k PROVE s[i] < s[k]
  <2>1. s[i] \in Nat /\ s[k] \in Nat
    BY <1>6
  <2>2. s[i] # s[k]
    BY <1>6, <1>9
  <2>3. ~(s[k] < s[i])
    <3>1. \A x, y \in S : x < y => rank[x] < rank[y]
      BY <1>3
    <3>2. s[k] < s[i] => k < i
      BY <1>6, <3>1
    <3>. QED
      BY <1>1, <1>9, <3>2
  <2>. QED
    BY <2>1, <2>2, <2>3
<1>. QED
  BY <1>7, <1>8, <1>9 DEF n

\* The list is a sequence, of mails in the order of the set it was made from.
LEMMA NewestIs ==
  ASSUME NEW S \in SUBSET Mails
  PROVE  NewestFirst(S) \in Seq(S)
<1>1. S \in SUBSET Nat /\ IsFiniteSet(S)
  BY ViewerAssumption, FS_Subset
<1>2. Cardinality(S) \in Nat
  BY <1>1, FS_CardinalityType
<1>3. NewestFirst(S) \in [1..Cardinality(S) -> S]
  BY <1>1, NewestExists DEF NewestFirst
<1>. QED
  BY <1>2, <1>3

\* What is left of a list when it is cut; one that stays short was not cut.
LEMMA CutIs ==
  ASSUME NEW S, NEW s \in Seq(S), NEW n \in Nat
  PROVE  /\ Cut(s, n) \in Seq(S)
         /\ Len(s) <= n => Cut(s, n) = s
         /\ Len(Cut(s, n)) < n => Cut(s, n) = s
<1>1. CASE Len(s) < n
  <2>1. Cut(s, n) = SubSeq(s, 1, Len(s))
    BY <1>1 DEF Cut
  <2>. QED
    BY <1>1, <2>1
<1>2. CASE ~(Len(s) < n)
  <2>1. Cut(s, n) = SubSeq(s, 1, n) /\ Len(s) \in Nat /\ n <= Len(s)
    BY <1>2 DEF Cut
  <2>2. Cut(s, n) \in Seq(S) /\ Len(Cut(s, n)) = n
    BY <2>1
  <2>3. Len(s) <= n => Cut(s, n) = s
    BY <2>1
  <2>. QED
    BY <2>2, <2>3
<1>. QED
  BY <1>1, <1>2

\* What is left of a list when folders are ticked.
LEMMA InFoldersIs ==
  ASSUME NEW s \in Seq(Mails), NEW t
  PROVE  InFolders(s, t) \in Seq(Mails)
<1>1. CASE t = {}
  BY <1>1 DEF InFolders
<1>2. CASE t # {}
  <2> DEFINE S == {m \in Range(s) : FolderOf[m] \in t}
  <2>1. S \in SUBSET Mails
    BY DEF Range
  <2>2. NewestFirst(S) \in Seq(S) /\ InFolders(s, t) = NewestFirst(S)
    BY <1>2, <2>1, NewestIs DEF InFolders
  <2>. QED
    BY <2>1, <2>2, SeqMonotonic
<1>. QED
  BY <1>1, <1>2

\* When no more is spoken of, all that was found was looked through, and a page that is not
\* full was not cut.
LEMMA ShownIsAll ==
  ASSUME NEW n, NEW h, query \in Queries, ShowResult(n, h)
  PROVE  NothingIsHiddenUnsaid'
<1> DEFINE found == Found(n.engine, query)
           all   == InFolders(found, n.ticked)
           rows  == Filtered(Cut(found, Limit(n.ticked)), n.ticked)
<1>1. tree' = rows /\ more' = (Len(found) > Limit(n.ticked)) /\ searched'.all = all
  BY DEF ShowResult
<1>2. found \in Seq(Mails)
  <2>1. DOMAIN table[n.engine] \cap Match[query] \in SUBSET Mails
    BY ViewerAssumption
  <2>. QED
    BY <2>1, NewestIs, SeqMonotonic DEF Found
<1>3. all \in Seq(Mails)
  BY <1>2, InFoldersIs
<1>4. Limit(n.ticked) \in Nat /\ Page \in Nat
  BY ViewerAssumption DEF Limit
<1>5. rows = Cut(InFolders(Cut(found, Limit(n.ticked)), n.ticked), Page)
  BY DEF Filtered
<1>6. all = InFolders(found, n.ticked)
  OBVIOUS
<1>. HIDE DEF found, all, rows
<1>7. ~more' => rows = Cut(all, Page)
  <2>1. Len(found) \in Nat
    BY <1>2
  <2>2. ~more' => Len(found) <= Limit(n.ticked)
    <3>1. Len(found) > Limit(n.ticked) \/ Len(found) <= Limit(n.ticked)
      BY <1>4, <2>1
    <3>2. Len(found) > Limit(n.ticked) => more'
      BY <1>1, Zenon
    <3>. QED
      BY <3>1, <3>2, Zenon
  <2>3. ~more' => Cut(found, Limit(n.ticked)) = found
    BY <1>2, <1>4, <2>2, CutIs
  <2>. QED
    BY <1>5, <1>6, <2>3
<1>8. Len(Cut(all, Page)) < Page => Cut(all, Page) = all
  BY <1>3, <1>4, CutIs
<1>. QED
  BY <1>1, <1>7, <1>8 DEF NothingIsHiddenUnsaid

-----------------------------------------------------------------------------
(* The steps *)

\* _run_search: the list, the records and the preview are of the database that is open,
\* and the list is of the query and the ticks, or the search failed.
LEMMA Searched ==
  ASSUME NEW m, DOMAIN m = {"engine", "shown", "ticked"}, m.engine # None => m.engine = db',
         NEW h, HeldOf(db', h), query' = query,
         h.hits # <<>> => searched.db = db' /\ h.hits = tree,
         query \in Queries, NothingIsHiddenUnsaid, RunSearch(m, h)
  PROVE  /\ EngineIsOfTheDb' /\ HeldIsOfTheScreen' /\ ListIsOfTheInput' /\ ~job'
         /\ query' \in Queries /\ NothingIsHiddenUnsaid'
<1>1. PICK n \in Reopened(db', m) :
        /\ menu' = n
        /\ \/ n.engine # None /\ ShowResult(n, h)
           \/ /\ n.engine = None \/ "search" \in Faults
              /\ failed' = TRUE /\ UNCHANGED <<tree, more, searched, selected>>
              /\ hits' = h.hits /\ cache' = h.cache
              /\ preview' = h.preview /\ unread' = h.unread
  BY DEF RunSearch
<1>2. DOMAIN n = {"engine", "shown", "ticked"} /\ (n.engine # None => n.engine = db')
  BY OpeningsAre DEF Reopened
<1>3. EngineIsOfTheDb' /\ ~job'
  BY <1>1, <1>2 DEF EngineIsOfTheDb, RunSearch
<1>4. CASE n.engine # None /\ ShowResult(n, h)
  <2> DEFINE rows == Filtered(Cut(Found(n.engine, query), Limit(n.ticked)), n.ticked)
  <2>1. /\ tree' = rows /\ hits' = rows /\ failed' = FALSE
        /\ searched'.db = n.engine /\ searched'.query = query /\ searched'.ticked = n.ticked
        /\ ShowFirst(n.engine, rows, h)
    BY <1>4 DEF ShowResult
  <2>. HIDE DEF rows
  <2>2. ListIsOfTheInput'
    BY <1>1, <1>2, <1>4, <2>1 DEF ListIsOfTheInput
  <2>3. /\ \A x \in DOMAIN cache' : cache'[x].db = db'
        /\ preview' # None => preview' = selected' \/ unread'
    <3>1. CASE rows = <<>>
      BY <2>1, <3>1 DEF ShowFirst, HeldOf
    <3>2. CASE rows # <<>>
      <4>1. selected' = Head(rows) /\ ShowPreview(n.engine, Head(rows), h)
        BY <2>1, <3>2 DEF ShowFirst
      <4>2. PICK m1, d1, e1 : m1 = Head(rows) /\ d1 = db' /\ e1 = n.engine
        OBVIOUS
      <4>3. ShowPreview(e1, m1, h) /\ (e1 # None => e1 = d1)
        BY <1>2, <4>1, <4>2
      <4>4. \A x \in DOMAIN h.cache : h.cache[x].db = d1
        BY <4>2 DEF HeldOf
      <4>5. (\A x \in DOMAIN cache' : cache'[x].db = d1) /\ (preview' = m1 \/ unread')
        BY <4>3, <4>4, Shown
      <4>. QED
        BY <4>1, <4>2, <4>5
    <3>. QED
      BY <3>1, <3>2
  <2>4. NothingIsHiddenUnsaid'
    BY <1>4, ShownIsAll
  <2>. QED
    BY <1>2, <1>3, <1>4, <2>1, <2>2, <2>3, <2>4 DEF HeldIsOfTheScreen
<1>5. CASE /\ failed' = TRUE /\ UNCHANGED <<tree, more, searched, selected>>
           /\ hits' = h.hits /\ cache' = h.cache
           /\ preview' = h.preview /\ unread' = h.unread
  BY <1>3, <1>5 DEF ListIsOfTheInput, HeldIsOfTheScreen, HeldOf, NothingIsHiddenUnsaid
<1>. QED
  BY <1>1, <1>4, <1>5

\* Every callback, and everything around the window, keeps the invariant.
LEMMA NextInv == IInv /\ [Next]_vars => IInv'
<1> SUFFICES ASSUME IInv, [Next]_vars PROVE IInv'
  OBVIOUS
<1> USE DEF world, input, result, shown, save
<1>1. /\ EngineIsOfTheDb /\ TimersAreKnown /\ HeldIsOfTheScreen /\ ListIsOfTheInput
      /\ query \in Queries /\ NothingIsHiddenUnsaid
  BY DEF IInv
<1>2. HeldOf(db, Held) /\ (Held.hits # <<>> => searched.db = db /\ Held.hits = tree)
  BY <1>1 DEF HeldOf, Held, HeldIsOfTheScreen
<1>3. CASE Type \/ ToggleFolder \/ ClearFolders
  <2>1. /\ timers' \in Nat /\ timers' > 0
        /\ UNCHANGED <<db, tree, more, searched, failed, hits, cache, selected, preview, unread>>
        /\ query' \in Queries
    BY <1>1, <1>3 DEF Type, ToggleFolder, ClearFolders, Arm, TimersAreKnown
  <2>2. DOMAIN menu' = DOMAIN menu /\ menu'.engine = menu.engine
    BY <1>1, <1>3 DEF Type, ToggleFolder, ClearFolders, EngineIsOfTheDb
  <2>. QED
    BY <1>1, <2>1, <2>2
       DEF IInv, EngineIsOfTheDb, TimersAreKnown, HeldIsOfTheScreen, ListIsOfTheInput,
           NothingIsHiddenUnsaid
<1>4. CASE Fire
  <2>1. db' = db /\ query' = query /\ timers' \in Nat /\ RunSearch(menu, Held)
    BY <1>1, <1>4 DEF Fire, TimersAreKnown
  <2>. QED
    BY <1>1, <1>2, <2>1, Searched DEF IInv, EngineIsOfTheDb, TimersAreKnown
<1>5. CASE OpenDb
  <2>1. PICK m \in Openings(db', menu.ticked) : RunSearch(m, Emptied)
    BY <1>5 DEF OpenDb
  <2>2. /\ HeldOf(db', Emptied) /\ Emptied.hits = <<>> /\ query' = query /\ timers' = timers
    BY <1>5 DEF OpenDb, HeldOf, Emptied
  <2>3. DOMAIN m = {"engine", "shown", "ticked"} /\ (m.engine # None => m.engine = db')
    BY OpeningsAre
  <2>. QED
    BY <1>1, <2>1, <2>2, <2>3, Searched DEF IInv, TimersAreKnown
<1>6. CASE IndexFinished
  <2>1. PICK m \in Openings(db, menu.ticked) : RunSearch(m, Held)
    BY <1>6 DEF IndexFinished
  <2>2. db' = db /\ query' = query /\ timers' = timers
    BY <1>6 DEF IndexFinished
  <2>3. DOMAIN m = {"engine", "shown", "ticked"} /\ (m.engine # None => m.engine = db')
    BY <2>2, OpeningsAre
  <2>. QED
    BY <1>1, <1>2, <2>1, <2>2, <2>3, Searched DEF IInv, TimersAreKnown
<1>7. CASE SelectRow
  <2>1. PICK m \in Range(tree) : selected' = m /\ ShowPreview(menu.engine, m, Held)
    BY <1>7 DEF SelectRow
  <2>2. UNCHANGED <<db, menu, query, timers, job, tree, more, searched, failed, hits>>
    BY <1>7 DEF SelectRow
  <2>3. (\A x \in DOMAIN cache' : cache'[x].db = db) /\ (preview' = m \/ unread')
    BY <1>1, <1>2, <2>1, Shown DEF EngineIsOfTheDb, HeldOf
  <2>. QED
    BY <1>1, <2>1, <2>2, <2>3
       DEF IInv, EngineIsOfTheDb, TimersAreKnown, HeldIsOfTheScreen, ListIsOfTheInput,
           NothingIsHiddenUnsaid
<1>8. CASE AskWhere \/ SaveAttachment \/ ChangeBox \/ IndexMail \/ UNCHANGED vars
  <2>1. UNCHANGED <<db, menu, query, timers, job, tree, more, searched, failed, hits,
                    cache, selected, preview, unread>>
    BY <1>8 DEF AskWhere, SaveAttachment, ChangeBox, IndexMail, vars
  <2>. QED
    BY <1>1, <2>1
       DEF IInv, EngineIsOfTheDb, TimersAreKnown, HeldIsOfTheScreen, ListIsOfTheInput,
           NothingIsHiddenUnsaid
<1>. QED
  BY <1>3, <1>4, <1>5, <1>6, <1>7, <1>8 DEF Next

\* The inductive invariant holds in every state.
LEMMA InvAlways == Spec => []IInv
BY InitInv, NextInv, PTL DEF Spec

-----------------------------------------------------------------------------
(* The theorems *)

\* HeldIsOfTheScreen: what was read from one database is dropped before another is used
\* (_open_db_dialog, gui.py), and the preview is of the selected mail or that is unread.
THEOREM HeldAlwaysOfTheScreen == Spec => []HeldIsOfTheScreen
<1>1. IInv => HeldIsOfTheScreen
  BY DEF IInv
<1>. QED
  BY <1>1, InvAlways, PTL

\* ListIsOfTheInput: with no timer pending (_on_query_changed, gui.py) the list is of the
\* database, the query and the ticks on the screen, or the last search failed.
THEOREM ListAlwaysOfTheInput == Spec => []ListIsOfTheInput
<1>1. IInv => ListIsOfTheInput
  BY DEF IInv
<1>. QED
  BY <1>1, InvAlways, PTL

\* NothingIsHiddenUnsaid: a page that is not full and does not speak of more (_run_search,
\* gui.py, which asks for more rows when folders are ticked) shows all that was found.
THEOREM NothingIsEverHiddenUnsaid == Spec => []NothingIsHiddenUnsaid
<1>1. IInv => NothingIsHiddenUnsaid
  BY DEF IInv
<1>. QED
  BY <1>1, InvAlways, PTL
=============================================================================
