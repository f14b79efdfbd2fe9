----------------------------- MODULE StorageProofs -----------------------------
(***************************************************************************)
(* Proofs about Storage: TablesAgree, InsertedAreTheRows, RowidNeverMoves, *)
(* NewestFirst, and that it implements MailTable, for any writers,         *)
(* batches, hashes and faults.                                             *)
(***************************************************************************)
EXTENDS Storage, FiniteSetTheorems, WellFoundedInduction, TLAPS

-----------------------------------------------------------------------------
(* The inductive invariant *)

Ids(rows)  == {r.id : r \in rows}
Said(rows) == {[mail |-> r.mail, date |-> r.date, text |-> r.text] : r \in rows}

Rows == {rows \in SUBSET Row : IsFiniteSet(rows)}

\* Merged of MailTable, of the first k records of b only.
Partly(t, b, k) ==
  {r \in t : \A i \in 1..k : b[i].mail # r.mail}
    \cup {b[i] : i \in {j \in 1..k : \A l \in 1..k : l > j => b[l].mail # b[j].mail}}

StorageTypes ==
  /\ wal \in BOOLEAN
  /\ mails \in Rows
  /\ lock \in Writers \cup {NoWriter}
  /\ pc \in [Writers -> {"idle", "begin", "row", "returned", "raised"}]
  /\ batch \in [Writers -> Batches \cup {<<>>}]
  /\ pos \in [Writers -> Nat \ {0}]
  /\ stats \in [Writers -> Stats]
  /\ counted \in Nat

\* The writer inside a transaction has the lock.
Locked == \A w \in Writers : pc[w] = "row" <=> lock = w

\* A call is of a batch.
Busy == \A w \in Writers : pc[w] \in {"begin", "row"} => batch[w] \in Batches

\* What the transaction of w has made of the tables, up to the record it is at.
Transaction(w) ==
  /\ tx.mails \in Rows
  /\ Twins(tx.mails, tx.fts) /\ Keyed(tx.mails)
  /\ \A r \in mails : \E s \in tx.mails : s.id = r.id /\ s.mail = r.mail
  /\ pos[w] <= Len(batch[w]) + 1
  /\ Said(tx.mails) = Partly(Said(mails), batch[w], pos[w] - 1)
  /\ wal => Cardinality(tx.mails) = Cardinality(mails) + stats[w].inserted

\* In WAL mode an attempt is made again only where nothing was counted yet.
Counts == wal => /\ counted = Cardinality(mails)
                 /\ \A w \in Writers : pc[w] = "begin" => stats[w].inserted = 0

IInv ==
  /\ StorageTypes /\ Locked /\ Busy /\ Counts
  /\ Twins(mails, fts) /\ Keyed(mails)
  /\ \A w \in Writers : lock = w => Transaction(w)

-----------------------------------------------------------------------------
(* Rowids *)

\* A finite set of integers has a least one.
LEMMA LeastOf ==
  ASSUME NEW S \in SUBSET Int, S # {}, IsFiniteSet(S)
  PROVE  \E n \in S : \A k \in S : n <= k
<1> DEFINE R == StrictSubsetOrdering(S)
           Below == [n \in S |-> {k \in S : k < n}]
           C == {Below[n] : n \in S}
<1>0. \A n \in S : Below[n] = {k \in S : k < n}
  OBVIOUS
<1>. HIDE DEF Below
<1>1. IsWellFoundedOn(R, FiniteSubsetsOf(S))
  BY FS_StrictSubsetOrderingWellFounded
<1>2. FiniteSubsetsOf(S) = SUBSET S
  BY FS_FiniteSubsetsOfFinite
<1>3. C \subseteq FiniteSubsetsOf(S) /\ C # {}
  <2>1. \A n \in S : Below[n] \in SUBSET S
    BY <1>0
  <2>2. C \subseteq SUBSET S
    BY <2>1
  <2>3. PICK n \in S : TRUE
    OBVIOUS
  <2>4. Below[n] \in C
    OBVIOUS
  <2>. HIDE DEF C
  <2>. QED
    BY <1>2, <2>2, <2>4
<1>. HIDE DEF R, C
<1>4. PICK c \in C : \A b \in C : <<b, c>> \notin R
  BY <1>1, <1>3, WFMin
<1>5. PICK n \in S : c = Below[n]
  BY <1>4 DEF C
<1>6. ASSUME NEW k \in S, k < n PROVE FALSE
  <2>1. Below[k] \in C
    BY DEF C
  <2>2. Below[k] \subseteq Below[n] /\ k \in Below[n] /\ k \notin Below[k]
    <3>1. \A j \in S : j < k => j < n
      BY <1>6
    <3>2. Below[k] = {j \in S : j < k} /\ Below[n] = {j \in S : j < n}
      BY <1>0
    <3>3. ~(k < k)
      OBVIOUS
    <3>. QED
      BY <1>6, <3>1, <3>2, <3>3
  <2>3. <<Below[k], Below[n]>> \in R
    BY <1>0, <2>2 DEF R, StrictSubsetOrdering
  <2>. QED
    BY <1>4, <1>5, <2>1, <2>3
<1>. QED
  BY <1>6

LEMMA ImageBound ==
  ASSUME NEW S, IsFiniteSet(S), NEW f, f = [x \in S |-> f[x]]
  PROVE  LET T == {f[x] : x \in S}
         IN  IsFiniteSet(T) /\ Cardinality(T) <= Cardinality(S)
<1> DEFINE T == {f[x] : x \in S}
<1>1. f \in Surjection(S, T)
  BY DEF Surjection
<1>. HIDE DEF T
<1>2. IsFiniteSet(T) /\ Cardinality(T) <= Cardinality(S)
  BY <1>1, FS_Surjection
<1>. QED
  BY <1>2 DEF T

\* The linear probe ends, at an id that no row has, after ids that rows have.
LEMMA ProbeIsFree ==
  ASSUME NEW rows, IsFiniteSet(rows), NEW c \in Int
  PROVE  /\ Probe(rows, c) \in Int \ Ids(rows) /\ c <= Probe(rows, c)
         /\ \A n \in c..(Probe(rows, c) - 1) : n \in Ids(rows)
<1> DEFINE N == Cardinality(rows)
           f == [r \in rows |-> r.id]
           Held == {f[r] : r \in rows}
<1>1. N \in Nat
  BY FS_CardinalityType
<1>2. IsFiniteSet(Held) /\ Cardinality(Held) <= N
  <2>1. f = [r \in rows |-> f[r]]
    OBVIOUS
  <2>. HIDE DEF f
  <2>. QED
    BY <2>1, ImageBound
<1>3. Held = Ids(rows)
  BY DEF Ids
<1>. HIDE DEF Held, f
<1>4. Free(rows, c) = (c..(c + N)) \ Held
  BY <1>3 DEF Free, Ids
<1>. HIDE DEF N
<1>5. IsFiniteSet(c..(c + N)) /\ Cardinality(c..(c + N)) = N + 1
  BY <1>1, FS_Interval
<1>6. Free(rows, c) # {}
  <2>. SUFFICES ASSUME c..(c + N) \subseteq Held PROVE FALSE
    BY <1>4
  <2>1. Cardinality(c..(c + N)) <= Cardinality(Held)
    BY <1>2, FS_Subset
  <2>2. Cardinality(Held) \in Nat
    BY <1>2, FS_CardinalityType
  <2>. QED
    BY <1>1, <1>2, <1>5, <2>1, <2>2
<1>7. IsFiniteSet(Free(rows, c)) /\ Free(rows, c) \in SUBSET Int
  <2>1. Free(rows, c) \in SUBSET (c..(c + N))
    BY <1>4
  <2>. QED
    BY <1>1, <1>5, <2>1, FS_Subset
<1>8. \E n \in Free(rows, c) : \A k \in Free(rows, c) : n <= k
  BY <1>6, <1>7, LeastOf
<1>9. Probe(rows, c) \in Free(rows, c) /\ \A k \in Free(rows, c) : Probe(rows, c) <= k
  BY <1>8 DEF Probe
<1>10. Probe(rows, c) \in c..(c + N) /\ Probe(rows, c) \notin Held
  BY <1>4, <1>9
<1>11. ASSUME NEW n \in c..(Probe(rows, c) - 1) PROVE n \in Held
  <2>1. n \in c..(c + N) /\ n < Probe(rows, c)
    BY <1>1, <1>10
  <2>. QED
    BY <1>1, <1>4, <1>9, <1>10, <2>1
<1>. QED
  BY <1>1, <1>3, <1>10, <1>11
-----------------------------------------------------------------------------
(* One record *)

\* What a record does to a table: the row of its mail is replaced, under the id it has, or
\* one is added under an id of its own.
LEMMA StoreOne ==
  ASSUME NEW rows \in Rows, NEW tokens, Twins(rows, tokens), Keyed(rows), NEW rec \in Record
  PROVE  LET id  == ResolveRowid(rows, rec.mail, rec.date)
             new == UpsertRow(rows, id, rec)
         IN  /\ new \in Rows
             /\ Twins(new, ReplaceTokens(tokens, id, rec)) /\ Keyed(new)
             /\ \A r \in rows : \E s \in new : s.id = r.id /\ s.mail = r.mail
             /\ Said(new) = {r \in Said(rows) : r.mail # rec.mail} \cup {rec}
             /\ Cardinality(new) = Cardinality(rows) + IF RowExists(rows, id) THEN 0 ELSE 1
<1> DEFINE id   == ResolveRowid(rows, rec.mail, rec.date)
           new  == UpsertRow(rows, id, rec)
           x    == [id |-> id, mail |-> rec.mail, date |-> rec.date, text |-> rec.text]
           kept == {r \in rows : r.mail # rec.mail}
<1>1. /\ rec.mail \in Mails /\ rec.date \in Dates /\ rec.text \in Texts
      /\ rec = [mail |-> rec.mail, date |-> rec.date, text |-> rec.text]
  BY DEF Record
<1>2. /\ rows \in SUBSET Row /\ IsFiniteSet(rows)
      /\ \A r \in rows : r.id \in Int /\ r = [id |-> r.id, mail |-> r.mail, date |-> r.date, text |-> r.text]
  BY DEF Rows, Row
<1>3. /\ id \in Int
      /\ \A r \in kept : r.id # id
      /\ new = kept \cup {x}
      /\ \/ ~RowExists(rows, id) /\ kept = rows
         \/ \E o \in rows : RowExists(rows, id) /\ o.mail = rec.mail /\ o.id = id /\ kept = rows \ {o}
  <2>1. CASE \E r \in rows : r.mail = rec.mail
    <3> DEFINE o == CHOOSE r \in rows : r.mail = rec.mail
    <3>1. o \in rows /\ o.mail = rec.mail
      BY <2>1
    <3>2. id = o.id
      BY <2>1 DEF ResolveRowid
    <3>3. new = kept \cup {x}
      BY <2>1, <3>2 DEF UpsertRow
    <3>. HIDE DEF o, id, new
    <3>4. \A r \in rows : r.mail = rec.mail \/ r.id = id => r = o
      BY <3>1, <3>2 DEF Keyed
    <3>5. id \in Int /\ RowExists(rows, id)
      BY <1>2, <3>1, <3>2 DEF RowExists
    <3>6. kept = rows \ {o}
      BY <3>1, <3>4
    <3>. QED
      BY <3>1, <3>2, <3>3, <3>4, <3>5, <3>6
  <2>2. CASE \A r \in rows : r.mail # rec.mail
    <3>1. id = Probe(rows, ComputeRowid(rec.mail, rec.date))
      BY <2>2 DEF ResolveRowid
    <3>2. new = kept \cup {x}
      BY <2>2 DEF UpsertRow
    <3>3. ComputeRowid(rec.mail, rec.date) \in Int
      BY <1>1, StorageAssumption DEF ComputeRowid
    <3>. HIDE DEF id, new
    <3>4. id \in Int /\ id \notin Ids(rows)
      BY <1>2, <3>1, <3>3, ProbeIsFree
    <3>5. ~RowExists(rows, id) /\ kept = rows
      BY <2>2, <3>4 DEF RowExists, Ids
    <3>. QED
      BY <3>2, <3>4, <3>5 DEF Ids
  <2>. QED
    BY <2>1, <2>2
<1>. HIDE DEF id, new
<1>4. x \in Row /\ x \notin kept /\ kept \in SUBSET rows
  BY <1>1, <1>3 DEF Row
<1>5. IsFiniteSet(kept)
  BY <1>2, <1>4, FS_Subset
<1>6. new \in Rows /\ Cardinality(new) = Cardinality(kept) + 1
  <2>. HIDE DEF x, kept
  <2>1. IsFiniteSet(new) /\ Cardinality(new) = Cardinality(kept) + 1
    BY <1>3, <1>4, <1>5, FS_AddElement
  <2>. QED
    BY <1>2, <1>3, <1>4, <2>1 DEF Rows
<1>7. Cardinality(new) = Cardinality(rows) + IF RowExists(rows, id) THEN 0 ELSE 1
  <2>. HIDE DEF kept
  <2>1. CASE ~RowExists(rows, id) /\ kept = rows
    BY <1>6, <2>1
  <2>2. CASE RowExists(rows, id)
    <3>0. PICK o \in rows : kept = rows \ {o}
      BY <1>3, <2>2
    <3>1. Cardinality(kept) = Cardinality(rows) - 1
      BY <1>2, <3>0, FS_RemoveElement
    <3>2. Cardinality(rows) \in Nat
      BY <1>2, FS_CardinalityType
    <3>. QED
      BY <1>6, <2>2, <3>1, <3>2
  <2>. QED
    BY <1>3, <2>1, <2>2
<1>8. Keyed(new)
  BY <1>3, <1>4 DEF Keyed
<1>9. ASSUME NEW r \in rows PROVE \E s \in new : s.id = r.id /\ s.mail = r.mail
  <2>1. CASE r \in kept
    BY <1>3, <2>1
  <2>2. CASE r \notin kept
    <3>1. r.mail = rec.mail /\ r.id = id
      BY <1>3, <2>2 DEF Keyed
    <3>2. x \in new /\ x.id = id /\ x.mail = rec.mail
      BY <1>3
    <3>. QED
      BY <3>1, <3>2
  <2>. QED
    BY <2>1, <2>2
<1>10. Said(new) = {r \in Said(rows) : r.mail # rec.mail} \cup {rec}
  <2>1. Said(new) = Said(kept) \cup {rec}
    <3>1. [mail |-> x.mail, date |-> x.date, text |-> x.text] = rec
      BY <1>1
    <3>. HIDE DEF x, kept
    <3>. QED
      BY <1>3, <3>1 DEF Said
  <2>2. Said(kept) = {r \in Said(rows) : r.mail # rec.mail}
    BY DEF Said
  <2>. QED
    BY <2>1, <2>2
<1>11. Twins(new, ReplaceTokens(tokens, id, rec))
  <2> DEFINE T(s) == {[id |-> r.id, text |-> r.text] : r \in s}
  <2>1. tokens = T(rows)
    BY DEF Twins
  <2>2. {r \in T(rows) : r.id # id} = T(kept)
    <3>1. ASSUME NEW r \in rows PROVE r.id # id <=> r \in kept
      BY <1>3 DEF Keyed, RowExists
    <3>2. {r \in T(rows) : r.id # id} = T({r \in rows : r.id # id})
      OBVIOUS
    <3>3. {r \in rows : r.id # id} = kept
      BY <3>1
    <3>. QED
      BY <3>2, <3>3
  <2>3. T(new) = T(kept) \cup {[id |-> id, text |-> rec.text]}
    <3>1. x.id = id /\ x.text = rec.text
      OBVIOUS
    <3>. HIDE DEF x, kept
    <3>. QED
      BY <1>3, <3>1
  <2>. QED
    BY <2>1, <2>2, <2>3 DEF Twins, ReplaceTokens
<1>. QED
  BY <1>6, <1>7, <1>8, <1>9, <1>10, <1>11 DEF id, new

-----------------------------------------------------------------------------
(* The merge of a batch, record by record *)

LEMMA PartlyNone == \A t, b : Partly(t, b, 0) = t
  BY DEF Partly

LEMMA PartlyNext ==
  ASSUME NEW t, NEW b \in Seq(Record), NEW k \in Nat, k < Len(b)
  PROVE  Partly(t, b, k + 1) = {r \in Partly(t, b, k) : r.mail # b[k + 1].mail} \cup {b[k + 1]}
<1> DEFINE Last(n) == {j \in 1..n : \A l \in 1..n : l > j => b[l].mail # b[j].mail}
           Old(n)  == {r \in t : \A i \in 1..n : b[i].mail # r.mail}
<1>1. 1..(k + 1) = (1..k) \cup {k + 1}
  OBVIOUS
<1>2. Old(k + 1) = {r \in Old(k) : r.mail # b[k + 1].mail}
  BY <1>1
<1>3. Last(k + 1) = {j \in Last(k) : b[j].mail # b[k + 1].mail} \cup {k + 1}
  <2>1. \A j \in 1..k : k + 1 > j /\ j # k + 1
    OBVIOUS
  <2>2. \A l \in 1..(k + 1) : ~(l > k + 1)
    OBVIOUS
  <2>. QED
    BY <1>1, <2>1, <2>2
<1>4. Partly(t, b, k + 1) = Old(k + 1) \cup {b[i] : i \in Last(k + 1)}
  BY DEF Partly
<1>5. Partly(t, b, k) = Old(k) \cup {b[i] : i \in Last(k)}
  BY DEF Partly
<1>. HIDE DEF Last, Old
<1>. QED
  BY <1>2, <1>3, <1>4, <1>5

LEMMA PartlyAll ==
  ASSUME NEW t, NEW b \in Seq(Record)
  PROVE  Partly(t, b, Len(b)) = Abstract!Merged(t, b)
<1>1. DOMAIN b = 1..Len(b)
  OBVIOUS
<1>2. Abstract!LastOf(b) =
        {b[i] : i \in {j \in 1..Len(b) : \A l \in 1..Len(b) : l > j => b[l].mail # b[j].mail}}
  BY <1>1 DEF Abstract!LastOf
<1>3. {r \in t : \A n \in Abstract!Range(b) : n.mail # r.mail}
        = {r \in t : \A i \in 1..Len(b) : b[i].mail # r.mail}
  BY <1>1 DEF Abstract!Range
<1>. QED
  BY <1>2, <1>3 DEF Abstract!Merged, Partly

-----------------------------------------------------------------------------
(* The steps *)

LEMMA InitInv == Init => IInv
<1>. SUFFICES ASSUME Init PROVE IInv
  OBVIOUS
<1>1. mails \in Rows /\ Cardinality(mails) = 0
  BY FS_EmptySet DEF Init, Rows
<1>2. StorageTypes
  BY <1>1 DEF Init, StorageTypes, Stats, ZeroStats
<1>3. Locked /\ Busy /\ Counts
  BY <1>1, StorageAssumption DEF Init, Locked, Busy, Counts
<1>4. Twins(mails, fts) /\ Keyed(mails)
  BY DEF Init, Twins, Keyed
<1>5. \A w \in Writers : lock # w
  BY StorageAssumption DEF Init
<1>. QED
  BY <1>2, <1>3, <1>4, <1>5 DEF IInv

\* A step of w that leaves the tables and the transactions of others alone.
LEMMA AsideKeeps ==
  ASSUME IInv, NEW w \in Writers, UNCHANGED <<wal, mails, fts, counted>>,
         StorageTypes', Locked', Busy',
         wal /\ pc'[w] = "begin" => stats'[w].inserted = 0,
         \A v \in Writers : v # w =>
           pc'[v] = pc[v] /\ batch'[v] = batch[v] /\ pos'[v] = pos[v] /\ stats'[v] = stats[v],
         lock' # w, lock' # NoWriter => tx' = tx /\ lock' = lock
  PROVE  IInv'
<1>1. Counts'
  BY DEF IInv, Counts
<1>2. ASSUME NEW v \in Writers, lock' = v PROVE Transaction(v)'
  <2>1. v # w /\ lock = v /\ tx' = tx
    BY <1>2, StorageAssumption
  <2>2. Transaction(v)
    BY <2>1 DEF IInv
  <2>. QED
    BY <2>1, <2>2 DEF Transaction
<1>. QED
  BY <1>1, <1>2 DEF IInv

LEMMA CallKeeps ==
  ASSUME IInv, NEW w \in Writers, NEW b \in Batches, Call(w, b)
  PROVE  IInv'
<1>1. StorageTypes /\ Locked /\ Busy
  BY DEF IInv
<1>2. StorageTypes'
  BY <1>1 DEF Call, StorageTypes, Stats, ZeroStats
<1>3. Locked' /\ lock # w /\ lock' = lock
  BY <1>1 DEF Call, StorageTypes, Locked
<1>4. Busy'
  BY <1>1 DEF Call, StorageTypes, Busy
<1>5. \A v \in Writers : v # w =>
        pc'[v] = pc[v] /\ batch'[v] = batch[v] /\ pos'[v] = pos[v] /\ stats'[v] = stats[v]
  BY <1>1 DEF Call, StorageTypes
<1>6. stats'[w].inserted = 0 /\ UNCHANGED <<wal, mails, fts, counted, tx>>
  BY <1>1 DEF Call, StorageTypes, ZeroStats
<1>. QED
  BY <1>2, <1>3, <1>4, <1>5, <1>6, AsideKeeps

LEMMA RollbackKeeps ==
  ASSUME IInv, NEW w \in Writers, Retry(w) \/ GiveUp(w) \/ Error(w) \/ Die(w)
  PROVE  IInv'
<1>1. StorageTypes /\ Locked /\ Busy /\ Counts
  BY DEF IInv
<1>2. /\ Rollback(w) /\ pc[w] \in {"begin", "row"}
      /\ UNCHANGED <<wal, mails, fts, batch, pos, counted>>
      /\ \/ pc' = [pc EXCEPT ![w] = "begin"] /\ (wal => pc[w] = "begin")
            /\ stats' = [stats EXCEPT ![w].retries = @ + 1]
         \/ (pc' = [pc EXCEPT ![w] = "raised"] \/ pc' = [pc EXCEPT ![w] = "idle"]) /\ stats' = stats
  BY <1>1 DEF Retry, GiveUp, Error, Die, MeetsLock, StorageTypes
<1>3. lock' = (IF lock = w THEN NoWriter ELSE lock) /\ tx' = (IF lock = w THEN NoTx ELSE tx)
  BY <1>2 DEF Rollback
<1>4. stats' \in [Writers -> Stats] /\ stats'[w].inserted = stats[w].inserted
  <2>1. stats \in [Writers -> Stats] /\ stats[w] \in Stats
    BY <1>1 DEF StorageTypes
  <2>2. CASE stats' = stats
    BY <2>1, <2>2
  <2>3. CASE stats' = [stats EXCEPT ![w].retries = @ + 1]
    <3>1. stats' = [stats EXCEPT ![w] = [stats[w] EXCEPT !.retries = stats[w].retries + 1]]
      BY <2>3
    <3>2. /\ [stats[w] EXCEPT !.retries = stats[w].retries + 1] \in Stats
          /\ [stats[w] EXCEPT !.retries = stats[w].retries + 1].inserted = stats[w].inserted
      BY <2>1 DEF Stats
    <3>. QED
      BY <2>1, <3>1, <3>2
  <2>. QED
    BY <1>2, <2>2, <2>3
<1>5. StorageTypes'
  BY <1>1, <1>2, <1>3, <1>4 DEF StorageTypes
<1>6. Locked' /\ Busy' /\ lock' # w
  BY <1>1, <1>2, <1>3, StorageAssumption DEF Locked, Busy, StorageTypes
<1>7. wal /\ pc'[w] = "begin" => stats'[w].inserted = 0
  BY <1>1, <1>2, <1>4 DEF Counts, StorageTypes
<1>8. \A v \in Writers : v # w =>
        pc'[v] = pc[v] /\ batch'[v] = batch[v] /\ pos'[v] = pos[v] /\ stats'[v] = stats[v]
  BY <1>1, <1>2 DEF StorageTypes
<1>9. lock' # NoWriter => tx' = tx /\ lock' = lock
  BY <1>3
<1>. QED
  BY <1>2, <1>5, <1>6, <1>7, <1>8, <1>9, AsideKeeps

LEMMA BatchIsSeq ==
  ASSUME StorageTypes, NEW w \in Writers
  PROVE  batch[w] \in Seq(Record) /\ Len(batch[w]) \in Nat
<1>1. batch[w] \in Batches \/ batch[w] = <<>>
  BY DEF StorageTypes
<1>2. batch[w] \in Batches => batch[w] \in Seq(Record)
  BY StorageAssumption
<1>3. <<>> \in Seq(Record)
  OBVIOUS
<1>4. batch[w] \in Seq(Record)
  BY <1>1, <1>2, <1>3
<1>. QED
  BY <1>4

LEMMA BeginKeeps ==
  ASSUME IInv, NEW w \in Writers, Begin(w)
  PROVE  IInv'
<1>1. StorageTypes /\ Locked /\ Busy /\ Counts /\ Twins(mails, fts) /\ Keyed(mails)
  BY DEF IInv
<1>2. /\ pc[w] = "begin" /\ lock = NoWriter /\ lock' = w
      /\ tx'.mails = mails /\ tx'.fts = fts
      /\ pos'[w] = 1 /\ pc' = [pc EXCEPT ![w] = "row"]
      /\ UNCHANGED <<wal, mails, fts, batch, stats, counted>>
  BY <1>1 DEF Begin, StorageTypes
<1>3. StorageTypes'
  BY <1>1 DEF Begin, StorageTypes
<1>4. Locked' /\ Busy' /\ Counts'
  BY <1>1, <1>2, StorageAssumption DEF Locked, Busy, Counts, StorageTypes
<1>5. Transaction(w)'
  <2>1. Said(mails) = Partly(Said(mails), batch[w], 0)
    BY PartlyNone
  <2>2. 1 <= Len(batch[w]) + 1
    BY <1>1, BatchIsSeq
  <2>3. Cardinality(mails) \in Nat /\ mails \in Rows
    BY <1>1, FS_CardinalityType DEF StorageTypes, Rows
  <2>4. wal => stats[w].inserted = 0
    BY <1>1, <1>2 DEF Counts
  <2>5. pos'[w] - 1 = 0 /\ pos'[w] <= Len(batch'[w]) + 1
    BY <1>2, <2>2
  <2>6. wal' => Cardinality(tx'.mails) = Cardinality(mails') + stats'[w].inserted
    BY <1>2, <2>3, <2>4
  <2>7. Said(tx'.mails) = Partly(Said(mails'), batch'[w], pos'[w] - 1)
    BY <1>2, <2>1, <2>5
  <2>8. \A r \in mails' : \E s \in tx'.mails : s.id = r.id /\ s.mail = r.mail
    BY <1>2
  <2>. QED
    BY <1>1, <1>2, <2>3, <2>5, <2>6, <2>7, <2>8 DEF Transaction
<1>6. Twins(mails, fts)' /\ Keyed(mails)'
  BY <1>1, <1>2
<1>. QED
  BY <1>2, <1>3, <1>4, <1>5, <1>6 DEF IInv

LEMMA StoreKeeps ==
  ASSUME IInv, NEW w \in Writers, StoreRecord(w)
  PROVE  IInv'
<1> DEFINE rec == batch[w][pos[w]]
           id  == ResolveRowid(tx.mails, rec.mail, rec.date)
           new == UpsertRow(tx.mails, id, rec)
<1>1. StorageTypes /\ Locked /\ Busy /\ Counts
  BY DEF IInv
<1>2. /\ pc[w] = "row" /\ pos[w] <= Len(batch[w])
      /\ tx'.mails = new /\ tx'.fts = ReplaceTokens(tx.fts, id, rec)
      /\ pos' = [pos EXCEPT ![w] = @ + 1]
      /\ UNCHANGED <<wal, mails, fts, lock, pc, batch, counted>>
  BY DEF StoreRecord
<1>3. lock = w /\ Transaction(w)
  BY <1>1, <1>2 DEF IInv, Locked
<1>4. batch[w] \in Seq(Record) /\ Len(batch[w]) \in Nat /\ pos[w] \in Nat \ {0}
  BY <1>1, BatchIsSeq DEF StorageTypes
<1>5. rec \in Record
  BY <1>2, <1>4
<1>6. /\ new \in Rows
      /\ Twins(new, ReplaceTokens(tx.fts, id, rec)) /\ Keyed(new)
      /\ \A r \in tx.mails : \E s \in new : s.id = r.id /\ s.mail = r.mail
      /\ Said(new) = {r \in Said(tx.mails) : r.mail # rec.mail} \cup {rec}
      /\ Cardinality(new) = Cardinality(tx.mails) + IF RowExists(tx.mails, id) THEN 0 ELSE 1
  BY <1>3, <1>5, StoreOne DEF Transaction
<1>12. stats' = IF RowExists(tx.mails, id) THEN [stats EXCEPT ![w].updated = @ + 1]
                                         ELSE [stats EXCEPT ![w].inserted = @ + 1]
  BY DEF StoreRecord
<1>. HIDE DEF new, id
<1>7. /\ stats' \in [Writers -> Stats] /\ stats[w].inserted \in Nat
      /\ stats'[w].inserted = stats[w].inserted + IF RowExists(tx.mails, id) THEN 0 ELSE 1
      /\ \A v \in Writers : v # w => stats'[v] = stats[v]
  <2>1. stats \in [Writers -> Stats] /\ stats[w] \in Stats /\ stats[w].inserted \in Nat
    BY <1>1 DEF StorageTypes, Stats
  <2>2. CASE RowExists(tx.mails, id)
    <3>1. stats' = [stats EXCEPT ![w] = [stats[w] EXCEPT !.updated = stats[w].updated + 1]]
      BY <1>12, <2>2
    <3>2. /\ [stats[w] EXCEPT !.updated = stats[w].updated + 1] \in Stats
          /\ [stats[w] EXCEPT !.updated = stats[w].updated + 1].inserted = stats[w].inserted
      BY <2>1 DEF Stats
    <3>. QED
      BY <2>1, <2>2, <3>1, <3>2
  <2>3. CASE ~ RowExists(tx.mails, id)
    <3>1. stats' = [stats EXCEPT ![w] = [stats[w] EXCEPT !.inserted = stats[w].inserted + 1]]
      BY <1>12, <2>3
    <3>2. /\ [stats[w] EXCEPT !.inserted = stats[w].inserted + 1] \in Stats
          /\ [stats[w] EXCEPT !.inserted = stats[w].inserted + 1].inserted = stats[w].inserted + 1
      BY <2>1 DEF Stats
    <3>. QED
      BY <2>1, <2>3, <3>1, <3>2
  <2>. QED
    BY <2>2, <2>3
<1>8. StorageTypes' /\ pos'[w] = pos[w] + 1
  <2>1. pos' \in [Writers -> Nat \ {0}] /\ pos'[w] = pos[w] + 1
    BY <1>1, <1>2, <1>4 DEF StorageTypes
  <2>. QED
    BY <1>1, <1>2, <1>7, <2>1 DEF StorageTypes
<1>9. Locked' /\ Busy' /\ Counts'
  BY <1>1, <1>2, <1>7 DEF Locked, Busy, Counts
<1>10. Transaction(w)'
  <2>1. pos'[w] <= Len(batch'[w]) + 1
    BY <1>2, <1>4, <1>8
  <2>2. Said(tx'.mails) = Partly(Said(mails'), batch'[w], pos'[w] - 1)
    <3> DEFINE k == pos[w] - 1
    <3>1. k \in Nat /\ k < Len(batch[w]) /\ k + 1 = pos[w] /\ pos'[w] - 1 = k + 1
      BY <1>2, <1>4, <1>8
    <3>2. Said(tx.mails) = Partly(Said(mails), batch[w], k)
      BY <1>3 DEF Transaction
    <3>. HIDE DEF k
    <3>3. ASSUME NEW t, NEW b \in Seq(Record), k < Len(b)
          PROVE  Partly(t, b, k + 1)
                   = {r \in Partly(t, b, k) : r.mail # b[k + 1].mail} \cup {b[k + 1]}
      BY <3>1, <3>3, PartlyNext
    <3>4. Partly(Said(mails), batch[w], k + 1)
            = {r \in Partly(Said(mails), batch[w], k) : r.mail # batch[w][k + 1].mail} \cup {batch[w][k + 1]}
      BY <1>4, <3>1, <3>3
    <3>. QED
      BY <1>2, <1>6, <3>1, <3>2, <3>4
  <2>3. wal' => Cardinality(tx'.mails) = Cardinality(mails') + stats'[w].inserted
    <3>1. Cardinality(mails) \in Nat
      BY <1>1, FS_CardinalityType DEF StorageTypes, Rows
    <3>2. wal' = wal /\ mails' = mails /\ tx'.mails = new
      BY <1>2
    <3>3. wal => Cardinality(tx.mails) = Cardinality(mails) + stats[w].inserted
      BY <1>3 DEF Transaction
    <3>4. Cardinality(new) = Cardinality(tx.mails) + IF RowExists(tx.mails, id) THEN 0 ELSE 1
      BY <1>6
    <3>. HIDE DEF new
    <3>5. SUFFICES ASSUME wal
                   PROVE  Cardinality(new) = Cardinality(mails) + stats'[w].inserted
      BY <3>2
    <3>. QED
      BY <1>7, <3>1, <3>3, <3>4, <3>5
  <2>4. \A r \in mails' : \E s \in tx'.mails : s.id = r.id /\ s.mail = r.mail
    BY <1>2, <1>3, <1>6 DEF Transaction
  <2>. QED
    BY <1>2, <1>6, <2>1, <2>2, <2>3, <2>4 DEF Transaction
<1>11. Twins(mails, fts)' /\ Keyed(mails)'
  BY <1>2 DEF IInv
<1>. QED
  BY <1>2, <1>3, <1>8, <1>9, <1>10, <1>11 DEF IInv

LEMMA CommitKeeps ==
  ASSUME IInv, NEW w \in Writers, Commit(w)
  PROVE  IInv'
<1>1. StorageTypes /\ Locked /\ Busy /\ Counts
  BY DEF IInv
<1>2. lock = w /\ Transaction(w)
  BY <1>1 DEF IInv, Commit, Locked
<1>3. /\ mails' = tx.mails /\ fts' = tx.fts /\ lock' = NoWriter
      /\ counted' = counted + stats[w].inserted /\ pc' = [pc EXCEPT ![w] = "returned"]
      /\ UNCHANGED <<wal, batch, pos, stats>>
  BY DEF Commit
<1>4. StorageTypes'
  BY <1>1, <1>2, <1>3 DEF StorageTypes, Transaction, Stats
<1>5. Locked' /\ Busy'
  BY <1>1, <1>2, <1>3, StorageAssumption DEF StorageTypes, Locked, Busy
<1>6. Counts'
  BY <1>1, <1>2, <1>3 DEF StorageTypes, Counts, Transaction
<1>7. Twins(mails, fts)' /\ Keyed(mails)'
  BY <1>2, <1>3 DEF Transaction
<1>8. \A v \in Writers : lock' # v
  BY <1>3, StorageAssumption
<1>. QED
  BY <1>4, <1>5, <1>6, <1>7, <1>8 DEF IInv

LEMMA NextInv == IInv /\ [Next]_vars => IInv'
<1>. SUFFICES ASSUME IInv, [Next]_vars PROVE IInv'
  OBVIOUS
<1>1. CASE UNCHANGED vars
  BY <1>1 DEF vars, IInv, StorageTypes, Locked, Busy, Counts, Transaction
<1>2. CASE Next
  BY <1>2, CallKeeps, BeginKeeps, StoreKeeps, CommitKeeps, RollbackKeeps DEF Next, WriterStep
<1>. QED
  BY <1>1, <1>2

LEMMA InvAlways == Spec => []IInv
  BY InitInv, NextInv, PTL DEF Spec

-----------------------------------------------------------------------------
(* Where the rows are *)

\* A row is at the id of its mail and date, or after it with no id between them left,
\* unless its mail is one of set.
PlacedAt(rows, c, id) == c <= id /\ \A n \in c..(id - 1) : n \in Ids(rows)
Placed(rows, set) ==
  \A r \in rows : r.mail \in set \/ PlacedAt(rows, ComputeRowid(r.mail, r.date), r.id)

\* The rows that readers see are so placed, and those of an open transaction.
PlaceInv ==
  /\ Placed(mails, redated)
  /\ \A w \in Writers : lock = w => Placed(tx.mails, tx.redated)

\* A new mail goes to the id of its date, or the next one free; a known one stays where it
\* is, which is the place of its date, or that has changed.
LEMMA StoreOnePlaces ==
  ASSUME NEW rows \in Rows, NEW tokens, Twins(rows, tokens), Keyed(rows),
         NEW rec \in Record, NEW set, Placed(rows, set)
  PROVE  LET id == ResolveRowid(rows, rec.mail, rec.date)
         IN  Placed(UpsertRow(rows, id, rec), set \cup Redated(rows, rec))
<1> DEFINE id  == ResolveRowid(rows, rec.mail, rec.date)
           new == UpsertRow(rows, id, rec)
           at  == ComputeRowid(rec.mail, rec.date)
<1>1. /\ IsFiniteSet(rows)
      /\ \A r \in rows : r.id \in Int /\ r.mail \in Mails /\ r.date \in Dates
      /\ rec.mail \in Mails /\ rec.date \in Dates
  BY DEF Record, Rows, Row
<1>2. \A m \in Mails, d \in Dates : ComputeRowid(m, d) \in Int
  BY StorageAssumption DEF ComputeRowid
<1>3. Ids(rows) \subseteq Ids(new)
  <2>1. ASSUME NEW r \in rows PROVE \E q \in new : q.id = r.id
    <3>1. CASE r.mail # rec.mail
      BY <3>1 DEF UpsertRow
    <3>2. CASE r.mail = rec.mail
      <4> DEFINE o == CHOOSE q \in rows : q.mail = rec.mail
      <4>1. o \in rows /\ o.mail = rec.mail
        BY <3>2
      <4>2. o.id = r.id
        BY <3>2, <4>1 DEF Keyed
      <4> DEFINE e == [id |-> IF \E q \in rows : q.mail = rec.mail THEN o.id ELSE id,
                       mail |-> rec.mail, date |-> rec.date, text |-> rec.text]
      <4>3. e \in new
        BY DEF UpsertRow
      <4>. HIDE DEF o, new, id
      <4>4. e.id = r.id
        BY <3>2, <4>2
      <4>. QED
        BY <4>3, <4>4
    <3>. QED
      BY <3>1, <3>2
  <2>. HIDE DEF new
  <2>. QED
    BY <2>1 DEF Ids
<1>4. ASSUME NEW r \in new
      PROVE  \/ r \in rows
             \/ /\ r.mail = rec.mail /\ r.date = rec.date
                /\ r.id = id
  BY DEF UpsertRow, ResolveRowid
<1>5. ASSUME NEW c, NEW i, PlacedAt(rows, c, i) PROVE PlacedAt(new, c, i)
  BY <1>3, <1>5 DEF PlacedAt
<1>6. rec.mail \in set \cup Redated(rows, rec) \/ PlacedAt(rows, at, id)
  <2>1. CASE \E r \in rows : r.mail = rec.mail
    <3> DEFINE o == CHOOSE r \in rows : r.mail = rec.mail
    <3>1. o \in rows /\ o.mail = rec.mail /\ id = o.id
      BY <2>1 DEF ResolveRowid
    <3>. HIDE DEF o, id
    <3>2. CASE o.date # rec.date
      BY <3>1, <3>2 DEF Redated
    <3>3. CASE o.date = rec.date
      BY <3>1, <3>3 DEF Placed
    <3>. QED
      BY <3>2, <3>3
  <2>2. CASE \A r \in rows : r.mail # rec.mail
    <3>1. id = Probe(rows, at)
      BY <2>2 DEF ResolveRowid
    <3>2. at \in Int
      BY <1>1, <1>2
    <3>. QED
      BY <1>1, <3>1, <3>2, ProbeIsFree DEF PlacedAt
  <2>. QED
    BY <2>1, <2>2
<1>. HIDE DEF id, new, at
<1>7. ASSUME NEW r \in new
      PROVE  \/ r.mail \in set \cup Redated(rows, rec)
             \/ PlacedAt(new, ComputeRowid(r.mail, r.date), r.id)
  <2>1. CASE r \in rows
    BY <1>5, <2>1 DEF Placed
  <2>2. CASE r.mail = rec.mail /\ r.date = rec.date /\ r.id = id
    BY <1>5, <1>6, <2>2 DEF at
  <2>. QED
    BY <1>4, <2>1, <2>2
<1>. QED
  BY <1>7 DEF Placed, new, id

LEMMA PlaceInit == Init => PlaceInv
<1>. SUFFICES ASSUME Init PROVE PlaceInv
  OBVIOUS
<1>1. mails = {} /\ \A w \in Writers : lock # w
  BY StorageAssumption DEF Init
<1>. QED
  BY <1>1 DEF PlaceInv, Placed

LEMMA PlaceNext == IInv /\ PlaceInv /\ [Next]_vars => PlaceInv'
<1>. SUFFICES ASSUME IInv, PlaceInv, [Next]_vars PROVE PlaceInv'
  OBVIOUS
<1>1. StorageTypes /\ Locked /\ Twins(mails, fts) /\ Keyed(mails)
  BY DEF IInv
<1>2. CASE UNCHANGED <<mails, redated>> /\ (lock' = NoWriter \/ UNCHANGED <<lock, tx>>)
  <2>1. \A w \in Writers : lock' = w => lock = w /\ tx' = tx
    BY <1>2, StorageAssumption
  <2>. QED
    BY <1>2, <2>1 DEF PlaceInv, Placed
<1>3. CASE \E w \in Writers : Begin(w)
  BY <1>3 DEF PlaceInv, Placed, Begin
<1>4. ASSUME NEW w \in Writers, StoreRecord(w) PROVE PlaceInv'
  <2> DEFINE rec == batch[w][pos[w]]
             id  == ResolveRowid(tx.mails, rec.mail, rec.date)
  <2>1. lock = w /\ Transaction(w) /\ Placed(tx.mails, tx.redated)
    BY <1>1, <1>4 DEF IInv, Locked, PlaceInv, StoreRecord
  <2>2. rec \in Record
    <3>1. batch[w] \in Seq(Record) /\ pos[w] \in 1..Len(batch[w])
      BY <1>1, <1>4, BatchIsSeq DEF StorageTypes, StoreRecord
    <3>. QED
      BY <3>1
  <2>3. /\ UNCHANGED <<mails, redated, lock>>
        /\ tx'.mails = UpsertRow(tx.mails, id, rec)
        /\ tx'.redated = tx.redated \cup Redated(tx.mails, rec)
    BY <1>4 DEF StoreRecord
  <2>. HIDE DEF rec
  <2>4. Placed(UpsertRow(tx.mails, id, rec), tx.redated \cup Redated(tx.mails, rec))
    BY <2>1, <2>2, StoreOnePlaces DEF Transaction
  <2>5. Placed(tx'.mails, tx'.redated)
    BY <2>3, <2>4
  <2>6. Placed(mails', redated')
    BY <2>3 DEF PlaceInv, Placed
  <2>. QED
    BY <2>5, <2>6 DEF PlaceInv, Placed
<1>5. ASSUME NEW w \in Writers, Commit(w) PROVE PlaceInv'
  <2>1. lock = w /\ Placed(tx.mails, tx.redated)
    BY <1>1, <1>5 DEF Locked, PlaceInv, Commit
  <2>2. mails' = tx.mails /\ redated' = tx.redated /\ \A v \in Writers : lock' # v
    BY <1>5, StorageAssumption DEF Commit
  <2>. QED
    BY <2>1, <2>2 DEF PlaceInv, Placed
<1>6. CASE UNCHANGED vars
  BY <1>2, <1>6 DEF vars
<1>7. ASSUME NEW w \in Writers, NEW b \in Batches, Call(w, b) PROVE PlaceInv'
  BY <1>2, <1>7 DEF Call
<1>8. ASSUME NEW w \in Writers, Retry(w) \/ GiveUp(w) \/ Error(w) \/ Die(w) PROVE PlaceInv'
  <2>1. Rollback(w) /\ UNCHANGED <<mails, redated>>
    BY <1>8 DEF Retry, GiveUp, Error, Die
  <2>. QED
    BY <1>2, <2>1 DEF Rollback
<1>. QED
  BY <1>3, <1>4, <1>5, <1>6, <1>7, <1>8 DEF Next, WriterStep

\* The dates of two seconds apart, their bands apart.
LEMMA BandsApart ==
  ASSUME NEW a \in Int, NEW b \in Int, a < b, NEW B \in Nat
  PROVE  a * B + B <= b * B
<1>1. PICK k \in Nat : b = a + 1 + k
  <2>1. b - a - 1 \in Nat /\ b = a + 1 + (b - a - 1)
    OBVIOUS
  <2>. QED
    BY <2>1
<1>2. b * B = a * B + B + k * B
  BY <1>1
<1>3. k * B \in Nat /\ a * B \in Int
  BY <1>1
<1>. QED
  BY <1>2, <1>3

-----------------------------------------------------------------------------
(* The theorems *)

\* TablesAgree: mails and mails_fts hold the same rowids with the same text, and no rowid
\* or message_id twice, after every statement of upsert_batch (storage.py:249-332).
THEOREM TablesAlwaysAgree == Spec => []TablesAgree
<1>1. IInv => TablesAgree
  BY DEF IInv, TablesAgree, Transaction, StorageTypes
<1>. QED
  BY <1>1, InvAlways, PTL

\* InsertedAreTheRows: in WAL mode the calls that returned count as inserted
\* (storage.py:324-330) the mails that are in the table.
THEOREM CountsAreRows == Spec => []InsertedAreTheRows
<1>1. IInv => InsertedAreTheRows
  BY DEF IInv, Counts, InsertedAreTheRows
<1>. QED
  BY <1>1, InvAlways, PTL

\* Only a commit changes the table of mails: by a batch, the whole of it.
LEMMA StepMaps ==
  ASSUME IInv, [Next]_vars
  PROVE  \/ mails' = mails
         \/ \E w \in Writers : Commit(w) /\ Transaction(w) /\ mails' = tx.mails
              /\ batch[w] \in Batches /\ pos[w] = Len(batch[w]) + 1
<1>1. ASSUME NEW w \in Writers, Commit(w)
      PROVE  Transaction(w) /\ mails' = tx.mails /\ batch[w] \in Batches /\ pos[w] = Len(batch[w]) + 1
  <2>1. pc[w] = "row" /\ Transaction(w) /\ batch[w] \in Batches
    BY <1>1 DEF IInv, Commit, Locked, Busy
  <2>2. Len(batch[w]) \in Nat /\ pos[w] \in Nat
    BY BatchIsSeq DEF IInv, StorageTypes
  <2>. QED
    BY <1>1, <2>1, <2>2 DEF Commit, Transaction
<1>. QED
  BY <1>1 DEF Next, WriterStep, Call, Begin, StoreRecord, Retry, GiveUp, Error, Die, vars

\* NewestFirst: the rowids that compute_rowid and _resolve_rowid give (storage.py:151-171,
\* 334-354) are in the order of the dates, as long as a date does not change and the second
\* has an id left for the probe.
THEOREM RowidsAreNewestFirst == Spec => []NewestFirst
<1>1. ASSUME IInv, PlaceInv PROVE NewestFirst
  <2>1. SUFFICES ASSUME NEW r \in mails, NEW s \in mails, r.date < s.date,
                        r.mail \notin redated, s.mail \notin redated,
                        HasRoom(r.mail, r.date)
                 PROVE  r.id < s.id
    BY DEF NewestFirst
  <2>2. /\ r.id \in Int /\ s.id \in Int /\ r.date \in Int /\ s.date \in Int
        /\ Hash[r.mail] \in Nat /\ Hash[s.mail] \in Nat /\ BandSize \in Nat
    <3>1. r \in Row /\ s \in Row
      BY <1>1 DEF IInv, StorageTypes, Rows
    <3>2. /\ r.id \in Int /\ s.id \in Int /\ r.date \in Dates /\ s.date \in Dates
          /\ r.mail \in Mails /\ s.mail \in Mails
      BY <3>1 DEF Row
    <3>3. /\ Dates \subseteq Int /\ BandSize \in Nat
          /\ \A m \in Mails : Hash[m] \in Nat
      BY StorageAssumption
    <3>. QED
      BY <3>2, <3>3
  <2>3. PICK x \in Int, y \in Int : x = r.date * BandSize /\ y = s.date * BandSize
    BY <2>2
  <2>4. x + BandSize <= y
    BY <2>1, <2>2, <2>3, BandsApart
  <2>5. /\ PlacedAt(mails, x + Hash[r.mail], r.id)
        /\ PlacedAt(mails, y + Hash[s.mail], s.id)
    BY <1>1, <2>1, <2>3 DEF PlaceInv, Placed, ComputeRowid
  <2>6. PICK n \in (x + Hash[r.mail])..(x + BandSize - 1) : n \notin Ids(mails)
    BY <2>1, <2>3 DEF HasRoom, ComputeRowid, Ids
  <2>7. r.id <= n
    BY <2>2, <2>5, <2>6 DEF PlacedAt
  <2>8. y + Hash[s.mail] <= s.id
    BY <2>5 DEF PlacedAt
  <2>. QED
    BY <2>2, <2>4, <2>6, <2>7, <2>8
<1>2. Spec => []PlaceInv
  BY PlaceInit, PlaceNext, InvAlways, PTL DEF Spec
<1>. QED
  BY <1>1, <1>2, InvAlways, PTL

\* RowidNeverMoves: no upsert gives a mail another rowid (storage.py:334-354).
THEOREM RowidsStay == Spec => RowidNeverMoves
<1>1. ASSUME IInv, [Next]_vars
      PROVE  [\A r \in mails : \E s \in mails' : s.id = r.id /\ s.mail = r.mail]_vars
  BY <1>1, StepMaps DEF Transaction
<1>. QED
  BY <1>1, InvAlways, PTL DEF Spec, RowidNeverMoves

\* upsert_batch is atomic: whatever fails, retries or dies, the table changes by whole
\* batches only, in which the last record of a mail counts.
THEOREM StorageImplements == Spec => ImplementsMailTable
<1>1. Init => Abstract!Init
  BY DEF Init, Abstract!Init
<1>2. ASSUME IInv, [Next]_vars
      PROVE  [Abstract!Next]_(Said(mails))
  <2>1. ASSUME NEW w \in Writers, Transaction(w), mails' = tx.mails,
               batch[w] \in Batches, pos[w] = Len(batch[w]) + 1
        PROVE  Abstract!Next
    <3>1. batch[w] \in Seq(Record) /\ pos[w] - 1 = Len(batch[w])
      BY <1>2, <2>1, BatchIsSeq DEF IInv
    <3>2. Said(mails)' = Partly(Said(mails), batch[w], Len(batch[w]))
      BY <2>1, <3>1 DEF Transaction
    <3>3. Said(mails)' = Abstract!Merged(Said(mails), batch[w])
      BY <3>1, <3>2, PartlyAll
    <3>. QED
      BY <2>1, <3>3 DEF Abstract!Next, Said
  <2>. QED
    BY <1>2, <2>1, StepMaps
<1>3. IInv /\ [Next]_vars =>
        [Abstract!Next]_({[mail |-> r.mail, date |-> r.date, text |-> r.text] : r \in mails})
  BY <1>2 DEF Said
<1>. QED
  BY <1>1, <1>3, InvAlways, PTL DEF Spec, ImplementsMailTable, Abstract!Spec
=============================================================================
