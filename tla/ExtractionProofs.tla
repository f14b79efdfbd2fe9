--------------------------- MODULE ExtractionProofs ---------------------------
(***************************************************************************)
(* Proofs about Extraction: NothingInBetween, DoneIsWhole, ReadIsDeleted   *)
(* and OnlyFailuresStay, for any units with any contents, any batch size,  *)
(* any optional software and any faults.                                   *)
(***************************************************************************)
EXTENDS Extraction, SequenceTheorems, WellFoundedInduction, TLAPS

-----------------------------------------------------------------------------
(* The inductive invariant *)

Places == {"idle", "opening", "extracting", "dead"} \cup Reading

ExtractTypes ==
  /\ todo \subseteq Units /\ unit \in Units /\ pc \in Places
  /\ dir \in BOOLEAN /\ left \subseteq Units
  /\ files \subseteq Nat /\ stuck \subseteq Nat
  /\ read \in [Units -> Nat] /\ written \in Nat
  /\ over \in BOOLEAN /\ batch \in Seq(Nat) /\ errors \in Seq(Nat)
  /\ sent \in [Units -> Seq(Message)]

\* Nothing was done about a unit that is still in the queue.
Waiting == \A u \in todo : sent[u] = <<>> /\ read[u] = 0

\* What is held is of the unit being read, and less than a batch until a batch is yielded.
HeldBack ==
  /\ pc \in {"walking", "in hand", "asked"} => Len(batch) < BatchSize
  /\ pc = "putting" => Len(batch) <= BatchSize /\ (~over => Len(batch) = BatchSize)
  /\ pc = "noting" => batch = <<>>
  /\ pc \in {"idle", "opening", "extracting", "closing", "reporting"} =>
       batch = <<>> /\ errors = <<>>

\* What a sequence of messages carries of one kind, and whether one of that kind is in it.
Of(s, k)    == FlattenSeq([i \in DOMAIN s |-> IF s[i].kind = k THEN s[i].items ELSE <<>>])
Tells(s, k) == \E i \in DOMAIN s : s[i].kind = k

\* The batches in it are as large as configured; or all but the last.
FullOnly(s) == \A i \in DOMAIN s : s[i].kind = "batch" => Len(s[i].items) = BatchSize
Ends(s)     == \A i \in DOMAIN s : s[i].kind = "batch" =>
                 /\ Len(s[i].items) \in 1..BatchSize
                 /\ Len(s[i].items) < BatchSize => \A k \in i + 1..Len(s) : s[k].kind # "batch"

\* About the unit being read nothing final was said, and its batches are full, until the
\* rest of it was put.
Current ==
  pc # "idle" =>
    /\ unit \notin todo
    /\ ~Tells(sent[unit], "done") /\ ~Tells(sent[unit], "failed")
    /\ Ends(sent[unit])
    /\ ~over \/ pc = "putting" => FullOnly(sent[unit])
    /\ pc \in {"opening", "extracting", "walking", "in hand", "asked"} => ~over
    /\ over => read[unit] = Length(unit)
    /\ pc \in {"closing", "reporting"} => over
    /\ pc \in {"opening", "extracting"} =>
         /\ read[unit] = 0 /\ written = 0
         /\ Of(sent[unit], "batch") = <<>> /\ Of(sent[unit], "errors") = <<>>
    /\ pc \in Reading => written = Len(Of(sent[unit], "batch"))
    /\ pc \in {"in hand", "asked"} => read[unit] > 0
    /\ pc \in {"putting", "noting"} /\ ~over => read[unit] > 0

\* The temporary directory is there from the extraction to the end of the unit.
Temporary ==
  /\ dir => parser = "readpst" /\ pc \notin {"idle", "opening", "reporting"}
  /\ pc = "extracting" => dir /\ files = {}

\* What outlived its unit is of an earlier one, or of one whose file could not be removed.
Gone ==
  /\ left \cap todo = {}
  /\ pc \notin {"idle", "dead"} /\ unit \in left => pc = "reporting" /\ stuck # {}

\* What was put, what is held and what was read; and the extracted files.
Told       == Waiting /\ HeldBack /\ Current /\ NothingInBetween /\ DoneIsWhole
Extracted  == Temporary /\ ReadIsDeleted
ExtractInv == ExtractTypes /\ Told /\ Extracted

-----------------------------------------------------------------------------
(* Sequences one after another *)

LEMMA LeastNat ==
  ASSUME NEW S \in SUBSET Nat, S # {}
  PROVE  \E n \in S : \A k \in S : n <= k
<1>1. IsWellFoundedOn(OpToRel(<, Nat), Nat)
  BY NatLessThanWellFounded
<1>2. PICK n \in S : \A k \in S : <<k, n>> \notin OpToRel(<, Nat)
  BY <1>1, WFMin
<1>3. \A k \in S : ~(k < n)
  BY <1>2 DEF OpToRel
<1>. QED
  BY <1>3

\* f[i] is the first i members of s, one after another.
IsFlat(f, s) == f = [i \in 1..Len(s) |-> IF i = 1 THEN s[i] ELSE f[i - 1] \o s[i]]

LEMMA FlatFirst ==
  ASSUME NEW s, Len(s) \in Nat, NEW f, IsFlat(f, s), Len(s) > 0
  PROVE  f[1] = s[1]
<1> DEFINE n == Len(s)
<1>1. n \in Nat /\ n > 0
  OBVIOUS
<1>. HIDE DEF n
<1>2. f = [i \in 1..n |-> IF i = 1 THEN s[i] ELSE f[i - 1] \o s[i]]
  BY DEF IsFlat, n
<1>3. 1 \in 1..n
  BY <1>1
<1>. QED
  BY <1>2, <1>3

LEMMA FlatNext ==
  ASSUME NEW s, Len(s) \in Nat, NEW f, IsFlat(f, s), NEW k \in 1..Len(s), k # 1
  PROVE  k \in Nat /\ k - 1 \in 1..Len(s) /\ f[k] = f[k - 1] \o s[k]
<1> DEFINE n == Len(s)
<1>2. k \in 1..n /\ k \in Nat /\ k - 1 \in 1..n
  OBVIOUS
<1>. HIDE DEF n
<1>3. f = [i \in 1..n |-> IF i = 1 THEN s[i] ELSE f[i - 1] \o s[i]]
  BY DEF IsFlat, n
<1>4. f[k] = IF k = 1 THEN s[k] ELSE f[k - 1] \o s[k]
  BY <1>2, <1>3, Zenon
<1>. QED
  BY <1>2, <1>4 DEF n

\* A sequence that begins with another is the same that far.
LEMMA FlatAgree ==
  ASSUME NEW s, Len(s) \in Nat, NEW t, Len(t) \in Nat,
         NEW f, IsFlat(f, s), NEW g, IsFlat(g, t),
         Len(s) <= Len(t), \A i \in 1..Len(s) : s[i] = t[i]
  PROVE  \A i \in 1..Len(s) : f[i] = g[i]
<1> DEFINE n == Len(s)
<1> DEFINE Bad == {i \in 1..n : f[i] # g[i]}
<1>1. SUFFICES ASSUME Bad # {} PROVE FALSE
  OBVIOUS
<1>2. Bad \in SUBSET Nat
  OBVIOUS
<1>3. PICK i \in Bad : \A k \in Bad : i <= k
  BY <1>1, <1>2, LeastNat
<1>4. i \in 1..n /\ f[i] # g[i] /\ i \in 1..Len(s) /\ i \in 1..Len(t) /\ s[i] = t[i]
  OBVIOUS
<1>. HIDE DEF Bad
<1>5. i # 1
  <2>1. SUFFICES ASSUME i = 1 PROVE FALSE
    OBVIOUS
  <2>2. Len(s) > 0 /\ Len(t) > 0
    BY <1>4, <2>1
  <2>3. f[1] = s[1]
    BY <2>2, FlatFirst
  <2>4. g[1] = t[1]
    BY <2>2, FlatFirst
  <2>. QED
    BY <1>4, <2>1, <2>3, <2>4
<1>6. f[i] = f[i - 1] \o s[i]
  BY <1>4, <1>5, FlatNext, Zenon
<1>7. g[i] = g[i - 1] \o t[i]
  <2>1. \A k \in 1..Len(t) : k # 1 => g[k] = g[k - 1] \o t[k]
    BY FlatNext
  <2>. QED
    BY <1>4, <1>5, <2>1
<1>8. i - 1 \in 1..n /\ ~(i <= i - 1)
  BY <1>4, <1>5
<1>9. f[i - 1] = g[i - 1]
  BY <1>3, <1>8 DEF Bad
<1>. QED
  BY <1>4, <1>6, <1>7, <1>9

\* With one more, the last comes after the rest.
LEMMA FlatGrows ==
  ASSUME NEW s, Len(s) \in Nat, Len(s) # 0, NEW t, Len(t) = Len(s) + 1,
         NEW g, IsFlat(g, s), NEW f, IsFlat(f, t), \A i \in 1..Len(s) : s[i] = t[i]
  PROVE  f[Len(t)] = g[Len(s)] \o t[Len(t)]
<1>1. Len(t) \in Nat /\ Len(s) <= Len(t) /\ Len(t) \in 1..Len(t) /\ Len(t) # 1
  OBVIOUS
<1>2. Len(s) \in 1..Len(s) /\ Len(t) - 1 = Len(s)
  OBVIOUS
<1>3. \A i \in 1..Len(s) : g[i] = f[i]
  BY <1>1, FlatAgree
<1>4. f[Len(t)] = f[Len(t) - 1] \o t[Len(t)]
  BY <1>1, FlatNext
<1>. QED
  BY <1>2, <1>3, <1>4

LEMMA FlatExists ==
  ASSUME NEW S, NEW s \in Seq(Seq(S))
  PROVE  \E f : IsFlat(f, s) /\ \A i \in 1..Len(s) : f[i] \in Seq(S)
<1> DEFINE Good(t) == \E f : IsFlat(f, t) /\ \A i \in 1..Len(t) : f[i] \in Seq(S)
           Bad == {n \in Nat : \E t \in Seq(Seq(S)) : Len(t) = n /\ ~Good(t)}
<1>1. SUFFICES ASSUME Bad # {} PROVE FALSE
  <2>1. Len(s) \in Nat
    OBVIOUS
  <2>. HIDE DEF Good
  <2>2. Good(s)
    BY <1>1, <2>1
  <2>. QED
    BY <2>2 DEF Good
<1>2. Bad \in SUBSET Nat
  OBVIOUS
<1>3. PICK n \in Bad : \A k \in Bad : n <= k
  BY <1>1, <1>2, LeastNat
<1>4. PICK t \in Seq(Seq(S)) : Len(t) = n /\ ~Good(t)
  BY <1>3
<1>5. n # 0
  <2>1. SUFFICES ASSUME n = 0 PROVE FALSE
    OBVIOUS
  <2>2. IsFlat([i \in {} |-> <<>>], t) /\ 1..Len(t) = {}
    BY <1>4, <2>1 DEF IsFlat
  <2>. QED
    BY <1>4, <2>2
<1> DEFINE u == SubSeq(t, 1, n - 1)
<1>6. /\ n \in Nat \ {0} /\ n - 1 \in Nat /\ \A i \in 1..n : t[i] \in Seq(S)
      /\ \A i \in 1..n - 1 : i \in 1..n
  BY <1>4, <1>5
<1>7. u \in Seq(Seq(S)) /\ Len(u) = n - 1 /\ \A i \in 1..n - 1 : u[i] = t[i]
  BY <1>4, <1>6
<1>8. Good(u)
  <2>1. n - 1 \notin Bad
    BY <1>3, <1>6
  <2>. HIDE DEF Good, u
  <2>. QED
    BY <1>6, <1>7, <2>1
<1>. HIDE DEF u
<1>9. PICK g : IsFlat(g, u) /\ \A i \in 1..n - 1 : g[i] \in Seq(S)
  BY <1>7, <1>8
<1> DEFINE f == [i \in 1..n |-> IF i < n THEN g[i]
                                ELSE IF n = 1 THEN t[1] ELSE g[n - 1] \o t[n]]
<1>10. \A i \in 1..n : f[i] = IF i = 1 THEN t[i] ELSE f[i - 1] \o t[i]
  <2>1. SUFFICES ASSUME NEW i \in 1..n PROVE f[i] = IF i = 1 THEN t[i] ELSE f[i - 1] \o t[i]
    OBVIOUS
  <2>2. CASE i < n
    <3>1. i \in 1..n - 1 /\ f[i] = g[i]
      BY <1>6, <2>2
    <3>2. CASE i = 1
      <4>0. Len(u) > 0 /\ Len(u) \in Nat
        BY <1>6, <1>7, <3>1, <3>2
      <4>1. g[1] = u[1]
        BY <1>9, <4>0, FlatFirst
      <4>. QED
        BY <1>7, <3>1, <3>2, <4>1
    <3>3. CASE i # 1
      <4>1. i > 1 /\ i - 1 \in 1..n /\ i - 1 < n
        BY <1>6, <2>2, <3>3
      <4>2. f[i - 1] = g[i - 1]
        BY <4>1
      <4>3. g[i] = g[i - 1] \o u[i]
        <5>1. i \in 1..Len(u) /\ Len(u) \in Nat
          BY <1>6, <1>7, <3>1
        <5>. QED
          BY <1>9, <3>3, <5>1, FlatNext
      <4>. HIDE DEF f
      <4>. QED
        BY <1>7, <3>1, <3>3, <4>2, <4>3
    <3>. QED
      BY <3>2, <3>3
  <2>3. CASE i = n
    <3>1. CASE n = 1
      BY <2>3, <3>1
    <3>2. CASE n # 1
      <4>1. n - 1 \in 1..n /\ n - 1 < n /\ ~(n < n)
        BY <1>6, <3>2
      <4>2. f[n - 1] = g[n - 1]
        BY <4>1
      <4>3. n \in 1..n
        BY <1>6
      <4>4. f[n] = g[n - 1] \o t[n]
        BY <3>2, <4>1, <4>3, Zenon
      <4>. HIDE DEF f
      <4>. QED
        BY <2>3, <3>2, <4>2, <4>4
    <3>. QED
      BY <3>1, <3>2
  <2>. QED
    BY <1>6, <2>2, <2>3
<1>11. IsFlat(f, t)
  <2>1. f = [i \in 1..n |-> f[i]]
    OBVIOUS
  <2>. HIDE DEF f
  <2>. QED
    BY <1>4, <1>10, <2>1 DEF IsFlat
<1>12. \A i \in 1..n : f[i] \in Seq(S)
  <2>1. SUFFICES ASSUME NEW i \in 1..n PROVE f[i] \in Seq(S)
    OBVIOUS
  <2>2. CASE i < n
    <3>1. i \in 1..n - 1 /\ f[i] = g[i]
      BY <1>6, <2>2
    <3>. QED
      BY <1>9, <3>1
  <2>3. CASE ~(i < n) /\ n = 1
    BY <1>6, <2>3
  <2>4. CASE ~(i < n) /\ n # 1
    <3>0. f[i] = g[n - 1] \o t[n]
      BY <2>4, Zenon
    <3>1. n - 1 \in 1..n - 1 /\ n \in 1..n
      BY <1>6, <2>4
    <3>2. g[n - 1] \in Seq(S) /\ t[n] \in Seq(S)
      BY <1>6, <1>9, <3>1
    <3>. QED
      BY <3>0, <3>2, ConcatProperties
  <2>. QED
    BY <2>2, <2>3, <2>4
<1>. HIDE DEF f
<1>. QED
  BY <1>4, <1>11, <1>12

\* FlattenSeq of nothing, and of a sequence more.
LEMMA FlattenEmpty == FlattenSeq(<<>>) = <<>>
  BY DEF FlattenSeq

LEMMA FlattenIs ==
  ASSUME NEW S, NEW s \in Seq(Seq(S)), Len(s) > 0
  PROVE  \E f : /\ IsFlat(f, s) /\ FlattenSeq(s) = f[Len(s)]
                /\ f[Len(s)] \in Seq(S)
<1> DEFINE F == CHOOSE f : f = [i \in 1..Len(s) |-> IF i = 1 THEN s[i] ELSE f[i - 1] \o s[i]]
<1>1. PICK f : IsFlat(f, s) /\ \A i \in 1..Len(s) : f[i] \in Seq(S)
  BY FlatExists
<1>2. IsFlat(F, s)
  BY <1>1 DEF IsFlat
<1>3. FlattenSeq(s) = F[Len(s)]
  BY DEF FlattenSeq
<1>. HIDE DEF F
<1>4. Len(s) \in 1..Len(s) /\ Len(s) \in Nat
  OBVIOUS
<1>5. s \in Seq(Seq(S)) /\ \A i \in 1..Len(s) : s[i] = s[i]
  OBVIOUS
<1>6. F[Len(s)] = f[Len(s)]
  BY <1>1, <1>2, <1>4, <1>5, FlatAgree
<1>. QED
  BY <1>1, <1>2, <1>3, <1>4, <1>6

LEMMA FlattenType ==
  ASSUME NEW S, NEW s \in Seq(Seq(S))
  PROVE  FlattenSeq(s) \in Seq(S)
<1>1. CASE Len(s) = 0
  <2>1. s = <<>>
    BY <1>1
  <2>2. FlattenSeq(s) = <<>>
    BY <2>1, FlattenEmpty
  <2>. QED
    BY <2>2
<1>2. CASE Len(s) # 0
  <2>1. Len(s) > 0
    BY <1>2
  <2>2. PICK f : FlattenSeq(s) = f[Len(s)] /\ f[Len(s)] \in Seq(S)
    BY <2>1, FlattenIs
  <2>. QED
    BY <2>2
<1>. QED
  BY <1>1, <1>2

LEMMA FlattenMore ==
  ASSUME NEW S, NEW s \in Seq(Seq(S)), NEW x \in Seq(S)
  PROVE  FlattenSeq(Append(s, x)) = FlattenSeq(s) \o x
<1> DEFINE t == Append(s, x)
<1> DEFINE n == Len(s)
<1>1. /\ t \in Seq(Seq(S)) /\ Len(t) = n + 1 /\ t[n + 1] = x /\ \A i \in 1..n : t[i] = s[i]
      /\ n \in Nat
  OBVIOUS
<1>2. s \in Seq(Seq(S)) /\ Len(s) = n
  OBVIOUS
<1>. HIDE DEF t, n
<1>3. /\ n <= n /\ n <= n + 1 /\ n + 1 \in 1..n + 1 /\ n + 1 \in Nat
      /\ n + 1 > 0 /\ (n + 1) - 1 = n
  BY <1>1
<1>4. Len(t) > 0
  BY <1>1, <1>3
<1>5. PICK f : IsFlat(f, t) /\ FlattenSeq(t) = f[Len(t)]
  BY <1>1, <1>4, FlattenIs
<1>6. CASE n = 0
  <2>1. f[1] = t[1]
    BY <1>1, <1>3, <1>4, <1>5, FlatFirst
  <2>2. s = <<>>
    BY <1>2, <1>6
  <2>3. FlattenSeq(t) = x /\ FlattenSeq(s) = <<>>
    BY <1>1, <1>5, <1>6, <2>1, <2>2, FlattenEmpty
  <2>. QED
    BY <2>3, ConcatEmptySeq DEF t
<1>7. CASE n # 0
  <2>1. Len(s) > 0
    BY <1>1, <1>2, <1>7
  <2>2. PICK g : IsFlat(g, s) /\ FlattenSeq(s) = g[Len(s)]
    BY <1>2, <2>1, FlattenIs
  <2>3. f[n + 1] = g[n] \o t[n + 1]
    <3>1. Len(s) \in Nat /\ Len(t) = Len(s) + 1 /\ Len(s) # 0
      BY <1>1, <1>2, <1>7
    <3>2. \A i \in 1..Len(s) : s[i] = t[i]
      BY <1>1, <1>2
    <3>3. IsFlat(g, s) /\ IsFlat(f, t)
      BY <1>5, <2>2
    <3>4. f[Len(t)] = g[Len(s)] \o t[Len(t)]
      BY <3>1, <3>2, <3>3, FlatGrows
    <3>. QED
      BY <1>1, <1>2, <3>4
  <2>. QED
    BY <1>1, <1>2, <1>5, <2>2, <2>3 DEF t
<1>. QED
  BY <1>6, <1>7

-----------------------------------------------------------------------------
(* What a sequence of messages carries *)

LEMMA Lists ==
  ASSUME NEW S, NEW s \in Seq(S)
  PROVE  Len(s) \in Nat /\ DOMAIN s = 1..Len(s) /\ \A i \in 1..Len(s) : s[i] \in S
  OBVIOUS

LEMMA Grown ==
  ASSUME NEW S, NEW s \in Seq(S), NEW m \in S
  PROVE  LET t == Append(s, m)
         IN /\ t \in Seq(S) /\ Len(t) = Len(s) + 1 /\ DOMAIN t = 1..Len(s) + 1
            /\ t[Len(s) + 1] = m /\ Last(t) = m /\ s \o <<m>> = t
            /\ \A i \in 1..Len(s) : t[i] = s[i]
  BY DEF Last

\* What each message of s adds.
Parts(s, k) == [i \in DOMAIN s |-> IF s[i].kind = k THEN s[i].items ELSE <<>>]

LEMMA PartsType ==
  ASSUME NEW s \in Seq(Message), NEW k
  PROVE  Parts(s, k) \in Seq(Seq(Nat)) /\ Len(Parts(s, k)) = Len(s)
<1>1. Len(s) \in Nat /\ DOMAIN s = 1..Len(s) /\ \A i \in 1..Len(s) : s[i] \in Message
  BY Lists
<1>2. \A i \in 1..Len(s) : (IF s[i].kind = k THEN s[i].items ELSE <<>>) \in Seq(Nat)
  <2>1. <<>> \in Seq(Nat)
    OBVIOUS
  <2>2. \A i \in 1..Len(s) : s[i].items \in Seq(Nat)
    BY <1>1 DEF Message
  <2>. QED
    BY <2>1, <2>2
<1>3. Parts(s, k) = [i \in 1..Len(s) |-> IF s[i].kind = k THEN s[i].items ELSE <<>>]
  BY <1>1 DEF Parts
<1>. QED
  BY <1>1, <1>2, <1>3

LEMMA Successor ==
  ASSUME NEW n \in Nat
  PROVE  n + 1 \in Nat /\ (n + 1) - 1 = n /\ n + 1 > 0
  OBVIOUS

LEMMA OfNothing ==
  ASSUME NEW k
  PROVE  Of(<<>>, k) = <<>>
<1>1. <<>> \in Seq(Message)
  OBVIOUS
<1>2. Parts(<<>>, k) \in Seq(Seq(Nat)) /\ Len(Parts(<<>>, k)) = 0
  BY <1>1, PartsType
<1>3. Parts(<<>>, k) = <<>>
  BY <1>2
<1>. QED
  BY <1>3, FlattenEmpty DEF Of, Parts

LEMMA OfType ==
  ASSUME NEW s \in Seq(Message), NEW k
  PROVE  Of(s, k) \in Seq(Nat)
<1>1. FlattenSeq(Parts(s, k)) \in Seq(Nat)
  BY PartsType, FlattenType
<1>. QED
  BY <1>1 DEF Of, Parts

LEMMA OfMore ==
  ASSUME NEW s \in Seq(Message), NEW m \in Message, NEW k
  PROVE  Of(Append(s, m), k) = IF m.kind = k THEN Of(s, k) \o m.items ELSE Of(s, k)
<1> DEFINE t == Append(s, m)
           x == IF m.kind = k THEN m.items ELSE <<>>
           p == Parts(s, k)
<1>1. /\ t \in Seq(Message) /\ Len(t) = Len(s) + 1 /\ DOMAIN t = 1..Len(s) + 1
      /\ t[Len(s) + 1] = m /\ \A i \in 1..Len(s) : t[i] = s[i]
  BY Grown
<1>2. Len(s) \in Nat /\ DOMAIN s = 1..Len(s)
  BY Lists
<1>3. p \in Seq(Seq(Nat)) /\ Len(p) = Len(s) /\ \A i \in 1..Len(s) : p[i] = Parts(s, k)[i]
  BY PartsType
<1>4. x \in Seq(Nat)
  BY DEF Message
<1>5. Parts(t, k) \in Seq(Seq(Nat)) /\ Len(Parts(t, k)) = Len(s) + 1
  BY <1>1, PartsType
<1>6. \A i \in 1..Len(s) + 1 : Parts(t, k)[i] = Append(p, x)[i]
  <2>1. SUFFICES ASSUME NEW i \in 1..Len(s) + 1 PROVE Parts(t, k)[i] = Append(p, x)[i]
    OBVIOUS
  <2>. HIDE DEF t
  <2>2. Parts(t, k)[i] = IF t[i].kind = k THEN t[i].items ELSE <<>>
    BY <1>1 DEF Parts
  <2>3. CASE i = Len(s) + 1
    <3>1. Append(p, x)[i] = x
      BY <1>3, <1>4, <2>3
    <3>. QED
      BY <1>1, <2>2, <2>3, <3>1
  <2>4. CASE i # Len(s) + 1
    <3>1. i \in 1..Len(s)
      BY <1>2, <2>4
    <3>2. Parts(s, k)[i] = IF s[i].kind = k THEN s[i].items ELSE <<>>
      BY <1>2, <3>1 DEF Parts
    <3>. HIDE DEF p, x
    <3>3. Append(p, x)[i] = p[i]
      BY <1>3, <3>1
    <3>. QED
      BY <1>1, <1>3, <2>2, <3>1, <3>2, <3>3
  <2>. QED
    BY <2>3, <2>4
<1>7. Parts(t, k) = Append(p, x)
  <2>. HIDE DEF p, x, t
  <2>1. Append(p, x) \in Seq(Seq(Nat)) /\ Len(Append(p, x)) = Len(s) + 1
    BY <1>3, <1>4
  <2>2. Len(Parts(t, k)) = Len(Append(p, x))
    BY <1>5, <2>1
  <2>3. \A i \in 1..Len(Parts(t, k)) : Parts(t, k)[i] = Append(p, x)[i]
    BY <1>5, <1>6
  <2>. QED
    BY <1>5, <2>1, <2>2, <2>3, SeqEqual
<1>8. FlattenSeq(Append(p, x)) = FlattenSeq(p) \o x
  BY <1>3, <1>4, FlattenMore
<1>9. Of(t, k) = Of(s, k) \o x
  BY <1>7, <1>8 DEF Of, Parts
<1>10. Of(s, k) \o <<>> = Of(s, k)
  BY OfType, ConcatEmptySeq
<1>. QED
  BY <1>9, <1>10

LEMMA TellsMore ==
  ASSUME NEW s \in Seq(Message), NEW m \in Message, NEW k
  PROVE  Tells(Append(s, m), k) <=> Tells(s, k) \/ m.kind = k
<1> DEFINE t == Append(s, m)
<1>1. /\ DOMAIN t = 1..Len(s) + 1 /\ t[Len(s) + 1] = m /\ \A i \in 1..Len(s) : t[i] = s[i]
  BY Grown
<1>2. Len(s) \in Nat /\ DOMAIN s = 1..Len(s)
  BY Lists
<1>. HIDE DEF t
<1>3. /\ Len(s) + 1 \in 1..Len(s) + 1 /\ \A i \in 1..Len(s) : i \in 1..Len(s) + 1
      /\ \A i \in 1..Len(s) + 1 : i = Len(s) + 1 \/ i \in 1..Len(s)
  BY <1>2
<1>4. Tells(t, k) <=> \E i \in 1..Len(s) + 1 : t[i].kind = k
  BY <1>1 DEF Tells
<1>5. Tells(s, k) <=> \E i \in 1..Len(s) : s[i].kind = k
  BY <1>2 DEF Tells
<1>6. ASSUME Tells(t, k) PROVE Tells(s, k) \/ m.kind = k
  <2>1. PICK i \in 1..Len(s) + 1 : t[i].kind = k
    BY <1>4, <1>6
  <2>. QED
    BY <1>1, <1>3, <1>5, <2>1
<1>7. ASSUME Tells(s, k) PROVE Tells(t, k)
  <2>1. PICK i \in 1..Len(s) : s[i].kind = k
    BY <1>5, <1>7
  <2>. QED
    BY <1>1, <1>3, <1>4, <2>1
<1>8. ASSUME m.kind = k PROVE Tells(t, k)
  BY <1>1, <1>3, <1>4, <1>8
<1>. QED
  BY <1>6, <1>7, <1>8 DEF t

\* A message that is no batch changes nothing about the batches.
LEMMA NoBatch ==
  ASSUME NEW s \in Seq(Message), NEW m \in Message, m.kind # "batch"
  PROVE  /\ FullOnly(s) => FullOnly(Append(s, m))
         /\ Ends(s) => Ends(Append(s, m))
<1> DEFINE t == Append(s, m)
<1>1. /\ DOMAIN t = 1..Len(s) + 1 /\ t[Len(s) + 1] = m /\ \A i \in 1..Len(s) : t[i] = s[i]
      /\ Len(t) = Len(s) + 1
  BY Grown
<1>2. Len(s) \in Nat /\ DOMAIN s = 1..Len(s)
  BY Lists
<1>. HIDE DEF t
<1>3. \A i \in 1..Len(s) + 1 : i = Len(s) + 1 \/ i \in 1..Len(s)
  BY <1>2
<1>4. \A i \in DOMAIN t : t[i].kind = "batch" => i \in DOMAIN s /\ t[i] = s[i]
  BY <1>1, <1>2, <1>3
<1>5. ASSUME FullOnly(s) PROVE FullOnly(t)
  BY <1>4, <1>5 DEF FullOnly
<1>6. ASSUME Ends(s) PROVE Ends(t)
  <2>1. SUFFICES ASSUME NEW i \in DOMAIN t, t[i].kind = "batch"
                 PROVE  /\ Len(t[i].items) \in 1..BatchSize
                        /\ Len(t[i].items) < BatchSize =>
                             \A k \in i + 1..Len(t) : t[k].kind # "batch"
    BY DEF Ends
  <2>2. i \in DOMAIN s /\ t[i] = s[i] /\ s[i].kind = "batch"
    BY <1>4, <2>1
  <2>3. /\ Len(s[i].items) \in 1..BatchSize
        /\ Len(s[i].items) < BatchSize => \A k \in i + 1..Len(s) : s[k].kind # "batch"
    BY <1>6, <2>2 DEF Ends
  <2>4. ASSUME Len(s[i].items) < BatchSize, NEW k \in i + 1..Len(t) PROVE t[k].kind # "batch"
    <3>1. i \in 1..Len(s)
      BY <1>2, <2>2
    <3>2. k \in 1..Len(s) + 1 /\ (k \in 1..Len(s) => k \in i + 1..Len(s))
      BY <1>1, <1>2, <2>4, <3>1
    <3>. QED
      BY <1>1, <1>3, <2>3, <2>4, <3>2
  <2>. QED
    BY <2>2, <2>3, <2>4
<1>. QED
  BY <1>5, <1>6 DEF t

\* A batch after full ones.
LEMMA OneBatch ==
  ASSUME NEW s \in Seq(Message), NEW m \in Message, m.kind = "batch", FullOnly(s),
         Len(m.items) \in 1..BatchSize
  PROVE  /\ Ends(Append(s, m))
         /\ Len(m.items) = BatchSize => FullOnly(Append(s, m))
<1> DEFINE t == Append(s, m)
<1>1. /\ DOMAIN t = 1..Len(s) + 1 /\ t[Len(s) + 1] = m /\ \A i \in 1..Len(s) : t[i] = s[i]
      /\ Len(t) = Len(s) + 1
  BY Grown
<1>2. Len(s) \in Nat /\ DOMAIN s = 1..Len(s)
  BY Lists
<1>3. BatchSize \in Nat \ {0}
  BY ExtractionAssumption
<1>. HIDE DEF t
<1>4. \A i \in 1..Len(s) + 1 : i = Len(s) + 1 \/ i \in 1..Len(s)
  BY <1>2
<1>5. \A i \in DOMAIN t : t[i].kind = "batch" =>
        (i = Len(s) + 1 /\ t[i] = m) \/ Len(t[i].items) = BatchSize
  BY <1>1, <1>2, <1>4 DEF FullOnly
<1>6. Ends(t)
  <2>1. SUFFICES ASSUME NEW i \in DOMAIN t, t[i].kind = "batch"
                 PROVE  /\ Len(t[i].items) \in 1..BatchSize
                        /\ Len(t[i].items) < BatchSize =>
                             \A k \in i + 1..Len(t) : t[k].kind # "batch"
    BY DEF Ends
  <2>2. CASE i = Len(s) + 1 /\ t[i] = m
    <3>1. i + 1..Len(t) = {}
      BY <1>1, <1>2, <2>2
    <3>. QED
      BY <2>2, <3>1
  <2>3. CASE Len(t[i].items) = BatchSize
    BY <1>3, <2>3
  <2>. QED
    BY <1>5, <2>1, <2>2, <2>3
<1>7. Len(m.items) = BatchSize => FullOnly(t)
  BY <1>5 DEF FullOnly
<1>. QED
  BY <1>6, <1>7 DEF t

LEMMA FullEnds ==
  ASSUME NEW s, FullOnly(s)
  PROVE  Ends(s)
<1>1. BatchSize \in 1..BatchSize /\ ~(BatchSize < BatchSize)
  BY ExtractionAssumption
<1>. QED
  BY <1>1 DEF FullOnly, Ends

-----------------------------------------------------------------------------
(* What a unit holds of one fate *)

LEMMA FatedParts ==
  ASSUME NEW u, NEW n \in Nat, NEW fate
  PROVE  LET p == [i \in 1..n |-> IF Fate(u, i) = fate THEN <<i>> ELSE <<>>]
         IN p \in Seq(Seq(Nat)) /\ Len(p) = n
<1>1. \A i \in 1..n : (IF Fate(u, i) = fate THEN <<i>> ELSE <<>>) \in Seq(Nat)
  OBVIOUS
<1>. QED
  BY <1>1, IsASeq

LEMMA FatedType ==
  ASSUME NEW u, NEW n \in Nat, NEW fate
  PROVE  FatedIn(u, n, fate) \in Seq(Nat)
<1> DEFINE p == [i \in 1..n |-> IF Fate(u, i) = fate THEN <<i>> ELSE <<>>]
<1>1. p \in Seq(Seq(Nat))
  BY FatedParts
<1>2. FatedIn(u, n, fate) = FlattenSeq(p)
  BY DEF FatedIn
<1>. HIDE DEF p
<1>. QED
  BY <1>1, <1>2, FlattenType

LEMMA FatedNone ==
  ASSUME NEW u, NEW fate
  PROVE  FatedIn(u, 0, fate) = <<>>
<1> DEFINE p == [i \in 1..0 |-> IF Fate(u, i) = fate THEN <<i>> ELSE <<>>]
<1>1. p \in Seq(Seq(Nat)) /\ Len(p) = 0
  BY FatedParts
<1>2. p = <<>>
  <2>. HIDE DEF p
  <2>. QED
    BY <1>1
<1>. QED
  BY <1>2, FlattenEmpty DEF FatedIn

LEMMA FatedNext ==
  ASSUME NEW u, NEW n \in Nat, NEW fate
  PROVE  FatedIn(u, n + 1, fate) =
           IF Fate(u, n + 1) = fate THEN Append(FatedIn(u, n, fate), n + 1)
                                    ELSE FatedIn(u, n, fate)
<1> DEFINE part(i) == IF Fate(u, i) = fate THEN <<i>> ELSE <<>>
           p == [i \in 1..n |-> part(i)]
           q == [i \in 1..n + 1 |-> part(i)]
           x == part(n + 1)
<1>1. p \in Seq(Seq(Nat)) /\ Len(p) = n
  BY FatedParts
<1>2. n + 1 \in Nat /\ n + 1 \in 1..n + 1 /\ \A i \in 1..n + 1 : i = n + 1 \/ i \in 1..n
  OBVIOUS
<1>3. q \in Seq(Seq(Nat)) /\ Len(q) = n + 1
  BY <1>2, FatedParts
<1>4. x \in Seq(Nat)
  BY <1>2
<1>5. \A i \in 1..n : p[i] = part(i)
  OBVIOUS
<1>6. \A i \in 1..n + 1 : q[i] = part(i)
  OBVIOUS
<1>7. q[n + 1] = x
  BY <1>2, <1>6
<1>. HIDE DEF p, q, x, part
<1>8. /\ Append(p, x) \in Seq(Seq(Nat)) /\ Len(Append(p, x)) = n + 1
      /\ Append(p, x)[n + 1] = x /\ \A i \in 1..n : Append(p, x)[i] = p[i]
  BY <1>1, <1>4
<1>9. \A i \in 1..n + 1 : q[i] = Append(p, x)[i]
  BY <1>2, <1>5, <1>6, <1>7, <1>8
<1>10. q = Append(p, x)
  BY <1>3, <1>8, <1>9, SeqEqual
<1>11. FlattenSeq(q) = FlattenSeq(p) \o x
  BY <1>1, <1>4, <1>10, FlattenMore
<1>12. FatedIn(u, n + 1, fate) = FatedIn(u, n, fate) \o x
  BY <1>11 DEF FatedIn, p, q, part
<1>13. FatedIn(u, n, fate) \in Seq(Nat)
  BY FatedType
<1>14. x = IF Fate(u, n + 1) = fate THEN <<n + 1>> ELSE <<>>
  BY DEF x, part
<1>. HIDE DEF FatedIn
<1>15. /\ FatedIn(u, n, fate) \o <<>> = FatedIn(u, n, fate)
       /\ FatedIn(u, n, fate) \o <<n + 1>> = Append(FatedIn(u, n, fate), n + 1)
  BY <1>2, <1>13, ConcatEmptySeq, AppendIsConcat
<1>. QED
  BY <1>12, <1>14, <1>15

-----------------------------------------------------------------------------
(* What is put *)

LEMMA Kinds ==
  ASSUME NEW b \in Seq(Nat), NEW n \in Nat,
         NEW k \in {"resolved", "batch", "errors", "done", "failed"}
  PROVE  /\ Msg(k, b, n) \in Message
         /\ Msg(k, b, n).kind = k /\ Msg(k, b, n).items = b /\ Msg(k, b, n).count = n
  BY DEF Msg, Message

WithBatch(s, b)  == IF b = <<>> THEN s ELSE Append(s, Msg("batch", b, 0))
WithErrors(s, e) == IF e = <<>> THEN s ELSE Append(s, Msg("errors", e, 0))

LEMMA WithBatchIs ==
  ASSUME NEW s \in Seq(Message), NEW b \in Seq(Nat)
  PROVE  LET t == WithBatch(s, b)
         IN /\ t \in Seq(Message)
            /\ Of(t, "batch") = Of(s, "batch") \o b /\ Of(t, "errors") = Of(s, "errors")
            /\ \A k \in {"done", "failed"} : Tells(t, k) <=> Tells(s, k)
            /\ FullOnly(s) /\ Len(b) <= BatchSize => Ends(t)
            /\ FullOnly(s) /\ Len(b) = BatchSize => FullOnly(t)
<1> DEFINE m == Msg("batch", b, 0)
<1>1. m \in Message /\ m.kind = "batch" /\ m.items = b
  BY Kinds
<1>. HIDE DEF m
<1>2. CASE b = <<>>
  <2>1. Len(b) = 0 /\ BatchSize # 0
    BY <1>2, ExtractionAssumption
  <2>2. WithBatch(s, b) = s /\ Of(s, "batch") \o b = Of(s, "batch")
    BY <1>2, OfType, ConcatEmptySeq DEF WithBatch
  <2>. QED
    BY <2>1, <2>2, FullEnds
<1>3. CASE b # <<>>
  <2>1. WithBatch(s, b) = Append(s, m)
    BY <1>3 DEF WithBatch, m
  <2>2. Append(s, m) \in Seq(Message)
    BY <1>1
  <2>3. /\ Of(Append(s, m), "batch") = Of(s, "batch") \o b
        /\ Of(Append(s, m), "errors") = Of(s, "errors")
    BY <1>1, OfMore
  <2>4. \A k \in {"done", "failed"} : Tells(Append(s, m), k) <=> Tells(s, k)
    BY <1>1, TellsMore
  <2>5. Len(b) \in Nat /\ Len(b) # 0 /\ BatchSize \in Nat
    BY <1>3, ExtractionAssumption
  <2>6. ASSUME FullOnly(s), Len(b) <= BatchSize
        PROVE  Ends(Append(s, m)) /\ (Len(b) = BatchSize => FullOnly(Append(s, m)))
    <3>1. Len(m.items) \in 1..BatchSize
      BY <1>1, <2>5, <2>6
    <3>. QED
      BY <1>1, <2>6, <3>1, OneBatch
  <2>7. Len(b) = BatchSize => Len(b) <= BatchSize
    BY <2>5
  <2>. QED
    BY <2>1, <2>2, <2>3, <2>4, <2>6, <2>7
<1>. QED
  BY <1>2, <1>3

LEMMA WithErrorsIs ==
  ASSUME NEW s \in Seq(Message), NEW e \in Seq(Nat)
  PROVE  LET t == WithErrors(s, e)
         IN /\ t \in Seq(Message)
            /\ Of(t, "batch") = Of(s, "batch") /\ Of(t, "errors") = Of(s, "errors") \o e
            /\ \A k \in {"done", "failed"} : Tells(t, k) <=> Tells(s, k)
            /\ Ends(s) => Ends(t)
            /\ FullOnly(s) => FullOnly(t)
<1> DEFINE m == Msg("errors", e, 0)
<1>1. m \in Message /\ m.kind = "errors" /\ m.items = e
  BY Kinds
<1>. HIDE DEF m
<1>2. CASE e = <<>>
  <2>1. WithErrors(s, e) = s /\ Of(s, "errors") \o e = Of(s, "errors")
    BY <1>2, OfType, ConcatEmptySeq DEF WithErrors
  <2>. QED
    BY <2>1
<1>3. CASE e # <<>>
  <2>1. WithErrors(s, e) = Append(s, m)
    BY <1>3 DEF WithErrors, m
  <2>2. Append(s, m) \in Seq(Message)
    BY <1>1
  <2>3. /\ Of(Append(s, m), "batch") = Of(s, "batch")
        /\ Of(Append(s, m), "errors") = Of(s, "errors") \o e
    BY <1>1, OfMore
  <2>4. \A k \in {"done", "failed"} : Tells(Append(s, m), k) <=> Tells(s, k)
    BY <1>1, TellsMore
  <2>5. (FullOnly(s) => FullOnly(Append(s, m))) /\ (Ends(s) => Ends(Append(s, m)))
    BY <1>1, NoBatch
  <2>. QED
    BY <2>1, <2>2, <2>3, <2>4, <2>5
<1>. QED
  BY <1>2, <1>3

-----------------------------------------------------------------------------
(* The properties in terms of what a unit was told *)

\* The batches in s are in order.
Sized(s) == \A i \in DOMAIN s : s[i].kind = "batch" =>
              /\ Len(s[i].items) \in 1..BatchSize
              /\ Len(s[i].items) < BatchSize =>
                   ~Tells(s, "failed") /\ \A k \in i + 1..Len(s) : s[k].kind # "batch"

\* DoneIsWhole of one unit, s being what was put about it and n what was read of it.
Whole(u, s, n) ==
  /\ Tells(s, "done") => /\ Of(s, "batch") = FatedIn(u, Length(u), "mail")
                         /\ Of(s, "errors") = FatedIn(u, Length(u), "odd")
                         /\ Last(s).count = Len(Of(s, "batch"))
  /\ Tells(s, "failed") => Len(FatedIn(u, n, "mail")) - Len(Of(s, "batch")) < BatchSize
  /\ Sized(s)

LEMMA DoneIs == DoneIsWhole <=> \A u \in Units : Whole(u, sent[u], read[u])
  BY DEF DoneIsWhole, Whole, Sized, Said, Tells, Carried, Of

LEMMA DoneIsNext == DoneIsWhole' <=> \A u \in Units : Whole(u, sent'[u], read'[u])
  BY DEF DoneIsWhole, Whole, Sized, Said, Tells, Carried, Of

\* NothingInBetween, n being what of u is either put or held.
Between(u, s, b, e, n) ==
  /\ Of(s, "batch") \o b = FatedIn(u, n, "mail")
  /\ Of(s, "errors") \o e = FatedIn(u, n, "odd")

LEMMA BetweenIs ==
  NothingInBetween <=>
    /\ pc \in Reading \ {"in hand"} => Between(unit, sent[unit], batch, errors, read[unit])
    /\ pc = "in hand" => Between(unit, sent[unit], batch, errors, read[unit] - 1)
  BY DEF NothingInBetween, Reading, Between, Carried, Of

LEMMA BetweenIsNext ==
  NothingInBetween' <=>
    /\ pc' \in Reading \ {"in hand"} =>
         Between(unit', sent'[unit'], batch', errors', read'[unit'])
    /\ pc' = "in hand" => Between(unit', sent'[unit'], batch', errors', read'[unit'] - 1)
  BY DEF NothingInBetween, Reading, Between, Carried, Of

\* All that happens to a unit it happens to the one in hand.
LEMMA OneUnit ==
  ASSUME ExtractInv, NEW w \in Units,
         \A u \in Units \ {w} : sent'[u] = sent[u] /\ read'[u] = read[u],
         Whole(w, sent'[w], read'[w])
  PROVE  DoneIsWhole'
<1>1. \A u \in Units : Whole(u, sent[u], read[u])
  BY DoneIs DEF ExtractInv, Told
<1>2. \A u \in Units : Whole(u, sent'[u], read'[u])
  <2>1. SUFFICES ASSUME NEW u \in Units PROVE Whole(u, sent'[u], read'[u])
    OBVIOUS
  <2>2. CASE u = w
    BY <2>2
  <2>3. CASE u # w
    BY <1>1, <2>3
  <2>. QED
    BY <2>2, <2>3
<1>. QED
  BY <1>2, DoneIsNext

LEMMA Batches ==
  ASSUME NEW s
  PROVE  (FullOnly(s) => Sized(s)) /\ (Ends(s) /\ ~Tells(s, "failed") => Sized(s))
<1>1. BatchSize \in 1..BatchSize /\ ~(BatchSize < BatchSize)
  BY ExtractionAssumption
<1>2. FullOnly(s) => Sized(s)
  BY <1>1 DEF FullOnly, Sized
<1>3. Ends(s) /\ ~Tells(s, "failed") => Sized(s)
  BY DEF Ends, Sized
<1>. QED
  BY <1>2, <1>3

\* A unit about which nothing final was said, and whose batches end well, is in order.
LEMMA Unfinished ==
  ASSUME NEW u, NEW s, NEW n, ~Tells(s, "done"), ~Tells(s, "failed"), Ends(s)
  PROVE  Whole(u, s, n)
  BY Batches DEF Whole

-----------------------------------------------------------------------------
(* Steps, as to what is put, held and read *)

\* One message more about the unit in hand.
LEMMA PutOne ==
  ASSUME ExtractTypes, NEW m \in Message, Put(m)
  PROVE  /\ sent' \in [Units -> Seq(Message)]
         /\ sent'[unit] = Append(sent[unit], m)
         /\ \A u \in Units \ {unit} : sent'[u] = sent[u]
<1>1. sent[unit] \in Seq(Message) /\ unit \in Units
  BY DEF ExtractTypes
<1>2. Append(sent[unit], m) \in Seq(Message)
  BY <1>1, Grown
<1>3. sent' = [sent EXCEPT ![unit] = Append(sent[unit], m)]
  BY <1>2 DEF Put
<1>. QED
  BY <1>1, <1>2, <1>3 DEF ExtractTypes

LEMMA FailKeeps ==
  ASSUME ExtractInv, pc \in {"opening", "extracting", "walking"}, Fail, UNCHANGED <<given, read>>
  PROVE  ExtractTypes /\ sent' \in [Units -> Seq(Message)] /\ Told'
<1> DEFINE m == Msg("failed", <<>>, 0)
           s == sent[unit]
           t == Append(s, m)
<1>1. m \in Message /\ m.kind = "failed" /\ m.items = <<>>
  BY DEF Msg, Message
<1>2. ExtractTypes /\ Told
  BY DEF ExtractInv
<1>3. s \in Seq(Message) /\ unit \in Units /\ read[unit] \in Nat /\ batch \in Seq(Nat)
  BY <1>2 DEF ExtractTypes
<1>4. Put(m) /\ pc' = "idle" /\ batch' = <<>> /\ errors' = <<>>
  BY DEF Fail
<1>. HIDE DEF m
<1>5. /\ sent' \in [Units -> Seq(Message)] /\ sent'[unit] = t
      /\ \A u \in Units \ {unit} : sent'[u] = sent[u]
  BY <1>1, <1>2, <1>4, PutOne
<1>. HIDE DEF t
<1>6. unit \notin todo /\ ~Tells(s, "done") /\ FullOnly(s)
  BY <1>2 DEF Told, Current, Reading
<1>. HIDE DEF s
<1>7. /\ ~Tells(t, "done") /\ FullOnly(t) /\ Of(t, "batch") = Of(s, "batch")
  BY <1>1, <1>3, <1>6, TellsMore, NoBatch, OfMore DEF t
<1>8. Len(FatedIn(unit, read[unit], "mail")) - Len(Of(s, "batch")) < BatchSize
  <2>1. BatchSize \in Nat \ {0}
    BY ExtractionAssumption
  <2>2. CASE pc = "walking"
    <3>1. Of(s, "batch") \o batch = FatedIn(unit, read[unit], "mail")
      BY <1>2, <2>2, BetweenIs DEF Told, Between, Reading, s
    <3>2. Len(batch) < BatchSize
      BY <1>2, <2>2 DEF Told, HeldBack
    <3>3. Of(s, "batch") \in Seq(Nat)
      BY <1>3, OfType
    <3>4. Len(Of(s, "batch") \o batch) = Len(Of(s, "batch")) + Len(batch)
      BY <1>3, <3>3, ConcatProperties
    <3>5. Len(Of(s, "batch")) \in Nat /\ Len(batch) \in Nat
      BY <1>3, <3>3
    <3>. QED
      BY <2>1, <3>1, <3>2, <3>4, <3>5
  <2>3. CASE pc # "walking"
    <3>1. read[unit] = 0 /\ Of(s, "batch") = <<>>
      BY <1>2, <2>3 DEF Told, Current, s
    <3>2. FatedIn(unit, 0, "mail") = <<>>
      BY FatedNone
    <3>. QED
      BY <2>1, <3>1, <3>2
  <2>. QED
    BY <2>2, <2>3
<1>9. Whole(unit, sent'[unit], read'[unit])
  <2>1. Sized(t)
    BY <1>7, Batches
  <2>2. read'[unit] = read[unit]
    OBVIOUS
  <2>. QED
    BY <1>5, <1>7, <1>8, <2>1, <2>2 DEF Whole
<1>10. DoneIsWhole'
  <2>1. \A u \in Units \ {unit} : sent'[u] = sent[u] /\ read'[u] = read[u]
    BY <1>5
  <2>. QED
    BY <1>3, <1>9, <2>1, OneUnit
<1>11. Waiting'
  <2>1. SUFFICES ASSUME NEW u \in todo PROVE sent'[u] = <<>> /\ read'[u] = 0
    BY DEF Waiting, given
  <2>2. u \in Units \ {unit}
    BY <1>2, <1>6 DEF ExtractTypes
  <2>. QED
    BY <1>2, <1>5, <2>2 DEF Told, Waiting
<1>12. HeldBack'
  BY <1>4, ExtractionAssumption DEF HeldBack
<1>13. Current' /\ NothingInBetween'
  BY <1>4 DEF Current, NothingInBetween, Reading
<1>. QED
  BY <1>2, <1>5, <1>10, <1>11, <1>12, <1>13 DEF Told

\* The parser is open.
LEMMA StartKeeps ==
  ASSUME ExtractInv, pc \in {"opening", "extracting"}, pc' = "walking",
         UNCHANGED <<given, read, held, sent>>
  PROVE  Told'
<1>1. ExtractTypes /\ Told
  BY DEF ExtractInv
<1>2. unit' = unit /\ todo' = todo /\ batch' = batch /\ errors' = errors /\ over' = over
      /\ written' = written
  BY DEF given, held
<1>3. /\ batch = <<>> /\ errors = <<>> /\ read[unit] = 0 /\ written = 0
      /\ Of(sent[unit], "batch") = <<>> /\ Of(sent[unit], "errors") = <<>>
  BY <1>1 DEF Told, HeldBack, Current
<1>4. Waiting' /\ HeldBack'
  <2>1. Len(<<>>) < BatchSize
    BY ExtractionAssumption
  <2>. QED
    BY <1>1, <1>2, <1>3, <2>1 DEF Told, Waiting, HeldBack
<1>5. Current'
  BY <1>1, <1>2, <1>3 DEF Told, Current, Reading
<1>6. NothingInBetween'
  <2>1. \A fate : FatedIn(unit, 0, fate) = <<>>
    BY FatedNone
  <2>2. <<>> \o <<>> = <<>>
    OBVIOUS
  <2>3. Between(unit, sent[unit], batch, errors, read[unit])
    BY <1>3, <2>1, <2>2 DEF Between
  <2>. QED
    BY <1>2, <2>3, BetweenIsNext
<1>7. DoneIsWhole'
  BY <1>1, DoneIs, DoneIsNext DEF Told
<1>. QED
  BY <1>4, <1>5, <1>6, <1>7 DEF Told

\* Only the place changes.
LEMMA QuietKeeps ==
  ASSUME ExtractInv, UNCHANGED <<given, read, held, sent>>,
         \/ pc = "opening" /\ pc' = "extracting"
         \/ pc = "asked" /\ pc' = "walking"
         \/ pc = "closing" /\ pc' = "reporting"
         \/ pc # "idle" /\ pc' = "dead"
         \/ pc' = pc
  PROVE  Told'
<1>1. ExtractTypes /\ Told
  BY DEF ExtractInv
<1>2. unit' = unit /\ todo' = todo /\ batch' = batch /\ errors' = errors /\ over' = over
      /\ written' = written
  BY DEF given, held
<1>3. Waiting' /\ HeldBack'
  BY <1>1, <1>2 DEF Told, Waiting, HeldBack
<1>4. Current'
  BY <1>1, <1>2 DEF Told, Current, Reading
<1>5. NothingInBetween'
  BY <1>1, <1>2, BetweenIs, BetweenIsNext DEF Told, Reading
<1>6. DoneIsWhole'
  BY <1>1, DoneIs, DoneIsNext DEF Told
<1>. QED
  BY <1>3, <1>4, <1>5, <1>6 DEF Told

\* One message is read: it is in hand, or it is of neither fate.
LEMMA AdvanceKeeps ==
  ASSUME ExtractInv, pc = "walking", Advance,
         pc' = IF Fate(unit, Here) = "unreadable" THEN pc ELSE "in hand",
         UNCHANGED <<given, held, sent>>
  PROVE  read' \in [Units -> Nat] /\ read'[unit] = read[unit] + 1 /\ Told'
<1>1. ExtractTypes /\ Told
  BY DEF ExtractInv
<1>2. unit' = unit /\ todo' = todo /\ batch' = batch /\ errors' = errors /\ over' = over
      /\ written' = written
  BY DEF given, held
<1>3. /\ read' \in [Units -> Nat] /\ read'[unit] = read[unit] + 1
      /\ \A u \in Units \ {unit} : read'[u] = read[u]
  <2>1. unit \in Units /\ read \in [Units -> Nat]
    BY <1>1 DEF ExtractTypes
  <2>2. read' = [read EXCEPT ![unit] = read[unit] + 1]
    BY DEF Advance, Here
  <2>3. read[unit] + 1 \in Nat
    BY <2>1, Successor
  <2>. QED
    BY <2>1, <2>2, <2>3
<1>4. /\ unit \in Units /\ read[unit] \in Nat /\ unit \notin todo /\ todo \subseteq Units
      /\ (read[unit] + 1) - 1 = read[unit] /\ read[unit] + 1 > 0
  <2>1. unit \in Units /\ read[unit] \in Nat /\ todo \subseteq Units
    BY <1>1 DEF ExtractTypes
  <2>2. unit \notin todo
    BY <1>1 DEF Told, Current, Reading
  <2>3. (read[unit] + 1) - 1 = read[unit] /\ read[unit] + 1 > 0
    BY <2>1, Successor
  <2>. QED
    BY <2>1, <2>2, <2>3, Zenon
<1>5. Waiting'
  <2>1. SUFFICES ASSUME NEW u \in todo PROVE sent[u] = <<>> /\ read'[u] = 0
    BY <1>2 DEF Waiting
  <2>2. u \in Units \ {unit}
    BY <1>4
  <2>. QED
    BY <1>1, <1>3, <2>2 DEF Told, Waiting
<1>6. HeldBack'
  BY <1>1, <1>2 DEF Told, HeldBack
<1>7. Current'
  BY <1>1, <1>2, <1>3, <1>4 DEF Told, Current, Reading
<1>8. Between(unit, sent[unit], batch, errors, read[unit])
  BY <1>1, BetweenIs DEF Told, Reading
<1>9. NothingInBetween'
  <2>1. CASE Fate(unit, Here) = "unreadable"
    <3>1. \A fate \in {"mail", "odd"} :
            FatedIn(unit, read[unit] + 1, fate) = FatedIn(unit, read[unit], fate)
      <4>1. Fate(unit, read[unit] + 1) = "unreadable"
        BY <2>1 DEF Here
      <4>. QED
        BY <1>4, <4>1, FatedNext
    <3>2. Between(unit, sent[unit], batch, errors, read[unit] + 1)
      BY <1>8, <3>1 DEF Between
    <3>. QED
      BY <1>2, <1>3, <2>1, <3>2, BetweenIsNext
  <2>2. CASE Fate(unit, Here) # "unreadable"
    BY <1>2, <1>3, <1>4, <1>8, <2>2, BetweenIsNext
  <2>. QED
    BY <2>1, <2>2
<1>10. DoneIsWhole'
  <2>1. Whole(unit, sent'[unit], read'[unit])
    BY <1>1, Unfinished DEF Told, Current, Reading
  <2>2. \A u \in Units \ {unit} : sent'[u] = sent[u] /\ read'[u] = read[u]
    BY <1>3
  <2>. QED
    BY <1>4, <2>1, <2>2, OneUnit
<1>. QED
  BY <1>3, <1>5, <1>6, <1>7, <1>9, <1>10 DEF Told

\* The other units are as they were.
LEMMA OthersWait ==
  ASSUME ExtractInv, unit \notin todo, todo' = todo, read' = read,
         \A u \in Units \ {unit} : sent'[u] = sent[u]
  PROVE  Waiting'
<1>1. SUFFICES ASSUME NEW u \in todo PROVE sent'[u] = sent[u]
  BY DEF ExtractInv, Told, Waiting
<1>2. u \in Units \ {unit}
  BY DEF ExtractInv, ExtractTypes
<1>. QED
  BY <1>2

\* One message more, or none.
LEMMA PutSome ==
  ASSUME ExtractTypes, NEW none \in BOOLEAN, NEW m \in Message,
         IF none THEN UNCHANGED sent ELSE Put(m)
  PROVE  /\ sent' \in [Units -> Seq(Message)]
         /\ sent'[unit] = IF none THEN sent[unit] ELSE Append(sent[unit], m)
         /\ \A u \in Units \ {unit} : sent'[u] = sent[u]
<1>1. CASE none
  BY <1>1 DEF ExtractTypes
<1>2. CASE ~none
  BY <1>2, PutOne
<1>. QED
  BY <1>1, <1>2

\* The message in hand is normalised.
LEMMA IterBatchesKeeps ==
  ASSUME ExtractInv, IterBatches
  PROVE  ExtractTypes' /\ Told'
<1> DEFINE s == sent[unit]
           i == read[unit]
           b == IF Fate(unit, i) = "mail" THEN Append(batch, i) ELSE batch
           e == IF Fate(unit, i) = "odd" THEN Append(errors, i) ELSE errors
<1>1. ExtractTypes /\ Told
  BY DEF ExtractInv
<1>2. /\ unit' = unit /\ todo' = todo /\ read' = read /\ dir' = dir /\ left' = left
      /\ files' = files /\ stuck' = stuck /\ over' = over /\ written' = written
      /\ sent' = sent /\ pc = "in hand" /\ batch' = b /\ errors' = e
      /\ pc' = IF Full(b) THEN "putting" ELSE "asked"
  BY DEF IterBatches, given, extract
<1>3. /\ unit \in Units /\ i \in Nat /\ i > 0 /\ i - 1 \in Nat /\ (i - 1) + 1 = i
      /\ s \in Seq(Message) /\ batch \in Seq(Nat) /\ errors \in Seq(Nat)
      /\ ~over /\ FullOnly(s)
  <2>1. /\ unit \in Units /\ i \in Nat /\ s \in Seq(Message) /\ batch \in Seq(Nat)
        /\ errors \in Seq(Nat)
    BY <1>1 DEF ExtractTypes
  <2>2. ~over /\ FullOnly(s) /\ i > 0
    BY <1>1, <1>2 DEF Told, Current, Reading
  <2>. HIDE DEF s, i
  <2>. QED
    BY <2>1, <2>2
<1>5. BatchSize \in Nat \ {0}
  BY ExtractionAssumption
<1>6. b \in Seq(Nat) /\ e \in Seq(Nat) /\ Len(b) <= BatchSize
  <2>1. Len(batch) < BatchSize /\ Len(batch) \in Nat
    <3>1. pc = "in hand" /\ batch \in Seq(Nat)
      BY <1>3 DEF IterBatches
    <3>2. pc \in {"walking", "in hand", "asked"} => Len(batch) < BatchSize
      BY <1>1, Zenon DEF Told, HeldBack
    <3>3. Len(batch) < BatchSize
      BY <3>1, <3>2, Zenon
    <3>4. Len(batch) \in Nat
      BY <1>3
    <3>. QED
      BY <3>3, <3>4
  <2>2. Append(batch, i) \in Seq(Nat) /\ Len(Append(batch, i)) = Len(batch) + 1
    BY <1>3
  <2>3. Append(errors, i) \in Seq(Nat)
    BY <1>3
  <2>. QED
    BY <1>3, <1>5, <2>1, <2>2, <2>3
<1>7. Between(unit, s, b, e, i)
  <2>1. Between(unit, s, batch, errors, i - 1)
    BY <1>1, <1>2, BetweenIs DEF Told
  <2>2. \A fate : FatedIn(unit, i, fate) =
                   IF Fate(unit, i) = fate THEN Append(FatedIn(unit, i - 1, fate), i)
                                           ELSE FatedIn(unit, i - 1, fate)
    BY <1>3, FatedNext
  <2>3. ASSUME NEW x \in Seq(Nat), NEW y \in Seq(Nat)
        PROVE  x \o Append(y, i) = Append(x \o y, i)
    <3>1. <<i>> \in Seq(Nat) /\ x \o y \in Seq(Nat)
      BY <1>3, <2>3
    <3>2. (x \o y) \o <<i>> = x \o (y \o <<i>>)
      BY <2>3, <3>1, ConcatAssociative
    <3>. HIDE DEF i
    <3>3. y \o <<i>> = Append(y, i) /\ (x \o y) \o <<i>> = Append(x \o y, i)
      BY <1>3, <2>3, <3>1, AppendIsConcat
    <3>. QED
      BY <3>2, <3>3
  <2>4. Of(s, "batch") \in Seq(Nat) /\ Of(s, "errors") \in Seq(Nat)
    BY <1>3, OfType
  <2>5. Of(s, "batch") \o b = FatedIn(unit, i, "mail")
    BY <1>3, <2>1, <2>2, <2>3, <2>4 DEF Between
  <2>6. Of(s, "errors") \o e = FatedIn(unit, i, "odd")
    BY <1>3, <2>1, <2>2, <2>3, <2>4 DEF Between
  <2>. QED
    BY <2>5, <2>6 DEF Between
<1>8. Waiting'
  BY <1>1, <1>2 DEF Told, Waiting
<1>. HIDE DEF b, e
<1>9. ExtractTypes'
  BY <1>1, <1>2, <1>6 DEF ExtractTypes, Places, Reading
<1>10. HeldBack'
  <2>1. Len(b) \in Nat
    BY <1>6
  <2>2. IF Full(b) THEN Len(b) = BatchSize ELSE Len(b) < BatchSize
    BY <1>5, <1>6, <2>1 DEF Full
  <2>. QED
    BY <1>2, <1>3, <1>5, <1>6, <1>9, <2>1, <2>2 DEF HeldBack, ExtractTypes
<1>11. Current'
  BY <1>1, <1>2, <1>3 DEF Told, Current, Reading
<1>12. NothingInBetween'
  BY <1>2, <1>7, BetweenIsNext
<1>13. DoneIsWhole'
  BY <1>1, <1>2, DoneIs, DoneIsNext DEF Told
<1>. QED
  BY <1>8, <1>9, <1>10, <1>11, <1>12, <1>13 DEF Told

\* The walk is over.
LEMMA EndOfWalkKeeps ==
  ASSUME ExtractInv, EndOfWalk
  PROVE  ExtractTypes' /\ Told'
<1>1. ExtractTypes /\ Told
  BY DEF ExtractInv
<1>2. /\ unit' = unit /\ todo' = todo /\ read' = read /\ dir' = dir /\ left' = left
      /\ files' = files /\ stuck' = stuck /\ over' = TRUE /\ written' = written
      /\ batch' = batch /\ errors' = errors /\ sent' = sent
      /\ pc = "walking" /\ read[unit] = Length(unit)
      /\ pc' \in {"putting", "closing"}
      /\ pc' = "closing" => batch = <<>> /\ errors = <<>>
  BY DEF EndOfWalk, given, extract, Rest
<1>3. ExtractTypes' /\ Waiting'
  BY <1>1, <1>2 DEF ExtractTypes, Places, Reading, Told, Waiting
<1>4. HeldBack'
  <2>1. /\ Len(batch) < BatchSize /\ Len(batch) \in Nat /\ BatchSize \in Nat
        /\ batch \in Seq(Nat) /\ errors \in Seq(Nat)
    BY <1>1, <1>2, ExtractionAssumption DEF Told, HeldBack, ExtractTypes
  <2>2. Len(batch) <= BatchSize
    BY <2>1
  <2>3. over' = TRUE /\ batch' = batch /\ errors' = errors /\ pc' \in {"putting", "closing"}
    BY <1>2
  <2>4. CASE pc' = "putting"
    BY <2>2, <2>3, <2>4 DEF HeldBack
  <2>5. CASE pc' = "closing"
    BY <1>2, <2>3, <2>5 DEF HeldBack
  <2>. QED
    BY <2>3, <2>4, <2>5
<1>5. Current'
  BY <1>1, <1>2 DEF Told, Current, Reading
<1>6. NothingInBetween'
  BY <1>1, <1>2, BetweenIs, BetweenIsNext DEF Told, Reading
<1>7. DoneIsWhole'
  BY <1>1, <1>2, DoneIs, DoneIsNext DEF Told
<1>. QED
  BY <1>3, <1>4, <1>5, <1>6, <1>7 DEF Told

\* The batch is put.
LEMMA PutBatchKeeps ==
  ASSUME ExtractInv, PutBatch
  PROVE  ExtractTypes' /\ Told'
<1> DEFINE s == sent[unit]
           t == WithBatch(s, batch)
<1>1. ExtractTypes /\ Told
  BY DEF ExtractInv
<1>2. /\ unit' = unit /\ todo' = todo /\ read' = read /\ dir' = dir /\ left' = left
      /\ files' = files /\ stuck' = stuck /\ over' = over /\ errors' = errors
      /\ pc = "putting" /\ pc' = "noting"
      /\ written' = written + Len(batch) /\ batch' = <<>>
      /\ IF batch = <<>> THEN UNCHANGED sent ELSE Put(Msg("batch", batch, 0))
  BY DEF PutBatch, given, extract, Emptied
<1>3. /\ unit \in Units /\ s \in Seq(Message) /\ batch \in Seq(Nat) /\ errors \in Seq(Nat)
      /\ written \in Nat /\ Len(batch) \in Nat /\ unit \notin todo
      /\ ~Tells(s, "done") /\ ~Tells(s, "failed") /\ FullOnly(s)
      /\ Len(batch) <= BatchSize /\ (~over => Len(batch) = BatchSize /\ read[unit] > 0)
      /\ (over => read[unit] = Length(unit)) /\ written = Len(Of(s, "batch"))
  <2>1. /\ unit \in Units /\ s \in Seq(Message) /\ batch \in Seq(Nat) /\ errors \in Seq(Nat)
        /\ written \in Nat /\ Len(batch) \in Nat
    BY <1>1 DEF ExtractTypes
  <2>2. /\ unit \notin todo /\ ~Tells(s, "done") /\ ~Tells(s, "failed") /\ FullOnly(s)
        /\ (over => read[unit] = Length(unit)) /\ written = Len(Of(s, "batch"))
        /\ (~over => read[unit] > 0)
    BY <1>1, <1>2 DEF Told, Current, Reading
  <2>3. Len(batch) <= BatchSize /\ (~over => Len(batch) = BatchSize)
    BY <1>1, <1>2 DEF Told, HeldBack
  <2>. QED
    BY <2>1, <2>2, <2>3
<1>4. Msg("batch", batch, 0) \in Message
  BY <1>3, Kinds
<1>5. /\ sent' \in [Units -> Seq(Message)] /\ sent'[unit] = t
      /\ \A u \in Units \ {unit} : sent'[u] = sent[u]
  <2> DEFINE none == batch = <<>>
             m == Msg("batch", batch, 0)
  <2>1. none \in BOOLEAN /\ m \in Message /\ IF none THEN UNCHANGED sent ELSE Put(m)
    BY <1>2, <1>4
  <2>2. t = IF none THEN s ELSE Append(s, m)
    BY DEF WithBatch
  <2>. HIDE DEF none, m, t
  <2>. QED
    BY <1>1, <2>1, <2>2, PutSome
<1>. HIDE DEF s
<1>6. /\ Of(t, "batch") = Of(s, "batch") \o batch /\ Of(t, "errors") = Of(s, "errors")
      /\ ~Tells(t, "done") /\ ~Tells(t, "failed")
      /\ Ends(t) /\ (~over => FullOnly(t))
  BY <1>3, WithBatchIs
<1>. HIDE DEF t
<1>7. Of(s, "batch") \in Seq(Nat) /\ Of(s, "batch") \o batch \in Seq(Nat)
  BY <1>3, OfType, ConcatProperties
<1>8. Len(Of(t, "batch")) = written'
  BY <1>2, <1>3, <1>6, <1>7, ConcatProperties
<1>9. ExtractTypes'
  <2>1. <<>> \in Seq(Nat) /\ written' \in Nat
    BY <1>2, <1>3
  <2>. QED
    BY <1>1, <1>2, <1>5, <2>1 DEF ExtractTypes, Places, Reading
<1>10. Waiting' /\ HeldBack'
  BY <1>2, <1>3, <1>5, OthersWait DEF HeldBack
<1>11. Current'
  BY <1>2, <1>3, <1>5, <1>6, <1>8 DEF Current
<1>12. NothingInBetween'
  <2>1. Between(unit, s, batch, errors, read[unit])
    BY <1>1, <1>2, BetweenIs DEF Told, Reading, s
  <2>2. Between(unit, t, <<>>, errors, read[unit])
    BY <1>6, <1>7, <2>1, ConcatEmptySeq DEF Between
  <2>. QED
    BY <1>2, <1>5, <2>2, BetweenIsNext
<1>13. DoneIsWhole'
  <2>1. Whole(unit, sent'[unit], read'[unit])
    BY <1>5, <1>6, Unfinished
  <2>. QED
    BY <1>2, <1>3, <1>5, <2>1, OneUnit
<1>. QED
  BY <1>9, <1>10, <1>11, <1>12, <1>13 DEF Told

\* The errors are put.
LEMMA PutErrorsKeeps ==
  ASSUME ExtractInv, PutErrors
  PROVE  ExtractTypes' /\ Told'
<1> DEFINE s == sent[unit]
           t == WithErrors(s, errors)
<1>1. ExtractTypes /\ Told
  BY DEF ExtractInv
<1>2. /\ unit' = unit /\ todo' = todo /\ read' = read /\ dir' = dir /\ left' = left
      /\ files' = files /\ stuck' = stuck /\ over' = over /\ written' = written
      /\ batch' = batch /\ errors' = <<>>
      /\ pc = "noting" /\ pc' = IF over THEN "closing" ELSE "asked"
      /\ IF errors = <<>> THEN UNCHANGED sent ELSE Put(Msg("errors", errors, 0))
  BY DEF PutErrors, given, extract, Emptied
<1>3. /\ unit \in Units /\ s \in Seq(Message) /\ errors \in Seq(Nat)
      /\ over \in BOOLEAN /\ unit \notin todo /\ batch = <<>>
      /\ ~Tells(s, "done") /\ ~Tells(s, "failed") /\ Ends(s) /\ (~over => FullOnly(s))
      /\ (over => read[unit] = Length(unit)) /\ written = Len(Of(s, "batch"))
  <2>1. /\ unit \in Units /\ s \in Seq(Message) /\ errors \in Seq(Nat) /\ over \in BOOLEAN
    BY <1>1 DEF ExtractTypes
  <2>2. /\ unit \notin todo /\ ~Tells(s, "done") /\ ~Tells(s, "failed")
        /\ Ends(s) /\ (~over => FullOnly(s))
        /\ (over => read[unit] = Length(unit)) /\ written = Len(Of(s, "batch"))
    BY <1>1, <1>2 DEF Told, Current, Reading
  <2>3. batch = <<>>
    BY <1>1, <1>2 DEF Told, HeldBack
  <2>. QED
    BY <2>1, <2>2, <2>3
<1>4. Msg("errors", errors, 0) \in Message
  BY <1>3, Kinds
<1>5. /\ sent' \in [Units -> Seq(Message)] /\ sent'[unit] = t
      /\ \A u \in Units \ {unit} : sent'[u] = sent[u]
  <2> DEFINE none == errors = <<>>
             m == Msg("errors", errors, 0)
  <2>1. none \in BOOLEAN /\ m \in Message /\ IF none THEN UNCHANGED sent ELSE Put(m)
    BY <1>2, <1>4
  <2>2. t = IF none THEN s ELSE Append(s, m)
    BY DEF WithErrors
  <2>. HIDE DEF none, m, t
  <2>. QED
    BY <1>1, <2>1, <2>2, PutSome
<1>. HIDE DEF s
<1>6. /\ Of(t, "batch") = Of(s, "batch") /\ Of(t, "errors") = Of(s, "errors") \o errors
      /\ ~Tells(t, "done") /\ ~Tells(t, "failed")
      /\ Ends(t) /\ (~over => FullOnly(t))
  BY <1>3, WithErrorsIs
<1>. HIDE DEF t
<1>7. Of(s, "errors") \in Seq(Nat) /\ Of(s, "errors") \o errors \in Seq(Nat)
  BY <1>3, OfType, ConcatProperties
<1>8. Between(unit, s, batch, errors, read[unit])
  BY <1>1, <1>2, BetweenIs DEF Told, Reading, s
<1>9. ExtractTypes'
  <2>1. <<>> \in Seq(Nat)
    OBVIOUS
  <2>. QED
    BY <1>1, <1>2, <1>3, <1>5, <2>1 DEF ExtractTypes, Places, Reading
<1>10. Waiting' /\ HeldBack'
  <2>1. Len(<<>>) < BatchSize
    BY ExtractionAssumption
  <2>2. HeldBack'
    BY <1>2, <1>3, <2>1 DEF HeldBack
  <2>. QED
    BY <1>2, <1>3, <1>5, <2>2, OthersWait
<1>11. Current'
  <2>1. ~over => read[unit] > 0
    BY <1>1, <1>2 DEF Told, Current, Reading
  <2>. QED
    BY <1>2, <1>3, <1>5, <1>6, <2>1 DEF Current
<1>12. NothingInBetween'
  <2>1. Between(unit, t, batch, <<>>, read[unit])
    BY <1>6, <1>7, <1>8, ConcatEmptySeq DEF Between
  <2>. QED
    BY <1>2, <1>5, <2>1, BetweenIsNext
<1>13. DoneIsWhole'
  <2>1. Whole(unit, sent'[unit], read'[unit])
    BY <1>5, <1>6, Unfinished
  <2>. QED
    BY <1>2, <1>3, <1>5, <2>1, OneUnit
<1>. QED
  BY <1>9, <1>10, <1>11, <1>12, <1>13 DEF Told

\* The unit is reported done.
LEMMA FinishKeeps ==
  ASSUME ExtractInv, Finish
  PROVE  ExtractTypes' /\ Told'
<1> DEFINE s == sent[unit]
           n == read[unit]
           m == Msg("done", <<>>, written)
           all == Append(s, m)
<1>1. ExtractTypes /\ Told
  BY DEF ExtractInv
<1>2. /\ unit' = unit /\ todo' = todo /\ read' = read /\ pc = "reporting" /\ pc' = "idle"
      /\ batch' = batch /\ errors' = errors /\ over' = over /\ written' = written
      /\ dir' = dir /\ files' = files /\ left' = left /\ stuck' = {} /\ Put(m)
  BY DEF Finish, given, held
<1>3. /\ unit \in Units /\ n \in Nat /\ s \in Seq(Message) /\ written \in Nat
      /\ batch = <<>> /\ errors = <<>>
      /\ unit \notin todo /\ ~Tells(s, "done") /\ ~Tells(s, "failed") /\ Ends(s)
      /\ n = Length(unit) /\ written = Len(Of(s, "batch"))
  <2>1. unit \in Units /\ n \in Nat /\ s \in Seq(Message) /\ written \in Nat
    BY <1>1 DEF ExtractTypes
  <2>2. /\ unit \notin todo /\ ~Tells(s, "done") /\ ~Tells(s, "failed") /\ Ends(s)
        /\ n = Length(unit) /\ written = Len(Of(s, "batch"))
    BY <1>1, <1>2 DEF Told, Current, Reading
  <2>3. batch = <<>> /\ errors = <<>>
    BY <1>1, <1>2 DEF Told, HeldBack
  <2>. QED
    BY <2>1, <2>2, <2>3
<1>4. m \in Message /\ m.kind = "done" /\ m.items = <<>> /\ m.count = written
  BY <1>3 DEF Msg, Message
<1>. HIDE DEF m
<1>5. /\ sent' \in [Units -> Seq(Message)] /\ sent'[unit] = all
      /\ \A u \in Units \ {unit} : sent'[u] = sent[u]
  BY <1>1, <1>2, <1>4, PutOne
<1>. HIDE DEF s, n
<1>6. Last(all) = m /\ Of(all, "batch") = Of(s, "batch") /\ Of(all, "errors") = Of(s, "errors")
  BY <1>3, <1>4, Grown, OfMore
<1>7. Tells(all, "done") /\ ~Tells(all, "failed") /\ Ends(all)
  BY <1>3, <1>4, TellsMore, NoBatch
<1>. HIDE DEF all
<1>8. Of(s, "batch") = FatedIn(unit, n, "mail") /\ Of(s, "errors") = FatedIn(unit, n, "odd")
  <2>1. Between(unit, s, batch, errors, n)
    BY <1>1, <1>2, BetweenIs DEF Told, Reading, s, n
  <2>. QED
    BY <1>3, <2>1, OfType, ConcatEmptySeq DEF Between
<1>9. Whole(unit, all, read'[unit])
  <2>1. Sized(all)
    BY <1>7, Batches
  <2>. QED
    BY <1>3, <1>4, <1>6, <1>7, <1>8, <2>1 DEF Whole
<1>10. DoneIsWhole'
  BY <1>2, <1>3, <1>5, <1>9, OneUnit
<1>11. Waiting' /\ HeldBack'
  BY <1>2, <1>3, <1>5, OthersWait DEF HeldBack
<1>12. Current' /\ NothingInBetween'
  BY <1>2 DEF Current, NothingInBetween, Reading
<1>13. ExtractTypes'
  BY <1>1, <1>2, <1>5 DEF ExtractTypes, Places
<1>. QED
  BY <1>10, <1>11, <1>12, <1>13 DEF Told

\* A message without items, and no other.
LEMMA Alone ==
  ASSUME NEW k \in {"resolved", "failed"}
  PROVE  LET t == <<Msg(k, <<>>, 0)>>
         IN /\ t \in Seq(Message) /\ FullOnly(t)
            /\ Of(t, "batch") = <<>> /\ Of(t, "errors") = <<>>
            /\ ~Tells(t, "done") /\ (k = "resolved" => ~Tells(t, "failed"))
<1> DEFINE m == Msg(k, <<>>, 0)
           none == <<>>
<1>1. m \in Message /\ m.kind = k /\ m.items = <<>>
  BY DEF Msg, Message
<1>. HIDE DEF m
<1>2. none \in Seq(Message) /\ Append(none, m) = <<m>>
  BY <1>1
<1>3. /\ \A j : ~Tells(none, j) 
      /\ FullOnly(none)
  BY DEF Tells, FullOnly
<1>4. Of(none, "batch") = <<>> /\ Of(none, "errors") = <<>>
  BY OfNothing
<1>. HIDE DEF none
<1>5. Append(none, m) \in Seq(Message)
  BY <1>1, <1>2
<1>6. FullOnly(Append(none, m))
  BY <1>1, <1>2, <1>3, NoBatch
<1>7. Of(Append(none, m), "batch") = <<>> /\ Of(Append(none, m), "errors") = <<>>
  BY <1>1, <1>2, <1>4, OfMore
<1>8. ~Tells(Append(none, m), "done") /\ (k = "resolved" => ~Tells(Append(none, m), "failed"))
  BY <1>1, <1>2, <1>3, TellsMore
<1>. QED
  BY <1>2, <1>5, <1>6, <1>7, <1>8 DEF m

\* The next path is taken.
LEMMA TakeKeeps ==
  ASSUME ExtractInv, Take
  PROVE  ExtractTypes' /\ Told'
<1>1. ExtractTypes /\ Told
  BY DEF ExtractInv
<1>2. PICK u \in todo :
        /\ todo' = todo \ {u} /\ unit' = u
        /\ \/ pc' = pc /\ sent' = [sent EXCEPT ![u] = <<Msg("failed", <<>>, 0)>>]
           \/ pc' = "opening" /\ sent' = [sent EXCEPT ![u] = <<Msg("resolved", <<>>, 0)>>]
  BY DEF Take
<1>3. /\ pc = "idle" /\ over' = FALSE /\ written' = 0 /\ read' = read /\ batch' = batch /\ errors' = errors
      /\ dir' = dir /\ files' = files /\ stuck' = stuck /\ left' = left
  BY DEF Take, extract
<1>4. /\ u \in Units /\ sent[u] = <<>> /\ read[u] = 0 /\ batch = <<>> /\ errors = <<>>
  BY <1>1, <1>2, <1>3 DEF ExtractTypes, Told, Waiting, HeldBack
<1> DEFINE t == sent'[u]
<1>5. /\ pc' \in {"idle", "opening"}
      /\ sent' \in [Units -> Seq(Message)] /\ FullOnly(t)
      /\ Of(t, "batch") = <<>> /\ Of(t, "errors") = <<>>
      /\ ~Tells(t, "done") /\ (pc' # "idle" => ~Tells(t, "failed"))
      /\ \A v \in Units \ {u} : sent'[v] = sent[v]
  <2>1. sent \in [Units -> Seq(Message)]
    BY <1>1 DEF ExtractTypes
  <2>2. ASSUME NEW k \in {"resolved", "failed"}, sent' = [sent EXCEPT ![u] = <<Msg(k, <<>>, 0)>>]
        PROVE  /\ sent' \in [Units -> Seq(Message)] /\ FullOnly(t)
               /\ Of(t, "batch") = <<>> /\ Of(t, "errors") = <<>>
               /\ ~Tells(t, "done") /\ (k = "resolved" => ~Tells(t, "failed"))
               /\ \A v \in Units \ {u} : sent'[v] = sent[v]
    <3> DEFINE one == <<Msg(k, <<>>, 0)>>
    <3>1. /\ one \in Seq(Message) /\ FullOnly(one)
          /\ Of(one, "batch") = <<>> /\ Of(one, "errors") = <<>>
          /\ ~Tells(one, "done") /\ (k = "resolved" => ~Tells(one, "failed"))
      BY Alone
    <3>. HIDE DEF one
    <3>2. sent' = [sent EXCEPT ![u] = one]
      BY <2>2 DEF one
    <3>3. sent'[u] = one /\ sent' \in [Units -> Seq(Message)]
          /\ \A v \in Units \ {u} : sent'[v] = sent[v]
      BY <1>4, <2>1, <3>1, <3>2
    <3>. QED
      BY <3>1, <3>3
  <2>3. CASE pc' = pc /\ sent' = [sent EXCEPT ![u] = <<Msg("failed", <<>>, 0)>>]
    <3>. HIDE DEF t
    <3>. QED
      BY <1>3, <2>2, <2>3
  <2>4. CASE pc' = "opening" /\ sent' = [sent EXCEPT ![u] = <<Msg("resolved", <<>>, 0)>>]
    <3>. HIDE DEF t
    <3>. QED
      BY <2>2, <2>4
  <2>. QED
    BY <1>2, <2>3, <2>4
<1>. HIDE DEF t
<1>6. ExtractTypes'
  BY <1>1, <1>2, <1>3, <1>4, <1>5 DEF ExtractTypes, Places, Reading
<1>7. Waiting'
  <2>1. SUFFICES ASSUME NEW v \in todo \ {u} PROVE sent'[v] = <<>> /\ read'[v] = 0
    BY <1>2 DEF Waiting
  <2>2. v \in Units \ {u} /\ sent[v] = <<>> /\ read[v] = 0
    BY <1>1 DEF ExtractTypes, Told, Waiting
  <2>. QED
    BY <1>3, <1>5, <2>2
<1>8. HeldBack'
  BY <1>3, <1>4, <1>5, <1>6 DEF HeldBack, ExtractTypes
<1>9. NothingInBetween'
  BY <1>5 DEF NothingInBetween, Reading
<1>10. Whole(u, t, read'[u])
  <2>1. FatedIn(u, 0, "mail") = <<>>
    BY FatedNone
  <2>2. Len(FatedIn(u, read'[u], "mail")) - Len(Of(t, "batch")) < BatchSize
    BY <1>3, <1>4, <1>5, <2>1, ExtractionAssumption
  <2>3. Sized(t)
    BY <1>5, Batches
  <2>. QED
    BY <1>5, <2>2, <2>3 DEF Whole
<1>11. DoneIsWhole'
  BY <1>3, <1>4, <1>5, <1>10, OneUnit DEF t
<1>12. Current'
  BY <1>2, <1>3, <1>4, <1>5, FullEnds DEF Current, Reading, t
<1>. QED
  BY <1>6, <1>7, <1>8, <1>9, <1>11, <1>12 DEF Told

-----------------------------------------------------------------------------
(* Steps, as to the extracted files *)

LEMMA RemoveKeeps ==
  ASSUME ExtractTypes, NEW i \in Nat, SafeRemove(i)
  PROVE  /\ files' \subseteq Nat /\ stuck' \subseteq Nat
         /\ \A k \in files' \ stuck' : k \in files \ stuck /\ k # i
  BY DEF ExtractTypes, SafeRemove

\* A parser that is not readpst has no directory.
LEMMA NoDirectory ==
  ASSUME ExtractInv, parser # "readpst" \/ pc \in {"idle", "opening"}
  PROVE  dir = FALSE
  BY DEF ExtractInv, ExtractTypes, Extracted, Temporary

LEMMA OpenKeeps ==
  ASSUME ExtractInv, OpenPypff \/ OpenReadpst \/ OpenExtractMsg
  PROVE  ExtractInv'
<1>1. ExtractTypes /\ dir = FALSE /\ pc = "opening"
  BY NoDirectory DEF ExtractInv, OpenPypff, OpenReadpst, OpenExtractMsg
<1>2. CASE OpenRaises /\ UNCHANGED extract
  <2>1. sent' \in [Units -> Seq(Message)] /\ Told'
    BY <1>1, <1>2, FailKeeps DEF OpenRaises
  <2>2. /\ pc' = "idle" /\ batch' = <<>> /\ errors' = <<>> /\ over' = over /\ written' = written
        /\ todo' = todo /\ unit' = unit /\ read' = read
        /\ dir' = dir /\ files' = files /\ stuck' = stuck /\ left' = left
    BY <1>2 DEF OpenRaises, Fail, given, extract
  <2>3. <<>> \in Seq(Nat)
    OBVIOUS
  <2>4. ExtractTypes'
    BY <1>1, <2>1, <2>2, <2>3 DEF ExtractTypes, Places, Reading
  <2>5. Extracted'
    BY <1>1, <2>2 DEF Extracted, Temporary, ReadIsDeleted
  <2>. QED
    BY <2>1, <2>4, <2>5 DEF ExtractInv
<1>3. CASE pc' = "walking" /\ UNCHANGED <<given, read, held, sent>> /\ UNCHANGED extract
  <2>1. Told'
    BY <1>1, <1>3, StartKeeps
  <2>2. ExtractTypes'
    BY <1>1, <1>3 DEF ExtractTypes, Places, Reading, given, held, extract
  <2>3. Extracted'
    BY <1>1, <1>3 DEF Extracted, Temporary, ReadIsDeleted, extract
  <2>. QED
    BY <2>1, <2>2, <2>3 DEF ExtractInv
<1>4. CASE /\ OpenReadpst /\ dir' = TRUE /\ files' = {} /\ stuck' = {} /\ pc' = "extracting"
           /\ UNCHANGED <<given, read, held, sent, left>>
  <2>1. Told'
    BY <1>1, <1>4, QuietKeeps
  <2>2. ExtractTypes'
    BY <1>1, <1>4 DEF ExtractTypes, Places, Reading, given, held
  <2>3. parser' = "readpst"
    BY <1>4 DEF OpenReadpst, given
  <2>4. Extracted'
    BY <1>4, <2>3 DEF Extracted, Temporary, ReadIsDeleted
  <2>. QED
    BY <2>1, <2>2, <2>4 DEF ExtractInv
<1>. QED
  BY <1>2, <1>3, <1>4 DEF OpenPypff, OpenReadpst, OpenExtractMsg

LEMMA RunReadpstKeeps ==
  ASSUME ExtractInv, RunReadpst
  PROVE  ExtractInv'
<1>1. ExtractTypes /\ Told /\ Extracted /\ pc = "extracting"
  BY DEF ExtractInv, RunReadpst
<1>2. CASE /\ files' = 1..Length(unit) /\ pc' = "walking"
           /\ UNCHANGED <<given, dir, stuck, left, read, held, sent>>
  <2>1. Told'
    BY <1>1, <1>2, StartKeeps
  <2>2. files' \subseteq Nat /\ \A i \in files' : i > 0
    BY <1>2
  <2>3. ExtractTypes'
    BY <1>1, <1>2, <2>2 DEF ExtractTypes, Places, Reading, given, held
  <2>4. read[unit] = 0
    BY <1>1 DEF Told, Current, Reading
  <2>5. Extracted'
    BY <1>1, <1>2, <2>2, <2>4 DEF Extracted, Temporary, ReadIsDeleted, given
  <2>. QED
    BY <2>1, <2>3, <2>5 DEF ExtractInv
<1>3. CASE /\ left' = left \cup {unit} /\ dir' = FALSE /\ files' = {}
           /\ OpenRaises /\ UNCHANGED stuck
  <2>1. sent' \in [Units -> Seq(Message)] /\ Told'
    BY <1>1, <1>3, FailKeeps DEF OpenRaises
  <2>2. /\ pc' = "idle" /\ batch' = <<>> /\ errors' = <<>> /\ over' = over /\ written' = written
        /\ todo' = todo /\ unit' = unit /\ read' = read
    BY <1>3 DEF OpenRaises, Fail, given
  <2>3. <<>> \in Seq(Nat)
    OBVIOUS
  <2>4. ExtractTypes'
    BY <1>1, <1>3, <2>1, <2>2, <2>3 DEF ExtractTypes, Places, Reading
  <2>5. Extracted'
    BY <1>3, <2>2 DEF Extracted, Temporary, ReadIsDeleted
  <2>. QED
    BY <2>1, <2>4, <2>5 DEF ExtractInv
<1>. QED
  BY <1>2, <1>3 DEF RunReadpst

LEMMA WalkFolderKeeps ==
  ASSUME ExtractInv, WalkFolder
  PROVE  ExtractInv'
<1>1. ExtractTypes /\ dir = FALSE /\ pc = "walking"
  BY NoDirectory DEF ExtractInv, WalkFolder
<1>2. /\ todo' = todo /\ unit' = unit /\ dir' = dir /\ files' = files /\ stuck' = stuck
      /\ left' = left
  BY DEF WalkFolder, given, extract
<1>3. Extracted'
  BY <1>1, <1>2 DEF Extracted, Temporary, ReadIsDeleted, WalkFolder, Fail
<1>4. CASE /\ Advance /\ pc' = IF Fate(unit, Here) = "unreadable" THEN pc ELSE "in hand"
           /\ UNCHANGED <<held, sent>>
  <2>1. UNCHANGED <<given, held, sent>>
    BY <1>4 DEF WalkFolder
  <2>2. read' \in [Units -> Nat] /\ Told'
    BY <1>1, <1>4, <2>1, AdvanceKeeps
  <2>3. ExtractTypes'
    BY <1>1, <1>2, <1>4, <2>2 DEF ExtractTypes, Places, Reading, held
  <2>. QED
    BY <1>3, <2>2, <2>3 DEF ExtractInv
<1>5. CASE Fail /\ UNCHANGED read
  <2>1. UNCHANGED <<given, read>>
    BY <1>5 DEF WalkFolder
  <2>2. sent' \in [Units -> Seq(Message)] /\ Told'
    BY <1>1, <1>5, <2>1, FailKeeps
  <2>3. /\ pc' = "idle" /\ batch' = <<>> /\ errors' = <<>> /\ over' = over
        /\ written' = written /\ read' = read
    BY <1>5 DEF Fail
  <2>4. <<>> \in Seq(Nat)
    OBVIOUS
  <2>5. ExtractTypes'
    BY <1>1, <1>2, <2>2, <2>3, <2>4 DEF ExtractTypes, Places, Reading
  <2>. QED
    BY <1>3, <2>2, <2>5 DEF ExtractInv
<1>. QED
  BY <1>4, <1>5 DEF WalkFolder

LEMMA IterMsgKeeps ==
  ASSUME ExtractInv, IterMsg
  PROVE  ExtractInv'
<1>1. ExtractTypes /\ dir = FALSE /\ pc = "walking"
  BY NoDirectory DEF ExtractInv, IterMsg
<1>2. /\ todo' = todo /\ unit' = unit /\ dir' = dir /\ files' = files /\ stuck' = stuck
      /\ left' = left
  BY DEF IterMsg, given, extract
<1>3. /\ Advance /\ pc' = IF Fate(unit, Here) = "unreadable" THEN pc ELSE "in hand"
      /\ UNCHANGED <<given, held, sent>>
  BY DEF IterMsg
<1>4. Extracted'
  BY <1>1, <1>2, <1>3 DEF Extracted, Temporary, ReadIsDeleted
<1>5. read' \in [Units -> Nat] /\ Told'
  BY <1>1, <1>3, AdvanceKeeps
<1>6. ExtractTypes'
  BY <1>1, <1>2, <1>3, <1>5 DEF ExtractTypes, Places, Reading, held
<1>. QED
  BY <1>4, <1>5, <1>6 DEF ExtractInv

LEMMA IterEmlKeeps ==
  ASSUME ExtractInv, IterEml
  PROVE  ExtractInv'
<1>1. ExtractTypes /\ Told /\ Extracted /\ pc = "walking"
  BY DEF ExtractInv, IterEml
<1>2. /\ todo' = todo /\ unit' = unit /\ parser' = parser /\ dir' = dir /\ left' = left
  BY DEF IterEml, given
<1>3. /\ Advance /\ pc' = IF Fate(unit, Here) = "unreadable" THEN pc ELSE "in hand"
      /\ UNCHANGED <<given, held, sent>>
  BY DEF IterEml
<1>4. read' \in [Units -> Nat] /\ read'[unit] = read[unit] + 1 /\ Told'
  BY <1>1, <1>3, AdvanceKeeps
<1>5. read[unit] \in Nat
  BY <1>1 DEF ExtractTypes
<1>6. /\ files' \subseteq Nat /\ stuck' \subseteq Nat
      /\ \A k \in files' \ stuck' :
           k \in files \ stuck /\ (pc' = "walking" => k # read[unit] + 1)
  <2>1. CASE Fate(unit, Here) = "unreadable"
    <3>1. SafeRemove(read[unit] + 1)
      BY <2>1 DEF IterEml, Here
    <3>2. read[unit] + 1 \in Nat
      BY <1>5
    <3>. QED
      BY <1>1, <3>1, <3>2, RemoveKeeps
  <2>2. CASE Fate(unit, Here) # "unreadable"
    <3>1. pc' = "in hand" /\ files' = files /\ stuck' = stuck
      BY <2>2 DEF IterEml
    <3>. QED
      BY <1>1, <3>1 DEF ExtractTypes
  <2>. QED
    BY <2>1, <2>2
<1>7. pc' \in {"walking", "in hand"}
  BY <1>1, <1>3
<1>12. over' = over /\ ~over
  BY <1>1, <1>3 DEF held, Told, Current
<1>8. ExtractTypes'
  BY <1>1, <1>2, <1>3, <1>4, <1>6, <1>7 DEF ExtractTypes, Places, Reading, held
<1>9. Temporary'
  BY <1>1, <1>2, <1>7 DEF Extracted, Temporary
<1>10. ReadIsDeleted'
  <2>1. SUFFICES ASSUME dir, NEW k \in files' \ stuck'
                 PROVE  \/ k > read[unit] + 1
                        \/ k = read[unit] + 1 /\ pc' = "in hand"
    BY <1>2, <1>4, <1>12 DEF ReadIsDeleted
  <2>2. k \in files \ stuck /\ (pc' = "walking" => k # read[unit] + 1)
    BY <1>6
  <2>3. k > read[unit]
    BY <1>1, <2>1, <2>2 DEF Extracted, ReadIsDeleted
  <2>4. k \in Nat
    BY <1>6
  <2>5. k > read[unit] + 1 \/ k = read[unit] + 1
    BY <1>5, <2>3, <2>4
  <2>. QED
    BY <1>7, <2>2, <2>5
<1>. QED
  BY <1>4, <1>8, <1>9, <1>10 DEF ExtractInv, Extracted

LEMMA ResumeKeeps ==
  ASSUME ExtractInv, Resume
  PROVE  ExtractInv'
<1>1. ExtractTypes /\ Extracted /\ pc = "asked" /\ pc' = "walking"
  BY DEF ExtractInv, Resume
<1>2. /\ UNCHANGED <<given, read, held, sent>>
      /\ todo' = todo /\ unit' = unit /\ parser' = parser /\ dir' = dir /\ left' = left
      /\ read' = read
  BY DEF Resume, given
<1>3. Told'
  BY <1>1, <1>2, QuietKeeps
<1>4. read[unit] \in Nat
  BY <1>1 DEF ExtractTypes
<1>5. /\ files' \subseteq Nat /\ stuck' \subseteq Nat
      /\ \A k \in files' \ stuck' :
           k \in files \ stuck /\ (parser = "readpst" => k # read[unit])
  <2>1. CASE parser = "readpst"
    <3>1. SafeRemove(read[unit])
      BY <2>1 DEF Resume, Release
    <3>. QED
      BY <1>1, <1>4, <3>1, RemoveKeeps
  <2>2. CASE parser # "readpst"
    BY <1>1, <2>2 DEF Resume, Release, ExtractTypes
  <2>. QED
    BY <2>1, <2>2
<1>6. ExtractTypes'
  BY <1>1, <1>2, <1>5 DEF ExtractTypes, Places, Reading, held
<1>7. Temporary'
  BY <1>1, <1>2 DEF Extracted, Temporary
<1>8. ReadIsDeleted'
  <2>1. SUFFICES ASSUME dir, NEW k \in files' \ stuck' PROVE k > read[unit]
    BY <1>2 DEF ReadIsDeleted
  <2>2. parser = "readpst"
    BY <1>1, <2>1 DEF Extracted, Temporary
  <2>3. k \in files \ stuck /\ k # read[unit]
    BY <1>5, <2>2
  <2>. QED
    BY <1>1, <2>1, <2>3 DEF Extracted, ReadIsDeleted
<1>. QED
  BY <1>3, <1>6, <1>7, <1>8 DEF ExtractInv, Extracted

\* Every step keeps the invariant.
LEMMA ExtractStep == ExtractInv /\ [Next]_vars => ExtractInv'
<1>. SUFFICES ASSUME ExtractInv, [Next]_vars PROVE ExtractInv'
  OBVIOUS
<1>1. CASE Take
  <2>1. dir' = FALSE /\ pc' # "extracting"
    BY <1>1, NoDirectory DEF Take, extract
  <2>2. Extracted'
    BY <2>1 DEF Extracted, Temporary, ReadIsDeleted
  <2>. QED
    BY <1>1, <2>2, TakeKeeps DEF ExtractInv
<1>2. CASE OpenPypff \/ OpenReadpst \/ OpenExtractMsg
  BY <1>2, OpenKeeps
<1>3. CASE RunReadpst
  BY <1>3, RunReadpstKeeps
<1>4. CASE WalkFolder
  BY <1>4, WalkFolderKeeps
<1>5. CASE IterEml
  BY <1>5, IterEmlKeeps
<1>6. CASE IterMsg
  BY <1>6, IterMsgKeeps
<1>7. CASE Resume
  BY <1>7, ResumeKeeps
<1>8. CASE IterBatches
  <2>1. Extracted /\ Told
    BY DEF ExtractInv
  <2>2. Extracted'
    BY <1>8, <2>1
    DEF Extracted, Temporary, ReadIsDeleted, IterBatches, given, extract, Told, Current
  <2>. QED
    BY <1>8, <2>2, IterBatchesKeeps DEF ExtractInv
<1>9. CASE EndOfWalk
  <2>1. Extracted
    BY DEF ExtractInv
  <2>2. Extracted'
    BY <1>9, <2>1 DEF Extracted, Temporary, ReadIsDeleted, EndOfWalk, given, extract
  <2>. QED
    BY <1>9, <2>2, EndOfWalkKeeps DEF ExtractInv
<1>12. CASE PutBatch
  <2>1. Extracted
    BY DEF ExtractInv
  <2>2. Extracted'
    BY <1>12, <2>1 DEF Extracted, Temporary, ReadIsDeleted, PutBatch, given, extract
  <2>. QED
    BY <1>12, <2>2, PutBatchKeeps DEF ExtractInv
<1>13. CASE PutErrors
  <2>1. Extracted
    BY DEF ExtractInv
  <2>2. Extracted'
    BY <1>13, <2>1 DEF Extracted, Temporary, ReadIsDeleted, PutErrors, given, extract
  <2>. QED
    BY <1>13, <2>2, PutErrorsKeeps DEF ExtractInv
<1>14. CASE Exit
  <2>1. /\ pc = "closing" /\ pc' = "reporting" /\ UNCHANGED <<given, read, held, sent>>
        /\ dir' = FALSE /\ files' = {} /\ stuck' = stuck
        /\ (left' = left \/ left' = left \cup {unit})
    BY <1>14 DEF Exit, CloseReadpst
  <2>2. Told'
    BY <2>1, QuietKeeps
  <2>3. ExtractTypes
    BY DEF ExtractInv
  <2>4. ExtractTypes'
    BY <2>1, <2>3 DEF ExtractTypes, Places, Reading, given, held
  <2>5. Extracted'
    BY <2>1 DEF Extracted, Temporary, ReadIsDeleted
  <2>. QED
    BY <2>2, <2>4, <2>5 DEF ExtractInv
<1>15. CASE Finish
  <2>1. Extracted /\ pc' = "idle" /\ dir' = dir /\ ~dir
    BY <1>15 DEF ExtractInv, ExtractTypes, Extracted, Temporary, Finish
  <2>2. Extracted'
    BY <2>1 DEF Extracted, Temporary, ReadIsDeleted
  <2>. QED
    BY <1>15, <2>2, FinishKeeps DEF ExtractInv
<1>10. CASE Kill
  <2>1. /\ pc \notin {"idle", "dead"} /\ pc' = "dead"
        /\ UNCHANGED <<given, read, held, sent>>
        /\ dir' = dir /\ files' = files /\ stuck' = stuck
        /\ (left' = left \/ left' = left \cup {unit})
    BY <1>10 DEF Kill
  <2>2. Told'
    BY <2>1, QuietKeeps
  <2>3. ExtractTypes /\ Extracted
    BY DEF ExtractInv
  <2>4. ExtractTypes'
    BY <2>1, <2>3 DEF ExtractTypes, Places, Reading, given, held
  <2>5. Extracted'
    BY <2>1, <2>3 DEF Extracted, Temporary, ReadIsDeleted, given
  <2>. QED
    BY <2>2, <2>4, <2>5 DEF ExtractInv
<1>11. CASE UNCHANGED vars
  <2>1. UNCHANGED <<given, pc, extract, read, held, sent>>
    BY <1>11 DEF vars
  <2>2. Told'
    BY <2>1, QuietKeeps
  <2>3. ExtractTypes /\ Extracted
    BY DEF ExtractInv
  <2>4. ExtractTypes'
    BY <2>1, <2>3 DEF ExtractTypes, given, held, extract
  <2>5. Extracted'
    BY <2>1, <2>3 DEF Extracted, Temporary, ReadIsDeleted, given, extract, held
  <2>. QED
    BY <2>2, <2>4, <2>5 DEF ExtractInv
<1>. QED
  BY <1>1, <1>2, <1>3, <1>4, <1>5, <1>6, <1>7, <1>8, <1>9, <1>10, <1>11, <1>12, <1>13, <1>14, <1>15
  DEF Next

LEMMA ExtractInit == Init => ExtractInv
<1>. SUFFICES ASSUME Init PROVE ExtractInv
  OBVIOUS
<1>1. <<>> \in Seq(Nat) /\ <<>> \in Seq(Message)
  OBVIOUS
<1>2. ExtractTypes
  BY <1>1 DEF Init, ExtractTypes, Places
<1>3. Waiting /\ HeldBack /\ Current /\ NothingInBetween
  BY ExtractionAssumption DEF Init, Waiting, HeldBack, Current, NothingInBetween, Reading
<1>4. DoneIsWhole
  <2>1. FullOnly(<<>>) /\ ~Tells(<<>>, "done") /\ ~Tells(<<>>, "failed")
    BY DEF FullOnly, Tells
  <2>2. \A u \in Units : Whole(u, <<>>, read[u])
    BY <2>1, FullEnds, Unfinished
  <2>3. \A u \in Units : sent[u] = <<>>
    BY DEF Init
  <2>. QED
    BY <2>2, <2>3, DoneIs
<1>5. Extracted
  BY DEF Init, Extracted, Temporary, ReadIsDeleted
<1>. QED
  BY <1>2, <1>3, <1>4, <1>5 DEF ExtractInv, Told

LEMMA ExtractAlways == Spec => []ExtractInv
  BY ExtractInit, ExtractStep, PTL DEF Spec

-----------------------------------------------------------------------------
(* The theorems *)

\* At any moment of a unit what was put, then what iter_batches holds, is what was read
\* of it, in order: no mail and no error is lost, doubled or moved in between.
THEOREM NothingIsLostInBetween == Spec => []NothingInBetween
<1>1. ExtractInv => NothingInBetween
  BY DEF ExtractInv, Told
<1>. QED
  BY <1>1, ExtractAlways, PTL

\* What is reported as done was delivered whole and counted right, what is reported as
\* failed lost less than a batch, and only a last batch is smaller than configured.
THEOREM DoneMeansDelivered == Spec => []DoneIsWhole
<1>1. ExtractInv => DoneIsWhole
  BY DEF ExtractInv, Told
<1>. QED
  BY <1>1, ExtractAlways, PTL

\* Of the extracted files only those still to be read are there, the one in hand, and
\* what could not be removed.
THEOREM FilesGoAsTheyAreRead == Spec => []ReadIsDeleted
<1>1. ExtractInv => ReadIsDeleted
  BY DEF ExtractInv, Extracted
<1>. QED
  BY <1>1, ExtractAlways, PTL

\* The directories that stay.
LEMMA GoneStep == ExtractInv /\ Gone /\ [Next]_vars => Gone'
<1>. SUFFICES ASSUME ExtractInv, Gone, [Next]_vars PROVE Gone'
  OBVIOUS
<1>1. pc # "idle" => unit \notin todo
  BY DEF ExtractInv, Told, Current
<1>2. CASE Take
  BY <1>2 DEF Gone, Take, extract
<1>3. CASE OpenReadpst \/ RunReadpst
  BY <1>1, <1>3 DEF Gone, OpenReadpst, RunReadpst, OpenRaises, Fail, given, extract
<1>4. CASE Exit
  BY <1>1, <1>4 DEF Gone, Exit, CloseReadpst, given
<1>5. CASE Finish
  BY <1>5 DEF Gone, Finish, given
<1>6. CASE Kill
  BY <1>1, <1>6 DEF Gone, Kill, given
<1>7. CASE \/ OpenPypff \/ OpenExtractMsg \/ WalkFolder \/ IterEml \/ IterMsg \/ Resume
           \/ IterBatches \/ EndOfWalk \/ PutBatch \/ PutErrors
  <2>1. /\ left' = left /\ todo' = todo /\ unit' = unit /\ pc \notin {"idle", "dead", "reporting"}
    BY <1>7 DEF OpenPypff, OpenExtractMsg, OpenRaises, WalkFolder, IterEml, IterMsg, Resume,
                IterBatches, EndOfWalk, PutBatch, PutErrors, given, extract
  <2>. QED
    BY <2>1 DEF Gone
<1>8. CASE UNCHANGED vars
  BY <1>8 DEF Gone, vars, given, extract
<1>. QED
  BY <1>2, <1>3, <1>4, <1>5, <1>6, <1>7, <1>8 DEF Next

\* The temporary directory of a unit that is reported done is gone, unless a file in it could
\* not be removed.
THEOREM DirectoriesGoWithTheUnit == Spec => OnlyFailuresStay
<1>1. Init => Gone
  BY DEF Init, Gone
<1>2. ASSUME ExtractInv, Gone, [Next]_vars
      PROVE  [\A u \in left' : Said(u, "done")' /\ ~Said(u, "done") => stuck # {}]_vars
  <2>1. SUFFICES ASSUME Next, NEW u \in left', Said(u, "done")', ~Said(u, "done")
                 PROVE  stuck # {}
    BY <1>2
  <2>2. sent' # sent
    BY <2>1 DEF Said
  <2>3. ExtractTypes /\ Told
    BY <1>2 DEF ExtractInv
  <2>4. ASSUME NEW w \in Units, NEW k \in {"resolved", "batch", "errors", "failed"},
               NEW m \in Message, m.kind = k,
               sent' = [sent EXCEPT ![w] = Append(sent[w], m)] \/ sent' = [sent EXCEPT ![w] = <<m>>]
        PROVE  FALSE
    <3>1. sent \in [Units -> Seq(Message)]
      BY <2>3 DEF ExtractTypes
    <3>2. <<m>> = Append(<<>>, m) /\ <<>> \in Seq(Message) /\ ~Tells(<<>>, "done")
      BY <2>4 DEF Tells
    <3>3. ~Tells(<<m>>, "done") /\ (Tells(Append(sent[w], m), "done") <=> Tells(sent[w], "done"))
      BY <2>4, <3>1, <3>2, TellsMore
    <3>4. u \in Units
      BY <1>2, <2>1, ExtractStep DEF ExtractInv, ExtractTypes
    <3>5. ~Tells(sent[u], "done") /\ Tells(sent'[u], "done")
      BY <2>1 DEF Said, Tells
    <3>6. sent'[u] \in {sent[u], Append(sent[w], m), <<m>>} /\ (sent'[u] = sent[u] \/ u = w)
      BY <2>4, <3>1, <3>4
    <3>. QED
      BY <3>3, <3>5, <3>6
  <2>5. unit \in Units
    BY <2>3 DEF ExtractTypes
  <2>6. ~Fail
    <3>1. Msg("failed", <<>>, 0) \in Message /\ Msg("failed", <<>>, 0).kind = "failed"
      BY DEF Msg, Message
    <3>. QED
      BY <2>4, <2>5, <3>1 DEF Fail, Put
  <2>7. CASE Take
    <3>1. \A k \in {"resolved", "failed"} : Msg(k, <<>>, 0) \in Message /\ Msg(k, <<>>, 0).kind = k
      BY DEF Msg, Message
    <3>2. PICK w \in todo :
             \/ sent' = [sent EXCEPT ![w] = <<Msg("failed", <<>>, 0)>>]
             \/ sent' = [sent EXCEPT ![w] = <<Msg("resolved", <<>>, 0)>>]
      BY <2>7 DEF Take
    <3>3. w \in Units
      BY <2>3 DEF ExtractTypes
    <3>. QED
      BY <2>4, <3>1, <3>2, <3>3
  <2>8. CASE PutBatch
    <3>1. Msg("batch", batch, 0) \in Message /\ Msg("batch", batch, 0).kind = "batch"
      BY <2>3, Kinds DEF ExtractTypes
    <3>. QED
      BY <2>2, <2>4, <2>5, <2>8, <3>1 DEF PutBatch, Put
  <2>9. CASE PutErrors
    <3>1. Msg("errors", errors, 0) \in Message /\ Msg("errors", errors, 0).kind = "errors"
      BY <2>3, Kinds DEF ExtractTypes
    <3>. QED
      BY <2>2, <2>4, <2>5, <2>9, <3>1 DEF PutErrors, Put
  <2>10. CASE Finish
    <3>1. u = unit
      BY <2>1, <2>10 DEF Finish, Put, Said
    <3>. QED
      BY <1>2, <2>1, <2>10, <3>1 DEF Gone, Finish
  <2>. QED
    BY <2>1, <2>2, <2>6, <2>7, <2>8, <2>9, <2>10
    DEF Next, OpenPypff, OpenReadpst, RunReadpst, OpenExtractMsg, OpenRaises, WalkFolder,
        IterEml, IterMsg, Resume, IterBatches, EndOfWalk, Exit, Kill, held
<1>. QED
  BY <1>1, <1>2, GoneStep, ExtractAlways, PTL DEF Spec, OnlyFailuresStay
=============================================================================
