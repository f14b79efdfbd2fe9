----------------------------- MODULE QueryProofs -----------------------------
(***************************************************************************)
(* Proofs about Query, for any tokens in any order and number, any mails   *)
(* and any time: PairsAreNeighbours and EveryOrIsHonouredOrReported, which *)
(* are about whatever is typed, and FoundIsWhatIsMeant and BlameIsExact,   *)
(* which are about the queries the documentation has.  The latter rest on  *)
(* the calendar: that the interval parse_date_range makes of a value has   *)
(* the moments of the days the value names.                                *)
(***************************************************************************)
EXTENDS Query, FiniteSetTheorems, WellFoundedInduction, TLAPS

-----------------------------------------------------------------------------
(* The calendar *)

\* The days of a year, and the first of them.
Length(y) == IF IsLeap(y) THEN 366 ELSE 365
January(y) == Ordinal(y, 1, 1)

LEMMA MonthsBefore ==
  ASSUME NEW y \in Int
  PROVE  /\ DaysBefore(y, 1) = 0 /\ DaysBefore(y, 2) = 31
         /\ LET l == IF IsLeap(y) THEN 1 ELSE 0
            IN /\ DaysBefore(y, 3) = 59 + l   /\ DaysBefore(y, 4) = 90 + l
               /\ DaysBefore(y, 5) = 120 + l  /\ DaysBefore(y, 6) = 151 + l
               /\ DaysBefore(y, 7) = 181 + l  /\ DaysBefore(y, 8) = 212 + l
               /\ DaysBefore(y, 9) = 243 + l  /\ DaysBefore(y, 10) = 273 + l
               /\ DaysBefore(y, 11) = 304 + l /\ DaysBefore(y, 12) = 334 + l
<1>1. IsLeap(y) \in BOOLEAN
  BY DEF IsLeap
<1>. QED
  BY <1>1 DEF DaysBefore

LEMMA JanuaryIs ==
  ASSUME NEW y \in Int
  PROVE  January(y) = 365 * (y - 1) + (y - 1) \div 4 - (y - 1) \div 100 + (y - 1) \div 400 + 1
  BY MonthsBefore DEF January, Ordinal

LEMMA NextJanuary ==
  ASSUME NEW y \in Nat, y >= 1
  PROVE  January(y + 1) = January(y) + Length(y) /\ January(y) \in Nat /\ January(y) >= 1
<1>1. CASE y % 4 # 0
  <2>1. ~IsLeap(y)
    BY <1>1 DEF IsLeap
  <2>2. y \div 4 = (y - 1) \div 4 /\ y \div 100 = (y - 1) \div 100 /\ y \div 400 = (y - 1) \div 400
    BY <1>1
  <2>. QED
    BY <2>1, <2>2, JanuaryIs DEF Length
<1>2. CASE y % 4 = 0 /\ y % 100 # 0
  <2>1. IsLeap(y)
    BY <1>2 DEF IsLeap
  <2>2. y \div 4 = (y - 1) \div 4 + 1 /\ y \div 100 = (y - 1) \div 100 /\ y \div 400 = (y - 1) \div 400
    BY <1>2
  <2>. QED
    BY <2>1, <2>2, JanuaryIs DEF Length
<1>3. CASE y % 4 = 0 /\ y % 100 = 0 /\ y % 400 # 0
  <2>1. ~IsLeap(y)
    BY <1>3 DEF IsLeap
  <2>2. y \div 4 = (y - 1) \div 4 + 1 /\ y \div 100 = (y - 1) \div 100 + 1 /\ y \div 400 = (y - 1) \div 400
    BY <1>3
  <2>. QED
    BY <2>1, <2>2, JanuaryIs DEF Length
<1>4. CASE y % 4 = 0 /\ y % 100 = 0 /\ y % 400 = 0
  <2>1. IsLeap(y)
    BY <1>4 DEF IsLeap
  <2>2. y \div 4 = (y - 1) \div 4 + 1 /\ y \div 100 = (y - 1) \div 100 + 1 /\ y \div 400 = (y - 1) \div 400 + 1
    BY <1>4
  <2>. QED
    BY <2>1, <2>2, JanuaryIs DEF Length
<1>. QED
  BY <1>1, <1>2, <1>3, <1>4

LEMMA JanuaryBounds ==
  ASSUME NEW y \in Nat, y >= 1
  PROVE  365 * (y - 1) + 1 <= January(y) /\ January(y) <= 366 * (y - 1) + 1
<1>1. PICK k \in Nat : k = y - 1
  OBVIOUS
<1>2. k \div 100 <= k \div 4 /\ k \div 4 <= k /\ k \div 400 <= k \div 100 /\ 0 <= k \div 400
  OBVIOUS
<1>3. January(y) = 365 * k + k \div 4 - k \div 100 + k \div 400 + 1
  BY <1>1, JanuaryIs
<1>4. PICK p \in Int, q \in Int, r \in Int : p = k \div 4 /\ q = k \div 100 /\ r = k \div 400
  OBVIOUS
<1>. QED
  BY <1>1, <1>2, <1>3, <1>4

\* Each year ends where the next begins.
LEMMA YearsApart ==
  ASSUME NEW y \in Nat, NEW z \in Nat, 1 <= y, y < z
  PROVE  January(y + 1) <= January(z)
<1>1. PICK a \in Nat, b \in Nat : a = y /\ b = z - 1 /\ a <= b
  OBVIOUS
<1>2. 365 * a + a \div 4 - a \div 100 + a \div 400 <= 365 * b + b \div 4 - b \div 100 + b \div 400
  <2>1. a \div 4 <= b \div 4 /\ a \div 400 <= b \div 400
    BY <1>1
  <2>2. b \div 100 - a \div 100 <= b - a
    BY <1>1
  <2>3. PICK p \in Int, q \in Int, r \in Int, u \in Int, v \in Int, w \in Int :
          /\ p = a \div 4 /\ q = a \div 100 /\ r = a \div 400
          /\ u = b \div 4 /\ v = b \div 100 /\ w = b \div 400
    BY <1>1
  <2>. QED
    BY <1>1, <2>1, <2>2, <2>3
<1>3. January(y + 1) = 365 * a + a \div 4 - a \div 100 + a \div 400 + 1
  BY <1>1, JanuaryIs
<1>4. January(z) = 365 * b + b \div 4 - b \div 100 + b \div 400 + 1
  BY <1>1, JanuaryIs
<1>. QED
  BY <1>1, <1>2, <1>3, <1>4

\* A finite set of integers has a least one.
LEMMA LeastOf ==
  ASSUME NEW S \in SUBSET Int, S # {}, IsFiniteSet(S)
  PROVE  \E n \in S : \A k \in S : n <= k
<1> DEFINE R == StrictSubsetOrdering(S)
           Below == [n \in S |-> {k \in S : k < n}]
           C == {Below[n] : n \in S}
<1>0. \A n \in S : Below[n] = {k \in S : k < n}
  OBVIOUS
<1>. HIDE DEF Below
<1>1. IsWellFoundedOn(R, FiniteSubsetsOf(S))
  BY FS_StrictSubsetOrderingWellFounded
<1>2. FiniteSubsetsOf(S) = SUBSET S
  BY FS_FiniteSubsetsOfFinite
<1>3. C \subseteq FiniteSubsetsOf(S) /\ C # {}
  <2>1. \A n \in S : Below[n] \in SUBSET S
    BY <1>0
  <2>2. C \subseteq SUBSET S
    BY <2>1
  <2>3. PICK n \in S : TRUE
    OBVIOUS
  <2>4. Below[n] \in C
    OBVIOUS
  <2>. HIDE DEF C
  <2>. QED
    BY <1>2, <2>2, <2>4
<1>. HIDE DEF R, C
<1>4. PICK c \in C : \A b \in C : <<b, c>> \notin R
  BY <1>1, <1>3, WFMin
<1>5. PICK n \in S : c = Below[n]
  BY <1>4 DEF C
<1>6. ASSUME NEW k \in S, k < n PROVE FALSE
  <2>1. Below[k] \in C
    BY DEF C
  <2>2. Below[k] \subseteq Below[n] /\ k \in Below[n] /\ k \notin Below[k]
    <3>1. \A j \in S : j < k => j < n
      BY <1>6
    <3>2. Below[k] = {j \in S : j < k} /\ Below[n] = {j \in S : j < n}
      BY <1>0
    <3>3. ~(k < k)
      OBVIOUS
    <3>. QED
      BY <1>6, <3>1, <3>2, <3>3
  <2>3. <<Below[k], Below[n]>> \in R
    BY <1>0, <2>2 DEF R, StrictSubsetOrdering
  <2>. QED
    BY <1>4, <1>5, <2>1, <2>3
<1>. QED
  BY <1>6

\* The year and the month that Civil chooses.
YearOf(n)     == CHOOSE k \in (n - 1) \div 366 + 1..(n - 1) \div 365 + 1 :
                   Ordinal(k, 1, 1) <= n /\ n < Ordinal(k + 1, 1, 1)
MonthOf(y, n) == CHOOSE k \in 1..12 :
                   Ordinal(y, k, 1) <= n /\ n < Ordinal(y, k, 1) + MonthLength(y, k)

LEMMA CivilParts ==
  ASSUME NEW n
  PROVE  Civil(n) = [year |-> YearOf(n), month |-> MonthOf(YearOf(n), n),
                     day |-> n - Ordinal(YearOf(n), MonthOf(YearOf(n), n), 1) + 1]
  BY DEF Civil, YearOf, MonthOf

LEMMA CivilYear ==
  ASSUME NEW n \in 1..January(9999) - 1
  PROVE  LET y == YearOf(n)
         IN y \in Nat /\ 1 <= y /\ y < 9999 /\ January(y) <= n /\ n < January(y + 1)
<1> DEFINE lo == (n - 1) \div 366 + 1
           hi == (n - 1) \div 365 + 1
           S  == {k \in lo..hi : n < January(k + 1)}
           Is(k) == Ordinal(k, 1, 1) <= n /\ n < Ordinal(k + 1, 1, 1)
<1>0. January(9999) \in Nat
  BY NextJanuary
<1>1. n \in Nat /\ n >= 1
  BY <1>0
<1>2. lo \in Nat /\ hi \in Nat /\ 1 <= lo /\ lo <= hi /\ n < 365 * hi + 1 /\ 366 * (lo - 1) + 1 <= n
  BY <1>1
<1>. HIDE DEF lo, hi
<1>3. hi \in S
  <2>1. 365 * hi + 1 <= January(hi + 1) /\ January(hi + 1) \in Nat
    <3>1. hi + 1 \in Nat /\ hi + 1 >= 1 /\ (hi + 1) - 1 = hi
      BY <1>2
    <3>. QED
      BY <3>1, JanuaryBounds, NextJanuary
  <2>. QED
    BY <1>1, <1>2, <2>1
<1>4. PICK k \in S : \A j \in S : k <= j
  <2>1. S \subseteq lo..hi /\ S # {}
    BY <1>3
  <2>0. lo..hi \subseteq Int
    BY <1>2
  <2>. HIDE DEF S
  <2>2. IsFiniteSet(S)
    <3>1. lo \in Int /\ hi \in Int
      BY <1>2
    <3> DEFINE years == lo..hi
    <3>2. IsFiniteSet(years)
      BY <3>1, FS_Interval
    <3>3. S \in SUBSET years
      BY <2>1
    <3>. HIDE DEF years
    <3>. QED
      BY <3>2, <3>3, FS_Subset
  <2>. QED
    BY <2>0, <2>1, <2>2, LeastOf
<1>5. k \in lo..hi /\ n < January(k + 1) /\ k \in Nat /\ k >= 1
  BY <1>2, <1>4
<1>6. January(k) <= n
  <2>1. CASE k = lo
    BY <1>1, <1>2, <2>1, JanuaryBounds, NextJanuary
  <2>2. CASE k # lo
    <3>1. k - 1 \in lo..hi /\ (k - 1) + 1 = k /\ ~(k <= k - 1)
      BY <1>2, <1>5, <2>2
    <3>2. k - 1 \notin S
      BY <1>4, <3>1
    <3>3. January(k) \in Nat
      BY <1>5, NextJanuary
    <3>. QED
      BY <1>1, <3>1, <3>2, <3>3
  <2>. QED
    BY <2>1, <2>2
<1>7. \E y \in lo..hi : Is(y)
  BY <1>5, <1>6 DEF January
<1> DEFINE y == CHOOSE i \in lo..hi : Is(i)
<1>8. y \in lo..hi /\ Is(y)
  BY <1>7
<1>9. YearOf(n) = y
  BY DEF YearOf, lo, hi
<1>. HIDE DEF y
<1>10. y \in Nat /\ y >= 1 /\ January(y) <= n /\ n < January(y + 1)
  BY <1>2, <1>8 DEF January
<1>11. y <= 9998
  <2>1. SUFFICES ASSUME 9999 <= y PROVE FALSE
    BY <1>10
  <2>2. January(9999) <= January(y)
    <3>1. CASE y = 9999
      BY <1>0, <3>1
    <3>2. CASE 9999 < y
      <4>0. 9999 \in Nat /\ 1 <= 9999 /\ 9999 >= 1
        OBVIOUS
      <4>1. January(9999 + 1) <= January(y) /\ January(9999 + 1) = January(9999) + Length(9999)
        <5>1. January(9999 + 1) <= January(y)
          BY <1>10, <3>2, <4>0, YearsApart
        <5>. QED
          BY <4>0, <5>1, NextJanuary
      <4>2. Length(9999) \in Nat
        BY DEF Length
      <4>3. January(y) \in Nat
        BY <1>10, NextJanuary
      <4>. QED
        BY <1>0, <4>1, <4>2, <4>3
    <3>. QED
      BY <1>10, <2>1, <3>1, <3>2
  <2>3. January(y) \in Nat
    BY <1>10, NextJanuary
  <2>. QED
    BY <1>0, <1>1, <1>10, <2>2, <2>3
<1>. QED
  BY <1>9, <1>10, <1>11

MonthStart(y, m) == Ordinal(y, m, 1)

LEMMA MonthIn ==
  ASSUME NEW y \in Nat, NEW m \in 1..12
  PROVE  /\ MonthStart(y, m) = January(y) + DaysBefore(y, m)
         /\ MonthLength(y, m) \in 28..31
         /\ m < 12 => DaysBefore(y, m + 1) = DaysBefore(y, m) + MonthLength(y, m)
         /\ m = 12 => DaysBefore(y, m) + MonthLength(y, m) = Length(y)
         /\ DaysBefore(y, m) \in Nat
<1>0. y \in Int
  OBVIOUS
<1>1. MonthStart(y, m) = January(y) + DaysBefore(y, m)
  <2>1. DaysBefore(y, 1) = 0
    BY <1>0, MonthsBefore
  <2>2. DaysBefore(y, m) \in Int
    BY MonthsBefore
  <2>. QED
    BY <2>1, <2>2 DEF MonthStart, January, Ordinal
<1>2. IsLeap(y) \in BOOLEAN
  BY DEF IsLeap
<1>3. MonthLength(y, m) \in 28..31
  BY <1>2 DEF MonthLength
<1>4. /\ m < 12 => DaysBefore(y, m + 1) = DaysBefore(y, m) + MonthLength(y, m)
      /\ m = 12 => DaysBefore(y, m) + MonthLength(y, m) = Length(y)
      /\ DaysBefore(y, m) \in Nat
  <2>1. m \in {1, 2, 3, 4, 5, 6, 7, 8, 9, 10, 11, 12}
    OBVIOUS
  <2>. QED
    BY <1>2, <2>1, MonthsBefore DEF MonthLength, Length
<1>. QED
  BY <1>1, <1>3, <1>4

\* The months of a year follow each other, and the year after it the last.
LEMMA NextMonth ==
  ASSUME NEW y \in Nat, y >= 1, NEW m \in 1..12
  PROVE  /\ MonthStart(y, m) + MonthLength(y, m) =
              IF m = 12 THEN MonthStart(y + 1, 1) ELSE MonthStart(y, m + 1)
         /\ MonthStart(y, m) \in Nat /\ MonthStart(y, 1) = January(y)
         /\ MonthLength(y, m) \in Nat \ {0}
<1>1. /\ January(y) \in Nat /\ January(y + 1) = January(y) + Length(y) /\ y + 1 \in Int
      /\ Length(y) \in Nat
  BY NextJanuary DEF Length
<1>2. /\ MonthStart(y, m) = January(y) + DaysBefore(y, m)
      /\ MonthLength(y, m) \in 28..31
      /\ m < 12 => DaysBefore(y, m + 1) = DaysBefore(y, m) + MonthLength(y, m)
      /\ m = 12 => DaysBefore(y, m) + MonthLength(y, m) = Length(y)
      /\ DaysBefore(y, m) \in Nat
  BY MonthIn
<1>3. MonthStart(y, 1) = January(y) /\ MonthStart(y + 1, 1) = January(y + 1)
  BY DEF MonthStart, January
<1>4. CASE m = 12
  BY <1>1, <1>2, <1>3, <1>4
<1>5. CASE m # 12
  <2>1. m + 1 \in 1..12
    BY <1>5
  <2>2. MonthStart(y, m + 1) = January(y) + DaysBefore(y, m + 1)
    BY <2>1, MonthIn
  <2>. QED
    BY <1>1, <1>2, <1>3, <1>5, <2>2
<1>. QED
  BY <1>4, <1>5

LEMMA MonthsApart ==
  ASSUME NEW y \in Nat, y >= 1, NEW k \in 1..12, NEW m \in 1..12, k < m
  PROVE  MonthStart(y, k) + MonthLength(y, k) <= MonthStart(y, m)
<1>1. /\ MonthStart(y, m) = January(y) + DaysBefore(y, m)
      /\ MonthStart(y, k) = January(y) + DaysBefore(y, k)
  BY MonthIn
<1>2. DaysBefore(y, k) + MonthLength(y, k) <= DaysBefore(y, m)
  <2>1. /\ m \in {1, 2, 3, 4, 5, 6, 7, 8, 9, 10, 11, 12}
        /\ k \in {1, 2, 3, 4, 5, 6, 7, 8, 9, 10, 11}
    OBVIOUS
  <2>2. DaysBefore(y, k) + MonthLength(y, k) = DaysBefore(y, k + 1)
    <3>1. k < 12
      BY <2>1
    <3>. QED
      BY <3>1, MonthIn
  <2>3. IsLeap(y) \in BOOLEAN
    BY DEF IsLeap
  <2>4. DaysBefore(y, k + 1) <= DaysBefore(y, m)
    <3>1. k + 1 \in {2, 3, 4, 5, 6, 7, 8, 9, 10, 11, 12} /\ k + 1 <= m
      BY <2>1
    <3>. QED
      BY <2>1, <2>3, <3>1, MonthsBefore
  <2>. QED
    BY <2>2, <2>4
<1>3. /\ January(y) \in Nat /\ DaysBefore(y, k) \in Nat /\ DaysBefore(y, m) \in Nat
      /\ MonthLength(y, k) \in Nat
  <2>1. January(y) \in Nat
    BY NextJanuary
  <2>2. DaysBefore(y, k) \in Nat /\ MonthLength(y, k) \in 28..31
    BY MonthIn
  <2>3. DaysBefore(y, m) \in Nat
    BY MonthIn
  <2>. QED
    BY <2>1, <2>2, <2>3
<1>. QED
  BY <1>1, <1>2, <1>3

LEMMA MonthExists ==
  ASSUME NEW y \in Nat, y >= 1, NEW n \in Nat, January(y) <= n, n < January(y + 1)
  PROVE  \E m \in 1..12 : MonthStart(y, m) <= n /\ n < MonthStart(y, m) + MonthLength(y, m)
<1> DEFINE S == {m \in 1..12 : n < MonthStart(y, m) + MonthLength(y, m)}
<1>1. 12 \in S
  <2>1. 12 \in 1..12
    OBVIOUS
  <2>2. MonthStart(y, 12) + MonthLength(y, 12) = MonthStart(y + 1, 1)
    BY <2>1, NextMonth
  <2>3. MonthStart(y + 1, 1) = January(y + 1)
    BY DEF MonthStart, January
  <2>. QED
    BY <2>1, <2>2, <2>3
<1>2. PICK m \in S : \A j \in S : m <= j
  <2>1. S \in SUBSET Int /\ S # {} /\ S \subseteq 1..12
    BY <1>1
  <2>. HIDE DEF S
  <2>2. IsFiniteSet(1..12)
    <3>1. 1 \in Int /\ 12 \in Int
      OBVIOUS
    <3>. QED
      BY <3>1, FS_Interval
  <2>3. IsFiniteSet(S)
    BY <2>1, <2>2, FS_Subset
  <2>. QED
    BY <2>1, <2>3, LeastOf
<1>3. m \in 1..12 /\ n < MonthStart(y, m) + MonthLength(y, m)
  BY <1>2
<1>4. MonthStart(y, m) <= n
  <2>1. CASE m = 1
    BY <2>1 DEF MonthStart, January
  <2>2. CASE m # 1
    <3>1. m - 1 \in 1..12 /\ (m - 1) + 1 = m /\ m - 1 # 12 /\ ~(m <= m - 1)
      BY <1>3, <2>2
    <3>2. m - 1 \notin S
      BY <1>2, <3>1
    <3>3. ~(n < MonthStart(y, m - 1) + MonthLength(y, m - 1))
      BY <3>1, <3>2
    <3>4. /\ MonthStart(y, m - 1) + MonthLength(y, m - 1) = MonthStart(y, m)
          /\ MonthStart(y, m) \in Nat
      <4>1. \A k \in 1..12 :
              /\ MonthStart(y, k) \in Nat
              /\ k # 12 => MonthStart(y, k) + MonthLength(y, k) = MonthStart(y, k + 1)
        BY NextMonth
      <4>. QED
        BY <1>3, <3>1, <4>1
    <3>. QED
      BY <3>3, <3>4
  <2>. QED
    BY <2>1, <2>2
<1>. QED
  BY <1>3, <1>4

\* Civil is the date of a day.
CivilOf(n, y, m) ==
  /\ 1 <= y /\ y < 9999 /\ January(y) <= n /\ n < January(y + 1)
  /\ MonthStart(y, m) <= n /\ n < MonthStart(y, m) + MonthLength(y, m)
  /\ Civil(n) = [year |-> y, month |-> m, day |-> n - MonthStart(y, m) + 1]

LEMMA CivilIs ==
  ASSUME NEW n \in 1..January(9999) - 1
  PROVE  \E y \in Nat, m \in 1..12 : CivilOf(n, y, m)
<1>0. PICK y : y = YearOf(n)
  OBVIOUS
<1>3. PICK m : m = MonthOf(y, n)
  OBVIOUS
<1> DEFINE Is(k) == Ordinal(y, k, 1) <= n /\ n < Ordinal(y, k, 1) + MonthLength(y, k)
<1>1. y \in Nat /\ 1 <= y /\ y < 9999 /\ January(y) <= n /\ n < January(y + 1)
  BY <1>0, CivilYear
<1>2. Civil(n) = [year |-> y, month |-> m, day |-> n - Ordinal(y, m, 1) + 1]
  BY <1>0, <1>3, CivilParts
<1>4. \E k \in 1..12 : Is(k)
  <2>1. y \in Nat /\ y >= 1
    BY <1>1
  <2>2. January(9999) \in Nat
    BY NextJanuary
  <2>3. n \in Nat
    BY <2>2
  <2>. QED
    BY <1>1, <2>1, <2>3, MonthExists DEF MonthStart
<1>5. m \in 1..12 /\ Is(m)
  BY <1>3, <1>4 DEF MonthOf
<1>6. MonthStart(y, m) <= n /\ n < MonthStart(y, m) + MonthLength(y, m)
  BY <1>5 DEF MonthStart
<1>7. Civil(n) = [year |-> y, month |-> m, day |-> n - MonthStart(y, m) + 1]
  BY <1>2 DEF MonthStart
<1>8. m \in 1..12
  BY <1>5
<1>. HIDE DEF Is
<1>9. y \in Nat /\ 1 <= y /\ y < 9999
  BY <1>1
<1>10. January(y) <= n /\ n < January(y + 1)
  BY <1>1
<1>11. CivilOf(n, y, m)
  BY <1>6, <1>7, <1>9, <1>10 DEF CivilOf
<1>. QED
  BY <1>8, <1>9, <1>11

LEMMA MonthAtMost ==
  ASSUME NEW y \in Nat, y >= 1, NEW m \in 1..12
  PROVE  January(y) <= MonthStart(y, m) /\ MonthStart(y, m) + MonthLength(y, m) <= January(y + 1)
<1>1. /\ MonthStart(y, m) = January(y) + DaysBefore(y, m) /\ DaysBefore(y, m) \in Nat
      /\ m = 12 => DaysBefore(y, m) + MonthLength(y, m) = Length(y)
      /\ MonthLength(y, m) \in 28..31
  BY MonthIn
<1>2. /\ January(y) \in Nat /\ January(y + 1) = January(y) + Length(y) /\ Length(y) \in Nat
  BY NextJanuary DEF Length
<1>3. CASE m = 12
  BY <1>1, <1>2, <1>3
<1>4. CASE m # 12
  <2>1. 12 \in 1..12 /\ m < 12
    BY <1>4
  <2>2. MonthStart(y, m) + MonthLength(y, m) <= MonthStart(y, 12)
    BY <2>1, MonthsApart
  <2>3. /\ MonthStart(y, 12) + MonthLength(y, 12) = January(y + 1)
        /\ MonthStart(y, 12) \in Nat /\ MonthLength(y, 12) \in Nat
    <3>1. /\ MonthStart(y, 12) = January(y) + DaysBefore(y, 12) /\ DaysBefore(y, 12) \in Nat
          /\ DaysBefore(y, 12) + MonthLength(y, 12) = Length(y)
          /\ MonthLength(y, 12) \in 28..31
      BY <2>1, MonthIn
    <3>. QED
      BY <1>2, <3>1
  <2>. QED
    BY <1>1, <1>2, <2>2, <2>3
<1>. QED
  BY <1>3, <1>4

\* The year, the month and the date of a day.
LEMMA YearIs ==
  ASSUME NEW n \in 1..January(9999) - 1, NEW y \in Nat, y >= 1
  PROVE  Civil(n).year = y <=> January(y) <= n /\ n < January(y + 1)
<1>. PICK c \in Nat, k \in 1..12 : CivilOf(n, c, k)
  BY CivilIs
<1>0. 1 <= c /\ January(c) <= n /\ n < January(c + 1) /\ Civil(n).year = c
  BY DEF CivilOf
<1>1. c \in Nat /\ c >= 1 /\ January(c) <= n /\ n < January(c + 1)
  BY <1>0
<1>2. n \in Nat
  <2>1. January(9999) \in Nat
    <3>1. 9999 \in Nat /\ 9999 >= 1
      OBVIOUS
    <3>. QED
      BY <3>1, NextJanuary
  <2>. QED
    BY <2>1
<1>3. \A z \in Nat : z >= 1 => January(z) \in Nat /\ January(z + 1) \in Nat
  BY NextJanuary
<1>4. CASE c < y
  <2>1. January(c + 1) <= January(y)
    BY <1>1, <1>4, YearsApart
  <2>. QED
    BY <1>0, <1>1, <1>2, <1>3, <1>4, <2>1
<1>5. CASE y < c
  <2>1. January(y + 1) <= January(c)
    BY <1>1, <1>5, YearsApart
  <2>. QED
    BY <1>0, <1>1, <1>2, <1>3, <1>5, <2>1
<1>6. CASE y = c
  BY <1>0, <1>1, <1>6
<1>. QED
  BY <1>1, <1>4, <1>5, <1>6

LEMMA MonthIs ==
  ASSUME NEW n \in 1..January(9999) - 1, NEW y \in Nat, y >= 1, NEW m \in 1..12
  PROVE  Civil(n).year = y /\ Civil(n).month = m <=>
           MonthStart(y, m) <= n /\ n < MonthStart(y, m) + MonthLength(y, m)
<1>. PICK c \in Nat, k \in 1..12 : CivilOf(n, c, k)
  BY CivilIs
<1>0. /\ 1 <= c
      /\ MonthStart(c, k) <= n /\ n < MonthStart(c, k) + MonthLength(c, k)
      /\ Civil(n).year = c /\ Civil(n).month = k
  BY DEF CivilOf
<1>1. /\ k \in 1..12 /\ MonthStart(c, k) <= n /\ n < MonthStart(c, k) + MonthLength(c, k)
      /\ c \in Nat /\ c >= 1
  BY <1>0
<1>2. n \in Nat
  <2>1. January(9999) \in Nat
    <3>1. 9999 \in Nat /\ 9999 >= 1
      OBVIOUS
    <3>. QED
      BY <3>1, NextJanuary
  <2>. QED
    BY <2>1
<1>3. c = y <=> January(y) <= n /\ n < January(y + 1)
  BY <1>0, YearIs
<1>4. January(y) <= MonthStart(y, m) /\ MonthStart(y, m) + MonthLength(y, m) <= January(y + 1)
  BY MonthAtMost
<1>5. /\ January(y) \in Nat /\ January(y + 1) \in Nat
      /\ \A i \in 1..12 : MonthStart(y, i) \in Nat /\ MonthLength(y, i) \in Nat \ {0}
  <2>1. January(y) \in Nat /\ January(y + 1) \in Nat
    <3>1. y + 1 \in Nat /\ y + 1 >= 1
      OBVIOUS
    <3>. QED
      BY <3>1, NextJanuary
  <2>. QED
    BY <2>1, NextMonth
<1>6. CASE c # y
  BY <1>2, <1>3, <1>4, <1>5, <1>6, <1>0
<1>7. CASE c = y
  <2>1. CASE k < m
    <3>1. MonthStart(y, k) + MonthLength(y, k) <= MonthStart(y, m)
      BY <1>1, <2>1, MonthsApart
    <3>. QED
      BY <1>1, <1>2, <1>5, <1>7, <2>1, <3>1, <1>0
  <2>2. CASE m < k
    <3>1. MonthStart(y, m) + MonthLength(y, m) <= MonthStart(y, k)
      BY <1>1, <2>2, MonthsApart
    <3>. QED
      BY <1>1, <1>2, <1>5, <1>7, <2>2, <3>1, <1>0
  <2>3. CASE k = m
    BY <1>1, <1>7, <2>3, <1>0
  <2>. QED
    BY <1>1, <2>1, <2>2, <2>3
<1>. QED
  BY <1>6, <1>7

LEMMA MonthTypes ==
  ASSUME NEW y \in Nat, y >= 1, NEW m \in 1..12
  PROVE  MonthStart(y, m) \in Nat /\ MonthLength(y, m) \in Nat
  BY NextMonth

LEMMA DayOfMonth ==
  ASSUME NEW y \in Nat, y >= 1, NEW m \in 1..12, NEW d \in Int
  PROVE  Ordinal(y, m, d) = MonthStart(y, m) + d - 1
<1>1. PICK b \in Int : b = 365 * (y - 1) + (y - 1) \div 4 - (y - 1) \div 100 + (y - 1) \div 400
  OBVIOUS
<1>2. DaysBefore(y, m) \in Nat
  BY MonthIn
<1>3. Ordinal(y, m, d) = b + DaysBefore(y, m) + d /\ MonthStart(y, m) = b + DaysBefore(y, m) + 1
  BY <1>1 DEF Ordinal, MonthStart
<1>. QED
  BY <1>2, <1>3

\* The numbers of the days that are looked at.
LEMMA DayNumber ==
  ASSUME NEW n \in 1..January(9999) - 1
  PROVE  n \in Nat /\ n >= 1
<1>1. 9999 \in Nat /\ 9999 >= 1
  OBVIOUS
<1>2. January(9999) \in Nat
  BY <1>1, NextJanuary
<1>. QED
  BY <1>2

\* A date that exists is the date of its day.
LEMMA DateOfDay ==
  ASSUME NEW n \in 1..January(9999) - 1, NEW y \in Nat, y >= 1, NEW m \in 1..12,
         NEW d \in 1..MonthLength(y, m), n = Ordinal(y, m, d)
  PROVE  Civil(n) = [year |-> y, month |-> m, day |-> d]
<1>1. MonthStart(y, m) \in Nat /\ MonthLength(y, m) \in Nat
  BY MonthTypes
<1>2. d \in Int /\ 1 <= d /\ d <= MonthLength(y, m)
  BY <1>1
<1>3. n = MonthStart(y, m) + d - 1
  <2>1. Ordinal(y, m, d) = MonthStart(y, m) + d - 1
    <3>. QED
      BY <1>2, DayOfMonth
  <2>. QED
    BY <2>1
<1>4. MonthStart(y, m) <= n /\ n < MonthStart(y, m) + MonthLength(y, m)
  BY <1>1, <1>2, <1>3
<1>5. Civil(n).year = y /\ Civil(n).month = m
  BY <1>4, MonthIs
<1>. PICK z \in Nat, k \in 1..12 : CivilOf(n, z, k)
  BY CivilIs
<1>6. Civil(n) = [year |-> z, month |-> k, day |-> n - MonthStart(z, k) + 1]
  BY DEF CivilOf
<1>7. z = y /\ k = m
  BY <1>5, <1>6
<1>8. n - MonthStart(y, m) + 1 = d
  BY <1>1, <1>2, <1>3, SMTT(20)
<1>. QED
  BY <1>6, <1>7, <1>8

\* The date of a day exists and is that day's.
LEMMA DayOfDate ==
  ASSUME NEW n \in 1..January(9999) - 1, NEW y, NEW m, NEW d
  PROVE  Civil(n) = [year |-> y, month |-> m, day |-> d] =>
           Exists(y, m, d) /\ n = Ordinal(y, m, d)
<1>. PICK z \in Nat, k \in 1..12 : CivilOf(n, z, k)
  BY CivilIs
<1>1. /\ 1 <= z /\ z < 9999 /\ January(z) <= n /\ n < January(z + 1)
      /\ MonthStart(z, k) <= n /\ n < MonthStart(z, k) + MonthLength(z, k)
      /\ Civil(n) = [year |-> z, month |-> k, day |-> n - MonthStart(z, k) + 1]
  BY DEF CivilOf
<1>. HAVE Civil(n) = [year |-> y, month |-> m, day |-> d]
<1>2. PICK e \in Int : e = n - MonthStart(z, k) + 1
  <2>1. MonthStart(z, k) \in Nat
    BY <1>1, MonthTypes
  <2>. QED
    BY <2>1, DayNumber
<1>3. y = z /\ m = k /\ d = e
  BY <1>1, <1>2
<1>4. MonthStart(z, k) \in Nat /\ MonthLength(z, k) \in Nat /\ n \in Nat
  BY <1>1, MonthTypes, DayNumber
<1>5. n = Ordinal(z, k, e)
  <2>1. Ordinal(z, k, e) = MonthStart(z, k) + e - 1
    <3>1. z \in Nat /\ z >= 1 /\ k \in 1..12 /\ e \in Int
      BY <1>1, <1>2
    <3>. QED
      BY <3>1, DayOfMonth
  <2>. QED
    BY <1>2, <1>4, <2>1
<1>6. e \in 1..MonthLength(z, k) /\ z \in 1..9999
  BY <1>1, <1>2, <1>4, SMTT(20)
<1>. QED
  BY <1>3, <1>5, <1>6 DEF Exists
-----------------------------------------------------------------------------
(* The values of the date conditions: ParseDateRange and what is meant *)

LEMMA Times ==
  ASSUME NEW a \in Int, NEW b \in Int, NEW l \in Nat \ {0}
  PROVE  a <= b <=> a * l <= b * l
<1>1. ASSUME a <= b PROVE a * l <= b * l
  <2>1. PICK c \in Nat : b = a + c
    BY <1>1
  <2>2. c * l \in Nat /\ b * l = a * l + c * l
    BY <2>1
  <2>. QED
    BY <2>2
<1>2. ASSUME b < a PROVE b * l < a * l
  <2>1. PICK c \in Nat : a = b + c + 1
    <3>1. a - b - 1 \in Nat /\ a = b + (a - b - 1) + 1
      BY <1>2
    <3>. QED
      BY <3>1
  <2>2. c * l \in Nat /\ a * l = b * l + c * l + l
    BY <2>1
  <2>. QED
    BY <2>2
<1>. QED
  BY <1>1, <1>2

LEMMA DayParts ==
  ASSUME NEW t \in Nat
  PROVE  DayOf(t) \in Nat /\ Start(DayOf(t)) <= t /\ t < Start(DayOf(t) + 1)
<1>1. PICK l \in Nat \ {0} : l = DayLength
  BY DatesAssumption
<1>2. PICK q \in Int : q = t \div l
  OBVIOUS
<1>3. q * l <= t /\ t < q * l + l
  BY <1>2
<1>4. (q + 1) * l = q * l + l
  OBVIOUS
<1>5. q >= 0
  BY <1>2
<1>. QED
  BY <1>1, <1>2, <1>3, <1>4, <1>5 DEF DayOf, Start

\* A moment is of a day or a later one when it is at the start of that day or later.
LEMMA DayStarts ==
  ASSUME NEW t \in Nat, NEW k \in Int
  PROVE  /\ k <= DayOf(t) <=> Start(k) <= t
         /\ DayOf(t) < k <=> t < Start(k)
         /\ Start(k) \in Int
<1>1. PICK l \in Nat \ {0} : l = DayLength
  BY DatesAssumption
<1>2. PICK q \in Int : q = DayOf(t) /\ q * l <= t /\ t < (q + 1) * l
  BY <1>1, DayParts DEF Start
<1>3. k <= q <=> k * l <= q * l
  BY Times
<1>4. q + 1 <= k <=> (q + 1) * l <= k * l
  BY Times
<1>5. k * l \in Int /\ q * l \in Int /\ (q + 1) * l \in Int
  OBVIOUS
<1>6. PICK kl \in Int, ql \in Int, rl \in Int : kl = k * l /\ ql = q * l /\ rl = (q + 1) * l
  BY <1>5
<1>7. k <= q <=> kl <= t
  BY <1>2, <1>3, <1>4, <1>6
<1>. QED
  BY <1>1, <1>2, <1>6, <1>7 DEF Start

\* The days a value names are those from a to b.
Spans(v, time, a, b) ==
  /\ Simple(v, time) = Interval(Start(a), Start(b)) /\ a >= 1 /\ b >= 1
  /\ \A n \in Days : NamesDay(v, n, time) <=> a <= n /\ n < b

LEMMA DaysAre ==
  /\ \A n \in Days : n \in 1..January(9999) - 1 /\ n \in Nat /\ n >= 1 /\ Calendar[n] = Civil(n)
<1>1. January(9999) = Ordinal(9999, 1, 1)
  BY DEF January
<1>2. Days \subseteq 1..January(9999) - 1
  BY <1>1, DatesAssumption
<1>3. ASSUME NEW n \in Days PROVE n \in 1..January(9999) - 1 /\ n \in Nat /\ n >= 1
  <2>1. n \in 1..January(9999) - 1
    BY <1>2
  <2>. QED
    BY <2>1, DayNumber
<1>4. \A n \in Days : Calendar[n] = Civil(n)
  BY DEF Calendar
<1>. QED
  BY <1>3, <1>4

LEMMA FirstExists ==
  ASSUME NEW y \in Nat, NEW m \in 1..12, 1 <= y, y <= 9999
  PROVE  Exists(y, m, 1)
<1>1. 1 \in 1..MonthLength(y, m)
  BY DEF MonthLength
<1>2. y \in 1..9999
  BY SMTT(20)
<1>. QED
  BY <1>1, <1>2, SMTT(20) DEF Exists

LEMMA YearSpan ==
  ASSUME NEW y \in Nat, 1 <= y, y < 9999
  PROVE  /\ Between(y, 1, y + 1, 1) = Interval(Start(January(y)), Start(January(y + 1)))
         /\ January(y) >= 1 /\ January(y + 1) >= 1
<1>1. Exists(y, 1, 1) /\ Exists(y + 1, 1, 1)
  <2>1. y + 1 \in Nat /\ 1 <= y + 1 /\ y + 1 <= 9999 /\ y <= 9999
    OBVIOUS
  <2>2. 1 \in 1..12
    OBVIOUS
  <2>3. Exists(y, 1, 1)
    BY <2>1, <2>2, FirstExists
  <2>4. Exists(y + 1, 1, 1)
    BY <2>1, <2>2, FirstExists
  <2>. QED
    BY <2>3, <2>4
<1>2. January(y) >= 1 /\ January(y + 1) >= 1
  <2>1. y + 1 \in Nat /\ y + 1 >= 1 /\ y >= 1
    OBVIOUS
  <2>. QED
    BY <2>1, NextJanuary
<1>. QED
  BY <1>1, <1>2 DEF Between, January

LEMMA MonthSpan ==
  ASSUME NEW y \in Nat, 1 <= y, y < 9999, NEW m \in 1..12
  PROVE  /\ Month(y, m) = Interval(Start(MonthStart(y, m)),
                                   Start(MonthStart(y, m) + MonthLength(y, m)))
         /\ MonthStart(y, m) >= 1 /\ MonthStart(y, m) + MonthLength(y, m) >= 1
<1>1. \A z \in Nat, k \in 1..12 : 1 <= z /\ z <= 9999 => Exists(z, k, 1)
  BY FirstExists
<1>2. MonthStart(y, m) \in Nat /\ MonthLength(y, m) \in Nat /\ MonthStart(y, m) >= 1
  <2>1. y >= 1
    OBVIOUS
  <2>2. January(y) \in Nat /\ January(y) >= 1
    BY <2>1, NextJanuary
  <2>3. January(y) <= MonthStart(y, m)
    BY <2>1, MonthAtMost
  <2>4. MonthStart(y, m) \in Nat /\ MonthLength(y, m) \in Nat
    BY <2>1, MonthTypes
  <2>. QED
    BY <2>2, <2>3, <2>4
<1>3. Month(y, m) = Interval(Start(MonthStart(y, m)), Start(MonthStart(y, m) + MonthLength(y, m)))
  <2>1. y >= 1
    OBVIOUS
  <2>2. CASE m = 12
    <3>1. MonthStart(y, 12) + MonthLength(y, 12) = MonthStart(y + 1, 1)
      BY <2>1, <2>2, NextMonth
    <3>2. Exists(y, 12, 1) /\ Exists(y + 1, 1, 1)
      <4>1. y + 1 \in Nat /\ 1 <= y + 1 /\ y + 1 <= 9999 /\ y <= 9999 /\ 1 <= y
            /\ 12 \in 1..12 /\ 1 \in 1..12
        OBVIOUS
      <4>. QED
        BY <1>1, <4>1
    <3>. QED
      BY <2>2, <3>1, <3>2 DEF Month, Between, MonthStart
  <2>3. CASE m # 12
    <3>1. MonthStart(y, m) + MonthLength(y, m) = MonthStart(y, m + 1)
      BY <2>1, <2>3, NextMonth, SMTT(20)
    <3>2. m + 1 \in 1..12
      BY <2>3
    <3>3. Exists(y, m, 1) /\ Exists(y, m + 1, 1)
      <4>1. y <= 9999 /\ 1 <= y
        OBVIOUS
      <4>. QED
        BY <1>1, <3>2, <4>1
    <3>. QED
      BY <2>3, <3>1, <3>3 DEF Month, Between, MonthStart
  <2>. QED
    BY <2>2, <2>3
<1>4. MonthStart(y, m) + MonthLength(y, m) >= 1
  BY <1>2
<1>. QED
  BY <1>2, <1>3, <1>4

LEMMA MonthOfDay ==
  ASSUME NEW n \in Days
  PROVE  \E y \in Nat, m \in 1..12 :
           1 <= y /\ y < 9999 /\ Civil(n).year = y /\ Civil(n).month = m
<1>1. n \in 1..January(9999) - 1
  BY DaysAre
<1>2. PICK y \in Nat, m \in 1..12 : CivilOf(n, y, m)
  BY <1>1, CivilIs
<1>3. 1 <= y /\ y < 9999 /\ Civil(n).year = y /\ Civil(n).month = m
  BY <1>2 DEF CivilOf
<1>. QED
  BY <1>3

LEMMA DaysOfYear ==
  ASSUME NEW y \in Nat, 1 <= y
  PROVE  \A n \in Days : Calendar[n].year = y <=> January(y) <= n /\ n < January(y + 1)
<1>1. y >= 1
  OBVIOUS
<1>. QED
  BY <1>1, DaysAre, YearIs

LEMMA DaysOfMonth ==
  ASSUME NEW y \in Nat, 1 <= y, NEW m \in 1..12
  PROVE  \A n \in Days :
           Calendar[n].year = y /\ Calendar[n].month = m <=>
             MonthStart(y, m) <= n /\ n < MonthStart(y, m) + MonthLength(y, m)
<1>1. y >= 1
  OBVIOUS
<1>. QED
  BY <1>1, DaysAre, MonthIs

\* A day of a value that names one.
LEMMA SpanOfYear ==
  ASSUME NEW v, v.form = "year", NEW time, NEW d \in Days, NamesDay(v, d, time)
  PROVE  \E a, b \in Int : Spans(v, time, a, b)
<1>1. PICK y \in Nat : 1 <= y /\ y < 9999 /\ v.year = y
  <2>1. v.year = Civil(d).year
    BY DaysAre DEF NamesDay
  <2>. QED
    BY <2>1, MonthOfDay
<1>2. Simple(v, time) = Between(y, 1, y + 1, 1)
  BY <1>1 DEF Simple
<1>3. \A n \in Days : NamesDay(v, n, time) <=> January(y) <= n /\ n < January(y + 1)
  <2>1. \A n \in Days : NamesDay(v, n, time) <=> Calendar[n].year = y
    BY <1>1 DEF NamesDay
  <2>. QED
    BY <1>1, <2>1, DaysOfYear
<1>4. January(y) \in Int /\ January(y + 1) \in Int
  <2>1. y >= 1 /\ y + 1 >= 1 /\ y + 1 \in Nat
    BY <1>1
  <2>. QED
    BY <2>1, NextJanuary
<1>5. Spans(v, time, January(y), January(y + 1))
  BY <1>1, <1>2, <1>3, YearSpan DEF Spans
<1>. QED
  BY <1>4, <1>5

LEMMA SpanOfMonth ==
  ASSUME NEW v, v.form = "month", NEW time, NEW d \in Days, NamesDay(v, d, time)
  PROVE  \E a, b \in Int : Spans(v, time, a, b)
<1>1. PICK y \in Nat, m \in 1..12 : 1 <= y /\ y < 9999 /\ v.year = y /\ v.month = m
  <2>1. v.year = Civil(d).year /\ v.month = Civil(d).month
    BY DaysAre DEF NamesDay
  <2>. QED
    BY <2>1, MonthOfDay
<1>2. Simple(v, time) = Month(y, m)
  BY <1>1 DEF Simple
<1> DEFINE a == MonthStart(y, m)
           b == MonthStart(y, m) + MonthLength(y, m)
<1>3. \A n \in Days : NamesDay(v, n, time) <=> a <= n /\ n < b
  <2>1. \A n \in Days : NamesDay(v, n, time) <=> Calendar[n].year = y /\ Calendar[n].month = m
    BY <1>1 DEF NamesDay
  <2>. QED
    BY <1>1, <2>1, DaysOfMonth
<1>4. a \in Int /\ b \in Int
  <2>1. y >= 1
    BY <1>1
  <2>2. MonthStart(y, m) \in Nat /\ MonthLength(y, m) \in Nat
    BY <2>1, MonthTypes
  <2>. QED
    BY <2>2
<1>5. Month(y, m) = Interval(Start(a), Start(b)) /\ a >= 1 /\ b >= 1
  BY <1>1, MonthSpan
<1>. HIDE DEF a, b
<1>6. Spans(v, time, a, b)
  BY <1>2, <1>3, <1>5 DEF Spans
<1>. QED
  BY <1>4, <1>6

LEMMA SpanOfDay ==
  ASSUME NEW v, v.form = "day", NEW time, NEW d \in Days, NamesDay(v, d, time)
  PROVE  \E a, b \in Int : Spans(v, time, a, b)
<1> DEFINE date == [year |-> v.year, month |-> v.month, day |-> v.day]
<1>1. \A n \in Days : NamesDay(v, n, time) <=> Civil(n) = date
  BY DaysAre DEF NamesDay
<1>2. Civil(d) = date
  BY <1>1
<1>3. \A n \in Days : Civil(n) = date =>
        Exists(v.year, v.month, v.day) /\ n = Ordinal(v.year, v.month, v.day)
  BY DaysAre, DayOfDate
<1>. HIDE DEF date
<1>4. /\ Exists(v.year, v.month, v.day) /\ d = Ordinal(v.year, v.month, v.day)
      /\ \A n \in Days : Civil(n) = date <=> n = d
  BY <1>2, <1>3
<1>5. Simple(v, time) = Interval(Start(d), Start(d) + DayLength)
  BY <1>4 DEF Simple
<1>6. d \in Nat /\ d >= 1
  BY DaysAre
<1>7. Start(d) + DayLength = Start(d + 1)
  <2>1. PICK l \in Nat : l = DayLength
    BY DatesAssumption
  <2>2. (d + 1) * l = d * l + l
    BY <1>6
  <2>. QED
    BY <2>1, <2>2 DEF Start
<1>8. \A n \in Days : NamesDay(v, n, time) <=> d <= n /\ n < d + 1
  <2>1. \A n \in Days : n = d <=> d <= n /\ n < d + 1
    BY <1>6, DaysAre
  <2>. QED
    BY <1>1, <1>4, <2>1
<1>9. d \in Int /\ d + 1 \in Int /\ d + 1 >= 1
  BY <1>6
<1>10. Spans(v, time, d, d + 1)
  BY <1>5, <1>6, <1>7, <1>8, <1>9 DEF Spans
<1>. QED
  BY <1>9, <1>10

\* Weeks begin on Monday.
LEMMA Weeks ==
  ASSUME NEW t \in Nat, t >= 1, NEW n \in Nat, n >= 1
  PROVE  LET monday == t - Weekday(t)
         IN /\ monday \in Int /\ monday >= 1
            /\ Week(n) = Week(t) <=> monday <= n /\ n < monday + 7
            /\ Week(n) + 1 = Week(t) <=> monday - 7 <= n /\ n < monday
<1>1. PICK w \in Int, q \in Int, p \in Int :
        w = (t + 6) % 7 /\ q = (t - 1) \div 7 /\ p = (n - 1) \div 7
  OBVIOUS
<1>2. 0 <= w /\ w <= 6 /\ t - 1 = 7 * q + w /\ q >= 0
  BY <1>1
<1>3. 7 * p <= n - 1 /\ n - 1 < 7 * p + 7
  BY <1>1
<1>. QED
  BY <1>1, <1>2, <1>3 DEF Week, Weekday

LEMMA SpanOfName ==
  ASSUME NEW v, v.form = "named", v.name \in DayNames, NEW time, DayOf(time) \in Days, NEW d \in Days,
         NamesDay(v, d, time)
  PROVE  \E a, b \in Int : Spans(v, time, a, b)
<1> DEFINE t == DayOf(time)
           monday == t - Weekday(t)
<1>0. t \in Days
  OBVIOUS
<1>1. t \in Nat /\ t >= 1 /\ d \in Nat /\ d >= 1
  BY DaysAre
<1>2. /\ monday \in Int /\ monday >= 1
      /\ \A n \in Days : /\ Week(n) = Week(t) <=> monday <= n /\ n < monday + 7
                         /\ Week(n) + 1 = Week(t) <=> monday - 7 <= n /\ n < monday
  BY <1>1, DaysAre, Weeks
<1>3. CASE v.name = "today"
  <2>1. Simple(v, time) = Interval(Start(t), Start(t + 1))
    BY <1>3 DEF Simple, Named
  <2>2. \A n \in Days : NamesDay(v, n, time) <=> n = t
    BY <1>3 DEF NamesDay
  <2>. HIDE DEF t
  <2>3. \A n \in Days : n = t <=> t <= n /\ n < t + 1
    BY <1>1, DaysAre
  <2>4. Spans(v, time, t, t + 1)
    BY <1>1, <2>1, <2>2, <2>3 DEF Spans
  <2>. QED
    BY <1>1, <2>4
<1>4. CASE v.name = "yesterday"
  <2>1. Simple(v, time) = Interval(Start(t - 1), Start(t))
    BY <1>4 DEF Simple, Named
  <2>2. \A n \in Days : NamesDay(v, n, time) <=> n + 1 = t
    BY <1>4 DEF NamesDay
  <2>. HIDE DEF t
  <2>3. \A n \in Days : n + 1 = t <=> t - 1 <= n /\ n < t
    BY <1>1, DaysAre
  <2>4. t - 1 >= 1
    BY <1>1, <2>2
  <2>5. Spans(v, time, t - 1, t)
    BY <1>1, <2>1, <2>2, <2>3, <2>4 DEF Spans
  <2>. QED
    BY <1>1, <2>5
<1>5. CASE v.name = "thisweek"
  <2>1. Simple(v, time) = Interval(Start(monday), Start(monday + 7))
    BY <1>5 DEF Simple, Named
  <2>2. \A n \in Days : NamesDay(v, n, time) <=> Week(n) = Week(t)
    BY <1>5 DEF NamesDay
  <2>. HIDE DEF monday
  <2>3. Spans(v, time, monday, monday + 7)
    BY <1>2, <2>1, <2>2 DEF Spans
  <2>. QED
    BY <1>2, <2>3
<1>6. CASE v.name = "lastweek"
  <2>1. Simple(v, time) = Interval(Start(monday - 7), Start(monday))
    BY <1>6 DEF Simple, Named
  <2>2. \A n \in Days : NamesDay(v, n, time) <=> Week(n) + 1 = Week(t)
    BY <1>6 DEF NamesDay
  <2>3. monday - 7 >= 1
    <3>1. Week(d) + 1 = Week(t)
      BY <2>2
    <3>2. (d - 1) \div 7 >= 0 /\ (d - 1) \div 7 + 1 = (t - 1) \div 7
      BY <1>1, <3>1 DEF Week
    <3>. HIDE DEF t
    <3>3. PICK w \in Int, q \in Int : w = (t + 6) % 7 /\ q = (t - 1) \div 7 /\ t - 1 = 7 * q + w
      BY <1>1
    <3>4. q >= 1
      <4>1. PICK p \in Int : p = (d - 1) \div 7
        BY <1>1
      <4>. QED
        BY <3>2, <3>3, <4>1
    <3>5. monday = t - w
      BY <3>3 DEF t, Weekday
    <3>. QED
      BY <1>1, <3>3, <3>4, <3>5
  <2>. HIDE DEF monday
  <2>4. Spans(v, time, monday - 7, monday)
    BY <1>2, <2>1, <2>2, <2>3 DEF Spans
  <2>. QED
    BY <1>2, <2>4
<1>7. PICK y \in Nat, m \in 1..12 :
        1 <= y /\ y < 9999 /\ Civil(t).year = y /\ Civil(t).month = m
  BY <1>0, MonthOfDay
<1>8. Calendar[t] = Civil(t)
  BY <1>0, DaysAre
<1>9. CASE v.name = "thismonth"
  <2>1. Simple(v, time) = Month(y, m)
    BY <1>7, <1>9 DEF Simple, Named
  <2> DEFINE a == MonthStart(y, m)
             b == MonthStart(y, m) + MonthLength(y, m)
  <2>2. \A n \in Days : NamesDay(v, n, time) <=> a <= n /\ n < b
    <3>1. \A n \in Days : NamesDay(v, n, time) <=> Calendar[n].year = y /\ Calendar[n].month = m
      BY <1>7, <1>8, <1>9 DEF NamesDay
    <3>. QED
      BY <1>7, <3>1, DaysOfMonth
  <2>3. a \in Int /\ b \in Int
    <3>1. y >= 1
      BY <1>7
    <3>2. MonthStart(y, m) \in Nat /\ MonthLength(y, m) \in Nat
      BY <3>1, MonthTypes
    <3>. QED
      BY <3>2
  <2>4. Month(y, m) = Interval(Start(a), Start(b)) /\ a >= 1 /\ b >= 1
    BY <1>7, MonthSpan
  <2>. HIDE DEF a, b
  <2>5. Spans(v, time, a, b)
    BY <2>1, <2>2, <2>4 DEF Spans
  <2>. QED
    BY <2>3, <2>5
<1>10. CASE v.name = "thisyear"
  <2>1. Simple(v, time) = Between(y, 1, y + 1, 1)
    BY <1>7, <1>10 DEF Simple, Named
  <2>2. \A n \in Days : NamesDay(v, n, time) <=> January(y) <= n /\ n < January(y + 1)
    <3>1. \A n \in Days : NamesDay(v, n, time) <=> Calendar[n].year = y
      BY <1>7, <1>8, <1>10 DEF NamesDay
    <3>. QED
      BY <1>7, <3>1, DaysOfYear
  <2>3. January(y) \in Int /\ January(y + 1) \in Int
    <3>1. y >= 1 /\ y + 1 >= 1 /\ y + 1 \in Nat
      BY <1>7
    <3>. QED
      BY <3>1, NextJanuary
  <2>4. Spans(v, time, January(y), January(y + 1))
    BY <1>7, <2>1, <2>2, YearSpan DEF Spans
  <2>. QED
    BY <2>3, <2>4
<1>. QED
  BY <1>3, <1>4, <1>5, <1>6, <1>9, <1>10 DEF DayNames

LEMMA SpanOf ==
  ASSUME NEW v, NamesDays(v), IsDate(v), NEW time, DayOf(time) \in Days,
         DaysNamed(v, time) # {}
  PROVE  \E a, b \in Int : Spans(v, time, a, b)
<1>1. PICK d \in Days : NamesDay(v, d, time)
  BY DEF DaysNamed
<1>2. CASE v.form = "year"
  BY <1>1, <1>2, SpanOfYear
<1>3. CASE v.form = "month"
  BY <1>1, <1>3, SpanOfMonth
<1>4. CASE v.form = "day"
  BY <1>1, <1>4, SpanOfDay
<1>5. CASE v.form = "named"
  BY <1>1, <1>5, SpanOfName DEF IsDate
<1>. QED
  BY <1>2, <1>3, <1>4, <1>5 DEF NamesDays

\* The interval of such a value has the moments of its days.
LEMMA DaysMean ==
  ASSUME NEW v, NamesDays(v), IsDate(v), NEW time \in Nat, DayOf(time) \in Days,
         DaysNamed(v, time) # {}
  PROVE  LET i == Simple(v, time)
         IN /\ ~i.raises /\ i.after \in Nat /\ i.before \in Nat
            /\ \A t \in Nat : DayOf(t) \in Days =>
                 /\ DayOf(t) \in DaysNamed(v, time) <=> i.after <= t /\ t < i.before
                 /\ (\E n \in DaysNamed(v, time) : n <= DayOf(t)) <=> i.after <= t
                 /\ (\E n \in DaysNamed(v, time) : DayOf(t) <= n) <=> t < i.before
<1>1. PICK a \in Int, b \in Int : Spans(v, time, a, b)
  BY SpanOf
<1>2. Simple(v, time) = Interval(Start(a), Start(b))
  BY <1>1 DEF Spans
<1>3. Start(a) \in Nat /\ Start(b) \in Nat
  <2>1. a \in Nat /\ b \in Nat
    BY <1>1 DEF Spans
  <2>2. PICK l \in Nat : l = DayLength
    BY DatesAssumption
  <2>3. a * l \in Nat /\ b * l \in Nat
    BY <2>1
  <2>. QED
    BY <2>2, <2>3 DEF Start
<1>4. DaysNamed(v, time) = {n \in Days : a <= n /\ n < b}
  BY <1>1 DEF Spans, DaysNamed
<1>5. ASSUME NEW t \in Nat, DayOf(t) \in Days
      PROVE  /\ DayOf(t) \in DaysNamed(v, time) <=> Start(a) <= t /\ t < Start(b)
             /\ (\E n \in DaysNamed(v, time) : n <= DayOf(t)) <=> Start(a) <= t
             /\ (\E n \in DaysNamed(v, time) : DayOf(t) <= n) <=> t < Start(b)
  <2>1. a <= DayOf(t) <=> Start(a) <= t
    BY DayStarts
  <2>2. DayOf(t) < b <=> t < Start(b)
    BY DayStarts
  <2>3. PICK k \in Days : k = DayOf(t)
    BY <1>5
  <2>4. \A n \in Days : n \in Nat
    BY DaysAre
  <2>5. PICK d \in Days : a <= d /\ d < b
    BY <1>4
  <2>6. (\E n \in DaysNamed(v, time) : n <= k) <=> a <= k
    <3>1. ASSUME a <= k PROVE \E n \in DaysNamed(v, time) : n <= k
      <4>1. CASE d <= k
        BY <1>4, <2>5, <4>1
      <4>2. CASE k < d
        <5>1. k < b /\ k <= k
          BY <2>4, <2>5, <4>2
        <5>. QED
          BY <1>4, <3>1, <5>1
      <4>. QED
        BY <2>4, <4>1, <4>2
    <3>2. ASSUME NEW n \in DaysNamed(v, time), n <= k PROVE a <= k
      BY <1>4, <2>4, <3>2
    <3>. QED
      BY <3>1, <3>2
  <2>7. (\E n \in DaysNamed(v, time) : k <= n) <=> k < b
    <3>1. ASSUME k < b PROVE \E n \in DaysNamed(v, time) : k <= n
      <4>1. CASE k <= d
        BY <1>4, <2>5, <4>1
      <4>2. CASE d < k
        <5>1. a <= k /\ k <= k
          BY <2>4, <2>5, <4>2
        <5>. QED
          BY <1>4, <3>1, <5>1
      <4>. QED
        BY <2>4, <4>1, <4>2
    <3>2. ASSUME NEW n \in DaysNamed(v, time), k <= n PROVE k < b
      BY <1>4, <2>4, <3>2
    <3>. QED
      BY <3>1, <3>2
  <2>8. k \in DaysNamed(v, time) <=> a <= k /\ k < b
    BY <1>4
  <2>. QED
    BY <2>1, <2>2, <2>3, <2>6, <2>7, <2>8
<1>. QED
  BY <1>2, <1>3, <1>5 DEF Interval

\* A time ago.
LEMMA AgoMeans ==
  ASSUME NEW v, v.form = "ago", IsDate(v), NEW time \in Nat, DaysLong(v.n, v.unit) < DayOf(time)
  PROVE  LET i == Simple(v, time)
         IN /\ ~i.raises /\ i.after \in Nat /\ i.before = None
            /\ i.after = time - DayLength * DaysLong(v.n, v.unit)
<1>1. PICK k \in Nat : k = DaysLong(v.n, v.unit)
  BY DEF IsDate, DaysLong
<1>2. PICK l \in Nat \ {0} : l = DayLength
  BY DatesAssumption
<1>3. Simple(v, time) = Interval(time - l * k, None)
  BY <1>1, <1>2 DEF Simple
<1>4. time - l * k \in Nat
  <2>1. k < DayOf(time) /\ DayOf(time) \in Nat
    BY <1>1, DayParts
  <2>2. k <= DayOf(time)
    BY <2>1
  <2>3. Start(k) <= time
    BY <2>2, DayStarts
  <2>4. k * l <= time /\ k * l = l * k /\ k * l \in Nat
    BY <1>2, <2>3 DEF Start
  <2>. QED
    BY <2>4
<1>. QED
  BY <1>1, <1>2, <1>3, <1>4 DEF Interval

\* What date: says, by the interval it sets.
GoodDay(v, time) == NamesDays(v) /\ DaysNamed(v, time) # {}
GoodAgo(v, time) == v.form = "ago" /\ DaysLong(v.n, v.unit) < DayOf(time)
GoodRange(v, time) == v.form = "range" /\ GoodDay(v.from, time) /\ GoodDay(v.to, time)
Shaped(v) == IsDate(v) /\ (v.form = "range" => IsDate(v.from) /\ IsDate(v.to))

LEMMA DateMeans ==
  ASSUME NEW v, Shaped(v), NEW time \in Nat, DayOf(time) \in Days,
         GoodDay(v, time) \/ GoodAgo(v, time) \/ GoodRange(v, time),
         NEW t \in Nat, DayOf(t) \in Days
  PROVE  LET i == ParseDateRange(v, time)
         IN /\ ~i.raises /\ i.after \in Nat /\ i.before \in Nat \cup {None}
            /\ MeansMoment(v, t, time) <=> i.after <= t /\ (i.before = None \/ t < i.before)
<1>1. CASE GoodDay(v, time)
  <2>1. /\ MeansMoment(v, t, time) <=> DayOf(t) \in DaysNamed(v, time)
        /\ ParseDateRange(v, time) = Simple(v, time)
    BY <1>1 DEF MeansMoment, ParseDateRange, GoodDay, NamesDays
  <2>2. PICK i : i = Simple(v, time)
    OBVIOUS
  <2>3. /\ ~i.raises /\ i.after \in Nat /\ i.before \in Nat
        /\ DayOf(t) \in DaysNamed(v, time) <=> i.after <= t /\ t < i.before
    BY <1>1, <2>2, DaysMean DEF GoodDay, Shaped
  <2>. QED
    BY <2>1, <2>2, <2>3 DEF None
<1>2. CASE GoodAgo(v, time)
  <2>1. ParseDateRange(v, time) = Simple(v, time)
    BY <1>2 DEF ParseDateRange, GoodAgo
  <2>2. PICK i : i = Simple(v, time)
    OBVIOUS
  <2>3. /\ ~i.raises /\ i.after \in Nat /\ i.before = None
        /\ i.after = time - DayLength * DaysLong(v.n, v.unit)
    BY <1>2, <2>2, AgoMeans DEF GoodAgo, Shaped
  <2>4. MeansMoment(v, t, time) <=> t >= i.after
    BY <1>2, <2>3 DEF MeansMoment, GoodAgo
  <2>5. t >= i.after <=> i.after <= t
    BY <2>3
  <2>. QED
    BY <2>1, <2>2, <2>3, <2>4, <2>5
<1>3. CASE GoodRange(v, time)
  <2>1. PICK x, y : x = Simple(v.from, time) /\ y = Simple(v.to, time)
    OBVIOUS
  <2>2. /\ ~x.raises /\ x.after \in Nat /\ x.before \in Nat
        /\ (\E n \in DaysNamed(v.from, time) : n <= DayOf(t)) <=> x.after <= t
    BY <1>3, <2>1, DaysMean DEF GoodRange, GoodDay, Shaped
  <2>3. /\ ~y.raises /\ y.after \in Nat /\ y.before \in Nat
        /\ (\E n \in DaysNamed(v.to, time) : DayOf(t) <= n) <=> t < y.before
    BY <1>3, <2>1, DaysMean DEF GoodRange, GoodDay, Shaped
  <2>4. y.before # None
    BY <2>3 DEF None
  <2>5. ParseDateRange(v, time) = Interval(x.after, y.before)
    BY <1>3, <2>1, <2>2, <2>3, <2>4 DEF ParseDateRange, DateRange, GoodRange
  <2>6. MeansMoment(v, t, time) <=> x.after <= t /\ t < y.before
    BY <1>3, <2>2, <2>3 DEF MeansMoment, GoodRange
  <2>. QED
    BY <2>2, <2>3, <2>4, <2>5, <2>6 DEF Interval
<1>. QED
  BY <1>1, <1>2, <1>3

\* What after: and before: say, by the start of the interval.
LEMMA AfterMeans ==
  ASSUME NEW v, Shaped(v), NEW time \in Nat, DayOf(time) \in Days,
         GoodDay(v, time) \/ GoodAgo(v, time), NEW t \in Nat, DayOf(t) \in Days
  PROVE  LET i == ParseDateRange(v, time)
         IN /\ ~i.raises /\ i.after \in Nat
            /\ MeansAfter(v, t, time) <=> i.after <= t
            /\ MeansBefore(v, t, time) <=> t < i.after
<1>1. PICK i : i = ParseDateRange(v, time)
  OBVIOUS
<1>2. ~i.raises /\ i.after \in Nat /\ (MeansAfter(v, t, time) <=> i.after <= t)
  <2>1. CASE GoodDay(v, time)
    <3>1. ParseDateRange(v, time) = Simple(v, time) /\ v.form # "ago"
      BY <2>1 DEF ParseDateRange, GoodDay, NamesDays
    <3>2. /\ ~i.raises /\ i.after \in Nat
          /\ (\E n \in DaysNamed(v, time) : n <= DayOf(t)) <=> i.after <= t
      BY <1>1, <2>1, <3>1, DaysMean DEF GoodDay, Shaped
    <3>. QED
      BY <3>1, <3>2 DEF MeansAfter
  <2>2. CASE GoodAgo(v, time)
    <3>1. /\ ~i.raises /\ i.after \in Nat /\ i.before = None
          /\ MeansMoment(v, t, time) <=> i.after <= t
      <4>1. /\ i = Simple(v, time)
        BY <1>1, <2>2 DEF ParseDateRange, GoodAgo
      <4>2. i.before = None
        BY <2>2, <4>1, AgoMeans DEF GoodAgo, Shaped
      <4>. QED
        BY <1>1, <2>2, <4>2, DateMeans
    <3>. QED
      BY <2>2, <3>1 DEF MeansAfter, GoodAgo
  <2>. QED
    BY <2>1, <2>2
<1>3. MeansBefore(v, t, time) <=> t < i.after
  <2>1. MeansBefore(v, t, time) <=> ~(i.after <= t)
    BY <1>2 DEF MeansBefore
  <2>. QED
    BY <1>2, <2>1
<1>. QED
  BY <1>1, <1>2, <1>3

-----------------------------------------------------------------------------
(* The ORs of the loop: the inductive invariant *)

SolidKinds == {"word", "folder", "filter"}

\* An OR was read, and no condition after it.
Waits(s) == \E i \in 1..Len(s) : /\ s[i].kind = "or"
                                 /\ \A j \in i + 1..Len(s) : s[j].kind \notin SolidKinds

\* The conditions with an OR in front of them.
After(s) == {k \in 1..Len(s) :
               /\ s[k].kind \in SolidKinds
               /\ \E i \in 1..k - 1 : /\ s[i].kind = "or"
                                      /\ \A j \in i + 1..k - 1 : s[j].kind \notin SolidKinds}

\* The last word read is t.
LastWordIs(s, t) == \E i \in 1..Len(s) : /\ s[i].kind = "word" /\ s[i].term = t
                                         /\ \A n \in i + 1..Len(s) : s[n].kind # "word"

\* An OR stands between the two words of p, no word before it and no condition after it.
Joined(s, p) ==
  \E i, j, k \in 1..Len(s) :
    /\ i < j /\ j < k
    /\ s[i].kind = "word" /\ s[i].term = p[1] /\ \A n \in i + 1..j : s[n].kind # "word"
    /\ s[j].kind = "or" /\ \A n \in j + 1..k - 1 : s[n].kind \notin SolidKinds
    /\ s[k].kind = "word" /\ s[k].term = p[2]

\* The clauses that are pairs.
Ors(c) == {i \in 1..Len(c) : c[i].kind = "or"}

\* What the tokens of a session can become.
WordsOf(s)   == {k.term : k \in TokensOf[s]}
ClausesOf(s) == {Term(t, n) : t \in WordsOf(s), n \in BOOLEAN}
                  \cup {OrPair(l, r) : l \in WordsOf(s), r \in WordsOf(s)}

QueryTypes ==
  /\ read \in Seq(TokensOf[session]) /\ clauses \in Seq(ClausesOf(session))
  /\ orWarned \in Nat /\ pendingOr \in BOOLEAN /\ raised \in BOOLEAN

\* The flag of the loop says whether an OR waits.
OrIsPending == ~raised => (pendingOr <=> Waits(read))

\* A last clause that an OR may take is of the last word.
LastIsOfLastWord ==
  clauses # <<>> /\ clauses[Len(clauses)].kind = "term" =>
    LastWordIs(read, clauses[Len(clauses)].term)

Neighbours == \A i \in Ors(clauses) : Joined(read, <<clauses[i].left, clauses[i].right>>)

OrsAreCounted == ~raised => Cardinality(After(read)) = orWarned + Cardinality(Ors(clauses))

QueryInv == QueryTypes /\ OrIsPending /\ LastIsOfLastWord /\ Neighbours /\ OrsAreCounted

-----------------------------------------------------------------------------
(* One token more *)

LEMMA Longer ==
  ASSUME NEW S, NEW s \in Seq(S), NEW m \in S
  PROVE  LET t == Append(s, m)
         IN /\ Len(s) \in Nat /\ t \in Seq(S) /\ Len(t) = Len(s) + 1
            /\ t[Len(s) + 1] = m /\ \A i \in 1..Len(s) : t[i] = s[i]
  OBVIOUS

LEMMA UpToMore ==
  ASSUME NEW n \in Nat
  PROVE  /\ n + 1 \in 1..n + 1 /\ \A i \in 1..n : i \in 1..n + 1
         /\ \A i \in 1..n + 1 : i = n + 1 \/ i \in 1..n
         /\ n + 1 \notin 1..n
  OBVIOUS

LEMMA WaitsMore ==
  ASSUME NEW S, NEW s \in Seq(S), NEW m \in S
  PROVE  Waits(Append(s, m)) <=> m.kind = "or" \/ (m.kind \notin SolidKinds /\ Waits(s))
<1> DEFINE t == Append(s, m)
           n == Len(s)
<1>1. /\ n \in Nat /\ Len(t) = n + 1 /\ t[n + 1] = m /\ \A i \in 1..n : t[i] = s[i]
  BY Longer
<1>. HIDE DEF t, n
<1>2. n + 1 \in 1..n + 1 /\ (n + 1) + 1..n + 1 = {}
  BY <1>1
<1>3. ASSUME m.kind = "or" PROVE Waits(t)
  BY <1>1, <1>2, <1>3 DEF Waits
<1>4. ASSUME m.kind \notin SolidKinds, Waits(s) PROVE Waits(t)
  <2>1. PICK i \in 1..n : s[i].kind = "or" /\ \A j \in i + 1..n : s[j].kind \notin SolidKinds
    BY <1>4 DEF Waits, n
  <2>2. i \in 1..n + 1 /\ \A j \in i + 1..n + 1 : j = n + 1 \/ (j \in i + 1..n /\ j \in 1..n)
    BY <1>1
  <2>3. \A j \in i + 1..n + 1 : t[j].kind \notin SolidKinds
    BY <1>1, <1>4, <2>1, <2>2
  <2>. QED
    BY <1>1, <2>1, <2>2, <2>3 DEF Waits
<1>5. ASSUME Waits(t), m.kind # "or" PROVE m.kind \notin SolidKinds /\ Waits(s)
  <2>1. PICK i \in 1..n + 1 :
          t[i].kind = "or" /\ \A j \in i + 1..n + 1 : t[j].kind \notin SolidKinds
    BY <1>1, <1>5 DEF Waits
  <2>2. i \in 1..n
    BY <1>1, <1>5, <2>1
  <2>3. n + 1 \in i + 1..n + 1 /\ \A j \in i + 1..n : j \in i + 1..n + 1 /\ j \in 1..n
    BY <1>1, <2>2
  <2>4. m.kind \notin SolidKinds
    BY <1>1, <2>1, <2>3
  <2>5. \A j \in i + 1..n : s[j].kind \notin SolidKinds
    BY <1>1, <2>1, <2>3
  <2>6. s[i].kind = "or"
    BY <1>1, <2>1, <2>2
  <2>. QED
    BY <2>2, <2>4, <2>5, <2>6 DEF Waits, n
<1>. QED
  BY <1>3, <1>4, <1>5 DEF t

LEMMA AfterMore ==
  ASSUME NEW S, NEW s \in Seq(S), NEW m \in S
  PROVE  After(Append(s, m)) =
           IF m.kind \in SolidKinds /\ Waits(s) THEN After(s) \cup {Len(s) + 1} ELSE After(s)
<1> DEFINE t == Append(s, m)
           n == Len(s)
           Front(r, k) == \E i \in 1..k - 1 : /\ r[i].kind = "or"
                                              /\ \A j \in i + 1..k - 1 : r[j].kind \notin SolidKinds
<1>1. /\ n \in Nat /\ Len(t) = n + 1 /\ t[n + 1] = m /\ \A i \in 1..n : t[i] = s[i]
  BY Longer
<1>. HIDE DEF t, n
<1>2. ASSUME NEW k \in 1..n + 1 PROVE Front(t, k) <=> Front(s, k)
  <2>1. \A i \in 1..k - 1 : i \in 1..n /\ \A j \in i + 1..k - 1 : j \in 1..n
    BY <1>1
  <2>2. \A i \in 1..k - 1 : t[i] = s[i] /\ \A j \in i + 1..k - 1 : t[j] = s[j]
    BY <1>1, <2>1
  <2>. QED
    BY <2>2
<1>3. Front(s, n + 1) <=> Waits(s)
  <2>1. (n + 1) - 1 = n
    BY <1>1
  <2>. QED
    BY <2>1 DEF Waits, n
<1>4. After(t) = {k \in 1..n + 1 : t[k].kind \in SolidKinds /\ Front(t, k)}
  BY <1>1 DEF After
<1>5. After(s) = {k \in 1..n : s[k].kind \in SolidKinds /\ Front(s, k)}
  BY DEF After, n
<1>. HIDE DEF Front
<1>6. n + 1 \in After(t) <=> m.kind \in SolidKinds /\ Waits(s)
  <2>1. n + 1 \in 1..n + 1
    BY <1>1
  <2>. QED
    BY <1>1, <1>2, <1>3, <1>4, <2>1
<1>7. ASSUME NEW k \in 1..n PROVE k \in After(t) <=> k \in After(s)
  <2>1. k \in 1..n + 1
    BY <1>1
  <2>. QED
    BY <1>1, <1>2, <1>4, <1>5, <2>1
<1>8. \A k \in After(t) : k = n + 1 \/ k \in 1..n
  BY <1>1, <1>4, UpToMore
<1>9. \A k \in After(s) : k \in 1..n
  BY <1>5
<1>10. After(t) = IF n + 1 \in After(t) THEN After(s) \cup {n + 1} ELSE After(s)
  <2>1. After(t) \subseteq After(s) \cup {n + 1}
    BY <1>7, <1>8
  <2>2. After(s) \subseteq After(t)
    BY <1>7, <1>9
  <2>3. n + 1 \notin After(t) => After(t) \subseteq After(s)
    BY <2>1
  <2>. QED
    BY <2>1, <2>2, <2>3
<1>. QED
  BY <1>6, <1>10 DEF t, n

LEMMA LastWordMore ==
  ASSUME NEW S, NEW s \in Seq(S), NEW m \in S
  PROVE  /\ m.kind = "word" => LastWordIs(Append(s, m), m.term)
         /\ m.kind # "word" => \A x : LastWordIs(s, x) => LastWordIs(Append(s, m), x)
<1> DEFINE t == Append(s, m)
           n == Len(s)
<1>1. /\ n \in Nat /\ Len(t) = n + 1 /\ t[n + 1] = m /\ \A i \in 1..n : t[i] = s[i]
  BY Longer
<1>. HIDE DEF t, n
<1>2. n + 1 \in 1..n + 1 /\ (n + 1) + 1..n + 1 = {}
  BY <1>1
<1>3. ASSUME m.kind = "word" PROVE LastWordIs(t, m.term)
  BY <1>1, <1>2, <1>3 DEF LastWordIs
<1>4. ASSUME m.kind # "word", NEW x, LastWordIs(s, x) PROVE LastWordIs(t, x)
  <2>1. PICK i \in 1..n : /\ s[i].kind = "word" /\ s[i].term = x
                          /\ \A j \in i + 1..n : s[j].kind # "word"
    BY <1>4 DEF LastWordIs, n
  <2>2. i \in 1..n + 1 /\ \A j \in i + 1..n + 1 : j = n + 1 \/ (j \in i + 1..n /\ j \in 1..n)
    BY <1>1
  <2>3. \A j \in i + 1..n + 1 : t[j].kind # "word"
    BY <1>1, <1>4, <2>1, <2>2
  <2>. QED
    BY <1>1, <2>1, <2>2, <2>3 DEF LastWordIs
<1>. QED
  BY <1>3, <1>4 DEF t

LEMMA JoinedMore ==
  ASSUME NEW S, NEW s \in Seq(S), NEW m \in S, NEW p, Joined(s, p)
  PROVE  Joined(Append(s, m), p)
<1> DEFINE t == Append(s, m)
           n == Len(s)
<1>1. /\ n \in Nat /\ Len(t) = n + 1 /\ t[n + 1] = m /\ \A i \in 1..n : t[i] = s[i]
  BY Longer
<1>. HIDE DEF t, n
<1>2. PICK i \in 1..n, j \in 1..n, k \in 1..n :
        /\ i < j /\ j < k
        /\ s[i].kind = "word" /\ s[i].term = p[1] /\ \A x \in i + 1..j : s[x].kind # "word"
        /\ s[j].kind = "or" /\ \A x \in j + 1..k - 1 : s[x].kind \notin SolidKinds
        /\ s[k].kind = "word" /\ s[k].term = p[2]
  BY DEF Joined, n
<1>3. /\ i \in 1..n + 1 /\ j \in 1..n + 1 /\ k \in 1..n + 1
      /\ \A x \in i + 1..j : x \in 1..n
      /\ \A x \in j + 1..k - 1 : x \in 1..n
  BY <1>1
<1>4. t[i] = s[i] /\ t[j] = s[j] /\ t[k] = s[k]
  BY <1>1
<1>5. \A x \in i + 1..j : t[x].kind # "word"
  <2>1. \A x \in i + 1..j : t[x] = s[x]
    BY <1>1, <1>3
  <2>. QED
    BY <1>2, <2>1
<1>6. \A x \in j + 1..k - 1 : t[x].kind \notin SolidKinds
  <2>1. \A x \in j + 1..k - 1 : t[x] = s[x]
    BY <1>1, <1>3
  <2>. QED
    BY <1>2, <2>1
<1>7. Joined(t, p)
  <2>1. 1..Len(t) = 1..n + 1
    BY <1>1
  <2>2. /\ i \in 1..Len(t) /\ j \in 1..Len(t) /\ k \in 1..Len(t) /\ i < j /\ j < k
        /\ t[i].kind = "word" /\ t[i].term = p[1] /\ t[j].kind = "or"
        /\ t[k].kind = "word" /\ t[k].term = p[2]
    BY <1>2, <1>3, <1>4, <2>1
  <2>. QED
    BY <1>5, <1>6, <2>2 DEF Joined
<1>. QED
  BY <1>7 DEF t

\* A word after an OR that waits is joined to the last word.
LEMMA JoinedNow ==
  ASSUME NEW S, NEW s \in Seq(S), NEW m \in S, m.kind = "word", Waits(s),
         NEW x, LastWordIs(s, x)
  PROVE  Joined(Append(s, m), <<x, m.term>>)
<1> DEFINE t == Append(s, m)
           n == Len(s)
           p == <<x, m.term>>
<1>1. /\ n \in Nat /\ Len(t) = n + 1 /\ t[n + 1] = m /\ \A i \in 1..n : t[i] = s[i]
  BY Longer
<1>2. p[1] = x /\ p[2] = m.term
  OBVIOUS
<1>. HIDE DEF t, n, p
<1>3. PICK j \in 1..n : s[j].kind = "or" /\ \A y \in j + 1..n : s[y].kind \notin SolidKinds
  BY DEF Waits, n
<1>4. PICK i \in 1..n : /\ s[i].kind = "word" /\ s[i].term = x
                        /\ \A y \in i + 1..n : s[y].kind # "word"
  BY DEF LastWordIs, n
<1>5. "word" \in SolidKinds
  BY DEF SolidKinds
<1>6. i < j
  <2>1. SUFFICES ASSUME ~(i < j) PROVE FALSE
    OBVIOUS
  <2>2. i # j
    BY <1>3, <1>4
  <2>3. i \in j + 1..n
    BY <1>1, <2>1, <2>2
  <2>. QED
    BY <1>3, <1>4, <1>5, <2>3
<1>7. /\ i \in 1..n + 1 /\ j \in 1..n + 1 /\ n + 1 \in 1..n + 1 /\ j < n + 1
      /\ \A y \in i + 1..j : y \in 1..n /\ y \in i + 1..n
      /\ \A y \in j + 1..(n + 1) - 1 : y \in 1..n /\ y \in j + 1..n
  BY <1>1
<1>8. t[i] = s[i] /\ t[j] = s[j]
  BY <1>1
<1>9. \A y \in i + 1..j : t[y].kind # "word"
  BY <1>1, <1>4, <1>7
<1>10. \A y \in j + 1..(n + 1) - 1 : t[y].kind \notin SolidKinds
  BY <1>1, <1>3, <1>7
<1>11. Joined(t, p)
  <2>1. /\ i < j /\ j < n + 1
        /\ t[i].kind = "word" /\ t[i].term = p[1]
        /\ t[j].kind = "or" /\ t[n + 1].kind = "word" /\ t[n + 1].term = p[2]
    BY <1>1, <1>2, <1>3, <1>4, <1>6, <1>7, <1>8
  <2>. QED
    <3>0. Len(t) = n + 1
      BY <1>1
    <3>1. \E a, b, c \in 1..n + 1 :
            /\ a < b /\ b < c
            /\ t[a].kind = "word" /\ t[a].term = p[1]
            /\ \A y \in a + 1..b : t[y].kind # "word"
            /\ t[b].kind = "or" /\ \A y \in b + 1..c - 1 : t[y].kind \notin SolidKinds
            /\ t[c].kind = "word" /\ t[c].term = p[2]
      <4>. i \in 1..n + 1 /\ j \in 1..n + 1 /\ n + 1 \in 1..n + 1
        BY <1>7
      <4> WITNESS i \in 1..n + 1, j \in 1..n + 1, n + 1 \in 1..n + 1
      <4>. QED
        BY <1>9, <1>10, <2>1
    <3>2. \E a, b, c \in 1..Len(t) :
            /\ a < b /\ b < c
            /\ t[a].kind = "word" /\ t[a].term = p[1]
            /\ \A y \in a + 1..b : t[y].kind # "word"
            /\ t[b].kind = "or" /\ \A y \in b + 1..c - 1 : t[y].kind \notin SolidKinds
            /\ t[c].kind = "word" /\ t[c].term = p[2]
      BY <3>0, <3>1
    <3>. QED
      BY <3>2 DEF Joined
<1>. QED
  BY <1>11 DEF t, p

\* The sets that are counted are finite, and one more counts one more.
LEMMA Finite ==
  ASSUME NEW s, Len(s) \in Nat
  PROVE  /\ IsFiniteSet(After(s)) /\ Cardinality(After(s)) \in Nat
         /\ IsFiniteSet(Ors(s)) /\ Cardinality(Ors(s)) \in Nat
         /\ Len(s) + 1 \notin After(s)
<1>1. IsFiniteSet(1..Len(s))
  BY FS_Interval
<1>2. After(s) \subseteq 1..Len(s) /\ Ors(s) \subseteq 1..Len(s)
  BY DEF After, Ors
<1>3. IsFiniteSet(After(s)) /\ IsFiniteSet(Ors(s))
  BY <1>1, <1>2, FS_Subset
<1>4. Len(s) + 1 \notin 1..Len(s)
  OBVIOUS
<1>. QED
  BY <1>2, <1>3, <1>4, FS_CardinalityType

-----------------------------------------------------------------------------
(* Steps *)

\* What every token that is taken changes.
LEMMA Taken ==
  ASSUME QueryInv, NEW m, Take(m)
  PROVE  /\ session' = session /\ ~raised /\ m \in TokensOf[session]
         /\ read' = Append(read, m) /\ read' \in Seq(TokensOf[session])
         /\ read \in Seq(TokensOf[session])
         /\ Waits(read') <=> m.kind = "or" \/ (m.kind \notin SolidKinds /\ Waits(read))
<1>1. read \in Seq(TokensOf[session]) /\ m \in TokensOf[session] /\ read' = Append(read, m)
  BY DEF QueryInv, QueryTypes, Take
<1>2. read' \in Seq(TokensOf[session])
  BY <1>1
<1>3. Waits(Append(read, m)) <=> m.kind = "or" \/ (m.kind \notin SolidKinds /\ Waits(read))
  BY <1>1, WaitsMore
<1>. QED
  BY <1>1, <1>2, <1>3 DEF Take, QueryInv

\* A token that is no word changes neither the pairs nor what may become one.
LEMMA NoWord ==
  ASSUME QueryInv, NEW m, Take(m), m.kind # "word", UNCHANGED clauses
  PROVE  LastIsOfLastWord' /\ Neighbours'
<1>1. /\ read' = Append(read, m) /\ read \in Seq(TokensOf[session]) /\ m \in TokensOf[session]
  BY Taken
<1>2. \A x : LastWordIs(read, x) => LastWordIs(read', x)
  BY <1>1, LastWordMore
<1>3. \A p : Joined(read, p) => Joined(read', p)
  BY <1>1, JoinedMore
<1>4. LastIsOfLastWord'
  BY <1>2 DEF QueryInv, LastIsOfLastWord
<1>5. Neighbours'
  BY <1>3 DEF QueryInv, Neighbours
<1>. QED
  BY <1>4, <1>5

\* AND, OR and NOT.
LEMMA OperatorKeeps ==
  ASSUME QueryInv, ReadAnd \/ ReadOr \/ ReadNot
  PROVE  QueryInv'
<1>1. PICK o \in {"and", "or", "not"} :
        /\ Take(Operator(o)) /\ pendingOr' = (o = "or" \/ pendingOr)
        /\ UNCHANGED <<clauses, orWarned, raised>>
  BY DEF ReadAnd, ReadOr, ReadNot, QueryInv, QueryTypes
<1> DEFINE m == Operator(o)
<1>2. m.kind = o /\ m.kind # "word" /\ m.kind \notin SolidKinds
  BY DEF Operator, SolidKinds
<1>. HIDE DEF m
<1>3. Take(m)
  BY <1>1 DEF m
<1>4. /\ session' = session /\ ~raised /\ m \in TokensOf[session]
      /\ read' = Append(read, m) /\ read' \in Seq(TokensOf[session])
      /\ read \in Seq(TokensOf[session])
      /\ Waits(read') <=> m.kind = "or" \/ (m.kind \notin SolidKinds /\ Waits(read))
  BY <1>3, Taken
<1>5. QueryTypes'
  BY <1>1, <1>4 DEF QueryInv, QueryTypes
<1>6. OrIsPending'
  BY <1>1, <1>2, <1>4 DEF QueryInv, OrIsPending, QueryTypes
<1>7. LastIsOfLastWord' /\ Neighbours'
  BY <1>1, <1>2, <1>3, NoWord
<1>8. After(read') = After(read)
  BY <1>2, <1>4, AfterMore
<1>9. OrsAreCounted'
  BY <1>1, <1>8 DEF QueryInv, OrsAreCounted
<1>. QED
  BY <1>5, <1>6, <1>7, <1>9 DEF QueryInv

\* A condition that is no word.
LEMMA NoClauseKeeps ==
  ASSUME QueryInv, NEW m, Take(m), m.kind \in {"folder", "filter"}, NoClause,
         UNCHANGED <<clauses, raised>>
  PROVE  QueryInv'
<1>1. m.kind \in SolidKinds /\ m.kind # "word" /\ m.kind # "or"
  BY DEF SolidKinds
<1>2. /\ session' = session /\ ~raised /\ m \in TokensOf[session]
      /\ read' = Append(read, m) /\ read' \in Seq(TokensOf[session])
      /\ read \in Seq(TokensOf[session])
      /\ Waits(read') <=> m.kind = "or" \/ (m.kind \notin SolidKinds /\ Waits(read))
  BY Taken
<1>3. QueryTypes'
  <2>1. orWarned' \in Nat /\ pendingOr' = FALSE
    BY DEF QueryInv, QueryTypes, NoClause
  <2>2. /\ clauses' \in Seq(ClausesOf(session')) /\ read' \in Seq(TokensOf[session'])
        /\ raised' \in BOOLEAN
    BY <1>2 DEF QueryInv, QueryTypes
  <2>. QED
    BY <2>1, <2>2 DEF QueryTypes
<1>4. OrIsPending'
  BY <1>1, <1>2 DEF OrIsPending, NoClause
<1>5. LastIsOfLastWord' /\ Neighbours'
  BY <1>1, NoWord
<1>6. pendingOr <=> Waits(read)
  BY <1>2 DEF QueryInv, OrIsPending
<1>7. After(read') = IF Waits(read) THEN After(read) \cup {Len(read) + 1} ELSE After(read)
  BY <1>1, <1>2, AfterMore
<1>8. /\ IsFiniteSet(After(read)) /\ Cardinality(After(read)) \in Nat
      /\ Cardinality(Ors(clauses)) \in Nat /\ Len(read) + 1 \notin After(read)
  <2>1. Len(read) \in Nat /\ Len(clauses) \in Nat
    BY DEF QueryInv, QueryTypes
  <2>. QED
    BY <2>1, Finite
<1>9. Cardinality(After(read)) = orWarned + Cardinality(Ors(clauses)) /\ orWarned \in Nat
  BY <1>2 DEF QueryInv, OrsAreCounted, QueryTypes
<1>10. OrsAreCounted'
  <2>1. CASE pendingOr
    <3>1. Cardinality(After(read')) = Cardinality(After(read)) + 1
      BY <1>6, <1>7, <1>8, <2>1, FS_AddElement
    <3>2. orWarned' = orWarned + 1
      BY <2>1 DEF NoClause
    <3>. QED
      BY <1>8, <1>9, <3>1, <3>2 DEF OrsAreCounted
  <2>2. CASE ~pendingOr
    BY <1>6, <1>7, <1>9, <2>2 DEF OrsAreCounted, NoClause
  <2>. QED
    BY <2>1, <2>2
<1>. QED
  BY <1>3, <1>4, <1>5, <1>10 DEF QueryInv

\* A condition the value of which raises: the loop is over.
LEMMA RaiseKeeps ==
  ASSUME QueryInv, NEW f, NEW v, ReadRaises(f, v)
  PROVE  QueryInv'
<1> DEFINE m == Filter(f, v)
<1>1. m.kind # "word"
  BY DEF Filter
<1>2. Take(m) /\ raised' = TRUE /\ UNCHANGED <<clauses, orWarned, pendingOr>>
  BY DEF ReadRaises
<1>. HIDE DEF m
<1>3. session' = session /\ read' \in Seq(TokensOf[session])
  BY <1>2, Taken
<1>4. QueryTypes'
  BY <1>2, <1>3 DEF QueryInv, QueryTypes
<1>5. LastIsOfLastWord' /\ Neighbours'
  BY <1>1, <1>2, NoWord
<1>. QED
  BY <1>2, <1>4, <1>5 DEF QueryInv, OrIsPending, OrsAreCounted

\* A word.
LEMMA TermKeeps ==
  ASSUME QueryInv, NEW x, NEW dash, ReadTerm(x, dash)
  PROVE  QueryInv'
<1> DEFINE m    == Word(x, dash)
           neg  == pendingNot \/ dash
           pair == pendingOr /\ LastIsPairable /\ ~neg
           n    == Len(clauses)
<1>1. /\ Take(m)
      /\ clauses' = IF pair THEN [clauses EXCEPT ![n] = OrPair(clauses[n].term, x)]
                            ELSE Append(clauses, Term(x, neg))
      /\ pendingOr' = FALSE /\ raised' = raised
      /\ orWarned' = IF pendingOr /\ ~pair THEN orWarned + 1 ELSE orWarned
  BY DEF ReadTerm
<1>2. m.kind = "word" /\ m.term = x /\ m.kind \in SolidKinds /\ m.kind # "or"
  BY DEF Word, SolidKinds
<1>3. neg \in BOOLEAN
  OBVIOUS
<1>4. LastIsPairable => n # 0 /\ clauses[n].kind = "term"
  BY DEF LastIsPairable, QueryInv, QueryTypes
<1>. HIDE DEF m, neg, n
<1>5. /\ session' = session /\ ~raised /\ m \in TokensOf[session]
      /\ read' = Append(read, m) /\ read' \in Seq(TokensOf[session])
      /\ read \in Seq(TokensOf[session])
      /\ Waits(read') <=> m.kind = "or" \/ (m.kind \notin SolidKinds /\ Waits(read))
  BY <1>1, Taken
<1>6. /\ clauses \in Seq(ClausesOf(session)) /\ n \in Nat /\ Len(clauses) = n
      /\ \A i \in 1..n : clauses[i] \in ClausesOf(session)
      /\ orWarned \in Nat /\ Len(read) \in Nat
  BY DEF QueryInv, QueryTypes, n
<1>7. x \in WordsOf(session)
  BY <1>2, <1>5 DEF WordsOf
<1>8. (pendingOr <=> Waits(read)) /\ Cardinality(After(read)) = orWarned + Cardinality(Ors(clauses))
  BY <1>5 DEF QueryInv, OrIsPending, OrsAreCounted
<1>9. LastWordIs(read', x)
  BY <1>2, <1>5, LastWordMore
<1>10. \A p : Joined(read, p) => Joined(read', p)
  BY <1>5, JoinedMore
<1>11. After(read') = IF pendingOr THEN After(read) \cup {Len(read) + 1} ELSE After(read)
  BY <1>2, <1>5, <1>8, AfterMore
<1>12. /\ IsFiniteSet(After(read)) /\ Cardinality(After(read)) \in Nat
       /\ IsFiniteSet(Ors(clauses)) /\ Cardinality(Ors(clauses)) \in Nat
       /\ Len(read) + 1 \notin After(read)
  BY <1>6, Finite
<1>13. Cardinality(After(read')) =
         IF pendingOr THEN Cardinality(After(read)) + 1 ELSE Cardinality(After(read))
  BY <1>11, <1>12, FS_AddElement
<1>14. OrIsPending'
  BY <1>1, <1>2, <1>5 DEF OrIsPending
<1>15. CASE pair
  <2>1. n # 0 /\ clauses[n].kind = "term" /\ n \in 1..n
    BY <1>4, <1>6, <1>15
  <2> DEFINE l == clauses[n].term
             c == OrPair(l, x)
  <2>2. l \in WordsOf(session)
    <3>1. clauses[n] \in ClausesOf(session)
      BY <1>6, <2>1
    <3>. QED
      BY <2>1, <3>1 DEF ClausesOf, Term, OrPair
  <2>3. c \in ClausesOf(session) /\ c.kind = "or" /\ c.left = l /\ c.right = x
    BY <1>7, <2>2 DEF ClausesOf, OrPair
  <2>4. LastWordIs(read, l)
    <3>1. clauses # <<>>
      BY <1>6, <2>1
    <3>. QED
      BY <1>6, <2>1, <3>1 DEF QueryInv, LastIsOfLastWord, n
  <2>. HIDE DEF l, c
  <2>5. clauses' = [clauses EXCEPT ![n] = c]
    BY <1>1, <1>15 DEF c, l
  <2>6. /\ clauses' \in Seq(ClausesOf(session)) /\ Len(clauses') = n /\ clauses'[n] = c
        /\ \A i \in 1..n : i # n => clauses'[i] = clauses[i]
    BY <1>6, <2>1, <2>3, <2>5
  <2>7. Ors(clauses') = Ors(clauses) \cup {n} /\ n \notin Ors(clauses)
    BY <1>6, <2>1, <2>3, <2>6 DEF Ors
  <2>8. QueryTypes'
    BY <1>1, <1>5, <1>6, <1>15, <2>6 DEF QueryTypes, QueryInv
  <2>9. LastIsOfLastWord'
    BY <2>3, <2>6 DEF LastIsOfLastWord
  <2>10. Joined(read', <<l, x>>)
    <3>1. Joined(Append(read, m), <<l, m.term>>)
      BY <1>2, <1>5, <1>8, <1>15, <2>4, JoinedNow
    <3>. QED
      BY <1>2, <1>5, <3>1
  <2>11. Neighbours'
    <3>1. SUFFICES ASSUME NEW i \in Ors(clauses')
                   PROVE  Joined(read', <<clauses'[i].left, clauses'[i].right>>)
      BY DEF Neighbours
    <3>2. CASE i = n
      BY <2>3, <2>6, <2>10, <3>2
    <3>3. CASE i # n
      <4>1. i \in Ors(clauses) /\ clauses'[i] = clauses[i]
        BY <1>6, <2>6, <2>7, <3>3 DEF Ors
      <4>2. Joined(read, <<clauses[i].left, clauses[i].right>>)
        BY <4>1 DEF QueryInv, Neighbours
      <4>. QED
        BY <1>10, <4>1, <4>2
    <3>. QED
      BY <3>2, <3>3
  <2>12. Cardinality(Ors(clauses')) = Cardinality(Ors(clauses)) + 1
    BY <1>12, <2>7, FS_AddElement
  <2>13. OrsAreCounted'
    BY <1>1, <1>6, <1>8, <1>12, <1>13, <1>15, <2>12 DEF OrsAreCounted
  <2>. QED
    BY <1>14, <2>8, <2>9, <2>11, <2>13 DEF QueryInv
<1>16. CASE ~pair
  <2> DEFINE c == Term(x, neg)
  <2>1. c \in ClausesOf(session) /\ c.kind = "term" /\ c.term = x
    BY <1>3, <1>7 DEF ClausesOf, Term
  <2>. HIDE DEF c
  <2>2. clauses' = Append(clauses, c)
    BY <1>1, <1>16 DEF c
  <2>3. /\ clauses' \in Seq(ClausesOf(session)) /\ Len(clauses') = n + 1 /\ clauses'[n + 1] = c
        /\ \A i \in 1..n : clauses'[i] = clauses[i]
    BY <1>6, <2>1, <2>2
  <2>4. Ors(clauses') = Ors(clauses)
    <3>1. \A i \in 1..n + 1 : i = n + 1 \/ i \in 1..n
      BY <1>6
    <3>2. \A i \in 1..n : i \in 1..n + 1
      BY <1>6
    <3>. QED
      BY <1>6, <2>1, <2>3, <3>1, <3>2 DEF Ors
  <2>5. QueryTypes'
    <3>1. orWarned' \in Nat
      BY <1>1, <1>6
    <3>. QED
      BY <1>1, <1>5, <2>3, <3>1 DEF QueryTypes, QueryInv
  <2>6. LastIsOfLastWord'
    BY <1>9, <2>1, <2>3 DEF LastIsOfLastWord
  <2>7. Neighbours'
    <3>1. SUFFICES ASSUME NEW i \in Ors(clauses)
                   PROVE  Joined(read', <<clauses'[i].left, clauses'[i].right>>)
      BY <2>4 DEF Neighbours
    <3>2. clauses'[i] = clauses[i]
      BY <1>6, <2>3 DEF Ors
    <3>3. Joined(read, <<clauses[i].left, clauses[i].right>>)
      BY DEF QueryInv, Neighbours
    <3>. QED
      BY <1>10, <3>2, <3>3
  <2>8. OrsAreCounted'
    BY <1>1, <1>6, <1>8, <1>12, <1>13, <1>16, <2>4 DEF OrsAreCounted
  <2>. QED
    BY <1>14, <2>5, <2>6, <2>7, <2>8 DEF QueryInv
<1>. QED
  BY <1>15, <1>16

LEMMA QueryStep == QueryInv /\ [Next]_vars => QueryInv'
<1>. SUFFICES ASSUME QueryInv, [Next]_vars PROVE QueryInv'
  OBVIOUS
<1>1. CASE ReadAnd \/ ReadOr \/ ReadNot
  BY <1>1, OperatorKeeps
<1>2. ASSUME NEW k \in TokensOf[session], ReadTerm(k.term, k.dash) PROVE QueryInv'
  BY <1>2, TermKeeps
<1>3. ASSUME NEW k \in TokensOf[session], ReadFolder(k.folder) PROVE QueryInv'
  <2>1. Folder(k.folder).kind = "folder"
    BY DEF Folder
  <2>2. Take(Folder(k.folder)) /\ NoClause /\ UNCHANGED <<clauses, raised>>
    BY <1>3 DEF ReadFolder
  <2>. QED
    BY <2>1, <2>2, NoClauseKeeps
<1>4. ASSUME NEW k \in TokensOf[session], ReadFilter(k.field, k.value) PROVE QueryInv'
  <2>1. Filter(k.field, k.value).kind = "filter"
    BY DEF Filter
  <2>2. Take(Filter(k.field, k.value)) /\ NoClause /\ UNCHANGED <<clauses, raised>>
    BY <1>4 DEF ReadFilter, Replace
  <2>. QED
    BY <2>1, <2>2, NoClauseKeeps
<1>5. ASSUME NEW k \in TokensOf[session], ReadRaises(k.field, k.value) PROVE QueryInv'
  BY <1>5, RaiseKeeps
<1>6. CASE UNCHANGED vars
  BY <1>6 DEF vars, QueryInv, QueryTypes, OrIsPending, LastIsOfLastWord, Neighbours, OrsAreCounted
<1>. QED
  BY <1>1, <1>2, <1>3, <1>4, <1>5, <1>6 DEF Next

LEMMA QueryInit == Init => QueryInv
<1>. SUFFICES ASSUME Init PROVE QueryInv
  OBVIOUS
<1>1. read = <<>> /\ clauses = <<>> /\ orWarned = 0 /\ pendingOr = FALSE /\ raised = FALSE
  BY DEF Init
<1>2. After(<<>>) = {} /\ Ors(<<>>) = {} /\ ~Waits(<<>>)
  BY DEF After, Ors, Waits
<1>3. Cardinality({}) = 0
  BY FS_EmptySet
<1>4. QueryTypes
  <2>1. <<>> \in Seq(TokensOf[session]) /\ <<>> \in Seq(ClausesOf(session)) /\ 0 \in Nat
    OBVIOUS
  <2>. QED
    BY <1>1, <2>1 DEF QueryTypes
<1>5. OrIsPending /\ LastIsOfLastWord
  BY <1>1, <1>2 DEF OrIsPending, LastIsOfLastWord
<1>6. Neighbours
  BY <1>1, <1>2 DEF Neighbours
<1>7. After(read) = {} /\ Ors(clauses) = {}
  BY <1>1, <1>2
<1>8. OrsAreCounted
  <2>1. Cardinality(After(read)) = 0 /\ Cardinality(Ors(clauses)) = 0
    BY <1>3, <1>7
  <2>2. 0 = 0 + 0
    OBVIOUS
  <2>. QED
    BY <1>1, <2>1, <2>2 DEF OrsAreCounted
<1>. QED
  BY <1>4, <1>5, <1>6, <1>8 DEF QueryInv

LEMMA QueryAlways == Spec => []QueryInv
  BY QueryInit, QueryStep, PTL DEF Spec

-----------------------------------------------------------------------------
(* The clauses of a query *)

\* Where the words are, and what stands in front of a place.
WordsAt(s) == {i \in 1..Len(s) : s[i].kind = "word"}
OrAt(s, i) == \E j \in 1..i - 1 : /\ s[j].kind = "or"
                                  /\ \A n \in j + 1..i - 1 : s[n].kind \notin SolidKinds
NotAt(s, i) == \E j \in 1..i - 1 : /\ s[j].kind = "not"
                                   /\ \A n \in j + 1..i - 1 : s[n].kind # "word"
Before(s, j, i) == j \in 1..i - 1 /\ s[j].kind = "word" /\ \A n \in j + 1..i - 1 : s[n].kind # "word"
NegAt(s, i) == s[i].dash \/ NotAt(s, i)

\* A word joins the clause of the word before it, or heads a clause of its own.
Heads(h, i) == \E k \in 1..Len(h) : h[k] = i
Joins(s, h, i) == /\ OrAt(s, i) /\ ~NegAt(s, i)
                  /\ \E j \in 1..i - 1 : Heads(h, j) /\ Before(s, j, i) /\ ~NegAt(s, j)

\* Clause c is that of the word at i.
StandsAlone(s, h, i, c) ==
  /\ c.kind = "term" /\ c.term = s[i].term /\ (c.negate <=> NegAt(s, i))
  /\ \A k \in WordsAt(s) : Before(s, i, k) => Heads(h, k)
StandsJoined(s, h, i, c) ==
  /\ c.kind = "or" /\ c.left = s[i].term
  /\ \E k \in WordsAt(s) : Before(s, i, k) /\ ~Heads(h, k) /\ c.right = s[k].term

\* The words that head the clauses c, in order.
Homes(s, c, h) ==
  /\ h \in Seq(Nat) /\ Len(h) = Len(c)
  /\ \A k \in 1..Len(h) : h[k] \in WordsAt(s)
  /\ \A k, l \in 1..Len(h) : k < l => h[k] < h[l]
  /\ \A i \in WordsAt(s) : ~Heads(h, i) <=> Joins(s, h, i)
  /\ \A k \in 1..Len(h) : StandsAlone(s, h, h[k], c[k]) \/ StandsJoined(s, h, h[k], c[k])
  /\ \A i \in WordsAt(s) : Before(s, i, Len(s) + 1) =>
       Len(h) > 0 /\ (i = h[Len(h)] \/ Before(s, h[Len(h)], i))
  /\ Len(h) > 0 => \E i \in WordsAt(s) : Before(s, i, Len(s) + 1)

\* What stands in front of a place is not changed by what comes after it.
LEMMA FrontStays ==
  ASSUME NEW S, NEW s \in Seq(S), NEW m \in S, NEW i \in 1..Len(s) + 1
  PROVE  LET t == Append(s, m)
         IN /\ OrAt(t, i) <=> OrAt(s, i)
            /\ NotAt(t, i) <=> NotAt(s, i)
            /\ \A j : Before(t, j, i) <=> Before(s, j, i)
<1> DEFINE t == Append(s, m)
           n == Len(s)
<1>1. /\ n \in Nat /\ Len(t) = n + 1 /\ t[n + 1] = m /\ \A k \in 1..n : t[k] = s[k]
  BY Longer
<1>. HIDE DEF t
<1>2. \A j \in 1..i - 1 : j \in 1..n /\ \A k \in j + 1..i - 1 : k \in 1..n
  BY <1>1
<1>. HIDE DEF n
<1>3. \A j \in 1..i - 1 : t[j] = s[j] /\ \A k \in j + 1..i - 1 : t[k] = s[k]
  BY <1>1, <1>2
<1>4. OrAt(t, i) <=> OrAt(s, i)
  BY <1>3 DEF OrAt
<1>5. NotAt(t, i) <=> NotAt(s, i)
  BY <1>3 DEF NotAt
<1>6. \A j : Before(t, j, i) <=> Before(s, j, i)
  BY <1>3 DEF Before
<1>. QED
  BY <1>4, <1>5, <1>6 DEF t

\* What stands in front of the place after the last.
LEMMA FrontMore ==
  ASSUME NEW S, NEW s \in Seq(S), NEW m \in S
  PROVE  LET t == Append(s, m)
             n == Len(s)
         IN /\ NotAt(t, n + 2) <=> m.kind = "not" \/ (m.kind # "word" /\ NotAt(s, n + 1))
            /\ m.kind = "word" => \A j : Before(t, j, n + 2) <=> j = n + 1
            /\ m.kind # "word" => \A j : Before(t, j, n + 2) <=> Before(s, j, n + 1)
<1> DEFINE t == Append(s, m)
           n == Len(s)
<1>1. /\ n \in Nat /\ Len(t) = n + 1 /\ t[n + 1] = m /\ \A k \in 1..n : t[k] = s[k]
  BY Longer
<1>. HIDE DEF t, n
<1>2. /\ (n + 2) - 1 = n + 1 /\ (n + 1) - 1 = n /\ n + 1 \in 1..n + 1
      /\ (n + 1) + 1..n + 1 = {}
      /\ \A j \in 1..n : j \in 1..n + 1 /\ n + 1 \in j + 1..n + 1
      /\ \A j \in 1..n + 1 : j = n + 1 \/ j \in 1..n
      /\ \A j \in 1..n : \A k \in j + 1..n + 1 : k = n + 1 \/ (k \in 1..n /\ k \in j + 1..n)
      /\ \A j \in 1..n : \A k \in j + 1..n : k \in 1..n /\ k \in j + 1..n + 1
  BY <1>1
<1>3. \A j \in 1..n : \A k \in j + 1..n : t[k] = s[k] /\ k \in j + 1..n + 1
  BY <1>1, <1>2
<1>4. \A j \in 1..n : (\A k \in j + 1..n + 1 : t[k].kind # "word") <=>
                        m.kind # "word" /\ \A k \in j + 1..n : s[k].kind # "word"
  <2>1. SUFFICES ASSUME NEW j \in 1..n
                 PROVE  (\A k \in j + 1..n + 1 : t[k].kind # "word") <=>
                          m.kind # "word" /\ \A k \in j + 1..n : s[k].kind # "word"
    OBVIOUS
  <2>2. n + 1 \in j + 1..n + 1 /\ \A k \in j + 1..n + 1 : k = n + 1 \/ k \in j + 1..n
    BY <1>2
  <2>. QED
    BY <1>1, <1>3, <2>2
<1>5. NotAt(t, n + 2) <=> \E j \in 1..n + 1 : /\ t[j].kind = "not"
                                              /\ \A k \in j + 1..n + 1 : t[k].kind # "word"
  BY <1>2 DEF NotAt
<1>6. NotAt(s, n + 1) <=> \E j \in 1..n : /\ s[j].kind = "not"
                                          /\ \A k \in j + 1..n : s[k].kind # "word"
  BY <1>2 DEF NotAt
<1>7. NotAt(t, n + 2) <=> m.kind = "not" \/ (m.kind # "word" /\ NotAt(s, n + 1))
  <2>1. ASSUME m.kind = "not" PROVE NotAt(t, n + 2)
    BY <1>1, <1>2, <1>5, <2>1
  <2>2. ASSUME m.kind # "word", NotAt(s, n + 1) PROVE NotAt(t, n + 2)
    BY <1>1, <1>2, <1>4, <1>5, <1>6, <2>2
  <2>3. ASSUME NotAt(t, n + 2), m.kind # "not" PROVE m.kind # "word" /\ NotAt(s, n + 1)
    <3>1. PICK j \in 1..n + 1 : t[j].kind = "not" /\ \A k \in j + 1..n + 1 : t[k].kind # "word"
      BY <1>5, <2>3
    <3>2. j \in 1..n
      BY <1>1, <1>2, <2>3, <3>1
    <3>. QED
      BY <1>1, <1>4, <1>6, <3>1, <3>2
  <2>. QED
    BY <2>1, <2>2, <2>3
<1>8. \A j : Before(t, j, n + 2) <=> /\ j \in 1..n + 1 /\ t[j].kind = "word"
                                     /\ \A k \in j + 1..n + 1 : t[k].kind # "word"
  BY <1>2 DEF Before
<1>9. \A j : Before(s, j, n + 1) <=> /\ j \in 1..n /\ s[j].kind = "word"
                                     /\ \A k \in j + 1..n : s[k].kind # "word"
  BY <1>2 DEF Before
<1>10. ASSUME m.kind = "word", NEW j PROVE Before(t, j, n + 2) <=> j = n + 1
  <2>1. ASSUME j = n + 1 PROVE Before(t, j, n + 2)
    BY <1>1, <1>2, <1>8, <1>10, <2>1
  <2>2. ASSUME Before(t, j, n + 2), j # n + 1 PROVE FALSE
    <3>1. j \in 1..n
      BY <1>2, <1>8, <2>2
    <3>. QED
      BY <1>4, <1>8, <1>10, <2>2, <3>1
  <2>. QED
    BY <2>1, <2>2
<1>11. ASSUME m.kind # "word", NEW j PROVE Before(t, j, n + 2) <=> Before(s, j, n + 1)
  <2>1. ASSUME Before(t, j, n + 2) PROVE Before(s, j, n + 1)
    <3>1. j \in 1..n
      BY <1>1, <1>2, <1>8, <1>11, <2>1
    <3>. QED
      BY <1>1, <1>4, <1>8, <1>9, <2>1, <3>1
  <2>2. ASSUME Before(s, j, n + 1) PROVE Before(t, j, n + 2)
    <3>1. j \in 1..n /\ s[j].kind = "word" /\ \A k \in j + 1..n : s[k].kind # "word"
      BY <1>9, <2>2
    <3>2. \A k \in j + 1..n + 1 : t[k].kind # "word"
      BY <1>4, <1>11, <3>1
    <3>3. j \in 1..n + 1 /\ t[j].kind = "word"
      BY <1>1, <1>2, <3>1
    <3>. QED
      BY <1>8, <3>2, <3>3
  <2>. QED
    BY <2>1, <2>2
<1>. QED
  BY <1>7, <1>10, <1>11 DEF t, n

\* The words of a query with a token more.
LEMMA WordsMore ==
  ASSUME NEW S, NEW s \in Seq(S), NEW m \in S
  PROVE  LET t == Append(s, m)
             n == Len(s)
         IN /\ n + 1 \in WordsAt(t) <=> m.kind = "word"
            /\ \A i \in WordsAt(s) : i \in WordsAt(t) /\ i \in 1..n
            /\ \A i \in WordsAt(t) : i # n + 1 => i \in WordsAt(s)
            /\ \A i \in 1..n : t[i] = s[i]
            /\ t[n + 1] = m /\ Len(t) = n + 1 /\ n \in Nat
            /\ \A i \in 1..n : /\ NegAt(t, i) <=> NegAt(s, i)
                               /\ OrAt(t, i) <=> OrAt(s, i)
                               /\ \A j : Before(t, j, i) <=> Before(s, j, i)
            /\ NegAt(t, n + 1) <=> m.dash \/ NotAt(s, n + 1)
            /\ OrAt(t, n + 1) <=> OrAt(s, n + 1)
            /\ \A j : Before(t, j, n + 1) <=> Before(s, j, n + 1)
<1> DEFINE t == Append(s, m)
           n == Len(s)
<1>1. /\ n \in Nat /\ Len(t) = n + 1 /\ t[n + 1] = m /\ \A k \in 1..n : t[k] = s[k]
  BY Longer
<1>2. \A i \in 1..n + 1 : /\ OrAt(t, i) <=> OrAt(s, i)
                          /\ NotAt(t, i) <=> NotAt(s, i)
                          /\ \A j : Before(t, j, i) <=> Before(s, j, i)
  BY FrontStays
<1>. HIDE DEF t
<1>3. WordsAt(s) = {i \in 1..n : s[i].kind = "word"}
  BY DEF WordsAt
<1>. HIDE DEF n
<1>4. WordsAt(t) = {i \in 1..n + 1 : t[i].kind = "word"}
  BY <1>1 DEF WordsAt
<1>5. n + 1 \in 1..n + 1 /\ (\A i \in 1..n : i \in 1..n + 1) /\ \A i \in 1..n + 1 : i = n + 1 \/ i \in 1..n
  BY <1>1, UpToMore
<1>6. \A i \in WordsAt(s) : i \in WordsAt(t) /\ i \in 1..n
  BY <1>1, <1>3, <1>4, <1>5
<1>7. \A i \in WordsAt(t) : i # n + 1 => i \in WordsAt(s)
  BY <1>1, <1>3, <1>4, <1>5
<1>8. n + 1 \in WordsAt(t) <=> m.kind = "word"
  BY <1>1, <1>4, <1>5
<1>9. \A i \in 1..n : NegAt(t, i) <=> NegAt(s, i)
  BY <1>1, <1>2, <1>5 DEF NegAt
<1>10. NegAt(t, n + 1) <=> m.dash \/ NotAt(s, n + 1)
  BY <1>1, <1>2, <1>5 DEF NegAt
<1>. QED
  BY <1>1, <1>2, <1>5, <1>6, <1>7, <1>8, <1>9, <1>10 DEF t, n

LEMMA OneBefore ==
  ASSUME NEW s, NEW i \in Nat, NEW j, NEW k, Before(s, j, i), Before(s, k, i)
  PROVE  j = k
<1>1. j \in 1..i - 1 /\ k \in 1..i - 1
  BY DEF Before
<1>2. CASE j < k
  <2>1. k \in j + 1..i - 1
    BY <1>1, <1>2
  <2>. QED
    BY <2>1 DEF Before
<1>3. CASE k < j
  <2>1. j \in k + 1..i - 1
    BY <1>1, <1>3
  <2>. QED
    BY <2>1 DEF Before
<1>. QED
  BY <1>1, <1>2, <1>3

\* A token that is no word.
LEMMA HomesOther ==
  ASSUME NEW S, NEW s \in Seq(S), NEW m \in S, m.kind # "word", NEW c, NEW h, Homes(s, c, h)
  PROVE  Homes(Append(s, m), c, h)
<1> DEFINE t == Append(s, m)
           n == Len(s)
<1>1. /\ n \in Nat /\ Len(t) = n + 1 /\ n + 1 \notin WordsAt(t)
      /\ \A i \in WordsAt(s) : i \in WordsAt(t) /\ i \in 1..n
      /\ \A i \in WordsAt(t) : i # n + 1 => i \in WordsAt(s)
      /\ \A i \in 1..n : t[i] = s[i]
      /\ \A i \in 1..n : /\ NegAt(t, i) <=> NegAt(s, i)
                         /\ OrAt(t, i) <=> OrAt(s, i)
                         /\ \A j : Before(t, j, i) <=> Before(s, j, i)
  BY WordsMore
<1>2. \A j : Before(t, j, n + 2) <=> Before(s, j, n + 1)
  BY FrontMore
<1>. HIDE DEF t
<1>3. WordsAt(t) = WordsAt(s)
  BY <1>1
<1>4. (n + 1) + 1 = n + 2
  BY <1>1
<1>5. Homes(s, c, h) /\ n = Len(s)
  OBVIOUS
<1>. HIDE DEF n
<1>6. h \in Seq(Nat) /\ Len(h) = Len(c) /\ \A k, l \in 1..Len(h) : k < l => h[k] < h[l]
  BY <1>5 DEF Homes
<1>7. \A k \in 1..Len(h) : h[k] \in WordsAt(t) /\ h[k] \in 1..n
  BY <1>1, <1>3, <1>5 DEF Homes
<1>8. ASSUME NEW i \in WordsAt(t) PROVE Joins(t, h, i) <=> Joins(s, h, i)
  <2>1. i \in 1..n /\ \A j \in 1..i - 1 : j \in 1..n
    BY <1>1, <1>3
  <2>. QED
    BY <1>1, <2>1 DEF Joins
<1>9. \A i \in WordsAt(t) : ~Heads(h, i) <=> Joins(t, h, i)
  BY <1>3, <1>5, <1>8 DEF Homes
<1>10. ASSUME NEW k \in 1..Len(h)
       PROVE  StandsAlone(t, h, h[k], c[k]) \/ StandsJoined(t, h, h[k], c[k])
  <2>1. h[k] \in 1..n /\ \A i \in WordsAt(t) : i \in 1..n
    BY <1>1, <1>3, <1>7
  <2>2. CASE StandsAlone(s, h, h[k], c[k])
    BY <1>1, <1>3, <2>1, <2>2 DEF StandsAlone
  <2>3. CASE StandsJoined(s, h, h[k], c[k])
    <3>1. PICK i \in WordsAt(s) : Before(s, h[k], i) /\ ~Heads(h, i) /\ c[k].right = s[i].term
      BY <2>3 DEF StandsJoined
    <3>2. i \in WordsAt(t) /\ Before(t, h[k], i) /\ c[k].right = t[i].term
      BY <1>1, <1>3, <2>1, <3>1
    <3>3. c[k].kind = "or" /\ c[k].left = t[h[k]].term
      BY <1>1, <2>1, <2>3 DEF StandsJoined
    <3>. QED
      BY <3>1, <3>2, <3>3 DEF StandsJoined
  <2>. QED
    BY <1>5, <2>2, <2>3 DEF Homes
<1>11. \A i \in WordsAt(t) : Before(t, i, Len(t) + 1) =>
         Len(h) > 0 /\ (i = h[Len(h)] \/ Before(t, h[Len(h)], i))
  <2>1. SUFFICES ASSUME NEW i \in WordsAt(t), Before(t, i, n + 2)
                 PROVE  Len(h) > 0 /\ (i = h[Len(h)] \/ Before(t, h[Len(h)], i))
    BY <1>1, <1>4
  <2>2. Before(s, i, n + 1) /\ i \in WordsAt(s) /\ i \in 1..n
    BY <1>1, <1>2, <1>3, <2>1
  <2>3. Len(h) > 0 /\ (i = h[Len(h)] \/ Before(s, h[Len(h)], i))
    BY <1>5, <2>2 DEF Homes
  <2>. QED
    BY <1>1, <2>2, <2>3
<1>12. Len(h) > 0 => \E i \in WordsAt(t) : Before(t, i, Len(t) + 1)
  <2>1. SUFFICES ASSUME Len(h) > 0 PROVE \E i \in WordsAt(t) : Before(t, i, n + 2)
    BY <1>1, <1>4
  <2>2. PICK i \in WordsAt(s) : Before(s, i, n + 1)
    BY <1>5, <2>1 DEF Homes
  <2>. QED
    BY <1>2, <1>3, <2>2
<1>13. Homes(t, c, h)
  BY <1>6, <1>7, <1>9, <1>10, <1>11, <1>12 DEF Homes
<1>. QED
  BY <1>13 DEF t

\* The last clause may be joined when the last word heads it and is not excluded.
LEMMA PairableIs ==
  ASSUME NEW S, NEW s \in Seq(S), NEW C, NEW c \in Seq(C), NEW h, Homes(s, c, h)
  PROVE  c # <<>> /\ c[Len(c)].kind = "term" /\ ~c[Len(c)].negate <=>
           \E j \in 1..Len(s) : Heads(h, j) /\ Before(s, j, Len(s) + 1) /\ ~NegAt(s, j)
<1> DEFINE n == Len(s)
           e == Len(h)
<1>1. /\ n \in Nat /\ e \in Nat /\ Len(c) = e /\ e \in Nat
      /\ \A k \in 1..e : h[k] \in WordsAt(s)
      /\ \A k, l \in 1..e : k < l => h[k] < h[l]
      /\ WordsAt(s) \subseteq 1..n
  BY DEF Homes, WordsAt
<1>2. \A k \in 1..e : StandsAlone(s, h, h[k], c[k]) \/ StandsJoined(s, h, h[k], c[k])
  BY DEF Homes
<1>3. c # <<>> <=> e > 0
  BY <1>1
<1>4. /\ \A i \in WordsAt(s) : Before(s, i, n + 1) => e > 0 /\ (i = h[e] \/ Before(s, h[e], i))
      /\ e > 0 => \E i \in WordsAt(s) : Before(s, i, n + 1)
  BY DEF Homes
<1>5. \A i : Heads(h, i) <=> \E k \in 1..e : h[k] = i
  BY DEF Heads
<1>. HIDE DEF n, e
<1>6. e > 0 => e \in 1..e
  BY <1>1
<1>7. ASSUME e > 0, c[e].kind = "term", ~c[e].negate
      PROVE  \E j \in 1..n : Heads(h, j) /\ Before(s, j, n + 1) /\ ~NegAt(s, j)
  <2>1. StandsAlone(s, h, h[e], c[e])
    BY <1>2, <1>6, <1>7 DEF StandsJoined
  <2>2. ~NegAt(s, h[e]) /\ h[e] \in WordsAt(s) /\ h[e] \in 1..n
    BY <1>1, <1>6, <1>7, <2>1 DEF StandsAlone
  <2>3. PICK i \in WordsAt(s) : Before(s, i, n + 1)
    BY <1>4, <1>7
  <2>4. i = h[e]
    <3>1. SUFFICES ASSUME Before(s, h[e], i) PROVE FALSE
      BY <1>4, <2>3
    <3>2. Heads(h, i)
      BY <2>1, <3>1 DEF StandsAlone
    <3>3. PICK k \in 1..e : h[k] = i
      BY <1>5, <3>2
    <3>4. h[e] < i /\ i \in Nat /\ h[e] \in Nat
      BY <1>1, <2>2, <3>1 DEF Before
    <3>5. k = e \/ (k < e /\ h[k] < h[e])
      BY <1>1, <1>6, <1>7
    <3>. QED
      BY <3>3, <3>4, <3>5
  <2>. QED
    BY <1>5, <1>6, <1>7, <2>2, <2>3, <2>4
<1>8. ASSUME NEW j \in 1..n, Heads(h, j), Before(s, j, n + 1), ~NegAt(s, j)
      PROVE  e > 0 /\ c[e].kind = "term" /\ ~c[e].negate /\ j = h[e]
  <2>1. j \in WordsAt(s)
    BY <1>1, <1>5, <1>8
  <2>2. e > 0 /\ (j = h[e] \/ Before(s, h[e], j))
    BY <1>4, <1>8, <2>1
  <2>3. PICK k \in 1..e : h[k] = j
    BY <1>5, <1>8
  <2>4. j = h[e]
    <3>1. SUFFICES ASSUME Before(s, h[e], j) PROVE FALSE
      BY <2>2
    <3>2. h[e] \in 1..n /\ h[e] < j
      BY <1>1, <1>6, <2>2, <3>1 DEF Before
    <3>3. k = e \/ (k < e /\ h[k] < h[e])
      BY <1>1, <1>6, <2>2
    <3>. QED
      BY <1>1, <2>3, <3>2, <3>3
  <2>5. ~StandsJoined(s, h, h[e], c[e])
    <3>1. SUFFICES ASSUME NEW i \in WordsAt(s), Before(s, j, i) PROVE FALSE
      BY <2>4 DEF StandsJoined
    <3>2. i \in 1..n /\ j \in 1..i - 1 /\ s[i].kind = "word"
      BY <1>1, <3>1 DEF Before, WordsAt
    <3>3. i \in j + 1..(n + 1) - 1
      BY <1>1, <3>2
    <3>. QED
      BY <1>8, <3>2, <3>3 DEF Before
  <2>6. StandsAlone(s, h, h[e], c[e])
    BY <1>2, <1>6, <2>2, <2>5
  <2>. QED
    BY <1>8, <2>2, <2>4, <2>6 DEF StandsAlone
<1>9. c # <<>> /\ c[e].kind = "term" /\ ~c[e].negate <=>
        \E j \in 1..n : Heads(h, j) /\ Before(s, j, n + 1) /\ ~NegAt(s, j)
  BY <1>3, <1>7, <1>8
<1>. QED
  BY <1>1, <1>9 DEF n

\* A word that joins the last clause.
LEMMA HomesJoin ==
  ASSUME NEW S, NEW s \in Seq(S), NEW m \in S, m.kind = "word",
         NEW C, NEW c \in Seq(C), NEW d \in Seq(C), NEW h, Homes(s, c, h),
         OrAt(s, Len(s) + 1), ~(m.dash \/ NotAt(s, Len(s) + 1)),
         c # <<>>, c[Len(c)].kind = "term", ~c[Len(c)].negate,
         Len(d) = Len(c), \A k \in 1..Len(c) : k # Len(c) => d[k] = c[k],
         d[Len(c)].kind = "or", d[Len(c)].left = c[Len(c)].term, d[Len(c)].right = m.term
  PROVE  Homes(Append(s, m), d, h)
<1> DEFINE t == Append(s, m)
           n == Len(s)
           e == Len(h)
<1>1. /\ n \in Nat /\ Len(t) = n + 1 /\ n + 1 \in WordsAt(t) /\ t[n + 1] = m
      /\ \A i \in WordsAt(s) : i \in WordsAt(t) /\ i \in 1..n
      /\ \A i \in WordsAt(t) : i # n + 1 => i \in WordsAt(s)
      /\ \A i \in 1..n : t[i] = s[i]
      /\ \A i \in 1..n : /\ NegAt(t, i) <=> NegAt(s, i)
                         /\ OrAt(t, i) <=> OrAt(s, i)
                         /\ \A j : Before(t, j, i) <=> Before(s, j, i)
      /\ ~NegAt(t, n + 1) /\ OrAt(t, n + 1)
      /\ \A j : Before(t, j, n + 1) <=> Before(s, j, n + 1)
  BY WordsMore
<1>2. \A j : Before(t, j, n + 2) <=> j = n + 1
  BY FrontMore
<1>3. PICK j \in 1..n : Heads(h, j) /\ Before(s, j, n + 1) /\ ~NegAt(s, j)
  BY PairableIs
<1>. HIDE DEF t
<1>4. /\ h \in Seq(Nat) /\ Len(h) = Len(c) /\ e \in Nat
      /\ \A k \in 1..e : h[k] \in WordsAt(s)
      /\ \A k, l \in 1..e : k < l => h[k] < h[l]
      /\ \A i \in WordsAt(s) : ~Heads(h, i) <=> Joins(s, h, i)
      /\ \A k \in 1..e : StandsAlone(s, h, h[k], c[k]) \/ StandsJoined(s, h, h[k], c[k])
      /\ \A i \in WordsAt(s) : Before(s, i, n + 1) => e > 0 /\ (i = h[e] \/ Before(s, h[e], i))
  BY DEF Homes
<1>. HIDE DEF n
<1>5. \A i : Heads(h, i) <=> \E k \in 1..e : h[k] = i
  BY DEF Heads
<1>6. /\ e = Len(c) /\ e > 0 /\ e \in 1..e
      /\ Len(d) = e /\ \A k \in 1..e : k # e => d[k] = c[k]
      /\ d[e].kind = "or" /\ d[e].left = c[e].term /\ d[e].right = m.term
      /\ c[e].kind = "term"
  BY <1>4
<1>. HIDE DEF e
<1>7. \A k \in 1..e : h[k] \in 1..n /\ h[k] \in WordsAt(t)
  BY <1>1, <1>4
<1>8. n + 1 \notin 1..n /\ n + 1 \in Nat /\ (n + 1) + 1 = n + 2
  BY <1>1
<1>9. ~Heads(h, n + 1) /\ \A i : Heads(h, i) => i \in 1..n
  BY <1>5, <1>7, <1>8
<1>10. j = h[e]
  <2>1. j \in WordsAt(s)
    BY <1>3, <1>4, <1>5
  <2>2. j = h[e] \/ Before(s, h[e], j)
    BY <1>3, <1>4, <2>1
  <2>3. PICK k \in 1..e : h[k] = j
    BY <1>3, <1>5
  <2>4. ASSUME Before(s, h[e], j) PROVE FALSE
    <3>1. h[e] \in Nat /\ h[e] < j
      BY <1>6, <1>7, <2>4 DEF Before
    <3>2. k = e \/ (k < e /\ h[k] < h[e])
      BY <1>4, <1>6
    <3>. QED
      BY <2>3, <3>1, <3>2
  <2>. QED
    BY <2>2, <2>4
<1>11. Joins(t, h, n + 1)
  <2>1. j \in 1..(n + 1) - 1 /\ j \in 1..n
    BY <1>1
  <2>2. Before(t, j, n + 1) /\ ~NegAt(t, j)
    BY <1>1, <1>3
  <2>. QED
    BY <1>1, <1>3, <2>1, <2>2 DEF Joins
<1>12. ASSUME NEW i \in WordsAt(t), i # n + 1 PROVE ~Heads(h, i) <=> Joins(t, h, i)
  <2>1. i \in WordsAt(s) /\ i \in 1..n /\ \A k \in 1..i - 1 : k \in 1..n
    BY <1>1, <1>12
  <2>2. Joins(t, h, i) <=> Joins(s, h, i)
    BY <1>1, <2>1 DEF Joins
  <2>. QED
    BY <1>4, <2>1, <2>2
<1>13. \A i \in WordsAt(t) : ~Heads(h, i) <=> Joins(t, h, i)
  BY <1>9, <1>11, <1>12
<1>14. ASSUME NEW k \in 1..e, k # e
       PROVE  StandsAlone(t, h, h[k], d[k]) \/ StandsJoined(t, h, h[k], d[k])
  <2>1. h[k] \in 1..n /\ d[k] = c[k] /\ t[h[k]] = s[h[k]]
    BY <1>1, <1>6, <1>7, <1>14
  <2>2. ~Before(t, h[k], n + 1)
    <3>1. h[k] < h[e]
      BY <1>1, <1>4, <1>6, <1>14
    <3>2. ~(h[k] = h[e])
      BY <1>7, <2>1, <3>1
    <3>3. Before(t, h[e], n + 1)
      BY <1>1, <1>3, <1>10
    <3>. QED
      BY <1>8, <3>2, <3>3, OneBefore
  <2>3. CASE StandsAlone(s, h, h[k], c[k])
    <3>1. \A i \in WordsAt(t) : Before(t, h[k], i) => Heads(h, i)
      <4>1. SUFFICES ASSUME NEW i \in WordsAt(t), Before(t, h[k], i) PROVE Heads(h, i)
        OBVIOUS
      <4>2. i \in WordsAt(s) /\ i \in 1..n
        BY <1>1, <2>2, <4>1
      <4>3. Before(s, h[k], i)
        BY <1>1, <4>1, <4>2
      <4>. QED
        BY <2>3, <4>2, <4>3 DEF StandsAlone
    <3>2. d[k].kind = "term" /\ d[k].term = t[h[k]].term /\ (d[k].negate <=> NegAt(t, h[k]))
      BY <1>1, <2>1, <2>3 DEF StandsAlone
    <3>. QED
      BY <3>1, <3>2 DEF StandsAlone
  <2>4. CASE StandsJoined(s, h, h[k], c[k])
    <3>1. PICK i \in WordsAt(s) : Before(s, h[k], i) /\ ~Heads(h, i) /\ c[k].right = s[i].term
      BY <2>4 DEF StandsJoined
    <3>2. i \in WordsAt(t) /\ Before(t, h[k], i) /\ d[k].right = t[i].term
      BY <1>1, <2>1, <3>1
    <3>3. d[k].kind = "or" /\ d[k].left = t[h[k]].term
      BY <2>1, <2>4 DEF StandsJoined
    <3>. QED
      BY <3>1, <3>2, <3>3 DEF StandsJoined
  <2>. QED
    BY <1>4, <2>3, <2>4
<1>15. StandsJoined(t, h, h[e], d[e])
  <2>1. h[e] \in 1..n /\ t[h[e]] = s[h[e]]
    BY <1>1, <1>6, <1>7
  <2>2. c[e].term = s[h[e]].term
    <3>1. StandsAlone(s, h, h[e], c[e])
      BY <1>4, <1>6 DEF StandsJoined
    <3>. QED
      BY <3>1 DEF StandsAlone
  <2>3. Before(t, h[e], n + 1)
    BY <1>1, <1>3, <1>10
  <2>4. d[e].kind = "or" /\ d[e].left = t[h[e]].term /\ d[e].right = t[n + 1].term
    BY <1>1, <1>6, <2>1, <2>2
  <2>. QED
    BY <1>1, <1>9, <2>3, <2>4 DEF StandsJoined
<1>16. \A i \in WordsAt(t) : Before(t, i, Len(t) + 1) => e > 0 /\ (i = h[e] \/ Before(t, h[e], i))
  <2>1. SUFFICES ASSUME NEW i \in WordsAt(t), Before(t, i, n + 2) PROVE Before(t, h[e], i)
    BY <1>1, <1>6, <1>8
  <2>2. i = n + 1
    BY <1>2, <2>1
  <2>. QED
    BY <1>1, <1>3, <1>10, <2>2
<1>17. \E i \in WordsAt(t) : Before(t, i, Len(t) + 1)
  BY <1>1, <1>2, <1>8
<1>18. Homes(t, d, h)
  <2>1. \A k \in 1..e : StandsAlone(t, h, h[k], d[k]) \/ StandsJoined(t, h, h[k], d[k])
    BY <1>14, <1>15
  <2>. QED
    BY <1>4, <1>6, <1>7, <1>13, <1>16, <1>17, <2>1 DEF Homes, e
<1>. QED
  BY <1>18 DEF t

\* A word that makes a clause of its own.
LEMMA HomesAlone ==
  ASSUME NEW S, NEW s \in Seq(S), NEW m \in S, m.kind = "word",
         NEW C, NEW c \in Seq(C), NEW x \in C, NEW h, Homes(s, c, h),
         x.kind = "term", x.term = m.term, x.negate <=> m.dash \/ NotAt(s, Len(s) + 1),
         ~(/\ OrAt(s, Len(s) + 1) /\ ~(m.dash \/ NotAt(s, Len(s) + 1))
           /\ c # <<>> /\ c[Len(c)].kind = "term" /\ ~c[Len(c)].negate)
  PROVE  Homes(Append(s, m), Append(c, x), Append(h, Len(s) + 1))
<1> DEFINE t == Append(s, m)
           n == Len(s)
           d == Append(c, x)
           e == Len(h)
           g == Append(h, n + 1)
<1>1. /\ n \in Nat /\ Len(t) = n + 1 /\ n + 1 \in WordsAt(t) /\ t[n + 1] = m
      /\ \A i \in WordsAt(s) : i \in WordsAt(t) /\ i \in 1..n
      /\ \A i \in WordsAt(t) : i # n + 1 => i \in WordsAt(s)
      /\ \A i \in 1..n : t[i] = s[i]
      /\ \A i \in 1..n : /\ NegAt(t, i) <=> NegAt(s, i)
                         /\ OrAt(t, i) <=> OrAt(s, i)
                         /\ \A j : Before(t, j, i) <=> Before(s, j, i)
      /\ NegAt(t, n + 1) <=> m.dash \/ NotAt(s, n + 1)
      /\ OrAt(t, n + 1) <=> OrAt(s, n + 1)
      /\ \A j : Before(t, j, n + 1) <=> Before(s, j, n + 1)
  BY WordsMore
<1>2. \A j : Before(t, j, n + 2) <=> j = n + 1
  BY FrontMore
<1>3. ~(/\ OrAt(s, n + 1) /\ ~(m.dash \/ NotAt(s, n + 1))
        /\ \E j \in 1..n : Heads(h, j) /\ Before(s, j, n + 1) /\ ~NegAt(s, j))
  BY PairableIs
<1>. HIDE DEF t
<1>4. /\ h \in Seq(Nat) /\ Len(h) = Len(c) /\ e \in Nat
      /\ \A k \in 1..e : h[k] \in WordsAt(s)
      /\ \A k, l \in 1..e : k < l => h[k] < h[l]
      /\ \A i \in WordsAt(s) : ~Heads(h, i) <=> Joins(s, h, i)
      /\ \A k \in 1..e : StandsAlone(s, h, h[k], c[k]) \/ StandsJoined(s, h, h[k], c[k])
  BY DEF Homes
<1>5. /\ g \in Seq(Nat) /\ Len(g) = e + 1 /\ g[e + 1] = n + 1 /\ \A k \in 1..e : g[k] = h[k]
  BY <1>1, <1>4
<1>6. /\ Len(d) = e + 1 /\ d[e + 1] = x /\ \A k \in 1..e : d[k] = c[k]
  BY <1>4
<1>. HIDE DEF n, g, d
<1>7. \A i : Heads(h, i) <=> \E k \in 1..e : h[k] = i
  BY DEF Heads
<1>. HIDE DEF e
<1>8. \A k \in 1..e : h[k] \in 1..n /\ h[k] \in WordsAt(t)
  BY <1>1, <1>4
<1>9. /\ n + 1 \notin 1..n /\ n + 1 \in Nat /\ (n + 1) + 1 = n + 2
      /\ e + 1 \in 1..e + 1 /\ (\A k \in 1..e : k \in 1..e + 1)
      /\ \A k \in 1..e + 1 : k = e + 1 \/ k \in 1..e
  <2>1. n \in Nat /\ e \in Nat
    BY <1>1, <1>4
  <2>2. n + 1 \notin 1..n /\ n + 1 \in Nat /\ (n + 1) + 1 = n + 2
    BY <2>1
  <2>. QED
    BY <2>1, <2>2, UpToMore
<1>10. \A i : Heads(g, i) <=> Heads(h, i) \/ i = n + 1
  <2>1. \A i : Heads(g, i) <=> \E k \in 1..e + 1 : g[k] = i
    BY <1>5 DEF Heads
  <2>2. ASSUME NEW i, Heads(g, i), i # n + 1 PROVE Heads(h, i)
    <3>1. PICK k \in 1..e + 1 : g[k] = i
      BY <2>1, <2>2
    <3>2. k \in 1..e
      BY <1>5, <1>9, <2>2, <3>1
    <3>. QED
      BY <1>5, <1>7, <3>1, <3>2
  <2>3. ASSUME NEW i, Heads(h, i) PROVE Heads(g, i)
    <3>1. PICK k \in 1..e : h[k] = i
      BY <1>7, <2>3
    <3>. QED
      BY <1>5, <1>9, <2>1, <3>1
  <2>4. Heads(g, n + 1)
    BY <1>5, <1>9, <2>1
  <2>. QED
    BY <2>2, <2>3, <2>4
<1>11. \A k, l \in 1..e + 1 : k < l => g[k] < g[l]
  <2>1. SUFFICES ASSUME NEW k \in 1..e + 1, NEW l \in 1..e + 1, k < l PROVE g[k] < g[l]
    OBVIOUS
  <2>2. k \in 1..e
    BY <1>4, <2>1
  <2>3. CASE l = e + 1
    <3>1. g[k] \in 1..n /\ g[l] = n + 1
      BY <1>5, <1>8, <2>2, <2>3
    <3>. QED
      BY <1>1, <3>1
  <2>4. CASE l # e + 1
    BY <1>4, <1>5, <1>9, <2>1, <2>2, <2>4
  <2>. QED
    BY <2>3, <2>4
<1>12. \A k \in 1..e + 1 : g[k] \in WordsAt(t)
  BY <1>1, <1>5, <1>8, <1>9
<1>13. ASSUME NEW i \in WordsAt(t), i # n + 1 PROVE ~Heads(g, i) <=> Joins(t, g, i)
  <2>1. i \in WordsAt(s) /\ i \in 1..n /\ \A k \in 1..i - 1 : k \in 1..n /\ k # n + 1
    BY <1>1, <1>13
  <2>2. \A k \in 1..i - 1 : Heads(g, k) <=> Heads(h, k)
    BY <1>10, <2>1
  <2>3. Joins(t, g, i) <=> Joins(s, h, i)
    BY <1>1, <2>1, <2>2 DEF Joins
  <2>. QED
    BY <1>4, <1>10, <1>13, <2>1, <2>3
<1>14. ~Joins(t, g, n + 1)
  <2>1. SUFFICES ASSUME NEW j \in 1..n, Heads(g, j), Before(t, j, n + 1), ~NegAt(t, j),
                        OrAt(t, n + 1), ~NegAt(t, n + 1)
                 PROVE  FALSE
    <3>1. (n + 1) - 1 = n
      BY <1>1
    <3>. QED
      BY <3>1 DEF Joins
  <2>2. j # n + 1
    BY <1>9
  <2>3. Heads(h, j) /\ Before(s, j, n + 1) /\ ~NegAt(s, j)
    BY <1>1, <1>10, <2>1, <2>2
  <2>. QED
    BY <1>1, <1>3, <2>1, <2>3
<1>15. \A i \in WordsAt(t) : ~Heads(g, i) <=> Joins(t, g, i)
  BY <1>10, <1>13, <1>14
<1>16. ASSUME NEW k \in 1..e
       PROVE  StandsAlone(t, g, g[k], d[k]) \/ StandsJoined(t, g, g[k], d[k])
  <2>1. h[k] \in 1..n /\ d[k] = c[k] /\ t[h[k]] = s[h[k]] /\ g[k] = h[k]
    BY <1>1, <1>5, <1>6, <1>8
  <2>2. CASE StandsAlone(s, h, h[k], c[k])
    <3>1. \A i \in WordsAt(t) : Before(t, h[k], i) => Heads(g, i)
      <4>1. SUFFICES ASSUME NEW i \in WordsAt(t), Before(t, h[k], i), i # n + 1 PROVE Heads(g, i)
        BY <1>10
      <4>2. i \in WordsAt(s) /\ i \in 1..n
        BY <1>1, <4>1
      <4>3. Before(s, h[k], i)
        BY <1>1, <4>1, <4>2
      <4>. QED
        BY <1>10, <2>2, <4>2, <4>3 DEF StandsAlone
    <3>2. d[k].kind = "term" /\ d[k].term = t[h[k]].term /\ (d[k].negate <=> NegAt(t, h[k]))
      BY <1>1, <2>1, <2>2 DEF StandsAlone
    <3>. QED
      BY <2>1, <3>1, <3>2 DEF StandsAlone
  <2>3. CASE StandsJoined(s, h, h[k], c[k])
    <3>1. PICK i \in WordsAt(s) : Before(s, h[k], i) /\ ~Heads(h, i) /\ c[k].right = s[i].term
      BY <2>3 DEF StandsJoined
    <3>2. i \in WordsAt(t) /\ Before(t, h[k], i) /\ d[k].right = t[i].term /\ i # n + 1
      BY <1>1, <1>9, <2>1, <3>1
    <3>3. d[k].kind = "or" /\ d[k].left = t[h[k]].term
      BY <2>1, <2>3 DEF StandsJoined
    <3>. QED
      BY <1>10, <2>1, <3>1, <3>2, <3>3 DEF StandsJoined
  <2>. QED
    BY <1>4, <2>2, <2>3
<1>17. StandsAlone(t, g, g[e + 1], d[e + 1])
  <2>1. \A i \in WordsAt(t) : ~Before(t, n + 1, i)
    <3>1. SUFFICES ASSUME NEW i \in WordsAt(t), n + 1 \in 1..i - 1 PROVE FALSE
      BY DEF Before
    <3>2. i \in 1..n + 1
      BY <1>1 DEF WordsAt
    <3>. QED
      BY <1>1, <3>1, <3>2
  <2>2. x.kind = "term" /\ x.term = t[n + 1].term /\ (x.negate <=> NegAt(t, n + 1))
    BY <1>1 DEF n
  <2>3. StandsAlone(t, g, n + 1, x)
    BY <2>1, <2>2 DEF StandsAlone
  <2>. QED
    BY <1>5, <1>6, <2>3
<1>18. \A k \in 1..e + 1 : StandsAlone(t, g, g[k], d[k]) \/ StandsJoined(t, g, g[k], d[k])
  BY <1>9, <1>16, <1>17
<1>19. \A i \in WordsAt(t) : Before(t, i, Len(t) + 1) =>
         Len(g) > 0 /\ (i = g[Len(g)] \/ Before(t, g[Len(g)], i))
  BY <1>1, <1>2, <1>4, <1>5, <1>9
<1>20. \E i \in WordsAt(t) : Before(t, i, Len(t) + 1)
  BY <1>1, <1>2, <1>9
<1>21. Homes(t, d, g)
  BY <1>5, <1>6, <1>11, <1>12, <1>15, <1>18, <1>19, <1>20 DEF Homes
<1>. QED
  BY <1>21 DEF t, d, g, n

-----------------------------------------------------------------------------
(* What the state of the loop says of the query *)

KindAt(s, k) == {i \in 1..Len(s) : s[i].kind = k}

Unset == [attached |-> "none", file |-> "none", after |-> None, before |-> None, size |-> NoSize]

\* A setting is as the last condition that sets it has it.
SetAt(s, x, e) ==
  \/ e = Unset[x] /\ \A i \in KindAt(s, "filter") : x \notin DOMAIN Sets(s[i].field, s[i].value)
  \/ \E i \in KindAt(s, "filter") :
       /\ x \in DOMAIN Sets(s[i].field, s[i].value) /\ e = Sets(s[i].field, s[i].value)[x]
       /\ \A k \in KindAt(s, "filter") : k > i => x \notin DOMAIN Sets(s[k].field, s[k].value)

WordsAreClauses ==
  /\ pendingNot \in BOOLEAN
  /\ ~raised => /\ pendingNot <=> NotAt(read, Len(read) + 1)
                /\ \E h \in Seq(Nat) : Homes(read, clauses, h)

FoldersAreNamed == folders = {read[i].folder : i \in KindAt(read, "folder")}

LastSettingHolds ==
  ~raised => /\ settings = [x \in DOMAIN Unset |-> settings[x]]
             /\ \A x \in DOMAIN Unset : SetAt(read, x, settings[x])

SomethingRaised ==
  raised => \E i \in KindAt(read, "filter") : ValueRaises(read[i].field, read[i].value)

LoopInv == WordsAreClauses /\ FoldersAreNamed /\ LastSettingHolds /\ SomethingRaised

\* The places of a kind of token, with a token more.
LEMMA KindOther ==
  ASSUME NEW S, NEW s \in Seq(S), NEW m \in S, NEW k, m.kind # k
  PROVE  KindAt(Append(s, m), k) = KindAt(s, k)
<1> DEFINE t == Append(s, m)
           n == Len(s)
<1>1. /\ n \in Nat /\ Len(t) = n + 1 /\ t[n + 1] = m /\ \A i \in 1..n : t[i] = s[i]
  BY Longer
<1>2. KindAt(s, k) = {i \in 1..n : s[i].kind = k}
  BY DEF KindAt
<1>. HIDE DEF t, n
<1>3. KindAt(t, k) = {i \in 1..n + 1 : t[i].kind = k}
  BY <1>1 DEF KindAt
<1>4. \A i \in KindAt(t, k) : i \in KindAt(s, k)
  BY <1>1, <1>2, <1>3, UpToMore
<1>5. \A i \in KindAt(s, k) : i \in KindAt(t, k)
  BY <1>1, <1>2, <1>3, UpToMore
<1>. QED
  BY <1>4, <1>5 DEF t

LEMMA KindOne ==
  ASSUME NEW S, NEW s \in Seq(S), NEW m \in S
  PROVE  KindAt(Append(s, m), m.kind) = KindAt(s, m.kind) \cup {Len(s) + 1}
<1> DEFINE t == Append(s, m)
           n == Len(s)
           k == m.kind
<1>1. /\ n \in Nat /\ Len(t) = n + 1 /\ t[n + 1] = m /\ \A i \in 1..n : t[i] = s[i]
  BY Longer
<1>2. KindAt(s, k) = {i \in 1..n : s[i].kind = k}
  BY DEF KindAt
<1>. HIDE DEF t, n
<1>3. KindAt(t, k) = {i \in 1..n + 1 : t[i].kind = k}
  BY <1>1 DEF KindAt
<1>4. \A i \in KindAt(t, k) : i \in KindAt(s, k) \/ i = n + 1
  BY <1>1, <1>2, <1>3, UpToMore
<1>5. \A i \in KindAt(s, k) : i \in KindAt(t, k)
  BY <1>1, <1>2, <1>3, UpToMore
<1>6. n + 1 \in KindAt(t, k)
  BY <1>1, <1>3, UpToMore
<1>. QED
  BY <1>4, <1>5, <1>6 DEF t, n

LEMMA KindStays ==
  ASSUME NEW S, NEW s \in Seq(S), NEW m \in S, NEW k, NEW i \in KindAt(s, k)
  PROVE  Append(s, m)[i] = s[i] /\ i < Len(s) + 1 /\ i \in Nat
<1>1. i \in 1..Len(s)
  BY DEF KindAt
<1>. QED
  BY <1>1, Longer

\* What a value sets depends on nothing that changes.
LEMMA SameUser ==
  ASSUME session' = session
  PROVE  \A f, v : Sets(f, v)' = Sets(f, v) /\ (ValueRaises(f, v)' <=> ValueRaises(f, v))
  BY DEF Sets, ValueRaises, now

\* A token that is no word.
LEMMA NoWordMeans ==
  ASSUME QueryInv, LoopInv, NEW m, Take(m), m.kind # "word", UNCHANGED clauses,
         pendingNot' = (m.kind = "not" \/ pendingNot)
  PROVE  WordsAreClauses'
<1>1. /\ ~raised /\ read' = Append(read, m) /\ read \in Seq(TokensOf[session])
      /\ m \in TokensOf[session]
  BY Taken
<1>2. pendingNot \in BOOLEAN /\ (pendingNot <=> NotAt(read, Len(read) + 1))
  BY <1>1 DEF LoopInv, WordsAreClauses
<1>3. PICK h \in Seq(Nat) : Homes(read, clauses, h)
  BY <1>1 DEF LoopInv, WordsAreClauses
<1>4. Homes(Append(read, m), clauses, h)
  BY <1>1, <1>3, HomesOther
<1>5. Homes(read', clauses', h)
  BY <1>1, <1>4
<1>6. NotAt(Append(read, m), Len(read) + 2) <=> m.kind = "not" \/ NotAt(read, Len(read) + 1)
  BY <1>1, FrontMore
<1>7. Len(read') + 1 = Len(read) + 2
  BY <1>1
<1>8. pendingNot' <=> NotAt(read', Len(read') + 1)
  BY <1>1, <1>2, <1>6, <1>7
<1>9. pendingNot' \in BOOLEAN
  BY <1>2
<1>. QED
  BY <1>5, <1>8, <1>9 DEF WordsAreClauses

\* A token that is no folder.
LEMMA NoFolderMeans ==
  ASSUME QueryInv, LoopInv, NEW m, Take(m), m.kind # "folder", UNCHANGED folders
  PROVE  FoldersAreNamed'
<1>1. read' = Append(read, m) /\ read \in Seq(TokensOf[session]) /\ m \in TokensOf[session]
  BY Taken
<1>2. /\ KindAt(read', "folder") = KindAt(read, "folder")
      /\ \A i \in KindAt(read, "folder") : read'[i] = read[i]
  BY <1>1, KindOther, KindStays
<1>. QED
  BY <1>2 DEF LoopInv, FoldersAreNamed

\* A token that is no other condition.
LEMMA NoFilterMeans ==
  ASSUME QueryInv, LoopInv, NEW m, Take(m), m.kind # "filter", UNCHANGED <<settings, raised>>
  PROVE  LastSettingHolds' /\ SomethingRaised'
<1>1. /\ read' = Append(read, m) /\ read \in Seq(TokensOf[session]) /\ m \in TokensOf[session]
      /\ session' = session /\ ~raised
  BY Taken
<1>2. /\ KindAt(read', "filter") = KindAt(read, "filter")
      /\ \A i \in KindAt(read, "filter") : read'[i] = read[i]
  BY <1>1, KindOther, KindStays
<1>3. \A f, v : Sets(f, v)' = Sets(f, v)
  BY <1>1, SameUser
<1>4. ASSUME NEW x \in DOMAIN Unset PROVE SetAt(read, x, settings[x])'
  <2>1. SetAt(read, x, settings[x])
    BY <1>1, <1>4 DEF LoopInv, LastSettingHolds
  <2>. QED
    BY <1>2, <1>3, <2>1 DEF SetAt
<1>5. LastSettingHolds'
  <2>1. settings = [x \in DOMAIN Unset |-> settings[x]]
    BY <1>1 DEF LoopInv, LastSettingHolds
  <2>. QED
    BY <1>4, <2>1 DEF LastSettingHolds
<1>. QED
  BY <1>1, <1>5 DEF SomethingRaised

\* A word.
LEMMA WordMeans ==
  ASSUME QueryInv, LoopInv, NEW x, NEW dash, ReadTerm(x, dash)
  PROVE  WordsAreClauses'
<1> DEFINE m    == Word(x, dash)
           neg  == pendingNot \/ dash
           pair == pendingOr /\ LastIsPairable /\ ~neg
           n    == Len(clauses)
           e    == Len(read)
<1>1. /\ Take(m) /\ pendingNot' = FALSE /\ raised' = raised
      /\ clauses' = IF pair THEN [clauses EXCEPT ![n] = OrPair(clauses[n].term, x)]
                            ELSE Append(clauses, Term(x, neg))
  BY DEF ReadTerm
<1>2. m.kind = "word" /\ m.term = x /\ m.dash = dash
  BY DEF Word
<1>. HIDE DEF m
<1>3. /\ ~raised /\ read' = Append(read, m) /\ read \in Seq(TokensOf[session])
      /\ m \in TokensOf[session] /\ session' = session
  BY <1>1, Taken
<1>4. e \in Nat /\ Len(read') + 1 = e + 2 /\ (e + 1) - 1 = e
  BY <1>3
<1>5. pendingNot <=> NotAt(read, e + 1)
  BY <1>3 DEF LoopInv, WordsAreClauses
<1>6. PICK h \in Seq(Nat) : Homes(read, clauses, h)
  BY <1>3 DEF LoopInv, WordsAreClauses
<1>7. pendingOr <=> OrAt(read, e + 1)
  BY <1>3, <1>4 DEF QueryInv, OrIsPending, Waits, OrAt
<1>8. neg <=> m.dash \/ NotAt(read, e + 1)
  BY <1>2, <1>5
<1>9. LastIsPairable <=> clauses # <<>> /\ clauses[n].kind = "term" /\ ~clauses[n].negate
  BY DEF LastIsPairable
<1>10. /\ clauses \in Seq(ClausesOf(session)) /\ clauses' \in Seq(ClausesOf(session)) /\ n \in Nat
  <2>1. QueryInv'
    BY TermKeeps
  <2>. QED
    BY <1>3, <2>1 DEF QueryInv, QueryTypes
<1>11. ~NotAt(read', Len(read') + 1)
  BY <1>2, <1>3, <1>4, FrontMore
<1>12. \E g \in Seq(Nat) : Homes(read', clauses', g)
  <2>1. CASE pair
    <3>1. clauses' = [clauses EXCEPT ![n] = OrPair(clauses[n].term, x)]
      BY <1>1, <2>1
    <3>2. n \in 1..n /\ n = Len(clauses)
      BY <1>9, <1>10, <2>1
    <3>3. /\ Len(clauses') = n /\ \A k \in 1..n : k # n => clauses'[k] = clauses[k]
          /\ clauses'[n].kind = "or" /\ clauses'[n].left = clauses[n].term
          /\ clauses'[n].right = m.term
      <4>1. clauses'[n] = OrPair(clauses[n].term, x)
        BY <1>10, <3>1, <3>2
      <4>2. Len(clauses') = n /\ \A k \in 1..n : k # n => clauses'[k] = clauses[k]
        BY <1>10, <3>1
      <4>. QED
        BY <1>2, <4>1, <4>2 DEF OrPair
    <3>4. /\ OrAt(read, e + 1) /\ ~(m.dash \/ NotAt(read, e + 1))
          /\ clauses # <<>> /\ clauses[n].kind = "term" /\ ~clauses[n].negate
      BY <1>7, <1>8, <1>9, <2>1
    <3>. HIDE DEF n, e, pair, neg
    <3>5. Homes(Append(read, m), clauses', h)
      BY <1>2, <1>3, <1>6, <1>10, <3>3, <3>4, HomesJoin DEF n, e
    <3>. QED
      BY <1>3, <1>6, <3>5
  <2>2. CASE ~pair
    <3> DEFINE c == Term(x, neg)
    <3>1. c.kind = "term" /\ c.term = m.term /\ (c.negate <=> m.dash \/ NotAt(read, e + 1))
      BY <1>2, <1>8 DEF Term
    <3>2. c \in ClausesOf(session)
      <4>1. x \in WordsOf(session)
        BY <1>2, <1>3 DEF WordsOf
      <4>2. neg \in BOOLEAN
        OBVIOUS
      <4>. HIDE DEF neg
      <4>. QED
        BY <4>1, <4>2 DEF ClausesOf
    <3>3. ~(/\ OrAt(read, e + 1) /\ ~(m.dash \/ NotAt(read, e + 1))
            /\ clauses # <<>> /\ clauses[n].kind = "term" /\ ~clauses[n].negate)
      BY <1>7, <1>8, <1>9, <2>2
    <3>4. clauses' = Append(clauses, c)
      BY <1>1, <2>2
    <3>. HIDE DEF n, e, pair, neg, c
    <3>5. Homes(Append(read, m), Append(clauses, c), Append(h, Len(read) + 1))
      BY <1>2, <1>3, <1>6, <1>10, <3>1, <3>2, <3>3, HomesAlone DEF n, e
    <3>6. Append(h, Len(read) + 1) \in Seq(Nat)
      BY <1>4, <1>6 DEF e
    <3>. QED
      BY <1>3, <3>4, <3>5, <3>6
  <2>. QED
    BY <2>1, <2>2
<1>. QED
  BY <1>1, <1>11, <1>12 DEF WordsAreClauses

\* A folder.
LEMMA FolderMeans ==
  ASSUME QueryInv, LoopInv, NEW f, ReadFolder(f)
  PROVE  FoldersAreNamed'
<1> DEFINE m == Folder(f)
           n == Len(read)
<1>1. Take(m) /\ folders' = folders \cup {f}
  BY DEF ReadFolder
<1>2. m.kind = "folder" /\ m.folder = f
  BY DEF Folder
<1>. HIDE DEF m
<1>3. read' = Append(read, m) /\ read \in Seq(TokensOf[session]) /\ m \in TokensOf[session]
  BY <1>1, Taken
<1>4. KindAt(read', "folder") = KindAt(read, "folder") \cup {n + 1}
  BY <1>2, <1>3, KindOne
<1>5. \A i \in KindAt(read, "folder") : read'[i] = read[i]
  BY <1>3, KindStays
<1>6. read'[n + 1] = m
  BY <1>3
<1>7. folders = {read[i].folder : i \in KindAt(read, "folder")}
  BY DEF LoopInv, FoldersAreNamed
<1>. HIDE DEF n
<1>. QED
  BY <1>1, <1>2, <1>4, <1>5, <1>6, <1>7 DEF FoldersAreNamed

\* Another condition.
LEMMA FilterMeans ==
  ASSUME QueryInv, LoopInv, NEW f, NEW v, ReadFilter(f, v)
  PROVE  LastSettingHolds' /\ SomethingRaised'
<1> DEFINE m == Filter(f, v)
<1>0. PICK n, s : n = Len(read) /\ s = Sets(f, v)
  OBVIOUS
<1>1. /\ Take(m) /\ raised' = raised
      /\ settings' = [x \in DOMAIN settings |-> IF x \in DOMAIN s THEN s[x] ELSE settings[x]]
  BY <1>0 DEF ReadFilter, Replace
<1>2. m.kind = "filter" /\ m.field = f /\ m.value = v
  BY DEF Filter
<1>. HIDE DEF m
<1>3. /\ read' = Append(read, m) /\ read \in Seq(TokensOf[session]) /\ m \in TokensOf[session]
      /\ session' = session /\ ~raised
  BY <1>1, Taken
<1>4. KindAt(read', "filter") = KindAt(read, "filter") \cup {n + 1}
  BY <1>0, <1>2, <1>3, KindOne
<1>5. \A i \in KindAt(read, "filter") : read'[i] = read[i] /\ i < n + 1 /\ i \in Nat
  BY <1>0, <1>3, KindStays
<1>6. read'[n + 1] = m /\ n \in Nat
  BY <1>0, <1>3
<1>7. \A g, w : Sets(g, w)' = Sets(g, w)
  BY <1>3, SameUser
<1>8. settings = [x \in DOMAIN Unset |-> settings[x]]
  BY <1>3 DEF LoopInv, LastSettingHolds
<1>9. settings' = [x \in DOMAIN Unset |-> IF x \in DOMAIN s THEN s[x] ELSE settings[x]]
  BY <1>1, <1>8
<1>10. ASSUME NEW x \in DOMAIN Unset PROVE SetAt(read, x, settings[x])'
  <2>1. SetAt(read, x, settings[x])
    BY <1>3, <1>10 DEF LoopInv, LastSettingHolds
  <2>2. settings'[x] = IF x \in DOMAIN s THEN s[x] ELSE settings[x]
    BY <1>9, <1>10
  <2>3. CASE x \in DOMAIN s
    <3>1. /\ n + 1 \in KindAt(read', "filter")
          /\ Sets(read[n + 1].field, read[n + 1].value)' = s
          /\ \A k \in KindAt(read', "filter") : ~(k > n + 1)
      <4>1. \A k \in KindAt(read', "filter") : ~(k > n + 1)
        BY <1>4, <1>5, <1>6
      <4>2. Sets(read[n + 1].field, read[n + 1].value)' = s
        BY <1>0, <1>2, <1>6, <1>7
      <4>. QED
        BY <1>4, <4>1, <4>2
    <3>. QED
      BY <2>2, <2>3, <3>1 DEF SetAt
  <2>4. CASE x \notin DOMAIN s
    <3>1. settings'[x] = settings[x]
      BY <2>2, <2>4
    <3>2. x \notin DOMAIN Sets(read[n + 1].field, read[n + 1].value)'
      BY <1>2, <1>6, <1>7, <2>4, <1>0
    <3>3. \A i \in KindAt(read, "filter") :
            Sets(read[i].field, read[i].value)' = Sets(read[i].field, read[i].value)
      BY <1>5, <1>7
    <3>4. CASE /\ settings[x] = Unset[x]
               /\ \A i \in KindAt(read, "filter") : x \notin DOMAIN Sets(read[i].field, read[i].value)
      <4>1. \A i \in KindAt(read', "filter") : x \notin DOMAIN Sets(read[i].field, read[i].value)'
        BY <1>4, <3>2, <3>3, <3>4
      <4>. QED
        BY <3>1, <3>4, <4>1 DEF SetAt, Unset
    <3>5. ASSUME NEW i \in KindAt(read, "filter"),
                 x \in DOMAIN Sets(read[i].field, read[i].value),
                 settings[x] = Sets(read[i].field, read[i].value)[x],
                 \A k \in KindAt(read, "filter") :
                   k > i => x \notin DOMAIN Sets(read[k].field, read[k].value)
          PROVE  SetAt(read, x, settings[x])'
      <4>1. \A k \in KindAt(read', "filter") :
              k > i => x \notin DOMAIN Sets(read[k].field, read[k].value)'
        BY <1>4, <3>2, <3>3, <3>5
      <4>2. /\ i \in KindAt(read', "filter")
            /\ x \in DOMAIN Sets(read[i].field, read[i].value)'
            /\ settings'[x] = Sets(read[i].field, read[i].value)'[x]
        BY <1>4, <3>1, <3>3, <3>5
      <4>. QED
        BY <4>1, <4>2 DEF SetAt
    <3>. QED
      BY <2>1, <3>4, <3>5 DEF SetAt
  <2>. QED
    BY <2>3, <2>4
<1>11. LastSettingHolds'
  <2>1. settings' = [x \in DOMAIN Unset |-> settings'[x]]
    BY <1>9
  <2>2. DOMAIN Unset' = DOMAIN Unset
    BY DEF Unset
  <2>. QED
    BY <1>10, <2>1, <2>2 DEF LastSettingHolds
<1>. QED
  BY <1>1, <1>3, <1>11 DEF SomethingRaised

\* A value that raises.
LEMMA RaiseMeans ==
  ASSUME QueryInv, LoopInv, NEW f, NEW v, ReadRaises(f, v)
  PROVE  LoopInv'
<1> DEFINE m == Filter(f, v)
<1>0. PICK n : n = Len(read)
  OBVIOUS
<1>1. Take(m) /\ ValueRaises(f, v) /\ raised' = TRUE /\ UNCHANGED <<folders, pendingNot>>
  BY DEF ReadRaises
<1>2. m.kind = "filter" /\ m.field = f /\ m.value = v
  BY DEF Filter
<1>. HIDE DEF m
<1>3. /\ read' = Append(read, m) /\ read \in Seq(TokensOf[session]) /\ m \in TokensOf[session]
      /\ session' = session
  BY <1>1, Taken
<1>4. n + 1 \in KindAt(read', "filter")
  <2>1. KindAt(read', "filter") = KindAt(read, "filter") \cup {n + 1}
    BY <1>0, <1>2, <1>3, KindOne
  <2>. QED
    BY <2>1
<1>5. read'[n + 1] = m
  BY <1>0, <1>3
<1>6. ValueRaises(f, v)'
  BY <1>1, <1>3, SameUser
<1>7. SomethingRaised'
  <2>1. ValueRaises(read[n + 1].field, read[n + 1].value)'
    BY <1>2, <1>5, <1>6
  <2>. QED
    BY <1>4, <2>1 DEF SomethingRaised
<1>8. WordsAreClauses' /\ LastSettingHolds'
  BY <1>1 DEF WordsAreClauses, LastSettingHolds, LoopInv
<1>9. FoldersAreNamed'
  BY <1>1, <1>2, NoFolderMeans
<1>. QED
  BY <1>7, <1>8, <1>9 DEF LoopInv

LEMMA OperatorMeans ==
  ASSUME QueryInv, LoopInv, ReadAnd \/ ReadOr \/ ReadNot
  PROVE  LoopInv'
<1>1. PICK o \in {"and", "or", "not"} :
        /\ Take(Operator(o)) /\ pendingNot' = (o = "not" \/ pendingNot)
        /\ UNCHANGED <<clauses, folders, settings, raised>>
  BY DEF ReadAnd, ReadOr, ReadNot, LoopInv, WordsAreClauses
<1> DEFINE m == Operator(o)
<1>2. m.kind = o /\ m.kind # "word" /\ m.kind # "folder" /\ m.kind # "filter"
  BY DEF Operator
<1>3. Take(m) /\ pendingNot' = (m.kind = "not" \/ pendingNot)
  BY <1>1, <1>2
<1>. HIDE DEF m
<1>4. WordsAreClauses'
  BY <1>1, <1>2, <1>3, NoWordMeans
<1>5. FoldersAreNamed'
  BY <1>1, <1>2, <1>3, NoFolderMeans
<1>6. LastSettingHolds' /\ SomethingRaised'
  BY <1>1, <1>2, <1>3, NoFilterMeans
<1>. QED
  BY <1>4, <1>5, <1>6 DEF LoopInv

LEMMA LoopStep == QueryInv /\ LoopInv /\ [Next]_vars => LoopInv'
<1>. SUFFICES ASSUME QueryInv, LoopInv, [Next]_vars PROVE LoopInv'
  OBVIOUS
<1>0. pendingNot \in BOOLEAN
  BY DEF LoopInv, WordsAreClauses
<1>1. CASE ReadAnd \/ ReadOr \/ ReadNot
  BY <1>1, OperatorMeans
<1>2. ASSUME NEW k \in TokensOf[session], ReadTerm(k.term, k.dash) PROVE LoopInv'
  <2> DEFINE m == Word(k.term, k.dash)
  <2>1. Take(m) /\ UNCHANGED <<folders, settings, raised>>
    BY <1>2 DEF ReadTerm
  <2>2. m.kind # "folder" /\ m.kind # "filter"
    BY DEF Word
  <2>. HIDE DEF m
  <2>3. WordsAreClauses'
    BY <1>2, WordMeans
  <2>4. FoldersAreNamed'
    BY <2>1, <2>2, NoFolderMeans
  <2>5. LastSettingHolds' /\ SomethingRaised'
    BY <2>1, <2>2, NoFilterMeans
  <2>. QED
    BY <2>3, <2>4, <2>5 DEF LoopInv
<1>3. ASSUME NEW k \in TokensOf[session], ReadFolder(k.folder) PROVE LoopInv'
  <2> DEFINE m == Folder(k.folder)
  <2>1. Take(m) /\ UNCHANGED <<clauses, settings, raised, pendingNot>>
    BY <1>3 DEF ReadFolder, NoClause
  <2>2. m.kind # "word" /\ m.kind # "filter" /\ pendingNot' = (m.kind = "not" \/ pendingNot)
    BY <1>0, <2>1 DEF Folder
  <2>. HIDE DEF m
  <2>3. WordsAreClauses'
    BY <2>1, <2>2, NoWordMeans
  <2>4. FoldersAreNamed'
    BY <1>3, FolderMeans
  <2>5. LastSettingHolds' /\ SomethingRaised'
    BY <2>1, <2>2, NoFilterMeans
  <2>. QED
    BY <2>3, <2>4, <2>5 DEF LoopInv
<1>4. ASSUME NEW k \in TokensOf[session], ReadFilter(k.field, k.value) PROVE LoopInv'
  <2> DEFINE m == Filter(k.field, k.value)
  <2>1. Take(m) /\ UNCHANGED <<clauses, folders, pendingNot>>
    BY <1>4 DEF ReadFilter, Replace, NoClause
  <2>2. m.kind # "word" /\ m.kind # "folder" /\ pendingNot' = (m.kind = "not" \/ pendingNot)
    BY <1>0, <2>1 DEF Filter
  <2>. HIDE DEF m
  <2>3. WordsAreClauses'
    BY <2>1, <2>2, NoWordMeans
  <2>4. FoldersAreNamed'
    BY <2>1, <2>2, NoFolderMeans
  <2>5. LastSettingHolds' /\ SomethingRaised'
    BY <1>4, FilterMeans
  <2>. QED
    BY <2>3, <2>4, <2>5 DEF LoopInv
<1>5. ASSUME NEW k \in TokensOf[session], ReadRaises(k.field, k.value) PROVE LoopInv'
  BY <1>5, RaiseMeans
<1>6. CASE UNCHANGED vars
  <2>1. /\ UNCHANGED <<session, clauses, folders, settings, pendingNot, raised, read>>
    BY <1>6 DEF vars
  <2>2. WordsAreClauses' /\ FoldersAreNamed'
    BY <2>1 DEF LoopInv, WordsAreClauses, FoldersAreNamed
  <2>3. /\ \A f, v : Sets(f, v)' = Sets(f, v)
        /\ \A f, v : ValueRaises(f, v)' <=> ValueRaises(f, v)
    BY <2>1, SameUser
  <2>4. LastSettingHolds'
    <3>1. ASSUME NEW x \in DOMAIN Unset, ~raised PROVE SetAt(read, x, settings[x])'
      <4>1. SetAt(read, x, settings[x])
        BY <3>1 DEF LoopInv, LastSettingHolds
      <4>. QED
        BY <2>1, <2>3, <4>1 DEF SetAt
    <3>2. ~raised => settings = [x \in DOMAIN Unset |-> settings[x]]
      BY DEF LoopInv, LastSettingHolds
    <3>. QED
      BY <2>1, <3>1, <3>2 DEF LastSettingHolds
  <2>5. SomethingRaised'
    BY <2>1, <2>3 DEF LoopInv, SomethingRaised
  <2>. QED
    BY <2>2, <2>4, <2>5 DEF LoopInv
<1>. QED
  BY <1>1, <1>2, <1>3, <1>4, <1>5, <1>6 DEF Next

LEMMA LoopInit == Init => LoopInv
<1>. SUFFICES ASSUME Init PROVE LoopInv
  OBVIOUS
<1>1. /\ read = <<>> /\ clauses = <<>> /\ folders = {} /\ pendingNot = FALSE /\ raised = FALSE
      /\ settings = Unset
  BY DEF Init, Unset
<1>2. Len(<<>>) = 0 /\ 1..0 = {} /\ 1..(0 + 1) - 1 = {} /\ <<>> \in Seq(Nat)
  OBVIOUS
<1>3. ~NotAt(<<>>, 0 + 1) /\ WordsAt(<<>>) = {} /\ \A k : KindAt(<<>>, k) = {}
  BY <1>2 DEF NotAt, WordsAt, KindAt
<1>4. Homes(<<>>, <<>>, <<>>)
  BY <1>2, <1>3 DEF Homes
<1>5. WordsAreClauses
  BY <1>1, <1>2, <1>3, <1>4 DEF WordsAreClauses
<1>6. FoldersAreNamed
  BY <1>1, <1>3 DEF FoldersAreNamed
<1>7. LastSettingHolds
  <2>1. Unset = [x \in DOMAIN Unset |-> Unset[x]]
    BY DEF Unset
  <2>. QED
    BY <1>1, <1>3, <2>1 DEF LastSettingHolds, SetAt
<1>. QED
  BY <1>1, <1>5, <1>6, <1>7 DEF LoopInv, SomethingRaised

LEMMA LoopAlways == Spec => [](QueryInv /\ LoopInv)
  BY QueryInit, QueryStep, LoopInit, LoopStep, PTL DEF Spec

LEMMA SessionStays == Spec => [](session \in Sessions)
<1>1. Init => session \in Sessions
  BY DEF Init
<1>2. session \in Sessions /\ [Next]_vars => (session \in Sessions)'
  BY DEF Next, vars, ReadAnd, ReadOr, ReadNot, ReadTerm, ReadFolder, ReadFilter, Replace, ReadRaises, Take
<1>. QED
  BY <1>1, <1>2, PTL DEF Spec

-----------------------------------------------------------------------------
(* The words of a well-formed query *)

Reading(h) == /\ read \in Seq(TokensOf[session]) /\ clauses \in Seq(ClausesOf(session))
              /\ h \in Seq(Nat) /\ Homes(read, clauses, h)

LEMMA Places ==
  ASSUME NEW h, Reading(h)
  PROVE  /\ Len(read) \in Nat /\ DOMAIN read = 1..Len(read) /\ DOMAIN clauses = 1..Len(h)
         /\ Len(h) \in Nat
         /\ \A i : i \in WordsAt(read) <=> At(i, "word")
  BY DEF Reading, Homes, WordsAt, At

LEMMA NegMeans ==
  ASSUME WellFormed, NEW h, Reading(h), NEW i, At(i, "word")
  PROVE  NegAt(read, i) <=> Negated(i)
<1>1. i \in Nat /\ i \in 1..Len(read) /\ DOMAIN read = 1..Len(read) /\ Len(read) \in Nat
  BY Places DEF At
<1>2. ASSUME NotAt(read, i) PROVE At(i - 1, "not")
  <2>1. PICK j \in 1..i - 1 : /\ read[j].kind = "not"
                              /\ \A n \in j + 1..i - 1 : read[n].kind # "word"
    BY <1>2 DEF NotAt
  <2>2. j \in DOMAIN read
    BY <1>1
  <2>3. At(j + 1, "word")
    BY <2>1, <2>2 DEF WellFormed, At
  <2>4. ~(j + 1 \in j + 1..i - 1)
    BY <2>1, <2>3 DEF At
  <2>5. j = i - 1
    BY <1>1, <2>4
  <2>. QED
    BY <2>1, <2>2, <2>5 DEF At
<1>3. ASSUME At(i - 1, "not") PROVE NotAt(read, i)
  <2>1. i - 1 \in 1..i - 1 /\ (i - 1) + 1..i - 1 = {} /\ read[i - 1].kind = "not"
    BY <1>1, <1>3 DEF At
  <2>. QED
    BY <2>1 DEF NotAt
<1>. QED
  BY <1>2, <1>3 DEF NegAt, Negated

LEMMA OrMeans ==
  ASSUME WellFormed, NEW h, Reading(h), NEW i, At(i, "word"), OrAt(read, i)
  PROVE  JoinsWords(i - 1)
<1>1. i \in Nat /\ i \in 1..Len(read) /\ DOMAIN read = 1..Len(read) /\ Len(read) \in Nat
  BY Places DEF At
<1>2. PICK j \in 1..i - 1 : /\ read[j].kind = "or"
                            /\ \A n \in j + 1..i - 1 : read[n].kind \notin SolidKinds
  BY DEF OrAt
<1>3. At(j, "or")
  BY <1>1, <1>2 DEF At
<1>4. JoinsFolders(j) \/ JoinsWords(j)
  BY <1>3 DEF WellFormed, At
<1>5. At(j + 1, "folder") \/ At(j + 1, "word")
  BY <1>4 DEF JoinsFolders, JoinsWords, Plain
<1>6. read[j + 1].kind \in SolidKinds
  BY <1>5 DEF At, SolidKinds
<1>7. ~(j + 1 \in j + 1..i - 1)
  BY <1>2, <1>6
<1>8. j = i - 1 /\ j + 1 = i
  BY <1>1, <1>7
<1>9. ~JoinsFolders(j)
  BY <1>8 DEF JoinsFolders, At
<1>. QED
  BY <1>4, <1>8, <1>9

\* What an OR of a well-formed query stands between.
LEMMA OrOfWords ==
  ASSUME WellFormed, NEW h, Reading(h), NEW j, JoinsWords(j)
  PROVE  /\ j \in Int /\ At(j, "or") /\ At(j - 1, "word") /\ At(j + 1, "word")
         /\ ~Negated(j - 1) /\ ~Negated(j + 1)
         /\ ~At(j - 2, "or") /\ ~At(j + 2, "or")
         /\ Before(read, j - 1, j + 1) /\ OrAt(read, j + 1)
<1>1. At(j, "or") /\ At(j - 1, "word") /\ At(j + 1, "word") /\ ~Negated(j - 1) /\ ~Negated(j + 1)
  BY DEF JoinsWords, Plain
<1>2. j \in Int /\ j - 1 \in 1..(j + 1) - 1 /\ j \in 1..(j + 1) - 1
  BY <1>1, Places DEF At
<1>3. ~JoinsFolders(j)
  BY <1>1 DEF JoinsFolders, At
<1>4. ~At(j - 2, "or") /\ ~At(j + 2, "or")
  <2>1. j \in DOMAIN read
    BY <1>1 DEF At
  <2>. QED
    BY <1>1, <1>3, <2>1, Zenon DEF WellFormed
<1>5. Before(read, j - 1, j + 1)
  <2>1. \A n \in (j - 1) + 1..(j + 1) - 1 : n = j
    BY <1>2
  <2>2. read[j].kind # "word" /\ read[j - 1].kind = "word"
    BY <1>1 DEF At
  <2>. QED
    BY <1>2, <2>1, <2>2 DEF Before
<1>6. OrAt(read, j + 1)
  <2>1. j + 1..(j + 1) - 1 = {} /\ read[j].kind = "or"
    BY <1>1, <1>2 DEF At
  <2>. QED
    BY <1>2, <2>1 DEF OrAt
<1>. QED
  BY <1>1, <1>2, <1>4, <1>5, <1>6

LEMMA JoinsMeans ==
  ASSUME WellFormed, NEW h, Reading(h), NEW i, At(i, "word")
  PROVE  Heads(h, i) <=> ~JoinsWords(i - 1)
<1>1. i \in Nat /\ (i - 1) + 1 = i /\ (i - 1) - 1 = i - 2 /\ (i - 1) - 2 = i - 3 /\ (i - 2) - 1 = i - 3
  BY Places DEF At
<1>2. \A k : At(k, "word") => (~Heads(h, k) <=> Joins(read, h, k))
  BY Places DEF Reading, Homes
<1>3. ASSUME Joins(read, h, i) PROVE JoinsWords(i - 1)
  BY <1>3, OrMeans DEF Joins
<1>4. ASSUME JoinsWords(i - 1) PROVE Joins(read, h, i)
  <2>1. /\ At(i - 2, "word") /\ ~Negated(i - 2) /\ ~Negated(i) /\ ~At(i - 3, "or")
        /\ Before(read, i - 2, i) /\ OrAt(read, i)
    BY <1>1, <1>4, OrOfWords
  <2>2. ~NegAt(read, i) /\ ~NegAt(read, i - 2)
    BY <2>1, NegMeans
  <2>3. Heads(h, i - 2)
    <3>1. SUFFICES ASSUME Joins(read, h, i - 2) PROVE FALSE
      BY <1>2, <2>1
    <3>2. JoinsWords((i - 2) - 1)
      BY <2>1, <3>1, OrMeans DEF Joins
    <3>. QED
      BY <1>1, <2>1, <3>2 DEF JoinsWords
  <2>4. i - 2 \in 1..i - 1
    BY <2>1 DEF Before
  <2>. QED
    BY <2>1, <2>2, <2>3, <2>4 DEF Joins
<1>. QED
  BY <1>2, <1>3, <1>4

\* The clause of a word that has one.
LEMMA ClauseMeans ==
  ASSUME WellFormed, NEW h, Reading(h), NEW k \in 1..Len(h), NEW i, i = h[k]
  PROVE  /\ At(i, "word")
         /\ \/ /\ JoinsWords(i + 1)
               /\ clauses[k].kind = "or" /\ clauses[k].left = read[i].term
               /\ clauses[k].right = read[i + 2].term
            \/ /\ Negated(i) \/ Required(i)
               /\ clauses[k].kind = "term" /\ clauses[k].term = read[i].term
               /\ clauses[k].negate <=> Negated(i)
<1>1. At(i, "word") /\ Heads(h, i)
  BY Places DEF Reading, Homes, Heads
<1>2. StandsAlone(read, h, i, clauses[k]) \/ StandsJoined(read, h, i, clauses[k])
  BY DEF Reading, Homes
<1>3. /\ i \in Nat /\ (i + 1) - 1 = i /\ (i + 1) + 1 = i + 2 /\ i + 2 \in Nat
  BY <1>1, Places DEF At
<1>4. CASE StandsJoined(read, h, i, clauses[k])
  <2>1. PICK w \in WordsAt(read) : Before(read, i, w) /\ ~Heads(h, w) /\ clauses[k].right = read[w].term
    BY <1>4 DEF StandsJoined
  <2>2. At(w, "word") /\ w \in Nat
    BY <2>1, Places DEF At
  <2>3. JoinsWords(w - 1)
    BY <2>1, <2>2, JoinsMeans
  <2>4. Before(read, w - 2, w)
    <3>1. (w - 1) - 1 = w - 2 /\ (w - 1) + 1 = w
      BY <2>2
    <3>. QED
      BY <2>3, <3>1, OrOfWords
  <2>5. i = w - 2
    BY <2>1, <2>2, <2>4, OneBefore
  <2>6. w - 1 = i + 1 /\ w = i + 2
    BY <1>3, <2>2, <2>5
  <2>7. clauses[k].kind = "or" /\ clauses[k].left = read[i].term
    BY <1>4 DEF StandsJoined
  <2>8. clauses[k].right = read[i + 2].term
    BY <2>1, <2>6
  <2>9. JoinsWords(i + 1)
    BY <2>3, <2>6
  <2>. QED
    BY <1>1, <2>7, <2>8, <2>9
<1>5. CASE StandsAlone(read, h, i, clauses[k])
  <2>1. ~JoinsWords(i + 1)
    <3>1. SUFFICES ASSUME JoinsWords(i + 1) PROVE FALSE
      OBVIOUS
    <3>2. Before(read, i, i + 2) /\ At(i + 2, "word") /\ (i + 2) - 1 = i + 1
      <4>1. Before(read, (i + 1) - 1, (i + 1) + 1) /\ At((i + 1) + 1, "word")
        BY <3>1, OrOfWords
      <4>2. (i + 2) - 1 = i + 1
        BY <1>3
      <4>. QED
        BY <1>3, <4>1, <4>2
    <3>3. Heads(h, i + 2)
      BY <1>5, <3>2, Places DEF StandsAlone
    <3>. QED
      BY <3>1, <3>2, <3>3, JoinsMeans
  <2>2. clauses[k].negate <=> Negated(i)
    BY <1>1, <1>5, NegMeans DEF StandsAlone
  <2>3. ASSUME ~Negated(i) PROVE Required(i)
    <3>1. ~JoinsWords(i - 1)
      BY <1>1, JoinsMeans
    <3>2. ASSUME At(i - 1, "or") PROVE FALSE
      <4>1. JoinsFolders(i - 1) \/ JoinsWords(i - 1)
        BY <3>2 DEF WellFormed, At
      <4>2. At((i - 1) + 1, "folder")
        BY <3>1, <4>1 DEF JoinsFolders
      <4>. QED
        BY <1>1, <1>3, <4>2 DEF At
    <3>3. ASSUME At(i + 1, "or") PROVE FALSE
      <4>1. JoinsFolders(i + 1) \/ JoinsWords(i + 1)
        BY <3>3 DEF WellFormed, At
      <4>2. At((i + 1) - 1, "folder")
        BY <2>1, <4>1 DEF JoinsFolders
      <4>. QED
        BY <1>1, <1>3, <4>2 DEF At
    <3>. QED
      BY <1>1, <2>3, <3>2, <3>3 DEF Required, Plain
  <2>4. clauses[k].kind = "term" /\ clauses[k].term = read[i].term
    BY <1>5 DEF StandsAlone
  <2>. QED
    BY <1>1, <2>1, <2>2, <2>3, <2>4
<1>. QED
  BY <1>2, <1>4, <1>5

\* The words with a clause: those that are excluded, required, or the left side of an OR.
LEMMA HasClause ==
  ASSUME WellFormed, NEW h, Reading(h), NEW i \in Int, Negated(i) \/ Required(i) \/ JoinsWords(i + 1)
  PROVE  \E k \in 1..Len(h) : i = h[k]
<1>1. SUFFICES At(i, "word") /\ ~JoinsWords(i - 1)
  <2>1. Heads(h, i)
    BY <1>1, JoinsMeans
  <2>. QED
    BY <2>1 DEF Heads
<1>2. CASE Negated(i) \/ Required(i)
  <2>1. At(i, "word") /\ i \in Int
    BY <1>2, Places DEF Negated, Required, Plain, At
  <2>2. ASSUME JoinsWords(i - 1) PROVE FALSE
    <3>1. (i - 1) + 1 = i
      BY <2>1
    <3>2. ~Negated(i) /\ At(i - 1, "or")
      BY <2>2, <3>1, OrOfWords
    <3>. QED
      BY <1>2, <3>2 DEF Required
  <2>. QED
    BY <2>1, <2>2
<1>3. CASE JoinsWords(i + 1)
  <2>1. At((i + 1) - 1, "word") /\ ~At((i + 1) - 2, "or")
    BY <1>3, OrOfWords
  <2>2. (i + 1) - 1 = i /\ (i + 1) - 2 = i - 1
    OBVIOUS
  <2>. QED
    BY <2>1, <2>2 DEF JoinsWords
<1>. QED
  BY <1>2, <1>3

LEMMA AndTermsMean ==
  ASSUME WellFormed, NEW h, Reading(h), NEW t
  PROVE  t \in AndTerms <=> \E i \in DOMAIN read : Required(i) /\ t = read[i].term
<1>1. DOMAIN clauses = 1..Len(h)
  BY Places
<1>2. ASSUME t \in AndTerms PROVE \E i \in DOMAIN read : Required(i) /\ t = read[i].term
  <2>1. PICK k \in 1..Len(h) : clauses[k].kind = "term" /\ ~clauses[k].negate /\ t = clauses[k].term
    <3>1. PICK c \in Clauses : c.kind = "term" /\ ~c.negate /\ t = c.term
      BY <1>2 DEF AndTerms
    <3>2. PICK k \in 1..Len(h) : c = clauses[k]
      BY <1>1 DEF Clauses
    <3>. QED
      BY <3>1, <3>2
  <2>2. PICK i : i = h[k]
    OBVIOUS
  <2>3. At(i, "word") /\ Required(i) /\ clauses[k].term = read[i].term
    BY <2>1, <2>2, ClauseMeans
  <2>. QED
    BY <2>1, <2>3 DEF At
<1>3. ASSUME NEW i \in DOMAIN read, Required(i), t = read[i].term PROVE t \in AndTerms
  <2>1. i \in Int
    BY Places
  <2>2. PICK k \in 1..Len(h) : i = h[k]
    BY <1>3, <2>1, HasClause
  <2>3. ~Negated(i) /\ ~JoinsWords(i + 1)
    BY <1>3 DEF Required, Plain, JoinsWords
  <2>4. clauses[k].kind = "term" /\ clauses[k].term = t /\ ~clauses[k].negate
    BY <1>3, <2>2, <2>3, ClauseMeans
  <2>. QED
    BY <1>1, <2>4 DEF AndTerms, Clauses
<1>. QED
  BY <1>2, <1>3

LEMMA NotTermsMean ==
  ASSUME WellFormed, NEW h, Reading(h), NEW t
  PROVE  t \in NotTerms <=> \E i \in DOMAIN read : Negated(i) /\ t = read[i].term
<1>1. DOMAIN clauses = 1..Len(h)
  BY Places
<1>2. ASSUME t \in NotTerms PROVE \E i \in DOMAIN read : Negated(i) /\ t = read[i].term
  <2>1. PICK k \in 1..Len(h) : clauses[k].kind = "term" /\ clauses[k].negate /\ t = clauses[k].term
    <3>1. PICK c \in Clauses : c.kind = "term" /\ c.negate /\ t = c.term
      BY <1>2 DEF NotTerms
    <3>2. PICK k \in 1..Len(h) : c = clauses[k]
      BY <1>1 DEF Clauses
    <3>. QED
      BY <3>1, <3>2
  <2>2. PICK i : i = h[k]
    OBVIOUS
  <2>3. At(i, "word") /\ Negated(i) /\ clauses[k].term = read[i].term
    BY <2>1, <2>2, ClauseMeans
  <2>. QED
    BY <2>1, <2>3 DEF At
<1>3. ASSUME NEW i \in DOMAIN read, Negated(i), t = read[i].term PROVE t \in NotTerms
  <2>1. i \in Int /\ (i + 1) - 1 = i
    BY Places
  <2>2. PICK k \in 1..Len(h) : i = h[k]
    BY <1>3, <2>1, HasClause
  <2>3. ~JoinsWords(i + 1)
    BY <1>3, <2>1 DEF Plain, JoinsWords
  <2>4. clauses[k].kind = "term" /\ clauses[k].term = t /\ clauses[k].negate
    BY <1>3, <2>2, <2>3, ClauseMeans
  <2>. QED
    BY <1>1, <2>4 DEF NotTerms, Clauses
<1>. QED
  BY <1>2, <1>3

LEMMA PairsMean ==
  ASSUME WellFormed, NEW h, Reading(h), NEW p
  PROVE  p \in Pairs <=> \E j \in DOMAIN read : /\ JoinsWords(j)
                                                /\ p = <<read[j - 1].term, read[j + 1].term>>
<1>1. DOMAIN clauses = 1..Len(h)
  BY Places
<1>2. ASSUME p \in Pairs
      PROVE  \E j \in DOMAIN read : JoinsWords(j) /\ p = <<read[j - 1].term, read[j + 1].term>>
  <2>1. PICK k \in 1..Len(h) : clauses[k].kind = "or" /\ p = <<clauses[k].left, clauses[k].right>>
    <3>1. PICK c \in Clauses : c.kind = "or" /\ p = <<c.left, c.right>>
      BY <1>2 DEF Pairs
    <3>2. PICK k \in 1..Len(h) : c = clauses[k]
      BY <1>1 DEF Clauses
    <3>. QED
      BY <3>1, <3>2
  <2>2. PICK i : i = h[k]
    OBVIOUS
  <2>3. /\ At(i, "word") /\ JoinsWords(i + 1)
        /\ clauses[k].left = read[i].term /\ clauses[k].right = read[i + 2].term
    BY <2>1, <2>2, ClauseMeans
  <2>4. (i + 1) - 1 = i /\ (i + 1) + 1 = i + 2
    <3>1. i \in Nat
      BY <2>3, Places DEF At
    <3>. QED
      BY <3>1
  <2>5. i + 1 \in DOMAIN read
    BY <2>3 DEF JoinsWords, At
  <2>. QED
    BY <2>1, <2>3, <2>4, <2>5
<1>3. ASSUME NEW j \in DOMAIN read, JoinsWords(j), p = <<read[j - 1].term, read[j + 1].term>>
      PROVE  p \in Pairs
  <2>1. j - 1 \in Int /\ (j - 1) + 1 = j /\ (j - 1) + 2 = j + 1
    BY Places
  <2>2. PICK k \in 1..Len(h) : j - 1 = h[k]
    BY <1>3, <2>1, HasClause
  <2>3. ~Negated(j - 1) /\ At(j, "or")
    BY <1>3, OrOfWords
  <2>4. ~Required(j - 1)
    BY <2>1, <2>3 DEF Required
  <2>5. /\ clauses[k].kind = "or" /\ clauses[k].left = read[j - 1].term
        /\ clauses[k].right = read[j + 1].term
    BY <2>1, <2>2, <2>3, <2>4, ClauseMeans
  <2>. QED
    BY <1>1, <1>3, <2>5 DEF Pairs, Clauses
<1>. QED
  BY <1>2, <1>3

\* Verification keeps the mails with the words the query means.
LEMMA VerifyMeans ==
  ASSUME WellFormed, NEW h, Reading(h), NEW m
  PROVE  Verify(m) <=> MeantWords(m)
<1>1. AndTerms \subseteq m.has <=> \A i \in DOMAIN read : Required(i) => read[i].term \in m.has
  BY AndTermsMean
<1>2. NotTerms \cap m.has = {} <=> \A i \in DOMAIN read : Negated(i) => read[i].term \notin m.has
  BY NotTermsMean
<1>3. (\A p \in Pairs : p[1] \in m.has \/ p[2] \in m.has) <=>
        \A i \in DOMAIN read : JoinsWords(i) => {read[i - 1].term, read[i + 1].term} \cap m.has # {}
  <2>1. ASSUME \A p \in Pairs : p[1] \in m.has \/ p[2] \in m.has,
               NEW i \in DOMAIN read, JoinsWords(i)
        PROVE  {read[i - 1].term, read[i + 1].term} \cap m.has # {}
    <3>1. <<read[i - 1].term, read[i + 1].term>> \in Pairs
      BY <2>1, PairsMean
    <3>. QED
      BY <2>1, <3>1
  <2>2. ASSUME \A i \in DOMAIN read :
                 JoinsWords(i) => {read[i - 1].term, read[i + 1].term} \cap m.has # {},
               NEW p \in Pairs
        PROVE  p[1] \in m.has \/ p[2] \in m.has
    <3>1. PICK j \in DOMAIN read : JoinsWords(j) /\ p = <<read[j - 1].term, read[j + 1].term>>
      BY PairsMean
    <3>. QED
      BY <2>2, <3>1
  <2>. QED
    BY <2>1, <2>2
<1>. QED
  BY <1>1, <1>2, <1>3 DEF Verify, MeantWords

-----------------------------------------------------------------------------
(* The other conditions of a well-formed query *)

LEMMA FoldersMean ==
  ASSUME LoopInv, QueryInv, NEW m
  PROVE  InFolders(m) <=> MeantFolders(m)
<1> DEFINE named == {i \in DOMAIN read : At(i, "folder")}
<1>1. KindAt(read, "folder") = named
  BY DEF KindAt, At, QueryInv, QueryTypes
<1>2. folders = {read[i].folder : i \in named}
  BY <1>1 DEF LoopInv, FoldersAreNamed
<1>. HIDE DEF named
<1>3. folders = {} <=> named = {}
  BY <1>2
<1>4. folders \cap m.folders # {} <=> \E i \in named : read[i].folder \in m.folders
  BY <1>2
<1>5. MeantFolders(m) <=> named = {} \/ \E i \in named : read[i].folder \in m.folders
  BY DEF MeantFolders, named
<1>. QED
  BY <1>3, <1>4, <1>5 DEF InFolders

\* What a condition of each kind sets.
LEMMA SetsDate ==
  ASSUME NEW v, NEW x
  PROVE  LET i == ParseDateRange(v, now)
         IN /\ x \in DOMAIN Sets("date", v) <=> x \in {"after", "before"} /\ i[x] # None
            /\ x \in DOMAIN Sets("date", v) => Sets("date", v)[x] = i[x]
<1>1. PICK i : i = ParseDateRange(v, now)
  OBVIOUS
<1>2. Sets("date", v) = [y \in {z \in {"after", "before"} : i[z] # None} |-> i[y]]
  BY <1>1 DEF Sets, Sides
<1>. QED
  BY <1>1, <1>2

LEMMA SetsSide ==
  ASSUME NEW f \in {"after", "before"}, NEW v, NEW x
  PROVE  LET i == ParseDateRange(v, now)
         IN /\ x \in DOMAIN Sets(f, v) <=> x = f /\ i.after # None
            /\ x \in DOMAIN Sets(f, v) => Sets(f, v)[x] = i.after
<1>1. PICK e : e = ParseDateRange(v, now).after
  OBVIOUS
<1>2. Sets(f, v) = Side(f, e)
  <2>1. CASE f = "after"
    BY <1>1, <2>1 DEF Sets
  <2>2. CASE f = "before"
    BY <1>1, <2>2 DEF Sets
  <2>. QED
    BY <2>1, <2>2
<1>3. Side(f, e) = [y \in IF e = None THEN {} ELSE {f} |-> e]
  BY DEF Side
<1>. QED
  BY <1>1, <1>2, <1>3

LEMMA SetsSize ==
  ASSUME NEW v, NEW x
  PROVE  /\ x \in DOMAIN Sets("size", v) <=> x = "size" /\ v.form = "size"
         /\ x \in DOMAIN Sets("size", v) => Sets("size", v)[x] = ParseSize(v)
<1>1. Sets("size", v) = [y \in IF v.form = "size" THEN {"size"} ELSE {} |-> ParseSize(v)]
  BY DEF Sets
<1>. QED
  BY <1>1

LEMMA SetsFile ==
  ASSUME NEW v, NEW x
  PROVE  /\ x \in DOMAIN Sets("file", v) <=> x = "file"
         /\ x \in DOMAIN Sets("file", v) => Sets("file", v)[x] = v.file
<1>1. Sets("file", v) = [y \in {"file"} |-> v.file]
  BY DEF Sets
<1>. QED
  BY <1>1

LEMMA SetsAttached ==
  ASSUME NEW v, NEW x
  PROVE  /\ x \in DOMAIN Sets("hasattachment", v) <=> x = "attached"
         /\ x \in DOMAIN Sets("hasattachment", v) =>
              Sets("hasattachment", v)[x] = IF v.form \in {"yes", "no"} THEN v.form ELSE "none"
<1>1. Sets("hasattachment", v) =
        [y \in {"attached"} |-> IF v.form \in {"yes", "no"} THEN v.form ELSE "none"]
  BY DEF Sets
<1>. QED
  BY <1>1

\* Each condition sets nothing but what it occupies, and so no two conditions the same.
FieldOf(x) == IF x = "attached" THEN "hasattachment" ELSE x

LEMMA SetsOccupied ==
  ASSUME NEW f, NEW v, IsValue(f, v), NEW x \in DOMAIN Sets(f, v)
  PROVE  FieldOf(x) \in Occupied(f) /\ x \in DOMAIN Unset
<1>1. f \in {"date", "after", "before", "size", "file", "hasattachment"}
  BY DEF IsValue
<1>2. CASE f = "date"
  <2>1. x \in {"after", "before"}
    BY <1>2, SetsDate
  <2>. QED
    BY <1>2, <2>1 DEF FieldOf, Occupied, Unset
<1>3. CASE f \in {"after", "before"}
  <2>1. x = f
    BY <1>3, SetsSide
  <2>. QED
    BY <1>3, <2>1 DEF FieldOf, Occupied, Unset
<1>4. CASE f = "size"
  <2>1. x = "size"
    BY <1>4, SetsSize
  <2>. QED
    BY <1>4, <2>1 DEF FieldOf, Occupied, Unset
<1>5. CASE f = "file"
  <2>1. x = "file"
    BY <1>5, SetsFile
  <2>. QED
    BY <1>5, <2>1 DEF FieldOf, Occupied, Unset
<1>6. CASE f = "hasattachment"
  <2>1. x = "attached"
    BY <1>6, SetsAttached
  <2>. QED
    BY <1>6, <2>1 DEF FieldOf, Occupied, Unset
<1>. QED
  BY <1>1, <1>2, <1>3, <1>4, <1>5, <1>6

LEMMA ValuesAre ==
  ASSUME session \in Sessions, QueryInv, NEW i, At(i, "filter")
  PROVE  IsValue(read[i].field, read[i].value)
<1>1. read[i] \in TokensOf[session] /\ read[i].kind = "filter"
  BY DEF QueryInv, QueryTypes, At
<1>. QED
  BY <1>1, QueryAssumption

LEMMA Filters ==
  ASSUME QueryInv, NEW i
  PROVE  i \in KindAt(read, "filter") <=> At(i, "filter")
  BY DEF KindAt, At, QueryInv, QueryTypes

LEMMA SettingIs ==
  ASSUME session \in Sessions, WellFormed, LoopInv, ~raised, QueryInv,
         NEW i, At(i, "filter"), NEW x \in DOMAIN Sets(read[i].field, read[i].value)
  PROVE  settings[x] = Sets(read[i].field, read[i].value)[x]
<1>1. x \in DOMAIN Unset /\ FieldOf(x) \in Occupied(read[i].field)
  BY SetsOccupied, ValuesAre
<1>2. SetAt(read, x, settings[x])
  BY <1>1 DEF LoopInv, LastSettingHolds
<1>3. i \in KindAt(read, "filter")
  BY Filters
<1>4. PICK k \in KindAt(read, "filter") :
        /\ x \in DOMAIN Sets(read[k].field, read[k].value)
        /\ settings[x] = Sets(read[k].field, read[k].value)[x]
  BY <1>2, <1>3 DEF SetAt
<1>5. At(k, "filter")
  BY Filters
<1>6. FieldOf(x) \in Occupied(read[k].field)
  BY <1>4, <1>5, SetsOccupied, ValuesAre
<1>7. i \in DOMAIN read /\ k \in DOMAIN read
  BY <1>5 DEF At
<1>8. k # i => Occupied(read[i].field) \cap Occupied(read[k].field) = {}
  BY <1>5, <1>7 DEF WellFormed
<1>9. k = i
  BY <1>1, <1>6, <1>8
<1>. QED
  BY <1>4, <1>9

LEMMA SettingUnset ==
  ASSUME LoopInv, ~raised, QueryInv, NEW x \in DOMAIN Unset,
         \A i : At(i, "filter") => x \notin DOMAIN Sets(read[i].field, read[i].value)
  PROVE  settings[x] = Unset[x]
<1>1. SetAt(read, x, settings[x])
  BY DEF LoopInv, LastSettingHolds
<1>. QED
  BY <1>1, Filters DEF SetAt

\* The values of a well-formed query raise nothing.
LEMMA DocumentedDates ==
  ASSUME session \in Sessions, WellFormed, QueryInv, NEW i, At(i, "filter"),
         read[i].field \in {"date", "after", "before"}
  PROVE  LET v == read[i].value
         IN /\ Shaped(v) /\ now \in Nat /\ DayOf(now) \in Days
            /\ GoodDay(v, now) \/ GoodAgo(v, now) \/ GoodRange(v, now)
            /\ read[i].field # "date" => GoodDay(v, now) \/ GoodAgo(v, now)
<1>1. PICK v : v = read[i].value
  OBVIOUS
<1>2. Shaped(v)
  BY <1>1, ValuesAre DEF IsValue, Shaped
<1>3. now \in Nat /\ DayOf(now) \in Days
  BY QueryAssumption DEF now
<1>4. Documented(read[i].field, v)
  BY <1>1 DEF WellFormed, At
<1>5. NamesADay(v) <=> GoodDay(v, now)
  BY DEF NamesADay, GoodDay
<1>6. v.form = "range" /\ NamesADay(v.from) /\ NamesADay(v.to) => GoodRange(v, now)
  BY DEF NamesADay, GoodDay, GoodRange
<1>7. IsAgo(v) <=> GoodAgo(v, now)
  BY DEF IsAgo, GoodAgo
<1>8. CASE read[i].field = "date"
  BY <1>1, <1>2, <1>3, <1>4, <1>5, <1>6, <1>7, <1>8 DEF Documented
<1>9. CASE read[i].field \in {"after", "before"}
  BY <1>1, <1>2, <1>3, <1>4, <1>5, <1>6, <1>7, <1>9 DEF Documented
<1>. QED
  BY <1>8, <1>9

LEMMA NothingRaises ==
  ASSUME session \in Sessions, WellFormed, QueryInv, LoopInv
  PROVE  ~raised
<1>1. SUFFICES ASSUME NEW i, At(i, "filter"), ValueRaises(read[i].field, read[i].value)
               PROVE  FALSE
  BY Filters DEF LoopInv, SomethingRaised
<1>2. PICK v : v = read[i].value
  OBVIOUS
<1>3. CASE read[i].field \in {"date", "after", "before"}
  <2>1. /\ Shaped(v) /\ now \in Nat /\ DayOf(now) \in Days
        /\ GoodDay(v, now) \/ GoodAgo(v, now) \/ GoodRange(v, now)
    BY <1>1, <1>2, <1>3, DocumentedDates
  <2>2. ~ParseDateRange(v, now).raises
    BY <2>1, DateMeans
  <2>. QED
    BY <1>1, <1>2, <1>3, <2>2 DEF ValueRaises
<1>4. CASE read[i].field = "size"
  <2>1. Documented("size", v)
    BY <1>1, <1>2, <1>4 DEF WellFormed, At
  <2>2. v.form = "size"
    BY <2>1 DEF Documented
  <2>. QED
    BY <1>1, <1>2, <1>4, <2>2 DEF ValueRaises
<1>. QED
  BY <1>1, <1>3, <1>4 DEF ValueRaises

\* A date condition bounds the dates by what it sets.
LEMMA OneDate ==
  ASSUME session \in Sessions, WellFormed, QueryInv, NEW i, At(i, "filter"),
         read[i].field \in {"date", "after", "before"},
         NEW m, m.date \in Nat, DayOf(m.date) \in Days
  PROVE  LET s == Sets(read[i].field, read[i].value)
         IN /\ DOMAIN s # {} /\ DOMAIN s \subseteq {"after", "before"}
            /\ \A x \in DOMAIN s : s[x] \in Nat
            /\ MeantBy(read[i].field, read[i].value, m) <=>
                 /\ "after" \in DOMAIN s => m.date >= s["after"]
                 /\ "before" \in DOMAIN s => m.date < s["before"]
<1>1. PICK v : v = read[i].value
  OBVIOUS
<1>2. PICK r : r = ParseDateRange(v, now)
  OBVIOUS
<1>3. m.date \in Nat /\ DayOf(m.date) \in Days
  OBVIOUS
<1>4. /\ Shaped(v) /\ now \in Nat /\ DayOf(now) \in Days
      /\ GoodDay(v, now) \/ GoodAgo(v, now) \/ GoodRange(v, now)
      /\ read[i].field # "date" => GoodDay(v, now) \/ GoodAgo(v, now)
  BY <1>1, DocumentedDates
<1>5. CASE read[i].field = "date"
  <2>1. /\ r.after \in Nat /\ r.before \in Nat \cup {None}
        /\ MeansMoment(v, m.date, now) <=>
             r.after <= m.date /\ (r.before = None \/ m.date < r.before)
    BY <1>2, <1>3, <1>4, DateMeans
  <2>2. PICK s : s = Sets("date", v)
    OBVIOUS
  <2>3. \A x : /\ x \in DOMAIN s <=> x \in {"after", "before"} /\ r[x] # None
               /\ x \in DOMAIN s => s[x] = r[x]
    BY <1>2, <2>2, SetsDate
  <2>4. r["after"] # None
    BY <2>1 DEF None
  <2>5. MeantBy("date", v, m) <=> MeansMoment(v, m.date, now)
    BY DEF MeantBy
  <2>6. "after" \in DOMAIN s /\ s["after"] = r.after /\ DOMAIN s \subseteq {"after", "before"}
    BY <2>3, <2>4
  <2>7. "before" \in DOMAIN s <=> r.before # None
    BY <2>3
  <2>8. "before" \in DOMAIN s => s["before"] = r.before
    BY <2>3
  <2>9. \A x \in DOMAIN s : s[x] \in Nat
    BY <2>1, <2>6, <2>7, <2>8
  <2>10. MeantBy("date", v, m) <=> /\ "after" \in DOMAIN s => m.date >= s["after"]
                                   /\ "before" \in DOMAIN s => m.date < s["before"]
    BY <1>3, <2>1, <2>5, <2>6, <2>7, <2>8
  <2>. QED
    BY <1>1, <1>5, <2>2, <2>6, <2>9, <2>10
<1>6. CASE read[i].field \in {"after", "before"}
  <2>1. /\ r.after \in Nat
        /\ MeansAfter(v, m.date, now) <=> r.after <= m.date
        /\ MeansBefore(v, m.date, now) <=> m.date < r.after
    BY <1>2, <1>3, <1>4, <1>6, AfterMeans
  <2>2. PICK f, s : f = read[i].field /\ s = Sets(f, v)
    OBVIOUS
  <2>3. \A x : /\ x \in DOMAIN s <=> x = f /\ r.after # None
               /\ x \in DOMAIN s => s[x] = r.after
    BY <1>2, <1>6, <2>2, SetsSide
  <2>4. r.after # None
    BY <2>1 DEF None
  <2>5. f \in DOMAIN s /\ s[f] = r.after /\ \A x \in DOMAIN s : x = f
    BY <2>3, <2>4
  <2>6. CASE f = "after"
    <3>1. MeantBy("after", v, m) <=> MeansAfter(v, m.date, now)
      BY DEF MeantBy
    <3>2. "before" \notin DOMAIN s
      BY <2>5, <2>6
    <3>3. MeantBy("after", v, m) <=> m.date >= s["after"]
      BY <1>3, <2>1, <2>5, <2>6, <3>1
    <3>. QED
      BY <1>1, <2>1, <2>2, <2>5, <2>6, <3>2, <3>3
  <2>7. CASE f = "before"
    <3>1. MeantBy("before", v, m) <=> MeansBefore(v, m.date, now)
      BY DEF MeantBy
    <3>2. "after" \notin DOMAIN s
      BY <2>5, <2>7
    <3>3. MeantBy("before", v, m) <=> m.date < s["before"]
      BY <1>3, <2>1, <2>5, <2>7, <3>1
    <3>. QED
      BY <1>1, <2>1, <2>2, <2>5, <2>7, <3>2, <3>3
  <2>. QED
    BY <1>6, <2>2, <2>6, <2>7
<1>. QED
  BY <1>5, <1>6

\* Of the other conditions none sets a date.
LEMMA NoDate ==
  ASSUME session \in Sessions, QueryInv, NEW i, At(i, "filter"),
         read[i].field \notin {"date", "after", "before"}, NEW x \in {"after", "before"}
  PROVE  x \notin DOMAIN Sets(read[i].field, read[i].value)
<1>1. SUFFICES ASSUME x \in DOMAIN Sets(read[i].field, read[i].value) PROVE FALSE
  OBVIOUS
<1>2. FieldOf(x) \in Occupied(read[i].field)
  BY <1>1, SetsOccupied, ValuesAre
<1>. QED
  BY <1>2 DEF FieldOf, Occupied

LEMMA DatesMean ==
  ASSUME session \in Sessions, WellFormed, QueryInv, LoopInv, NEW m \in table
  PROVE  MeantDates(m) <=> InDates(m)
<1>0. m.date \in Nat /\ DayOf(m.date) \in Days
  BY QueryAssumption DEF table, Mail
<1>1. ~raised
  BY NothingRaises
<1>2. ASSUME MeantDates(m), NEW x \in {"after", "before"}, settings[x] # None
      PROVE  IF x = "after" THEN m.date >= settings[x] ELSE m.date < settings[x]
  <2>1. Unset[x] = None /\ x \in DOMAIN Unset
    BY DEF Unset
  <2>2. PICK i : At(i, "filter") /\ x \in DOMAIN Sets(read[i].field, read[i].value)
    BY <1>1, <1>2, <2>1, SettingUnset
  <2>3. read[i].field \in {"date", "after", "before"}
    BY <2>2, NoDate
  <2>4. MeantBy(read[i].field, read[i].value, m)
    BY <1>2, <2>2, <2>3 DEF MeantDates, At
  <2>5. settings[x] = Sets(read[i].field, read[i].value)[x]
    BY <1>1, <2>2, SettingIs
  <2>. QED
    BY <1>0, <2>2, <2>3, <2>4, <2>5, OneDate
<1>3. ASSUME MeantDates(m) PROVE InDates(m)
  BY <1>2, <1>3 DEF InDates
<1>4. ASSUME InDates(m), NEW i, At(i, "filter"), read[i].field \in {"date", "after", "before"}
      PROVE  MeantBy(read[i].field, read[i].value, m)
  <2>1. PICK s : s = Sets(read[i].field, read[i].value)
    OBVIOUS
  <2>2. /\ \A x \in DOMAIN s : s[x] \in Nat
        /\ MeantBy(read[i].field, read[i].value, m) <=>
             /\ "after" \in DOMAIN s => m.date >= s["after"]
             /\ "before" \in DOMAIN s => m.date < s["before"]
    BY <1>0, <1>4, <2>1, OneDate
  <2>3. \A x \in DOMAIN s : settings[x] = s[x] /\ settings[x] # None
    <3>1. \A x \in DOMAIN s : settings[x] = s[x]
      BY <1>1, <1>4, <2>1, SettingIs
    <3>. QED
      BY <2>2, <3>1 DEF None
  <2>. QED
    BY <1>4, <2>2, <2>3 DEF InDates
<1>5. ASSUME InDates(m) PROVE MeantDates(m)
  BY <1>4, <1>5 DEF MeantDates
<1>. QED
  BY <1>3, <1>5

LEMMA NoneSets ==
  ASSUME session \in Sessions, WellFormed, QueryInv, LoopInv,
         NEW x \in {"attached", "file", "size"}, \A i : At(i, "filter") => read[i].field # FieldOf(x)
  PROVE  settings[x] = Unset[x]
<1>1. ASSUME NEW i, At(i, "filter") PROVE x \notin DOMAIN Sets(read[i].field, read[i].value)
  <2>1. SUFFICES ASSUME x \in DOMAIN Sets(read[i].field, read[i].value) PROVE FALSE
    OBVIOUS
  <2>2. FieldOf(x) \in Occupied(read[i].field)
    BY <1>1, <2>1, SetsOccupied, ValuesAre
  <2>3. FieldOf(x) \notin {"after", "before"}
    BY DEF FieldOf
  <2>. QED
    BY <1>1, <2>2, <2>3 DEF Occupied
<1>2. x \in DOMAIN Unset
  BY DEF Unset
<1>. QED
  BY <1>1, <1>2, NothingRaises, SettingUnset

\* The condition on attachments.
LEMMA AttachedIs ==
  ASSUME session \in Sessions, WellFormed, QueryInv, LoopInv,
         NEW i, At(i, "filter"), read[i].field = "hasattachment"
  PROVE  settings.attached = read[i].value.form /\ read[i].value.form \in {"yes", "no"}
<1>1. Documented("hasattachment", read[i].value)
  BY DEF WellFormed, At
<1>2. read[i].value.form \in {"yes", "no"}
  BY <1>1 DEF Documented
<1>3. "attached" \in DOMAIN Sets("hasattachment", read[i].value)
  BY SetsAttached
<1>4. Sets("hasattachment", read[i].value)["attached"] = read[i].value.form
  BY <1>2, <1>3, SetsAttached
<1>. QED
  BY <1>2, <1>3, <1>4, NothingRaises, SettingIs

LEMMA NoAttached ==
  ASSUME session \in Sessions, WellFormed, QueryInv, LoopInv
  PROVE  settings.attached = "none" <=> \A i : At(i, "filter") => read[i].field # "hasattachment"
<1>1. ASSUME \A i : At(i, "filter") => read[i].field # "hasattachment" PROVE settings.attached = "none"
  <2>1. FieldOf("attached") = "hasattachment" /\ Unset["attached"] = "none"
    BY DEF FieldOf, Unset
  <2>2. settings["attached"] = Unset["attached"]
    BY <1>1, <2>1, NoneSets
  <2>. QED
    BY <2>1, <2>2
<1>2. ASSUME settings.attached = "none", NEW i, At(i, "filter"), read[i].field = "hasattachment"
      PROVE  FALSE
  BY <1>2, AttachedIs
<1>. QED
  BY <1>1, <1>2

LEMMA AttachedMeans ==
  ASSUME session \in Sessions, WellFormed, QueryInv, LoopInv, NEW m \in table
  PROVE  Attached(m) <=> \A i : At(i, "filter") /\ read[i].field = "hasattachment" =>
                                  MeantBy(read[i].field, read[i].value, m)
<1>1. \A i : At(i, "filter") /\ read[i].field = "hasattachment" =>
        (MeantBy(read[i].field, read[i].value, m) <=> m.attached = settings.attached)
  <2>1. SUFFICES ASSUME NEW i, At(i, "filter"), read[i].field = "hasattachment"
                 PROVE  MeantBy("hasattachment", read[i].value, m) <=> m.attached = settings.attached
    OBVIOUS
  <2>. QED
    BY <2>1, AttachedIs DEF MeantBy
<1>. QED
  BY <1>1, AttachedIs, NoAttached DEF Attached

\* The condition on files.
LEMMA FileMeans ==
  ASSUME session \in Sessions, WellFormed, QueryInv, LoopInv, NEW m \in table
  PROVE  settings.file \in {"none", m.file} <=>
           \A i : At(i, "filter") /\ read[i].field = "file" =>
                    MeantBy(read[i].field, read[i].value, m)
<1>1. ASSUME NEW i, At(i, "filter"), read[i].field = "file"
      PROVE  /\ settings.file = read[i].value.file /\ settings.file # "none"
             /\ MeantBy(read[i].field, read[i].value, m) <=> m.file = settings.file
  <2>1. "file" \in DOMAIN Sets("file", read[i].value)
    BY SetsFile
  <2>2. Sets("file", read[i].value)["file"] = read[i].value.file
    BY <2>1, SetsFile
  <2>3. settings["file"] = read[i].value.file
    BY <1>1, <2>1, <2>2, NothingRaises, SettingIs
  <2>4. read[i].value.file # "none"
    BY <1>1, ValuesAre DEF IsValue
  <2>5. MeantBy("file", read[i].value, m) <=> m.file = read[i].value.file
    BY DEF MeantBy
  <2>. QED
    BY <1>1, <2>3, <2>4, <2>5
<1>2. ASSUME \A i : At(i, "filter") => read[i].field # "file" PROVE settings.file = "none"
  <2>1. FieldOf("file") = "file" /\ Unset["file"] = "none"
    BY DEF FieldOf, Unset
  <2>2. settings["file"] = Unset["file"]
    BY <1>2, <2>1, NoneSets
  <2>. QED
    BY <2>1, <2>2
<1>. QED
  BY <1>1, <1>2

\* The condition on the size.
LEMMA SizeMeans ==
  ASSUME session \in Sessions, WellFormed, QueryInv, LoopInv, NEW m \in table
  PROVE  settings.size = NoSize \/ SizePasses(m.size, settings.size) <=>
           \A i : At(i, "filter") /\ read[i].field = "size" =>
                    MeantBy(read[i].field, read[i].value, m)
<1>1. ASSUME NEW i, At(i, "filter"), read[i].field = "size"
      PROVE  /\ settings.size # NoSize
             /\ MeantBy(read[i].field, read[i].value, m) <=> SizePasses(m.size, settings.size)
  <2>1. Documented("size", read[i].value)
    BY <1>1 DEF WellFormed, At
  <2>2. read[i].value.form = "size"
    BY <2>1 DEF Documented
  <2>3. "size" \in DOMAIN Sets("size", read[i].value)
    BY <2>2, SetsSize
  <2>4. Sets("size", read[i].value)["size"] = ParseSize(read[i].value)
    BY <2>3, SetsSize
  <2>5. settings["size"] = ParseSize(read[i].value)
    BY <1>1, <2>3, <2>4, NothingRaises, SettingIs
  <2>6. IsSize(read[i].value)
    BY <1>1, <2>2, ValuesAre DEF IsValue
  <2>7. ParseSize(read[i].value).op # "none"
    BY <2>6 DEF ParseSize, IsSize
  <2>8. MeantBy("size", read[i].value, m) <=> SizePasses(m.size, ParseSize(read[i].value))
    BY DEF MeantBy
  <2>. QED
    BY <1>1, <2>5, <2>7, <2>8 DEF NoSize
<1>2. ASSUME \A i : At(i, "filter") => read[i].field # "size" PROVE settings.size = NoSize
  <2>1. FieldOf("size") = "size" /\ Unset["size"] = NoSize
    BY DEF FieldOf, Unset
  <2>2. settings["size"] = Unset["size"]
    BY <1>2, <2>1, NoneSets
  <2>. QED
    BY <2>1, <2>2
<1>. QED
  BY <1>1, <1>2

\* The WHERE keeps the mails the conditions mean.
LEMMA WhereMeans ==
  ASSUME session \in Sessions, WellFormed, QueryInv, LoopInv, NEW h, Reading(h), NEW m \in table
  PROVE  Where(m) <=> MeantDates(m) /\ MeantOthers(m) /\ MeantFolders(m)
<1>1. ASSUME NEW i, At(i, "filter"), read[i].field \notin {"date", "after", "before"}
      PROVE  read[i].field \in {"size", "file", "hasattachment"}
  BY <1>1, ValuesAre DEF IsValue
<1>2. MeantOthers(m) <=>
        \A i : At(i, "filter") /\ read[i].field \in {"size", "file", "hasattachment"} =>
                 MeantBy(read[i].field, read[i].value, m)
  BY <1>1 DEF MeantOthers, At
<1>3. MeantOthers(m) <=> /\ Attached(m) /\ settings.file \in {"none", m.file}
                         /\ settings.size = NoSize \/ SizePasses(m.size, settings.size)
  BY <1>2, AttachedMeans, FileMeans, SizeMeans
<1>. QED
  BY <1>3, DatesMean, FoldersMean DEF Where

-----------------------------------------------------------------------------
(* What is found and what is blamed *)

\* The MATCH expression keeps the mails that verification and it agree on.
LEMMA MatchKeeps ==
  ASSUME session \in Sessions, NEW m \in table, Verify(m), ~ShortSide, ~NotTooWide(m)
  PROVE  MatchExpr(m)
<1>1. \A t \in m.has : Hits(m, t)
  BY SupersetAssumption DEF Hits, table
<1>2. \A t \in AndTerms : Hits(m, t)
  BY <1>1 DEF Verify
<1>3. ASSUME NEW p \in Pairs, Long(p[1]) \/ Long(p[2]) PROVE PairHits(m, p)
  <2>1. Long(p[1]) = Long(p[2])
    BY DEF ShortSide
  <2>2. Long(p[1]) /\ Long(p[2])
    BY <1>3, <2>1 DEF Long
  <2>3. p[1] \in m.has \/ p[2] \in m.has
    BY DEF Verify
  <2>. QED
    BY <1>1, <2>2, <2>3 DEF PairHits
<1>4. \A t \in NotTerms : ~(Long(t) /\ Hits(m, t))
  BY DEF Verify, NotTooWide
<1>. QED
  BY <1>2, <1>3, <1>4 DEF MatchExpr

LEMMA FoundMeans ==
  ASSUME session \in Sessions, QueryInv, LoopInv
  PROVE  FoundIsWhatIsMeant
<1>1. SUFFICES ASSUME WellFormed
               PROVE  /\ ~raised
                      /\ \A m \in table : /\ Found(m) => Meant(m)
                                          /\ Meant(m) /\ ~ShortSide /\ ~NotTooWide(m) => Found(m)
  BY DEF FoundIsWhatIsMeant
<1>2. ~raised
  BY <1>1, NothingRaises
<1>3. PICK h : Reading(h)
  BY <1>2 DEF LoopInv, WordsAreClauses, Reading, QueryInv, QueryTypes
<1>4. ASSUME NEW m \in table
      PROVE  /\ Verify(m) <=> MeantWords(m)
             /\ Where(m) <=> MeantDates(m) /\ MeantOthers(m) /\ MeantFolders(m)
  BY <1>1, <1>3, VerifyMeans, WhereMeans
<1>5. ASSUME NEW m \in table, Found(m) PROVE Meant(m)
  BY <1>4, <1>5 DEF Found, Meant
<1>6. ASSUME NEW m \in table, Meant(m), ~ShortSide, ~NotTooWide(m) PROVE Found(m)
  <2>1. Verify(m) /\ Where(m)
    BY <1>4, <1>6 DEF Meant
  <2>2. MatchExpr(m)
    BY <1>6, <2>1, MatchKeeps
  <2>. QED
    BY <1>2, <2>1, <2>2 DEF Found
<1>. QED
  BY <1>2, <1>5, <1>6

\* Which conditions the diagnosis counts.
LEMMA DatesCounted ==
  ASSUME session \in Sessions, WellFormed, QueryInv, LoopInv
  PROVE  settings.after # None \/ settings.before # None <=>
           \E i \in DOMAIN read : At(i, "filter") /\ read[i].field \in {"date", "after", "before"}
<1>1. ~raised
  BY NothingRaises
<1>2. ASSUME NEW x \in {"after", "before"}, settings[x] # None
      PROVE  \E i \in DOMAIN read : At(i, "filter") /\ read[i].field \in {"date", "after", "before"}
  <2>1. Unset[x] = None /\ x \in DOMAIN Unset
    BY DEF Unset
  <2>2. PICK i : At(i, "filter") /\ x \in DOMAIN Sets(read[i].field, read[i].value)
    BY <1>1, <1>2, <2>1, SettingUnset
  <2>3. read[i].field \in {"date", "after", "before"}
    BY <2>2, NoDate
  <2>. QED
    BY <2>2, <2>3 DEF At
<1>3. ASSUME NEW i, At(i, "filter"), read[i].field \in {"date", "after", "before"}
      PROVE  settings.after # None \/ settings.before # None
  <2>1. PICK s : s = Sets(read[i].field, read[i].value)
    OBVIOUS
  <2>2. DOMAIN s # {} /\ DOMAIN s \subseteq {"after", "before"} /\ \A x \in DOMAIN s : s[x] \in Nat
    <3> DEFINE d == [date |-> now]
    <3>1. d.date \in Nat /\ DayOf(d.date) \in Days
      BY QueryAssumption DEF now
    <3>. HIDE DEF d
    <3>. QED
      BY <1>3, <2>1, <3>1, OneDate
  <2>3. PICK x \in DOMAIN s : s[x] \in Nat
    BY <2>2
  <2>4. settings[x] = s[x]
    BY <1>1, <1>3, <2>1, SettingIs
  <2>5. settings[x] # None /\ x \in {"after", "before"}
    BY <2>2, <2>3, <2>4 DEF None
  <2>. QED
    BY <2>5
<1>. QED
  BY <1>2, <1>3

LEMMA BlameMeans ==
  ASSUME session \in Sessions, QueryInv, LoopInv
  PROVE  BlameIsExact
<1>1. SUFFICES ASSUME WellFormed
      PROVE
        /\ "folder" \in BlamedConditions <=>
             \E i \in DOMAIN read : At(i, "folder") /\ \A m \in table : ~MeantFolders(m)
        /\ "date" \in BlamedConditions <=>
             /\ \E i \in DOMAIN read : At(i, "filter") /\ read[i].field \in {"date", "after", "before"}
             /\ \A m \in table : ~MeantDates(m)
        /\ "hasattachment" \in BlamedConditions <=>
             \E i \in DOMAIN read : /\ At(i, "filter") /\ read[i].field = "hasattachment"
                                    /\ \A m \in table : m.attached # read[i].value.form
        /\ \A i \in DOMAIN read : Required(i) =>
             LET t == read[i].term
                 absent == \A m \in table : t \notin m.has
             IN /\ t \in BlamedTerms => absent
                /\ absent /\ (\A m \in table : ~Hits(m, t)) /\ Long(t) => t \in BlamedTerms
  BY DEF BlameIsExact
<1>2. PICK h : Reading(h)
  BY <1>1, NothingRaises DEF LoopInv, WordsAreClauses, Reading, QueryInv, QueryTypes
<1>3. /\ "folder" \in Conditions <=> folders # {}
      /\ "date" \in Conditions <=> settings.after # None \/ settings.before # None
      /\ "hasattachment" \in Conditions <=> settings.attached # "none"
  BY DEF Conditions
<1>4. \A m : /\ Counted("folder", m) <=> InFolders(m)
             /\ Counted("date", m) <=> InDates(m)
             /\ Counted("hasattachment", m) <=> Attached(m)
  BY DEF Counted
<1>5. \A c : c \in BlamedConditions <=> c \in Conditions /\ \A m \in table : ~Counted(c, m)
  BY DEF BlamedConditions
<1>6. "folder" \in BlamedConditions <=>
        \E i \in DOMAIN read : At(i, "folder") /\ \A m \in table : ~MeantFolders(m)
  <2>1. folders # {} <=> \E i \in DOMAIN read : At(i, "folder")
    BY <1>2, Places DEF LoopInv, FoldersAreNamed, KindAt, At
  <2>2. \A m \in table : InFolders(m) <=> MeantFolders(m)
    BY <1>2, FoldersMean
  <2>. QED
    BY <1>3, <1>4, <1>5, <2>1, <2>2
<1>7. "date" \in BlamedConditions <=>
        /\ \E i \in DOMAIN read : At(i, "filter") /\ read[i].field \in {"date", "after", "before"}
        /\ \A m \in table : ~MeantDates(m)
  <2>1. \A m \in table : InDates(m) <=> MeantDates(m)
    BY <1>1, DatesMean
  <2>. QED
    BY <1>1, <1>3, <1>4, <1>5, <2>1, DatesCounted
<1>8. "hasattachment" \in BlamedConditions <=>
        \E i \in DOMAIN read : /\ At(i, "filter") /\ read[i].field = "hasattachment"
                               /\ \A m \in table : m.attached # read[i].value.form
  <2>1. settings.attached = "none" <=> \A i : At(i, "filter") => read[i].field # "hasattachment"
    BY <1>1, NoAttached
  <2>2. \A i : At(i, "filter") /\ read[i].field = "hasattachment" =>
          settings.attached = read[i].value.form
    BY <1>1, AttachedIs
  <2>3. settings.attached # "none" => \A m : Attached(m) <=> m.attached = settings.attached
    BY DEF Attached
  <2>4. \A i : At(i, "filter") => i \in DOMAIN read
    BY DEF At
  <2>. QED
    BY <1>3, <1>4, <1>5, <2>1, <2>2, <2>3, <2>4
<1>9. ASSUME NEW i \in DOMAIN read, Required(i), NEW t, t = read[i].term
      PROVE  /\ t \in BlamedTerms => \A m \in table : t \notin m.has
             /\ Long(t) /\ (\A m \in table : ~Hits(m, t)) => t \in BlamedTerms
  <2>1. t \in AndTerms
    BY <1>1, <1>2, <1>9, AndTermsMean
  <2>2. \A m \in table : t \in m.has => Hits(m, t)
    BY SupersetAssumption DEF Hits, table
  <2>. QED
    BY <2>1, <2>2 DEF BlamedTerms
<1>. QED
  BY <1>6, <1>7, <1>8, <1>9

-----------------------------------------------------------------------------
(* The theorems *)

\* Whatever is typed, no condition is between the two words of a pair and its OR, but those
\* over which the OR reaches back.
THEOREM AnOrJoinsNeighbours == Spec => []PairsAreNeighbours
<1>1. QueryInv => PairsAreNeighbours
  <2>1. SUFFICES ASSUME QueryInv, NEW p \in Pairs
                 PROVE  \E i, j, k \in DOMAIN read :
                          /\ i < j /\ At(i, "word") /\ read[i].term = p[1] /\ At(j, "or")
                          /\ j < k /\ At(k, "word") /\ read[k].term = p[2]
                          /\ \A n \in j + 1..k - 1 : ~Solid(n)
                          /\ (\A n \in i + 1..j - 1 : ~Solid(n)) \/ ReachesBack(i, j)
    BY DEF PairsAreNeighbours
  <2>2. /\ DOMAIN clauses = 1..Len(clauses) /\ DOMAIN read = 1..Len(read)
    BY <2>1 DEF QueryInv, QueryTypes
  <2>3. PICK a \in Ors(clauses) : p = <<clauses[a].left, clauses[a].right>>
    BY <2>2 DEF Pairs, Clauses, Ors
  <2>4. Joined(read, p)
    BY <2>1, <2>3 DEF QueryInv, Neighbours
  <2>5. PICK i \in 1..Len(read), j \in 1..Len(read), k \in 1..Len(read) :
          /\ i < j /\ j < k
          /\ read[i].kind = "word" /\ read[i].term = p[1]
          /\ \A n \in i + 1..j : read[n].kind # "word"
          /\ read[j].kind = "or" /\ \A n \in j + 1..k - 1 : read[n].kind \notin SolidKinds
          /\ read[k].kind = "word" /\ read[k].term = p[2]
    BY <2>4, Zenon DEF Joined
  <2>6. /\ i \in DOMAIN read /\ j \in DOMAIN read /\ k \in DOMAIN read
        /\ At(i, "word") /\ At(j, "or") /\ At(k, "word")
    BY <2>2, <2>5 DEF At
  <2>7. (\A n \in i + 1..j - 1 : ~At(n, "word")) /\ (\A n \in j + 1..k - 1 : ~Solid(n))
    BY <2>5 DEF At, Solid, SolidKinds
  <2>8. (\A n \in i + 1..j - 1 : ~Solid(n)) \/ ReachesBack(i, j)
    <3>1. SUFFICES ASSUME NEW n \in i + 1..j - 1, Solid(n) PROVE ReachesBack(i, j)
      OBVIOUS
    <3>2. At(n, "folder") \/ At(n, "filter")
      BY <2>7, <3>1 DEF Solid, At
    <3>. QED
      BY <2>7, <3>2 DEF ReachesBack
  <2>9. read[i].term = p[1] /\ read[k].term = p[2] /\ i < j /\ j < k
    BY <2>5
  <2>. QED
    BY <2>6, <2>7, <2>8, <2>9, Zenon
<1>. QED
  BY <1>1, QueryAlways, PTL

\* Whatever is typed, an OR in front of a condition has joined it or left a warning.
THEOREM NoOrIsForgotten == Spec => []EveryOrIsHonouredOrReported
<1>1. QueryInv => EveryOrIsHonouredOrReported
  <2>1. SUFFICES ASSUME QueryInv PROVE EveryOrIsHonouredOrReported
    OBVIOUS
  <2>2. DOMAIN clauses = 1..Len(clauses) /\ DOMAIN read = 1..Len(read) /\ Len(read) \in Nat
    BY <2>1 DEF QueryInv, QueryTypes
  <2> DEFINE after == {k \in DOMAIN read : Solid(k) /\ \E i \in 1..k - 1 :
                         At(i, "or") /\ \A j \in i + 1..k - 1 : ~Solid(j)}
  <2>3. ASSUME NEW k \in 1..Len(read) PROVE k \in after <=> k \in After(read)
    <3>1. \A i \in 1..k - 1 : i \in DOMAIN read /\ \A j \in i + 1..k - 1 : j \in DOMAIN read
      BY <2>2
    <3>2. \A i \in DOMAIN read : /\ Solid(i) <=> read[i].kind \in SolidKinds
                                 /\ At(i, "or") <=> read[i].kind = "or"
      BY DEF Solid, At, SolidKinds
    <3>. QED
      BY <2>2, <3>1, <3>2 DEF After
  <2>4. after = After(read)
    BY <2>2, <2>3 DEF After
  <2>5. {i \in DOMAIN clauses : clauses[i].kind = "or"} = Ors(clauses)
    BY <2>2 DEF Ors
  <2>. HIDE DEF after
  <2>6. ~raised => Cardinality(after) =
          orWarned + Cardinality({i \in DOMAIN clauses : clauses[i].kind = "or"})
    BY <2>1, <2>4, <2>5 DEF QueryInv, OrsAreCounted
  <2>. QED
    BY <2>6 DEF EveryOrIsHonouredOrReported, after
<1>. QED
  BY <1>1, QueryAlways, PTL

\* A query as the documentation has it raises nothing, finds only mails it means, and all of
\* them but for an OR with a side of one letter and for a mail that has all bigrams of an
\* excluded word without having the word.
THEOREM FindsWhatIsMeant == Spec => []FoundIsWhatIsMeant
  BY LoopAlways, SessionStays, FoundMeans, PTL

\* What is blamed for an answer without hits is what no mail has, and each folder, period or
\* attachment condition that no mail meets is blamed.
THEOREM BlamesExactly == Spec => []BlameIsExact
  BY LoopAlways, SessionStays, BlameMeans, PTL
=============================================================================
