-------------------------- MODULE IndexWindowProofs --------------------------
(***************************************************************************)
(* Proofs about IndexWindow: CountIsExact and StopTakesEffect, for any     *)
(* dialogs, choices, spellings and ways a run ends.                        *)
(***************************************************************************)
EXTENDS IndexWindow, FiniteSetTheorems, TLAPS

-----------------------------------------------------------------------------
(* The inductive invariant *)

Events == [kind : {"over", "batch"}, path : Paths]

WindowTypes ==
  /\ stop \in BOOLEAN
  /\ win \in [Dialogs -> {"none", "open", "done", "closed"}]
  /\ run \in [Dialogs -> {"off", "planning", "top", "get", "stopped", "finished", "failed"}]
  /\ chosen \in [Dialogs -> {S \in SUBSET Paths : IsFiniteSet(S)}]
  /\ todo \in [Dialogs -> SUBSET Paths]
  /\ remaining \in [Dialogs -> SUBSET Paths]
  /\ settled \in [Dialogs -> SUBSET Paths]
  /\ count \in [Dialogs -> Nat] /\ late \in [Dialogs -> Nat] /\ batches \in [Dialogs -> Nat]
  /\ events \in [Dialogs -> Seq(Events)]
  /\ stopped \in [Dialogs -> BOOLEAN] /\ revoked \in [Dialogs -> BOOLEAN]

\* Nothing happens before a dialog is opened.
Untouched == \A d \in Dialogs :
  win[d] = "none" => /\ run[d] = "off" /\ count[d] = 0 /\ events[d] = <<>>
                     /\ settled[d] = {} /\ remaining[d] = {}

\* A unit is still to plan, or to read, or settled.
Apart == \A d \in Dialogs :
  /\ todo[d] \cap remaining[d] = {}
  /\ (todo[d] \cup remaining[d]) \cap settled[d] = {}

\* As long as the flag was not cleared it is up for every run that was asked to stop, and
\* the run that has handled a message since is not at another.
FlagIsUp == \A d \in Dialogs :
  /\ revoked[d] => stopped[d]
  /\ ~stopped[d] => late[d] = 0
  /\ stopped[d] /\ ~revoked[d] => /\ stop
                                  /\ late[d] <= IF run[d] = "get" THEN 0 ELSE 1

WindowInv == WindowTypes /\ Untouched /\ Apart /\ FlagIsUp /\ CountIsExact

-----------------------------------------------------------------------------
(* Counting *)

\* The events of q that count for the chosen paths S.
Finished(q, S) == {i \in DOMAIN q : q[i].path \in S /\ q[i].kind = "over"}

LEMMA CountedIs == \A d, q : Counted(d, q) = Finished(q, chosen[d])
  BY DEF Counted, Finished

LEMMA FinishedFinite ==
  ASSUME NEW S, NEW q \in Seq(Events)
  PROVE  IsFiniteSet(Finished(q, S)) /\ Cardinality(Finished(q, S)) \in Nat
<1>1. Len(q) \in Nat /\ Finished(q, S) \subseteq 1..Len(q)
  BY DEF Finished
<1>2. IsFiniteSet(1..Len(q))
  BY <1>1, FS_Interval
<1>. QED
  BY <1>1, <1>2, FS_Subset, FS_CardinalityType

\* An event more counts for one, or for nothing.
LEMMA FinishedMore ==
  ASSUME NEW S, NEW q \in Seq(Events), NEW kind \in {"over", "batch"}, NEW u \in Paths
  PROVE  LET r == Append(q, [kind |-> kind, path |-> u])
         IN  /\ r \in Seq(Events)
             /\ Cardinality(Finished(r, S)) =
                  Cardinality(Finished(q, S)) + (IF kind = "over" /\ u \in S THEN 1 ELSE 0)
<1> DEFINE e == [kind |-> kind, path |-> u]
           r == Append(q, e)
           n == Len(q) + 1
<1>1. /\ e \in Events /\ e.kind = kind /\ e.path = u
      /\ Len(q) \in Nat /\ DOMAIN q = 1..Len(q)
  BY DEF Events
<1>. HIDE DEF e
<1>2. /\ r \in Seq(Events) /\ DOMAIN r = 1..n /\ r[n] = e
      /\ \A i \in 1..Len(q) : r[i] = q[i]
  BY <1>1
<1>. HIDE DEF r
<1>3. \A i \in 1..n : i \in 1..Len(q) \/ i = n
  BY <1>1
<1>4. \A i \in 1..Len(q) : i \in 1..n /\ i # n
  BY <1>1
<1>5. n \in 1..n /\ n \notin 1..Len(q)
  BY <1>1
<1>. HIDE DEF n
<1>6. Finished(r, S) = IF kind = "over" /\ u \in S THEN Finished(q, S) \cup {n} ELSE Finished(q, S)
  BY <1>1, <1>2, <1>3, <1>4, <1>5 DEF Finished
<1>7. n \notin Finished(q, S)
  BY <1>1, <1>5 DEF Finished
<1>8. IsFiniteSet(Finished(q, S)) /\ Cardinality(Finished(q, S)) \in Nat
  BY FinishedFinite
<1>9. Cardinality(Finished(q, S) \cup {n}) = Cardinality(Finished(q, S)) + 1
  BY <1>7, <1>8, FS_AddElement
<1>. QED
  BY <1>2, <1>6, <1>8, <1>9 DEF r, e

LEMMA PutTypes ==
  ASSUME WindowTypes, NEW d \in Dialogs, NEW kind \in {"over", "batch"}, NEW u \in Paths,
         Put(d, kind, u)
  PROVE  events' \in [Dialogs -> Seq(Events)]
<1> DEFINE e == [kind |-> kind, path |-> u]
<1>1. events \in [Dialogs -> Seq(Events)] /\ events[d] \in Seq(Events)
  BY DEF WindowTypes
<1>2. Append(events[d], e) \in Seq(Events)
  BY <1>1, FinishedMore
<1>3. events' = [events EXCEPT ![d] = Append(events[d], e)]
  BY DEF Put
<1>. HIDE DEF e
<1>. QED
  BY <1>1, <1>2, <1>3

\* What is unchanged keeps the count exact.
LEMMA CountStays ==
  ASSUME CountIsExact, UNCHANGED <<chosen, count, events, settled>>,
         \A d \in Dialogs : win'[d] = win[d] \/ win'[d] = "closed"
  PROVE  CountIsExact'
  BY DEF CountIsExact, Counted

\* An event of u that does not count, or counts as u is settled.
LEMMA CountFollows ==
  ASSUME WindowInv, NEW d \in Dialogs, NEW u \in Paths, NEW kind \in {"over", "batch"},
         Put(d, kind, u), UNCHANGED <<win, chosen, count>>,
         kind = "batch" => settled' = settled,
         kind = "over" => /\ u \notin settled[d]
                          /\ settled' = [settled EXCEPT ![d] = @ \cup {u}]
  PROVE  CountIsExact'
<1>1. WindowTypes /\ CountIsExact
  BY DEF WindowInv
<1>2. /\ events[d] \in Seq(Events) /\ IsFiniteSet(chosen[d]) /\ count[d] \in Nat
      /\ \A x \in Dialogs : /\ settled'[x] = IF x = d /\ kind = "over" THEN settled[x] \cup {u}
                                             ELSE settled[x]
                            /\ x # d => events'[x] = events[x]
      /\ events'[d] = Append(events[d], [kind |-> kind, path |-> u])
  BY <1>1 DEF WindowTypes, Put
<1>3. SUFFICES ASSUME NEW x \in Dialogs
               PROVE  /\ win[x] = "open" =>
                          count[x] + Cardinality(Finished(events'[x], chosen[x]))
                            = Cardinality(settled'[x] \cap chosen[x])
                      /\ win[x] = "done" => chosen[x] \subseteq settled'[x]
  BY DEF CountIsExact, Counted, Finished
<1>4. /\ win[x] = "open" => count[x] + Cardinality(Finished(events[x], chosen[x]))
                              = Cardinality(settled[x] \cap chosen[x])
      /\ win[x] = "done" => chosen[x] \subseteq settled[x]
  BY <1>1 DEF CountIsExact, Counted, Finished
<1>5. CASE x # d
  BY <1>2, <1>4, <1>5
<1>6. CASE x = d
  <2> DEFINE A == settled[d] \cap chosen[d]
             B == settled'[d] \cap chosen[d]
             m == IF kind = "over" /\ u \in chosen[d] THEN 1 ELSE 0
  <2>1. Cardinality(Finished(events'[d], chosen[d]))
          = Cardinality(Finished(events[d], chosen[d])) + m
    BY <1>2, FinishedMore
  <2>2. Cardinality(Finished(events[d], chosen[d])) \in Nat
    BY <1>2, FinishedFinite
  <2>3. IsFiniteSet(A) /\ Cardinality(A) \in Nat
    BY <1>2, FS_Subset, FS_CardinalityType
  <2>4. kind = "over" /\ u \in chosen[d] => B = A \cup {u} /\ u \notin A /\ m = 1
    BY <1>2
  <2>5. ~(kind = "over" /\ u \in chosen[d]) => B = A /\ m = 0
    BY <1>2
  <2>. HIDE DEF A, B, m
  <2>6. u \notin A => Cardinality(A \cup {u}) = Cardinality(A) + 1
    BY <2>3, FS_AddElement
  <2>7. Cardinality(B) = Cardinality(A) + m /\ m \in {0, 1}
    <3>1. CASE kind = "over" /\ u \in chosen[d]
      BY <2>4, <2>6, <3>1
    <3>2. CASE ~(kind = "over" /\ u \in chosen[d])
      <4>1. B = A /\ m = 0
        BY <2>5, <3>2
      <4>2. Cardinality(A) + 0 = Cardinality(A)
        BY <2>3
      <4>. QED
        BY <4>1, <4>2
    <3>. QED
      BY <3>1, <3>2
  <2>8. win[d] = "open" => count[d] + Cardinality(Finished(events'[d], chosen[d]))
                             = Cardinality(B)
    BY <1>2, <1>4, <1>6, <2>1, <2>2, <2>3, <2>7 DEF A
  <2>9. settled[d] \subseteq settled'[d]
    BY <1>2
  <2>. QED
    BY <1>4, <1>6, <2>8, <2>9 DEF B
<1>. QED
  BY <1>5, <1>6

\* Polling moves what the queue holds into the count.
LEMMA PollCounts ==
  ASSUME WindowInv, NEW d \in Dialogs, Poll(d)
  PROVE  CountIsExact'
<1>1. WindowTypes /\ CountIsExact
  BY DEF WindowInv
<1> DEFINE C == Cardinality(Finished(events[d], chosen[d]))
           A == settled[d] \cap chosen[d]
<1>2. /\ events[d] \in Seq(Events) /\ IsFiniteSet(chosen[d]) /\ count[d] \in Nat
      /\ UNCHANGED <<chosen, settled>> /\ win[d] = "open"
      /\ count'[d] = count[d] + C
      /\ events'[d] = <<>>
      /\ win'[d] = IF count'[d] < Cardinality(chosen[d]) THEN "open" ELSE "done"
      /\ \A x \in Dialogs : x # d =>
           count'[x] = count[x] /\ events'[x] = events[x] /\ win'[x] = win[x]
  BY <1>1, CountedIs DEF WindowTypes, Poll
<1>3. C \in Nat
  BY <1>2, FinishedFinite
<1>4. count'[d] = Cardinality(A)
  BY <1>1, <1>2, CountedIs DEF CountIsExact
<1>5. Cardinality(Finished(<<>>, chosen[d])) = 0
  <2>1. Finished(<<>>, chosen[d]) = {}
    BY DEF Finished
  <2>. QED
    BY <2>1, FS_EmptySet
<1>6. win'[d] = "done" => chosen[d] \subseteq settled[d]
  <2>1. SUFFICES ASSUME ~(count'[d] < Cardinality(chosen[d])) PROVE chosen[d] \subseteq settled[d]
    BY <1>2
  <2>2. /\ Cardinality(A) <= Cardinality(chosen[d])
        /\ Cardinality(A) = Cardinality(chosen[d]) => A = chosen[d]
    BY <1>2, FS_Subset
  <2>3. Cardinality(chosen[d]) \in Nat /\ Cardinality(A) \in Nat
    BY <1>2, FS_Subset, FS_CardinalityType
  <2>4. A = chosen[d]
    BY <1>4, <2>1, <2>2, <2>3
  <2>. QED
    BY <2>4
<1>. HIDE DEF C
<1>7. SUFFICES ASSUME NEW x \in Dialogs
               PROVE  /\ win'[x] = "open" =>
                          count'[x] + Cardinality(Finished(events'[x], chosen[x]))
                            = Cardinality(settled[x] \cap chosen[x])
                      /\ win'[x] = "done" => chosen[x] \subseteq settled[x]
  BY <1>2 DEF CountIsExact, Counted, Finished
<1>8. CASE x = d
  <2>1. count'[d] \in Nat
    BY <1>2, <1>3
  <2>. QED
    BY <1>2, <1>4, <1>5, <1>6, <1>8, <2>1
<1>9. CASE x # d
  BY <1>1, <1>2, <1>9, CountedIs DEF CountIsExact
<1>. QED
  BY <1>8, <1>9

-----------------------------------------------------------------------------
(* The steps *)

LEMMA InitHolds == Init => WindowInv
<1>. SUFFICES ASSUME Init PROVE WindowInv
  OBVIOUS
<1>1. WindowTypes
  <2>1. chosen \in [Dialogs -> {S \in SUBSET Paths : IsFiniteSet(S)}]
    BY FS_EmptySet DEF Init
  <2>2. events \in [Dialogs -> Seq(Events)]
    BY DEF Init
  <2>. QED
    BY <2>1, <2>2 DEF Init, WindowTypes
<1>2. Untouched /\ Apart /\ FlagIsUp
  BY DEF Init, Untouched, Apart, FlagIsUp
<1>3. CountIsExact
  BY DEF Init, CountIsExact
<1>. QED
  BY <1>1, <1>2, <1>3 DEF WindowInv

LEMMA OpenKeeps ==
  ASSUME WindowInv, NEW d \in Dialogs, NEW S \in Choices[d], Open(d, S)
  PROVE  WindowInv'
<1>1. WindowTypes /\ Untouched /\ Apart /\ FlagIsUp /\ CountIsExact
  BY DEF WindowInv
<1>2. S \in SUBSET Paths /\ IsFiniteSet(S) /\ Targets(S) \in SUBSET Paths
  BY IndexWindowAssumption DEF Targets
<1>3. /\ win[d] = "none" /\ win' = [win EXCEPT ![d] = "open"]
      /\ chosen' = [chosen EXCEPT ![d] = S] /\ run' = [run EXCEPT ![d] = "planning"]
      /\ todo' = [todo EXCEPT ![d] = Targets(S)] /\ stop' = FALSE /\ revoked' = stopped
      /\ UNCHANGED <<count, events, remaining, batches, settled, stopped, late>>
  BY DEF Open
<1>4. /\ run[d] = "off" /\ count[d] = 0 /\ events[d] = <<>>
      /\ settled[d] = {} /\ remaining[d] = {}
  BY <1>1, <1>3 DEF Untouched
<1>5. WindowTypes'
  BY <1>1, <1>2, <1>3 DEF WindowTypes
<1>6. Untouched' /\ Apart' /\ FlagIsUp'
  <2>1. Untouched'
    BY <1>1, <1>3 DEF WindowTypes, Untouched
  <2>2. Apart'
    BY <1>1, <1>3, <1>4 DEF WindowTypes, Apart
  <2>3. FlagIsUp'
    BY <1>1, <1>3 DEF WindowTypes, FlagIsUp
  <2>. QED
    BY <2>1, <2>2, <2>3
<1>7. CountIsExact'
  <2>1. ASSUME NEW x \in Dialogs
        PROVE  /\ win'[x] = "open" =>
                   count[x] + Cardinality(Finished(events[x], chosen'[x]))
                     = Cardinality(settled[x] \cap chosen'[x])
               /\ win'[x] = "done" => chosen'[x] \subseteq settled[x]
    <3>1. CASE x = d
      <4>1. Finished(<<>>, chosen'[d]) = {} /\ settled[d] \cap chosen'[d] = {}
        BY <1>4 DEF Finished
      <4>2. win'[d] = "open"
        BY <1>1, <1>3 DEF WindowTypes
      <4>3. count[d] + Cardinality({}) = Cardinality({})
        BY <1>4, FS_EmptySet
      <4>. QED
        BY <1>4, <3>1, <4>1, <4>2, <4>3
    <3>2. CASE x # d
      <4>1. win'[x] = win[x] /\ chosen'[x] = chosen[x]
        BY <1>1, <1>3, <3>2 DEF WindowTypes
      <4>. QED
        BY <1>1, <4>1, CountedIs DEF CountIsExact
    <3>. QED
      BY <3>1, <3>2
  <2>. QED
    BY <1>3, <2>1 DEF CountIsExact, Counted, Finished
<1>. QED
  BY <1>5, <1>6, <1>7 DEF WindowInv

LEMMA UserKeeps ==
  ASSUME WindowInv, NEW d \in Dialogs, Poll(d) \/ Stop(d) \/ Close(d)
  PROVE  WindowInv'
<1>1. WindowTypes /\ Untouched /\ Apart /\ FlagIsUp /\ CountIsExact
  BY DEF WindowInv
<1>2. CASE Poll(d)
  <2>1. CountIsExact'
    BY <1>2, PollCounts
  <2>2. count'[d] \in Nat
    <3>1. Cardinality(Finished(events[d], chosen[d])) \in Nat /\ count[d] \in Nat
      BY <1>1, FinishedFinite DEF WindowTypes
    <3>2. count'[d] = count[d] + Cardinality(Finished(events[d], chosen[d]))
      BY <1>1, <1>2, CountedIs DEF Poll, WindowTypes
    <3>. QED
      BY <3>1, <3>2
  <2>3. count' = [count EXCEPT ![d] = count'[d]]
    BY <1>1, <1>2 DEF Poll, WindowTypes
  <2>4. WindowTypes'
    <3>1. count' \in [Dialogs -> Nat]
      BY <1>1, <2>2, <2>3 DEF WindowTypes
    <3>2. win' \in [Dialogs -> {"none", "open", "done", "closed"}]
          /\ events' \in [Dialogs -> Seq(Events)]
      BY <1>1, <1>2 DEF Poll, WindowTypes
    <3>. QED
      BY <1>1, <1>2, <3>1, <3>2 DEF Poll, WindowTypes
  <2>5. Untouched'
    BY <1>1, <1>2 DEF Poll, Untouched, WindowTypes
  <2>6. Apart' /\ FlagIsUp'
    BY <1>1, <1>2 DEF Poll, Apart, FlagIsUp
  <2>. QED
    BY <2>1, <2>4, <2>5, <2>6 DEF WindowInv
<1>3. CASE Stop(d)
  <2>1. CountIsExact'
    BY <1>1, <1>3, CountStays DEF Stop
  <2>2. WindowTypes'
    BY <1>1, <1>3 DEF Stop, WindowTypes, Active
  <2>3. Untouched' /\ Apart'
    BY <1>1, <1>3 DEF Stop, Untouched, Apart
  <2>4. FlagIsUp'
    BY <1>1, <1>3 DEF Stop, FlagIsUp, WindowTypes, Active
  <2>. QED
    BY <2>1, <2>2, <2>3, <2>4 DEF WindowInv
<1>4. CASE Close(d)
  <2>1. CountIsExact'
    BY <1>1, <1>4, CountStays DEF Close, WindowTypes
  <2>2. WindowTypes' /\ Untouched' /\ Apart' /\ FlagIsUp'
    BY <1>1, <1>4 DEF Close, WindowTypes, Untouched, Apart, FlagIsUp
  <2>. QED
    BY <2>1, <2>2 DEF WindowInv
<1>. QED
  BY <1>2, <1>3, <1>4

\* Where a run only goes on, without a message.
LEMMA GoesOn ==
  ASSUME WindowInv, NEW d \in Dialogs, NEW to \in {"top", "get", "stopped", "finished", "failed"},
         run[d] # "off", to = "get" => ~stop \/ ~stopped[d],
         run' = [run EXCEPT ![d] = to],
         UNCHANGED <<stop, win, chosen, count, events, todo, remaining, batches, settled,
                     stopped, late, revoked>>
  PROVE  WindowInv'
<1>1. WindowTypes /\ Untouched /\ Apart /\ FlagIsUp /\ CountIsExact
  BY DEF WindowInv
<1>2. CountIsExact'
  BY <1>1, CountStays
<1>3. WindowTypes' /\ Untouched' /\ Apart'
  BY <1>1 DEF WindowTypes, Untouched, Apart
<1>4. FlagIsUp'
  BY <1>1 DEF WindowTypes, FlagIsUp
<1>. QED
  BY <1>2, <1>3, <1>4 DEF WindowInv

LEMMA PlanUnitKeeps ==
  ASSUME WindowInv, NEW d \in Dialogs, NEW u \in Paths, PlanUnit(d, u)
  PROVE  WindowInv'
<1>1. WindowTypes /\ Untouched /\ Apart /\ FlagIsUp /\ CountIsExact
  BY DEF WindowInv
<1>2. /\ run[d] = "planning" /\ u \in todo[d] /\ todo' = [todo EXCEPT ![d] = @ \ {u}]
      /\ UNCHANGED <<stop, win, chosen, count, run, batches, stopped, late, revoked>>
  BY DEF PlanUnit
<1>3. win[d] # "none" /\ u \notin settled[d] /\ u \notin remaining[d]
  BY <1>1, <1>2 DEF Untouched, Apart
<1>4. CASE /\ Put(d, "over", u) /\ settled' = [settled EXCEPT ![d] = @ \cup {u}]
           /\ UNCHANGED remaining
  <2>1. CountIsExact'
    BY <1>2, <1>3, <1>4, CountFollows
  <2>2. events' \in [Dialogs -> Seq(Events)]
    BY <1>1, <1>4, PutTypes
  <2>3. WindowTypes'
    BY <1>1, <1>2, <1>4, <2>2 DEF WindowTypes
  <2>4. Untouched' /\ FlagIsUp'
    BY <1>1, <1>2, <1>3, <1>4 DEF Untouched, FlagIsUp, Put, WindowTypes
  <2>5. Apart'
    BY <1>1, <1>2, <1>3, <1>4 DEF Apart, WindowTypes
  <2>. QED
    BY <2>1, <2>3, <2>4, <2>5 DEF WindowInv
<1>5. CASE /\ remaining' = [remaining EXCEPT ![d] = @ \cup {u}]
           /\ UNCHANGED <<events, settled>>
  <2>1. CountIsExact'
    BY <1>1, <1>2, <1>5, CountStays
  <2>2. WindowTypes'
    BY <1>1, <1>2, <1>5 DEF WindowTypes
  <2>3. Untouched' /\ FlagIsUp'
    BY <1>1, <1>2, <1>3, <1>5 DEF Untouched, FlagIsUp, WindowTypes
  <2>4. Apart'
    BY <1>1, <1>2, <1>3, <1>5 DEF Apart, WindowTypes
  <2>. QED
    BY <2>1, <2>2, <2>3, <2>4 DEF WindowInv
<1>. QED
  BY <1>4, <1>5 DEF PlanUnit

LEMMA HandleKeeps ==
  ASSUME WindowInv, NEW d \in Dialogs, NEW u \in Paths, HandleBatch(d, u) \/ Settle(d, u)
  PROVE  WindowInv'
<1>1. WindowTypes /\ Untouched /\ Apart /\ FlagIsUp /\ CountIsExact
  BY DEF WindowInv
<1>2. /\ run[d] = "get" /\ run' = [run EXCEPT ![d] = "top"] /\ u \in remaining[d]
      /\ late' = [late EXCEPT ![d] = IF stopped[d] THEN @ + 1 ELSE @]
      /\ UNCHANGED <<stop, win, chosen, count, todo, stopped, revoked>>
  BY DEF HandleBatch, Settle, Handled
<1>3. u \notin settled[d] /\ u \notin todo[d] /\ win[d] # "none"
  BY <1>1, <1>2 DEF Apart, Untouched
<1>4. FlagIsUp' /\ late' \in [Dialogs -> Nat]
  <2>1. late[d] \in Nat /\ late \in [Dialogs -> Nat]
    BY <1>1 DEF WindowTypes
  <2>2. late' \in [Dialogs -> Nat]
    BY <1>2, <2>1
  <2>3. FlagIsUp'
    BY <1>1, <1>2 DEF FlagIsUp, WindowTypes
  <2>. QED
    BY <2>2, <2>3
<1>5. CASE HandleBatch(d, u)
  <2>1. /\ Put(d, "batch", u) /\ UNCHANGED <<remaining, settled>>
        /\ batches' = [batches EXCEPT ![d] = @ + 1]
    BY <1>5 DEF HandleBatch
  <2>2. CountIsExact'
    BY <1>2, <2>1, CountFollows
  <2>3. events' \in [Dialogs -> Seq(Events)]
    BY <1>1, <2>1, PutTypes
  <2>4. WindowTypes'
    <3>1. batches' \in [Dialogs -> Nat]
      BY <1>1, <2>1 DEF WindowTypes
    <3>. QED
      BY <1>1, <1>2, <1>4, <2>1, <2>3, <3>1 DEF WindowTypes
  <2>5. Untouched' /\ Apart'
    BY <1>1, <1>2, <1>3, <2>1 DEF Untouched, Apart, Put, WindowTypes
  <2>. QED
    BY <1>4, <2>2, <2>4, <2>5 DEF WindowInv
<1>6. CASE Settle(d, u)
  <2>1. /\ Put(d, "over", u) /\ UNCHANGED batches
        /\ settled' = [settled EXCEPT ![d] = @ \cup {u}]
        /\ remaining' = [remaining EXCEPT ![d] = @ \ {u}]
    BY <1>6 DEF Settle
  <2>2. CountIsExact'
    BY <1>2, <1>3, <2>1, CountFollows
  <2>3. events' \in [Dialogs -> Seq(Events)]
    BY <1>1, <2>1, PutTypes
  <2>4. WindowTypes'
    BY <1>1, <1>2, <1>4, <2>1, <2>3 DEF WindowTypes
  <2>5. Untouched'
    BY <1>1, <1>2, <1>3, <2>1 DEF Untouched, Put, WindowTypes
  <2>6. Apart'
    BY <1>1, <1>2, <1>3, <2>1 DEF Apart, WindowTypes
  <2>. QED
    BY <1>4, <2>2, <2>4, <2>5, <2>6 DEF WindowInv
<1>. QED
  BY <1>5, <1>6

LEMMA StepKeeps ==
  ASSUME WindowInv, [Next]_vars
  PROVE  WindowInv'
<1>1. ASSUME NEW d \in Dialogs, Planned(d) \/ Top(d) \/ Timeout(d) \/ Fail(d)
      PROVE  WindowInv'
  <2> DEFINE to == run'[d]
  <2>1. WindowTypes /\ FlagIsUp
    BY DEF WindowInv
  <2>2. /\ run' = [run EXCEPT ![d] = to] /\ run[d] # "off"
        /\ to \in {"top", "get", "stopped", "finished", "failed"}
        /\ to = "get" => ~stop \/ ~stopped[d]
        /\ UNCHANGED <<stop, win, chosen, count, events, todo, remaining, batches, settled,
                       stopped, late, revoked>>
    BY <1>1, <2>1 DEF Planned, Top, Timeout, Fail, Active, WindowTypes
  <2>. HIDE DEF to
  <2>. QED
    BY <2>2, GoesOn
<1>2. CASE UNCHANGED vars
  <2>1. CountIsExact'
    BY <1>2, CountStays DEF WindowInv, vars
  <2>2. WindowTypes' /\ Untouched' /\ Apart' /\ FlagIsUp'
    BY <1>2 DEF WindowInv, WindowTypes, Untouched, Apart, FlagIsUp, vars
  <2>. QED
    BY <2>1, <2>2 DEF WindowInv
<1>. QED
  BY <1>1, <1>2, OpenKeeps, UserKeeps, PlanUnitKeeps, HandleKeeps DEF Next, RunStep

-----------------------------------------------------------------------------
(* The theorems *)

LEMMA WindowInductive == Spec => []WindowInv
  BY InitHolds, StepKeeps, PTL DEF Spec

\* The count of a window is of its chosen files that are finished, each once, and a window
\* that is done has seen all of them finish, whoever polls when.
THEOREM CountingIsExact == Spec => []CountIsExact
<1>1. WindowInv => CountIsExact
  BY DEF WindowInv
<1>. QED
  BY <1>1, WindowInductive, PTL

\* A run handles at most one message after its stop, unless a run was started since.
THEOREM StopIsSoon == Spec => []StopTakesEffect
<1>1. WindowInv => StopTakesEffect
  <2>1. SUFFICES ASSUME WindowInv, NEW d \in Dialogs, ~revoked[d] PROVE late[d] <= 1
    BY DEF StopTakesEffect
  <2>2. /\ late[d] \in Nat /\ (~stopped[d] => late[d] = 0)
        /\ stopped[d] => late[d] <= IF run[d] = "get" THEN 0 ELSE 1
    BY <2>1 DEF WindowInv, WindowTypes, FlagIsUp
  <2>. QED
    BY <2>2
<1>. QED
  BY <1>1, WindowInductive, PTL
=============================================================================
